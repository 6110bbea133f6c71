----------------------------- MODULE Checkpoint -----------------------------
(***************************************************************************)
(* Checkpoint and resume: SaveCheckpoint, LoadCheckpoint and               *)
(* maybeSaveCheckpoint of engine/checkpoint.go, called by the main loop    *)
(* (engine/worker.go) and by Run (engine/fuzzer.go).                       *)
(*                                                                         *)
(* The corpus and the resource graph are one value here, the number of     *)
(* finds the process has made; the process may be killed at any point.     *)
(***************************************************************************)
EXTENDS Integers

CONSTANTS
    FindBound   \* bound of the model: finds over all runs

ASSUME CheckpointAssumption == FindBound \in Nat

VARIABLES
    pc,        \* "loop", a step of a save, "down", or "exited"
    last,      \* is the save under way the one at exit?
    memory,    \* finds in the corpus and the graph of the process
    tmp, file, \* what the two files hold
    due,       \* has the checkpoint interval passed?
    safe,      \* finds in the last checkpoint that was saved to the end
    finds,     \* finds ever made
    resume     \* Config.Resume, the same in every run of a history

checkpointVars == <<pc, last, memory, tmp, file, due, safe, finds, resume>>

NoFile == -1
Torn   == -2

CheckpointInit ==
    /\ pc = "loop" /\ last = FALSE
    /\ memory = 0 /\ finds = 0
    /\ tmp = NoFile /\ file = NoFile
    /\ due = TRUE              \* lastCheckpointSave is zero
    /\ safe = 0
    /\ resume \in BOOLEAN

\* A result has changed the corpus or the resource graph.
Find ==
    /\ pc = "loop"
    /\ finds < FindBound
    /\ finds' = finds + 1 /\ memory' = memory + 1
    /\ UNCHANGED <<pc, last, tmp, file, due, safe, resume>>

IntervalPasses ==
    /\ ~due /\ due' = TRUE
    /\ UNCHANGED <<pc, last, memory, tmp, file, safe, finds, resume>>

\* maybeSaveCheckpoint: the time of the save is noted before it is tried.
BeginSave ==
    /\ pc = "loop" /\ due
    /\ due' = FALSE
    /\ pc' = "write"
    /\ UNCHANGED <<last, memory, tmp, file, safe, finds, resume>>

\* mainLoop has returned, its drain included: Run saves once more.
BeginExitSave ==
    /\ pc = "loop"
    /\ pc' = "write" /\ last' = TRUE
    /\ UNCHANGED <<memory, tmp, file, due, safe, finds, resume>>

\* os.WriteFile creates or truncates the file it writes.
WriteStarts ==
    /\ pc = "write"
    /\ tmp' = Torn
    /\ pc' = "writing"
    /\ UNCHANGED <<last, memory, file, due, safe, finds, resume>>

Resumed == IF last THEN "exited" ELSE "loop"

\* The write succeeds.
WriteEnds ==
    /\ pc = "writing"
    /\ tmp' = memory
    /\ pc' = "rename"
    /\ UNCHANGED <<last, memory, file, due, safe, finds, resume>>

\* The write or an earlier step fails: a warning, and the run goes on.
SaveFails ==
    /\ pc \in {"write", "writing", "rename"}
    /\ pc' = Resumed
    /\ UNCHANGED <<last, memory, tmp, file, due, safe, finds, resume>>

\* Mutant of RenameFile: the file is renamed before it is written.
RenameEarly ==
    /\ pc = "writing"
    /\ file' = tmp /\ tmp' = NoFile
    /\ pc' = Resumed
    /\ safe' = memory
    /\ UNCHANGED <<last, memory, due, finds, resume>>

RenameFile ==
    /\ pc = "rename"
    /\ file' = tmp /\ tmp' = NoFile
    /\ pc' = Resumed
    /\ safe' = memory
    /\ UNCHANGED <<last, memory, due, finds, resume>>

Kill ==
    /\ pc \notin {"down", "exited"}
    /\ pc' = "down"
    /\ UNCHANGED <<last, memory, tmp, file, due, safe, finds, resume>>

\* Mutant of Start: an interrupted save is taken up from the temporary file.
StartFromTmp ==
    /\ pc \in {"down", "exited"}
    /\ pc' = "loop" /\ last' = FALSE /\ due' = TRUE
    /\ memory' = IF tmp # NoFile THEN tmp ELSE IF file = NoFile THEN 0 ELSE file
    /\ UNCHANGED <<tmp, file, safe, finds, resume>>

\* The next run: LoadCheckpoint with -resume; a fresh corpus without it, when
\* there is no file, or when the file does not parse.
Start ==
    /\ pc \in {"down", "exited"}
    /\ pc' = "loop" /\ last' = FALSE /\ due' = TRUE
    /\ memory' = IF ~resume \/ file \in {NoFile, Torn} THEN 0 ELSE file
    /\ UNCHANGED <<tmp, file, safe, finds, resume>>

CheckpointNext ==
    \/ Find \/ IntervalPasses \/ BeginSave \/ BeginExitSave \/ WriteStarts
    \/ WriteEnds \/ SaveFails \/ RenameFile \/ Kill \/ Start

CheckpointSpec == CheckpointInit /\ [][CheckpointNext]_checkpointVars

-----------------------------------------------------------------------------
CheckpointTypeOK ==
    /\ pc \in {"loop", "write", "writing", "rename", "down", "exited"}
    /\ last \in BOOLEAN /\ due \in BOOLEAN
    /\ memory \in Nat /\ safe \in Nat /\ finds \in 0 .. FindBound
    /\ resume \in BOOLEAN
    /\ tmp \in Nat \cup {NoFile, Torn} /\ file \in Nat \cup {NoFile, Torn}

\* At whatever step of a save the process dies, the checkpoint is one that was
\* saved to the end: "a crash mid-write never observes a truncated checkpoint".
NeverTruncated == file # Torn /\ (file = NoFile => safe = 0)

\* With -resume, killed and started any number of times, a run starts with everything the last
\* completed save held; only finds made since are lost.
ResumeLosesNothingSaved ==
    [][resume /\ pc \in {"down", "exited"} /\ pc' = "loop" => memory' = safe]_checkpointVars

\* The process never holds less than its last completed save: with -resume, a
\* later save cannot replace a checkpoint by one with fewer finds.
SavesNeverRegress == [][resume => (safe' >= safe)]_checkpointVars
=============================================================================
