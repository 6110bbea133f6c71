------------------------------- MODULE Results -------------------------------
(***************************************************************************)
(* handleResult beyond scheduling and coverage: the main loop reports a    *)
(* crash (CrashLog) or learns from an answer (Learning).                   *)
(***************************************************************************)
EXTENDS CrashLog, Learning

resultsVars == <<crashVars, learnVars>>

ResultsInit ==
    /\ scene \in {"crash", "store", "tokens", "login"}
    /\ CrashInit
    /\ scene # "crash" => server = CHOOSE s \in Servers : TRUE
    /\ LearnInit

ResultsNext ==
    \/ scene = "crash" /\ CrashNext /\ UNCHANGED learnVars
    \/ LearnNext /\ UNCHANGED crashVars

ResultsSpec == ResultsInit /\ [][ResultsNext]_resultsVars
=============================================================================
