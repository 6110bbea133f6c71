--------------------------- MODULE RequestLedger ----------------------------
(***************************************************************************)
(* What the dispatcher promises about requests, without loop, channels or  *)
(* workers: a request is sent once, answered at most once, only after it   *)
(* was sent, and the number answered is what the run reports.              *)
(***************************************************************************)
EXTENDS Naturals, FiniteSets

CONSTANT Request            \* the requests of one run

VARIABLES status, answered  \* the stage of each request; the reported number

ledger == <<status, answered>>

LedgerInit ==
    /\ status = [r \in Request |-> "unsent"]
    /\ answered = 0

Send(r) ==
    /\ status[r] = "unsent"
    /\ status' = [status EXCEPT ![r] = "sent"]
    /\ UNCHANGED answered

Answer(r) ==
    /\ status[r] = "sent"
    /\ status' = [status EXCEPT ![r] = "answered"]
    /\ answered' = answered + 1

LedgerNext == \E r \in Request : Send(r) \/ Answer(r)

LedgerSpec == LedgerInit /\ [][LedgerNext]_ledger
=============================================================================
