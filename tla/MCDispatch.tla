----------------------------- MODULE MCDispatch -----------------------------
(* A small instance of Dispatch, and the ledger it implements.             *)
EXTENDS Dispatch

InFlight ==
    {workCh[i] : i \in DOMAIN workCh} \cup {worker[w] : w \in Busy}
        \cup {resultCh[i].id : i \in DOMAIN resultCh}

Status ==
    [r \in Request |-> IF r > totalSent THEN "unsent"
                       ELSE IF r \in InFlight THEN "sent"
                       ELSE "answered"]

Ledger == INSTANCE RequestLedger WITH status <- Status,
                                      answered <- totalDone + totalErrors

\* Every request is sent once and answered at most once, and what the run
\* counts as done or failed is the number of requests answered: the channels
\* and the workers neither duplicate nor forge a result.
ImplementsLedger == Ledger!LedgerSpec
=============================================================================
