---------------------------- MODULE MCScheduler ----------------------------
(* A small instance: two templates, each of an endpoint of its own.        *)
EXTENDS Scheduler

CONSTANTS t1, t2, e1, e2

TwoEndpoints == [t \in Templates |-> IF t = t1 THEN e1 ELSE e2]
=============================================================================
