------------------------------ MODULE MCEpochs ------------------------------
(* The fractions of the code, 5 25 25 35 and 10 percent of 40 units; 3 units *)
(* are stolen from an epoch of 10.                                           *)
EXTENDS Epochs

MCFraction == <<2, 10, 10, 14, 4>>
=============================================================================
