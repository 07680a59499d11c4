------------------------------ MODULE MCTrain ------------------------------
(***************************************************************************)
(* The instances of TrainRunner that TLC checks.                           *)
(***************************************************************************)
EXTENDS TrainRunner

CONSTANTS p1, p2, p3, p4
=============================================================================
