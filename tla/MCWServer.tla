----------------------------- MODULE MCWServer -----------------------------
(***************************************************************************)
(* The instances of WServer that TLC checks.                               *)
(***************************************************************************)
EXTENDS WServer

CONSTANTS w1, w2, w3
=============================================================================
