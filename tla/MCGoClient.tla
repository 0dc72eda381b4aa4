----------------------------- MODULE MCGoClient -----------------------------
(* Instances of GoClient for TLC.                                           *)
EXTENDS GoClient, TLC

CONSTANTS a, b
=============================================================================
