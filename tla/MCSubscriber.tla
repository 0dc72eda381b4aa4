---------------------------- MODULE MCSubscriber ----------------------------
(* Instances of Subscriber for TLC: the callers are model values.  Runs with *)
(* liveness declare no symmetry.                                            *)
EXTENDS Subscriber, TLC
=============================================================================
