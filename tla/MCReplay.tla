------------------------------ MODULE MCReplay ------------------------------
(* Instances of Replay for TLC: publishers are interchangeable.             *)
EXTENDS Replay, TLC

PublisherSymmetry == Permutations(Publishers)
=============================================================================
