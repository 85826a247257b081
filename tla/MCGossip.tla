------------------------------ MODULE MCGossip ------------------------------
(* Instances of Gossip. *)
EXTENDS Gossip, TLC

IngestSymmetry == Permutations(Ingests)
FriendSymmetry == Permutations(Friends)
=============================================================================
