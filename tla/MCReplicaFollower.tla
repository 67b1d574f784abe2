------------------------- MODULE MCReplicaFollower -------------------------
(* Two nodes: one leads while the other follows, and they change places.   *)
EXTENDS ReplicaFollower
=============================================================================
