-------------------------- MODULE MCSnapshotCache --------------------------
(* Two processes and two daemons. *)
EXTENDS SnapshotCache
=============================================================================
