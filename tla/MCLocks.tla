------------------------------- MODULE MCLocks -------------------------------
(* An instance of Locks for TLC. *)
EXTENDS Locks
=============================================================================
