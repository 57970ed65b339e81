------------------------------- MODULE MCTask -------------------------------
(* One task and its owner, on one thread or on two. *)
EXTENDS Task
=============================================================================
