----------------------------- MODULE MCPromise ------------------------------
(* Instances of Promise for TLC: one or two setter threads and coroutines. *)
EXTENDS Promise
=============================================================================
