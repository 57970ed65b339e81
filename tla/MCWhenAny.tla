----------------------------- MODULE MCWhenAny ------------------------------
(* Three awaitables, two of them with a cancel(), on one thread and on many. *)
EXTENDS WhenAny

MCCancellable == {1, 3}
=============================================================================
