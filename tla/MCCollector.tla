---------------------------- MODULE MCCollector -----------------------------
(* Three events, a timer, and an owner that may cancel, destroy, or both. *)
EXTENDS Collector
=============================================================================
