--------------------------- MODULE MCBlockingCall ----------------------------
(* One caller of sync_wait (Timed = FALSE) or sync_wait_for (TRUE), one call. *)
EXTENDS BlockingCall
=============================================================================
