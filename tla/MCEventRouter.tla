--------------------------- MODULE MCEventRouter ----------------------------
(* Two events on two pool threads, a coroutine that awaits one of them or    *)
(* any, again and again, and two listeners, attached and detached meanwhile. *)
EXTENDS EventRouter

CONSTANTS e1, e2

MCPredicates == {{e1, e2}, {e1}}
=============================================================================
