----------------------------- MODULE Coroutine ------------------------------
(***************************************************************************)
(* dpp::coroutine (coro/coroutine.h): a coroutine that starts when it is   *)
(* co_awaited, runs its awaiter's thread until it ends, and hands that     *)
(* thread, and its result, straight to the awaiter. The object owns the    *)
(* frame.  A second co_await is undefined (coroutine.h:69), so there is    *)
(* one; moves of the object change nothing that is here.                   *)
(*                                                                         *)
(* These are the operations; module BlockingCall composes them with what   *)
(* the body of the coroutine does.                                         *)
(***************************************************************************)
CONSTANT NoHandle   \* the null coroutine_handle

VARIABLES
  frame,    \* not started, started, at its final suspension, or destroyed
  parent,   \* promise_t::parent
  kept      \* promise_t::result and promise_t::exception

vars == <<frame, parent, kept>>

Results == {"value", "exception"}

TypeOK ==
  /\ frame \in {"start", "body", "final", "destroyed"}
  /\ kept \in Results \cup {"empty"}

\* initial_suspend is suspend_always.
Init ==
  /\ frame = "start"
  /\ parent = NoHandle
  /\ kept = "empty"

\* await_suspend: the caller becomes the parent, the coroutine goes on instead.
Await(caller) ==
  /\ frame = "start"
  /\ parent' = caller
  /\ frame' = "body"
  /\ UNCHANGED kept

\* return_value or unhandled_exception, then final_suspend.
Finish(r) ==
  /\ frame = "body"
  /\ kept' = r
  /\ frame' = "final"
  /\ UNCHANGED parent

\* await_resume rethrows the exception, or exchanges the result for nullopt.
AfterResume(k) == IF k = "value" THEN "empty" ELSE k

Resume ==
  /\ frame = "final"
  /\ kept' = AfterResume(kept)
  /\ UNCHANGED <<frame, parent>>

\* Mutant of Destroyed: the destructor only drops the handle.
Leaked == frame

\* handle.destroy() frees the frame.
Destroyed == "destroyed"

Destroy ==
  /\ frame # "destroyed"
  /\ frame' = Destroyed
  /\ UNCHANGED <<parent, kept>>
=============================================================================
