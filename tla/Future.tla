------------------------------- MODULE Future -------------------------------
(***************************************************************************)
(* What a dpp::promise / dpp::awaitable pair promises to its users: a      *)
(* single result is settled, every coroutine that awaits it is handed that *)
(* result exactly once per co_await, a value is moved out to the first     *)
(* reader, and a coroutine that waits for a settled result is woken.       *)
(* Nothing here says how the two ends find each other; module Promise,     *)
(* the lock-free handshake of coro/awaitable.h, implements it.             *)
(***************************************************************************)
EXTENDS Naturals

CONSTANTS Coroutines    \* coroutines that may co_await the awaitable

VARIABLES
  outcome,    \* "none" until settled; a value that was moved out is "moved"
  waiting,    \* coroutines inside a co_await expression
  got         \* what the last co_await of each coroutine evaluated to

vars == <<outcome, waiting, got>>

Results  == {"value", "exception"}
Outcomes == Results \cup {"none", "moved"}

TypeOK ==
  /\ outcome \in Outcomes
  /\ waiting \subseteq Coroutines
  /\ got \in [Coroutines -> Outcomes]

Init ==
  /\ outcome = "none"
  /\ waiting = {}
  /\ got = [c \in Coroutines |-> "none"]

Settle(r) ==
  /\ outcome = "none"
  /\ outcome' = r
  /\ UNCHANGED <<waiting, got>>

Await(c) ==
  /\ c \notin waiting
  /\ waiting' = waiting \cup {c}
  /\ UNCHANGED <<outcome, got>>

\* The reader moves a value out of the shared state; an exception is copied.
AfterRead(o) == IF o = "value" THEN "moved" ELSE o

Deliver(c) ==
  /\ c \in waiting
  /\ outcome # "none"
  /\ got' = [got EXCEPT ![c] = outcome]
  /\ waiting' = waiting \ {c}
  /\ outcome' = AfterRead(outcome)

Next ==
  \/ \E r \in Results : Settle(r)
  \/ \E c \in Coroutines : Await(c) \/ Deliver(c)

SafeSpec == Init /\ [][Next]_vars

Spec == SafeSpec /\ \A c \in Coroutines : WF_vars(Deliver(c))
=============================================================================
