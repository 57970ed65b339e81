------------------------------ MODULE Promise -------------------------------
(***************************************************************************)
(* The lock-free handshake between the write end (promise_base,            *)
(* basic_promise) and the read end (awaitable) of coro/awaitable.h.        *)
(*                                                                         *)
(* A setter thread checks that the promise is empty, stores the result,    *)
(* publishes it with fetch_or(sf_ready), and resumes the stored coroutine  *)
(* when the flags it replaced had sf_awaited.  A coroutine that finds no   *)
(* result stores its handle, then does fetch_or(sf_awaited) and stays      *)
(* suspended unless the flags it replaced had sf_ready.  Each atomic       *)
(* operation, and each plain access the other side can see, is one step.   *)
(*                                                                         *)
(* The build is MSVC for x64, where a fetch_or is a full barrier whatever  *)
(* memory_order it names, so steps are sequentially consistent.            *)
(***************************************************************************)
EXTENDS Naturals, FiniteSets

CONSTANTS
  Setters,        \* threads that call set_value, emplace_value, set_exception
  Coroutines,     \* coroutines that co_await the awaitable
  NotifyModes,    \* the Notify template arguments in use, a set of booleans
  SerialSet,      \* callers never run two set calls at once
  SerialAwait,    \* callers never co_await the awaitable twice at once
  NoHandle        \* the null coroutine_handle

ASSUME PromiseAssumption ==
  /\ NotifyModes \subseteq BOOLEAN
  /\ SerialSet \in BOOLEAN
  /\ SerialAwait \in BOOLEAN
  /\ NoHandle \notin Coroutines

VARIABLES
  value,     \* promise_base::value, the variant's alternative
  state,     \* promise_base::state, the set of its flags
  awaiter,   \* promise_base::awaiter
  link,      \* awaitable::state_ptr: not yet made, valid, or abandoned
  alive,     \* FALSE once the promise object has been destroyed
  spc,       \* where each setter is in its call
  op,        \* the result and the Notify argument of each setter's call
  cpc,       \* where each coroutine is in its co_await
  got,       \* what each coroutine's last co_await evaluated to
  misfired   \* history: handles resumed while their coroutine was not suspended

sharedVars == <<value, state, awaiter, link, alive>>
setVars    == <<spc, op>>
awaitVars  == <<cpc, got>>
vars       == <<value, state, awaiter, link, alive, spc, op, cpc, got, misfired>>

Flags     == {"has_awaitable", "awaited", "ready", "broken"}
Results   == {"value", "exception"}
Values    == Results \cup {"empty", "moved"}
SetterPC  == {"idle", "emplace", "publish", "notify", "resume", "returned", "threw"}
AwaitPC   == {"running", "store", "suspend", "suspended", "resume", "read", "threw"}

TypeOK ==
  /\ value \in Values
  /\ state \subseteq Flags
  /\ awaiter \in Coroutines \cup {NoHandle}
  /\ link \in {"unmade", "valid", "abandoned"}
  /\ alive \in BOOLEAN
  /\ spc \in [Setters -> SetterPC]
  /\ op \in [Setters -> [result : Results, notify : BOOLEAN]]
  /\ cpc \in [Coroutines -> AwaitPC]
  /\ got \in [Coroutines -> Values \cup {"none"}]
  /\ misfired \subseteq Coroutines \cup {NoHandle}

Init ==
  /\ value = "empty"
  /\ state = {}
  /\ awaiter = NoHandle
  /\ link = "unmade"
  /\ alive = TRUE
  /\ spc = [s \in Setters |-> "idle"]
  /\ op = [s \in Setters |-> [result |-> "value", notify |-> TRUE]]
  /\ cpc = [c \in Coroutines |-> "running"]
  /\ got = [c \in Coroutines |-> "none"]
  /\ misfired = {}

-----------------------------------------------------------------------------
(* The write end *)

InSet(s)   == spc[s] \in {"emplace", "publish", "notify", "resume"}
InAwait(c) == cpc[c] \in {"store", "suspend", "suspended", "resume", "read"}

\* Mutant of IsEmpty: throw_if_not_empty is forgotten.
NeverChecked == TRUE

\* throw_if_not_empty: value.index() == 0.
IsEmpty == value = "empty"

\* A set call begins: throw_if_not_empty lets it through or rejects it.  A
\* constructor of T that throws turns the call's result into an exception.
BeginSet(s, r, n) ==
  /\ alive
  /\ ~InSet(s)
  /\ SerialSet => \A t \in Setters \ {s} : ~InSet(t)
  /\ IF IsEmpty
       THEN /\ spc' = [spc EXCEPT ![s] = "emplace"]
            /\ op' = [op EXCEPT ![s] = [result |-> r, notify |-> n]]
       ELSE /\ spc' = [spc EXCEPT ![s] = "threw"]
            /\ UNCHANGED op
  /\ UNCHANGED <<sharedVars, awaitVars, misfired>>

\* value.emplace<1>(...) or value.emplace<2>(...).
Emplace(s) ==
  /\ spc[s] = "emplace"
  /\ value' = op[s].result
  /\ spc' = [spc EXCEPT ![s] = "publish"]
  /\ UNCHANGED <<state, awaiter, link, alive, op, awaitVars, misfired>>

\* Mutant of AfterPublish: the previous flags are not looked at.
ResumeAlways(n, flags) == IF ~n THEN "notify" ELSE "resume"

\* Mutant of AfterPublish: the flags are loaded again after the fetch_or.
ReloadFlags(n, flags) == "notify"

\* What is left of a set call once the result is published: with Notify, the
\* awaiter is resumed if the flags that fetch_or replaced had sf_awaited.
AfterPublish(n, flags) ==
  IF ~n THEN "notify" ELSE IF "awaited" \in flags THEN "resume" ELSE "returned"

Published(flags) == flags \cup {"ready"}

\* previous_value = state.fetch_or(sf_ready).
Publish(s) ==
  /\ spc[s] = "publish"
  /\ state' = Published(state)
  /\ spc' = [spc EXCEPT ![s] = AfterPublish(op[s].notify, state)]
  /\ UNCHANGED <<value, awaiter, link, alive, op, awaitVars, misfired>>

\* After a set call with Notify = false the caller wakes the awaiter itself.
NotifyAwaiter(s) ==
  /\ spc[s] = "notify"
  /\ spc' = [spc EXCEPT ![s] = IF "awaited" \in state THEN "resume" ELSE "returned"]
  /\ UNCHANGED <<sharedVars, op, awaitVars, misfired>>

\* awaiter.resume(): undefined unless that coroutine is suspended.
ResumeAwaiter(s) ==
  /\ spc[s] = "resume"
  /\ spc' = [spc EXCEPT ![s] = "returned"]
  /\ IF awaiter \in Coroutines /\ cpc[awaiter] = "suspended"
       THEN /\ cpc' = [cpc EXCEPT ![awaiter] = "resume"]
            /\ UNCHANGED misfired
       ELSE /\ misfired' = misfired \cup {awaiter}
            /\ UNCHANGED cpc
  /\ UNCHANGED <<sharedVars, op, got>>

SetStep(s) == Emplace(s) \/ Publish(s) \/ NotifyAwaiter(s) \/ ResumeAwaiter(s)

-----------------------------------------------------------------------------
(* The read end *)

\* promise_base::get_awaitable: only the first call yields an awaitable.
GetAwaitable ==
  /\ alive
  /\ "has_awaitable" \notin state
  /\ state' = state \cup {"has_awaitable"}
  /\ link' = "valid"
  /\ UNCHANGED <<value, awaiter, alive, setVars, awaitVars, misfired>>

\* Mutant of HasResult: the variant is read instead of the flag.
HasAnyValue == value # "empty"

\* awaitable::await_ready on a valid awaitable.
HasResult == "ready" \in state

\* co_await starts: await_ready throws on an empty awaitable, and skips the
\* suspension when the result is there.
AwaitReady(c) ==
  /\ link # "unmade"
  /\ ~InAwait(c)
  /\ SerialAwait => \A d \in Coroutines \ {c} : ~InAwait(d)
  /\ cpc' = [cpc EXCEPT ![c] = IF link = "abandoned" THEN "threw"
                               ELSE IF HasResult THEN "resume"
                               ELSE "store"]
  /\ UNCHANGED <<sharedVars, setVars, got, misfired>>

\* await_suspend, first half: promise.awaiter = handle.
StoreAwaiter(c) ==
  /\ cpc[c] = "store"
  /\ awaiter' = c
  /\ cpc' = [cpc EXCEPT ![c] = "suspend"]
  /\ UNCHANGED <<value, state, link, alive, setVars, got, misfired>>

\* Mutant of AfterAwait: a result that came meanwhile goes unnoticed.
AlwaysSuspend(flags) == IF "awaited" \in flags THEN "threw" ELSE "suspended"

\* Where await_suspend leaves the coroutine, given the flags it replaced.
AfterAwait(flags) ==
  IF "awaited" \in flags THEN "threw"
  ELSE IF "ready" \in flags THEN "resume"
  ELSE "suspended"

\* await_suspend, second half: fetch_or(sf_awaited) and what it returns.
AwaitSuspend(c) ==
  /\ cpc[c] = "suspend"
  /\ state' = state \cup {"awaited"}
  /\ cpc' = [cpc EXCEPT ![c] = AfterAwait(state)]
  /\ UNCHANGED <<value, awaiter, link, alive, setVars, got, misfired>>

\* await_resume, first half: state.fetch_and(~sf_awaited).
ClearAwaited(c) ==
  /\ cpc[c] = "resume"
  /\ state' = state \ {"awaited"}
  /\ cpc' = [cpc EXCEPT ![c] = "read"]
  /\ UNCHANGED <<value, awaiter, link, alive, setVars, got, misfired>>

\* std::get<1>(std::move(value)) leaves a moved-from T behind; rethrowing
\* std::get<2>(value) does not.
AfterRead(v) == IF v = "value" THEN "moved" ELSE v

\* await_resume, second half: rethrow the exception or move the value out.
ReadValue(c) ==
  /\ cpc[c] = "read"
  /\ got' = [got EXCEPT ![c] = value]
  /\ value' = AfterRead(value)
  /\ cpc' = [cpc EXCEPT ![c] = "running"]
  /\ UNCHANGED <<state, awaiter, link, alive, setVars, misfired>>

AwaitStep(c) ==
  StoreAwaiter(c) \/ AwaitSuspend(c) \/ ClearAwaited(c) \/ ReadValue(c)

\* ~awaitable, or a move assignment to it, outside any co_await on it.
Abandon ==
  /\ link = "valid"
  /\ \A c \in Coroutines : ~InAwait(c)
  /\ state' = state \cup {"broken"}
  /\ link' = "abandoned"
  /\ UNCHANGED <<value, awaiter, alive, setVars, awaitVars, misfired>>

\* The reader owns the promise and frees it once it has what it awaited;
\* class awaitable asks that this be after the awaitable is gone.
DestroyPromise ==
  /\ alive
  /\ link = "abandoned"
  /\ \E c \in Coroutines : got[c] # "none"
  /\ alive' = FALSE
  /\ UNCHANGED <<value, state, awaiter, link, setVars, awaitVars, misfired>>

Next ==
  \/ \E s \in Setters :
       \/ \E r \in Results, n \in NotifyModes : BeginSet(s, r, n)
       \/ SetStep(s)
  \/ \E c \in Coroutines : AwaitReady(c) \/ AwaitStep(c)
  \/ GetAwaitable
  \/ Abandon
  \/ DestroyPromise

\* A call that began is run to its end by its thread; nothing obliges a
\* caller to begin one.
Fairness ==
  /\ \A s \in Setters : WF_vars(SetStep(s))
  /\ \A c \in Coroutines : WF_vars(AwaitStep(c))

Spec == Init /\ [][Next]_vars
FairSpec == Spec /\ Fairness

-----------------------------------------------------------------------------
(* What the handshake guarantees *)

\* The set call that was let through resumes the awaiter itself.
Notifying == \A s \in Setters : op[s].notify

\* A coroutine handle is resumed only while its coroutine is suspended: a
\* result and a co_await that meet at any point wake the coroutine through
\* exactly one of the two sides, never through both (set_value, await_suspend).
\* It fails with Notify = false: notify_awaiter's load cannot tell a sleeping
\* awaiter from one that saw the result and went on.
ResumedOnlyWhenSuspended == Notifying => misfired = {}

\* await_resume never reads the variant before the setter has finished
\* writing it, whichever side noticed the other (await_resume, emplace_value).
ReadsOnlyPublished ==
  \A c \in Coroutines : cpc[c] \in {"resume", "read"} =>
    /\ value # "empty"
    /\ \A s \in Setters : spc[s] \notin {"emplace", "publish"}

\* No set call is still going to touch a promise that its reader has
\* consumed and freed: after the fetch_or that publishes the result, the
\* setter uses the promise only when the reader is asleep (emplace_value).
SetterOutlived == Notifying /\ ~alive => \A s \in Setters : ~InSet(s)

\* A result that was stored is never replaced by another set call: the variant
\* only goes from empty to a result, and from a value to its
\* moved-from shell (throw_if_not_empty, emplace_value, await_resume).
KeepsResult ==
  value' # value => value = "empty" \/ (value = "value" /\ value' = "moved")

ResultSetOnce == [][KeepsResult]_vars

\* A coroutine that sleeps although the result has been published is one that
\* a set call has yet to resume, and will: awaiter holds its handle.  What
\* each side decides by the flags its fetch_or replaced leaves no interleaving
\* in which each goes by the other (emplace_value, await_suspend).
SleeperIsServed ==
  \A c \in Coroutines :
    Notifying /\ cpc[c] = "suspended" /\ "ready" \in state =>
      awaiter = c /\ \E s \in Setters : spc[s] = "resume"

\* A coroutine suspended on a promise whose result has been published is
\* woken: the doc of set_value and set_exception, "resume any awaiter".
AwaiterWoken ==
  \A c \in Coroutines :
    (cpc[c] = "suspended" /\ "ready" \in state) ~> (cpc[c] # "suspended")

-----------------------------------------------------------------------------
(* The abstract specification it implements *)

F == INSTANCE Future WITH
       outcome <- IF "ready" \in state THEN value ELSE "none",
       waiting <- {c \in Coroutines : InAwait(c)},
       got     <- got

\* Every step of the handshake is a step of the one-shot future or invisible
\* to it, and every reader of a settled result is served.
ImplementsFuture == F!Spec
=============================================================================
