---------------------------- MODULE EventRouter -----------------------------
(***************************************************************************)
(* event_router_t<T> (event_router.h): listeners called for every event,   *)
(* and coroutines that co_await the next event that matches a predicate.   *)
(* Each event is dispatched by handle_coro on a pool thread of its own;    *)
(* other threads attach and detach listeners, await, and cancel awaits.    *)
(*                                                                         *)
(* Two locks: mutex, which handle_coro holds shared while it calls the     *)
(* listeners and attach and detach take exclusively, and coro_mutex, which *)
(* guards short sections on coro_awaiters.  Each of them is a step, but    *)
(* detach_coro has its unlock apart: the destructor takes neither lock.    *)
(* The order of coro_awaiters decides nothing the properties tell apart,   *)
(* so it is a set; tasks are co_awaited in the order of their handles.     *)
(***************************************************************************)
EXTENDS Naturals, FiniteSets, Functions, FiniteSetsExt

CONSTANTS
  Events,       \* the events that are dispatched, each once
  Awaiters,     \* coroutines, each with one event_router::awaitable
  MaxHandle,    \* bound on the handles given out
  Predicates,   \* the predicates used, each as the set of events it accepts
  EarlyCancel,  \* cancel() may come before await_suspend has attached
  NoEvent       \* a null event pointer

ASSUME EventRouterAssumption ==
  /\ MaxHandle \in Nat
  /\ Predicates \subseteq SUBSET Events
  /\ EarlyCancel \in BOOLEAN
  /\ NoEvent \notin Events

VARIABLES
  container,   \* dispatch_container: handle to kind of listener
  nextHandle,
  pc,          \* where the dispatch of each event is
  called,      \* the listeners the loop of each event has called
  cancelled,   \* event_dispatch_t::cancelled
  tasks,       \* handle_coro's local vector, by listener
  running,     \* the listeners' tasks that have not ended
  failed,      \* the listeners' tasks that ended with an exception
  toResume,    \* resume_awaiters' local vector
  attached,    \* coro_awaiters
  astate,      \* awaitable::state
  event,       \* awaitable::event
  pred,        \* awaitable::predicate, as the events it accepts
  apc,         \* where each awaiting coroutine is
  runner,      \* the dispatch on whose thread a resumed coroutine runs
  canceller,   \* where a cancel() of each awaitable is
  phase,       \* whether the router is being, or has been, destroyed, or its
               \* destructor has done what has no defined outcome
  closer,      \* where the destructor's loop is
  closing,     \* the awaitable that back() gave it, and that it cancels
  raced,       \* history: a cancel() of another thread was in detach_coro, or
               \* on its way there, during the destructor
  faults       \* history: handles resumed when not suspended in the router

listenVars   == <<container, nextHandle>>
dispatchVars == <<pc, called, cancelled, tasks, running, failed>>
awaitVars    == <<attached, astate, event, pred, apc, runner, canceller, faults>>
closeVars    == <<phase, closer, closing, raced>>
vars         == <<listenVars, dispatchVars, toResume, awaitVars, closeVars>>

Kinds       == {"regular", "task"}
Handles     == 1 .. MaxHandle
DispatchPC  == {"queued", "resuming", "calling", "inside", "awaiting", "done", "aborted"}
AwaiterPC   == {"idle", "stored", "handled", "suspended", "resumed", "using"}

TypeOK ==
  /\ DOMAIN container \subseteq Handles /\ Range(container) \subseteq Kinds
  /\ nextHandle \in 1 .. MaxHandle + 1
  /\ pc \in [Events -> DispatchPC]
  /\ cancelled \in [Events -> BOOLEAN]
  /\ called \in [Events -> SUBSET Handles] /\ tasks \in [Events -> SUBSET Handles]
  /\ running \in [Events -> SUBSET Handles] /\ failed \in [Events -> SUBSET Handles]
  /\ toResume \in [Events -> SUBSET Awaiters]
  /\ attached \subseteq Awaiters
  /\ astate \in [Awaiters -> {"none", "waiting", "resuming", "cancelling"}]
  /\ event \in [Awaiters -> Events \cup {NoEvent}]
  /\ pred \in [Awaiters -> SUBSET Events]
  /\ apc \in [Awaiters -> AwaiterPC]
  /\ runner \in [Awaiters -> Events \cup {NoEvent}]
  /\ canceller \in [Awaiters -> {"none", "detach", "unlock", "resume"}]
  /\ faults \subseteq Awaiters
  /\ phase \in {"up", "closing", "down", "undefined"}
  /\ closer \in {"test", "back", "cancel", "inside"}
  /\ closing \subseteq Awaiters /\ raced \in BOOLEAN

Init ==
  /\ container = [h \in {} |-> "regular"]
  /\ nextHandle = 1
  /\ pc = [e \in Events |-> "queued"]
  /\ cancelled = [e \in Events |-> FALSE]
  /\ called = [e \in Events |-> {}]
  /\ tasks = called /\ running = called /\ failed = called
  /\ toResume = [e \in Events |-> {}]
  /\ attached = {}
  /\ astate = [a \in Awaiters |-> "none"]
  /\ event = [a \in Awaiters |-> NoEvent]
  /\ pred = [a \in Awaiters |-> Events]
  /\ apc = [a \in Awaiters |-> "idle"]
  /\ runner = [a \in Awaiters |-> NoEvent]
  /\ canceller = [a \in Awaiters |-> "none"]
  /\ faults = {}
  /\ phase = "up" /\ closer = "test" /\ closing = {} /\ raced = FALSE

-----------------------------------------------------------------------------
(* attach and detach *)

\* Mutant of Unshared: attach and detach take the mutex shared.
AlwaysUnshared == TRUE

\* No dispatch holds mutex shared, so it can be taken exclusively.
Unshared == \A e \in Events : pc[e] \notin {"calling", "inside"}

Attached(k) == [h \in DOMAIN container \cup {nextHandle} |->
                  IF h = nextHandle THEN k ELSE container[h]]

Attach(k) ==
  /\ phase = "up" /\ Unshared
  /\ nextHandle \in Handles
  /\ container' = Attached(k)
  /\ nextHandle' = nextHandle + 1
  /\ UNCHANGED <<dispatchVars, toResume, awaitVars, closeVars>>

Detach(h) ==
  /\ phase = "up" /\ Unshared
  /\ h \in DOMAIN container
  /\ container' = Restrict(container, DOMAIN container \ {h})
  /\ UNCHANGED <<nextHandle, dispatchVars, toResume, awaitVars, closeVars>>

-----------------------------------------------------------------------------
(* handle_coro *)

\* Mutant of Accepts: the compare_exchange is replaced by a store.
AcceptsAnyState(e, a) == a \in attached /\ e \in pred[a]

\* The event passes the predicate and the awaiter's compare_exchange from
\* waiting to resuming succeeds.
Accepts(e, a) == a \in attached /\ e \in pred[a] /\ astate[a] = "waiting"

\* No detach_coro is about to unlock coro_mutex.
CoroUnlocked == \A a \in Awaiters : canceller[a] # "unlock"

\* The locked half of resume_awaiters.
TakeAwaiters(e) ==
  LET taken == {a \in Awaiters : Accepts(e, a)} IN
  /\ phase = "up" /\ pc[e] = "queued" /\ CoroUnlocked
  /\ pc' = [pc EXCEPT ![e] = "resuming"]
  /\ toResume' = [toResume EXCEPT ![e] = taken]
  /\ attached' = attached \ taken
  /\ astate' = [a \in Awaiters |-> IF a \in taken THEN "resuming" ELSE astate[a]]
  /\ event' = [a \in Awaiters |-> IF a \in taken THEN e ELSE event[a]]
  /\ UNCHANGED <<listenVars, called, cancelled, tasks, running, failed,
                 pred, apc, runner, canceller, faults, closeVars>>

\* handle.resume() runs the coroutine here until it suspends again.
ResumeHandle(a, thread) ==
  IF apc[a] = "suspended"
    THEN /\ apc' = [apc EXCEPT ![a] = "resumed"]
         /\ runner' = [runner EXCEPT ![a] = thread]
         /\ UNCHANGED faults
    ELSE /\ faults' = faults \cup {a}
         /\ UNCHANGED <<apc, runner>>

Busy(e) == \E a \in Awaiters : runner[a] = e

\* The unlocked half: awaiter->resume() for each.
ResumeNext(e, a) ==
  /\ pc[e] = "resuming" /\ ~Busy(e)
  /\ a \in toResume[e]
  /\ toResume' = [toResume EXCEPT ![e] = @ \ {a}]
  /\ ResumeHandle(a, e)
  /\ UNCHANGED <<listenVars, dispatchVars, attached, astate, event, pred, canceller, closeVars>>

\* All awaiters are resumed: mutex is taken shared.
StartCalling(e) ==
  /\ pc[e] = "resuming" /\ ~Busy(e) /\ toResume[e] = {}
  /\ pc' = [pc EXCEPT ![e] = "calling"]
  /\ UNCHANGED <<listenVars, called, cancelled, tasks, running, failed,
                 toResume, awaitVars, closeVars>>

\* The loop has reached the listener called last; the map is in handle order.
Reached(e) == IF called[e] = {} THEN 0 ELSE Max(called[e])
Ahead(e)   == {h \in DOMAIN container : h > Reached(e)}

\* Mutant of Heeds: is_cancelled() is read once, before the loop.
NeverHeeds(e) == FALSE

\* A cancelled event is not passed to the listeners that are left.
Heeds(e) == cancelled[e]

CallListener(e) ==
  /\ pc[e] = "calling" /\ ~Heeds(e) /\ Ahead(e) # {}
  /\ LET h == Min(Ahead(e)) IN
       /\ called' = [called EXCEPT ![e] = @ \cup {h}]
       /\ running' = IF container[h] = "task"
                       THEN [running EXCEPT ![e] = @ \cup {h}] ELSE running
  /\ pc' = [pc EXCEPT ![e] = "inside"]
  /\ UNCHANGED <<listenVars, cancelled, tasks, failed, toResume, awaitVars, closeVars>>

\* The listener returns, having perhaps called cancel_event(); a coroutine
\* returns its task at its first suspension or at its end.
ListenerReturns(e) ==
  /\ pc[e] = "inside"
  /\ pc' = [pc EXCEPT ![e] = "calling"]
  /\ \E b \in BOOLEAN : cancelled' = [cancelled EXCEPT ![e] = @ \/ b]
  /\ tasks' = IF container[Reached(e)] = "task"
                THEN [tasks EXCEPT ![e] = @ \cup {Reached(e)}] ELSE tasks
  /\ UNCHANGED <<listenVars, called, running, failed, toResume, awaitVars, closeVars>>

\* An exception of a listener, or of a resumed coroutine, leaves handle_coro:
\* its locals go, so the tasks it had are cancelled and the awaiters it still
\* had to resume are forgotten.
Abort(e) ==
  /\ pc' = [pc EXCEPT ![e] = "aborted"]
  /\ called' = [called EXCEPT ![e] = {}]
  /\ tasks' = [tasks EXCEPT ![e] = {}]
  /\ toResume' = [toResume EXCEPT ![e] = {}]
  /\ cancelled' = [cancelled EXCEPT ![e] = FALSE]
  /\ failed' = [failed EXCEPT ![e] = {}]
  /\ UNCHANGED running

ListenerThrows(e) ==
  /\ pc[e] = "inside" /\ container[Reached(e)] = "regular"
  /\ Abort(e)
  /\ UNCHANGED <<listenVars, awaitVars, closeVars>>

\* Mutant of LoopIsOver: a cancelled event does not get on in the loop.
LoopAtEnd(e) == Ahead(e) = {}

LoopIsOver(e) == Heeds(e) \/ Ahead(e) = {}

\* No listener is left, or the event was cancelled: mutex is released.
StopCalling(e) ==
  /\ pc[e] = "calling" /\ LoopIsOver(e)
  /\ pc' = [pc EXCEPT ![e] = "awaiting"]
  /\ called' = [called EXCEPT ![e] = {}]
  /\ UNCHANGED <<listenVars, cancelled, tasks, running, failed, toResume, awaitVars, closeVars>>

\* A listener's task runs on, on whichever thread resumes it, to its end.
TaskEnds(e, h) ==
  /\ h \in running[e]
  /\ running' = [running EXCEPT ![e] = @ \ {h}]
  /\ \E b \in BOOLEAN :
       failed' = IF b THEN [failed EXCEPT ![e] = @ \cup {h}] ELSE failed
  /\ UNCHANGED <<listenVars, pc, called, cancelled, tasks, toResume, awaitVars, closeVars>>

\* for (t : tasks) co_await t: in order.
AwaitTask(e) ==
  /\ pc[e] = "awaiting" /\ tasks[e] # {}
  /\ LET h == Min(tasks[e]) IN
       /\ h \notin running[e] \cup failed[e]
       /\ tasks' = [tasks EXCEPT ![e] = @ \ {h}]
  /\ UNCHANGED <<listenVars, pc, called, cancelled, running, failed, toResume, awaitVars, closeVars>>

\* The exception of a task is rethrown before its final suspension, so that
\* its frame is leaked.
RethrowTask(e) ==
  /\ pc[e] = "awaiting" /\ tasks[e] # {}
  /\ Min(tasks[e]) \in failed[e]
  /\ Abort(e)
  /\ UNCHANGED <<listenVars, awaitVars, closeVars>>

\* Mutant of TasksOver: the job ends without waiting for its tasks.
NeverWaits(e) == TRUE

TasksOver(e) == tasks[e] = {}

\* handle_coro ends and its frame goes, the event with it.
EndDispatch(e) ==
  /\ pc[e] = "awaiting" /\ TasksOver(e)
  /\ pc' = [pc EXCEPT ![e] = "done"]
  /\ cancelled' = [cancelled EXCEPT ![e] = FALSE]
  /\ failed' = [failed EXCEPT ![e] = {}]
  /\ UNCHANGED <<listenVars, called, tasks, running, toResume, awaitVars, closeVars>>

DispatchStep(e) ==
  \/ \E a \in Awaiters : ResumeNext(e, a)
  \/ StartCalling(e) \/ CallListener(e)
  \/ ListenerReturns(e) \/ ListenerThrows(e)
  \/ StopCalling(e) \/ AwaitTask(e) \/ RethrowTask(e) \/ EndDispatch(e)

-----------------------------------------------------------------------------
(* co_await on the router *)

\* await_suspend: state.store(waiting), then the handle, then attach_awaiter.
BeginAwait(a, p) ==
  /\ phase = "up" /\ apc[a] = "idle" /\ canceller[a] = "none"
  /\ astate' = [astate EXCEPT ![a] = "waiting"]
  /\ pred' = [pred EXCEPT ![a] = p]
  /\ apc' = [apc EXCEPT ![a] = "stored"]
  /\ UNCHANGED <<listenVars, dispatchVars, toResume, attached, event, runner,
                 canceller, faults, closeVars>>

StoreHandle(a) ==
  /\ apc[a] = "stored"
  /\ apc' = [apc EXCEPT ![a] = "handled"]
  /\ UNCHANGED <<listenVars, dispatchVars, toResume, attached, astate, event,
                 pred, runner, canceller, faults, closeVars>>

AttachAwaiter(a) ==
  /\ apc[a] = "handled" /\ CoroUnlocked
  /\ attached' = attached \cup {a}
  /\ apc' = [apc EXCEPT ![a] = "suspended"]
  /\ UNCHANGED <<listenVars, dispatchVars, toResume, astate, event, pred,
                 runner, canceller, faults, closeVars>>

\* await_resume: throws if cancelled, else hands the event out by reference.
\* If the destructor cancelled it, the coroutine runs on in its loop.
AwaitResume(a) ==
  /\ apc[a] = "resumed"
  /\ astate' = [astate EXCEPT ![a] = "none"]
  /\ apc' = [apc EXCEPT ![a] = IF astate[a] = "cancelling" THEN "idle" ELSE "using"]
  /\ runner' = IF astate[a] = "cancelling"
                 THEN [runner EXCEPT ![a] = NoEvent] ELSE runner
  /\ IF closer = "inside" /\ closing = {a}
       THEN closer' = "test" /\ closing' = {}
       ELSE UNCHANGED <<closer, closing>>
  /\ pred' = [pred EXCEPT ![a] = Events]
  /\ UNCHANGED <<listenVars, dispatchVars, toResume, attached, event,
                 canceller, faults, phase, raced>>

\* The coroutine is done with the reference and suspends or ends.
StopUsing(a) ==
  /\ apc[a] = "using"
  /\ apc' = [apc EXCEPT ![a] = "idle"]
  /\ runner' = [runner EXCEPT ![a] = NoEvent]
  /\ event' = [event EXCEPT ![a] = NoEvent]
  /\ UNCHANGED <<listenVars, dispatchVars, toResume, attached, astate, pred,
                 canceller, faults, closeVars>>

\* A job that awaited ends with an exception: it comes out of resume().
AwaiterThrows(a) ==
  /\ apc[a] = "using" /\ runner[a] \in Events
  /\ apc' = [apc EXCEPT ![a] = "idle"]
  /\ runner' = [runner EXCEPT ![a] = NoEvent]
  /\ event' = [event EXCEPT ![a] = NoEvent]
  /\ Abort(runner[a])
  /\ UNCHANGED <<listenVars, attached, astate, pred, canceller, faults, closeVars>>

\* cancel(): compare_exchange from waiting to cancelling, then detach_coro,
\* then resume.
Cancel(a) ==
  /\ astate[a] = "waiting"
  /\ EarlyCancel \/ apc[a] = "suspended"
  /\ astate' = [astate EXCEPT ![a] = "cancelling"]
  /\ canceller' = [canceller EXCEPT ![a] = "detach"]
  /\ raced' = (raced \/ phase = "closing")
  /\ UNCHANGED <<listenVars, dispatchVars, toResume, attached, event, pred, apc,
                 runner, faults, phase, closer, closing>>

\* detach_coro takes coro_mutex and erases the awaiter,
CancelDetach(a) ==
  /\ canceller[a] = "detach" /\ CoroUnlocked
  /\ attached' = attached \ {a}
  /\ canceller' = [canceller EXCEPT ![a] = "unlock"]
  /\ UNCHANGED <<listenVars, dispatchVars, toResume, astate, event, pred, apc,
                 runner, faults, closeVars>>

\* Mutant of AfterDetach: cancel() leaves the coroutine to the router.
AfterDetachNothing == "none"

AfterDetach == "resume"

\* and its unique_lock releases it.
CancelUnlock(a) ==
  /\ canceller[a] = "unlock"
  /\ canceller' = [canceller EXCEPT ![a] = AfterDetach]
  /\ UNCHANGED <<listenVars, dispatchVars, toResume, attached, astate, event, pred, apc,
                 runner, faults, closeVars>>

CancelResume(a) ==
  /\ canceller[a] = "resume"
  /\ canceller' = [canceller EXCEPT ![a] = "none"]
  /\ ResumeHandle(a, NoEvent)
  /\ UNCHANGED <<listenVars, dispatchVars, toResume, attached, astate, event, pred, closeVars>>

AwaiterStep(a) ==
  \/ StoreHandle(a) \/ AttachAwaiter(a) \/ AwaitResume(a)
  \/ StopUsing(a) \/ AwaiterThrows(a)
  \/ CancelDetach(a) \/ CancelUnlock(a) \/ CancelResume(a)

-----------------------------------------------------------------------------
(* ~event_router_t: only cancel() of other threads may still be under way *)

\* These may still be in, or on their way to, detach_coro.
InDetach(a) == canceller[a] \in {"detach", "unlock"}

BeginDestroy ==
  /\ phase = "up"
  /\ \A e \in Events : pc[e] \in {"queued", "done", "aborted"} /\ running[e] = {}
  /\ \A a \in Awaiters : apc[a] \in {"idle", "suspended"} \/ canceller[a] # "none"
  /\ phase' = "closing"
  /\ raced' = \E a \in Awaiters : InDetach(a)
  /\ UNCHANGED <<listenVars, dispatchVars, toResume, awaitVars, closer, closing>>

\* Mutant of AllCancelled: the destructor is the default one.
NoneCancelled == TRUE

AllCancelled == attached = {}

\* while (!coro_awaiters.empty()), without the lock,
CloseTest ==
  /\ phase = "closing" /\ closer = "test"
  /\ IF AllCancelled
       THEN phase' = "down" /\ closer' = closer
       ELSE phase' = phase /\ closer' = "back"
  /\ UNCHANGED <<listenVars, dispatchVars, toResume, awaitVars, closing, raced>>

\* back(), undefined of a vector that another thread has emptied meanwhile,
CloseBack ==
  /\ phase = "closing" /\ closer = "back"
  /\ IF attached = {}
       THEN phase' = "undefined" /\ UNCHANGED <<closer, closing>>
       ELSE /\ phase' = phase /\ closer' = "cancel"
            /\ \E a \in attached : closing' = {a}
  /\ UNCHANGED <<listenVars, dispatchVars, toResume, awaitVars, raced>>

\* ->cancel() detaches and resumes the coroutine here,
CloseCancel(a) ==
  /\ phase = "closing" /\ closer = "cancel" /\ closing = {a}
  /\ astate[a] = "waiting"
  /\ astate' = [astate EXCEPT ![a] = "cancelling"]
  /\ canceller' = [canceller EXCEPT ![a] = "detach"]
  /\ closer' = "inside"
  /\ UNCHANGED <<listenVars, dispatchVars, toResume, attached, event, pred, apc,
                 runner, faults, phase, closing, raced>>

\* The awaitable lives in the frame of its coroutine while that awaits.
Lives(a) == apc[a] \in {"suspended", "resumed"}

\* or does nothing, because another thread cancels it, and the loop goes on; it
\* is undefined of an awaitable that is gone with that other cancel().
CloseSkip(a) ==
  /\ phase = "closing" /\ closer = "cancel" /\ closing = {a}
  /\ astate[a] # "waiting"
  /\ IF Lives(a)
       THEN phase' = phase /\ closer' = "test" /\ closing' = {}
       ELSE phase' = "undefined" /\ UNCHANGED <<closer, closing>>
  /\ UNCHANGED <<listenVars, dispatchVars, toResume, awaitVars, raced>>

DestroyStep ==
  \/ CloseTest \/ CloseBack
  \/ \E a \in Awaiters : CloseCancel(a) \/ CloseSkip(a)

Next ==
  \/ \E k \in Kinds : Attach(k)
  \/ \E h \in Handles : Detach(h)
  \/ \E e \in Events : TakeAwaiters(e) \/ DispatchStep(e)
  \/ \E e \in Events, h \in Handles : TaskEnds(e, h)
  \/ \E a \in Awaiters :
       \/ \E p \in Predicates : BeginAwait(a, p)
       \/ AwaiterStep(a)
       \/ Cancel(a)
  \/ BeginDestroy \/ DestroyStep

\* Pool threads and coroutines run what they began, listeners return; a task
\* may wait for ever, and nothing obliges anyone to await or to cancel.
Fairness ==
  /\ \A e \in Events : WF_vars(DispatchStep(e))
  /\ \A a \in Awaiters : WF_vars(AwaiterStep(a))
  /\ WF_vars(DestroyStep)

Spec == Init /\ [][Next]_vars
FairSpec == Spec /\ Fairness

-----------------------------------------------------------------------------
(* What the router promises *)

\* While an event is being passed to the listeners, those called so far are
\* exactly the attached ones up to the one reached: no listener attached or
\* detached meanwhile slips into or out of the loop ("they will always be
\* called in they order they are bound to the event").
CalledInOrder ==
  \A e \in Events : pc[e] \in {"calling", "inside"} =>
    called[e] = {h \in DOMAIN container : h <= Reached(e)}

\* The event outlives everything handle_coro gave a reference to: its running
\* tasks ("keep the event object alive until all tasks finished"), and the
\* coroutines it picked or resumed, until they suspend.
EventOutlivesUsers ==
  \A e \in Events : pc[e] = "done" =>
    /\ running[e] = {}
    /\ \A a \in Awaiters : apc[a] \in {"suspended", "resumed", "using"} =>
         event[a] # e /\ runner[a] # e /\ a \notin toResume[e]

\* Only coroutines suspended in the router are resumed, and by one of the
\* dispatches or by cancel(), whichever wins the compare_exchange.
ResumedOnlyWhenSuspended == faults = {}

\* A coroutine suspended in the router is not forgotten: it is attached, or
\* exactly one dispatch or one cancel() is about to resume it. The exception is
\* an exception: the dispatch that took it ended with one.
SuspendedIsHeld ==
  \A a \in Awaiters : apc[a] = "suspended" =>
    LET holders == {e \in Events : a \in toResume[e]} IN
    \/ a \in attached /\ holders = {}
    \/ Cardinality(holders) = 1 /\ canceller[a] = "none"
    \/ holders = {} /\ canceller[a] \in {"unlock", "resume"}
    \/ event[a] \in Events /\ pc[event[a]] = "aborted"

\* The destructor "will cancel any coroutine awaiting on events": when it has
\* ended, no awaitable is attached, and unless another thread's cancel() had yet
\* to leave detach_coro while it ran, nobody holds or will take coro_mutex; only
\* such a cancel() makes it call back() on an empty vector, or cancel() on an
\* awaitable that is gone.
DestroyedIsUnused ==
  /\ phase = "down" => attached = {} /\ (raced \/ \A a \in Awaiters : ~InDetach(a))
  /\ phase = "undefined" => raced

\* The destructor ends, if that is defined: it does not loop for ever over an
\* awaiter that it cannot cancel because another thread does.
DestructorEnds == (phase = "closing") ~> (phase \in {"down", "undefined"})

\* cancel() has detached the awaitable when it resumes its coroutine ("this
\* will detach this object from the event router and resume the awaiter").
CancelledIsDetached ==
  \A a \in Awaiters : canceller[a] = "resume" => a \notin attached

\* Every event that is dispatched gets past its listeners, cancelled or not,
\* whatever is attached, detached, awaited or cancelled meanwhile.
DispatchEnds ==
  \A e \in Events : (pc[e] = "resuming") ~> (pc[e] \in {"awaiting", "done", "aborted"})
=============================================================================
