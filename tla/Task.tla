-------------------------------- MODULE Task --------------------------------
(***************************************************************************)
(* dpp::task (coro/task.h): a coroutine that starts at once, whose frame   *)
(* holds the promise its owner co_awaits.  The result goes through the     *)
(* handshake of module Promise with Notify = false; waking the parent and  *)
(* freeing the frame are left to final_suspend and to the destructor of    *)
(* the task object, which agree through sf_done and sf_broken on which of  *)
(* them frees the frame.                                                   *)
(*                                                                         *)
(* One task and the coroutine that owns it.  sameThread says whether both  *)
(* run on one thread, and so interleave only at suspension points; a task  *)
(* that a timer or a REST completion resumes runs on another.              *)
(***************************************************************************)
EXTENDS Naturals, FiniteSets

CONSTANTS
  Child,        \* the task's coroutine
  Parent,       \* the coroutine that owns the task object
  NoHandle,     \* the null coroutine_handle
  ThreadModes   \* the values of sameThread to consider

ASSUME TaskAssumption == ThreadModes \subseteq BOOLEAN /\ NoHandle # Parent

VARIABLES
  value, state, awaiter, link, alive, spc, op, cpc, got, misfired,
  sameThread,       \* one thread runs both coroutines
  body,             \* where the task's coroutine is
  returned,         \* the call that created the task has returned to the parent
  cancelled,        \* promise_base::cancelled of the task
  parentCancelled,  \* the same flag of the parent, which is a task too
  owner,            \* where the parent is in cleanup()
  frame,            \* the task's coroutine frame
  faults            \* history: accesses to, and frees of, a freed frame

P == INSTANCE Promise WITH
       Setters <- {Child}, Coroutines <- {Parent}, NotifyModes <- {FALSE},
       SerialSet <- TRUE, SerialAwait <- TRUE

promiseVars == <<value, state, awaiter, link, alive, spc, op, cpc, got, misfired>>
cancelVars  == <<cancelled, parentCancelled>>
frameVars   == <<frame, faults>>
threadVars  == <<returned, sameThread>>
taskVars    == <<body, owner, cancelVars, frameVars, threadVars>>
vars == <<promiseVars, taskVars>>

BodyPC == {"running", "waiting", "throwing", "checking", "settling",
           "resuming", "freeing", "finished", "escaped"}

TypeOK ==
  /\ state \subseteq P!Flags \cup {"done"}
  /\ value \in P!Values
  /\ awaiter \in {Parent, NoHandle}
  /\ body \in BodyPC
  /\ returned \in BOOLEAN /\ cancelled \in BOOLEAN /\ parentCancelled \in BOOLEAN
  /\ sameThread \in ThreadModes
  /\ owner \in {"holding", "destroy", "cancel", "gone"}
  /\ frame \in {"live", "freed"}
  /\ faults \subseteq {"use_after_free", "double_free"}

\* The task object refers to its promise from the start, without going
\* through get_awaitable.
Init ==
  /\ value = "empty" /\ state = {} /\ awaiter = NoHandle
  /\ link = "valid"
  /\ alive = TRUE
  /\ spc = [s \in {Child} |-> "idle"]
  /\ op = [s \in {Child} |-> [result |-> "value", notify |-> FALSE]]
  /\ cpc = [c \in {Parent} |-> "running"]
  /\ got = [c \in {Parent} |-> "none"]
  /\ misfired = {}
  /\ body = "running"
  /\ returned = FALSE
  /\ cancelled = FALSE
  /\ parentCancelled = FALSE
  /\ owner = "holding"
  /\ frame = "live"
  /\ faults = {}
  /\ sameThread \in ThreadModes

-----------------------------------------------------------------------------
(* Threads *)

ChildParked  == body \in {"waiting", "finished", "escaped"}
ParentParked == /\ cpc[Parent] \in {"running", "suspended", "threw"}
                /\ owner \in {"holding", "gone"}

\* The child first runs on its creator's thread, up to its first suspension.
ChildMayRun  == sameThread => ParentParked
ParentMayRun == /\ returned \/ ChildParked
                /\ sameThread => ChildParked

\* What touching the frame does to the history, and freeing it.
Touch == IF frame = "live" THEN faults ELSE faults \cup {"use_after_free"}
Free  == IF frame = "live" THEN faults ELSE faults \cup {"double_free"}

-----------------------------------------------------------------------------
(* The task's coroutine *)

\* A co_await inside the task suspends it: the first time, its creator goes on.
Suspend ==
  /\ ChildMayRun
  /\ body = "running"
  /\ body' = "waiting"
  /\ returned' = TRUE
  /\ UNCHANGED <<promiseVars, owner, cancelVars, frameVars, sameThread>>

\* What the task awaited has completed: proxy_awaiter::await_resume throws
\* task_cancelled_exception in a cancelled task.
Continue ==
  /\ ChildMayRun
  /\ body = "waiting"
  /\ body' = IF cancelled THEN "throwing" ELSE "running"
  /\ UNCHANGED <<promiseVars, owner, cancelVars, frameVars, threadVars>>

\* An exception leaves the task's body.
Throw ==
  /\ ChildMayRun
  /\ body = "running"
  /\ body' = "throwing"
  /\ UNCHANGED <<promiseVars, owner, cancelVars, frameVars, threadVars>>

\* return_value, return_void: set_value<false>.
Return ==
  /\ ChildMayRun
  /\ body = "running"
  /\ P!BeginSet(Child, "value", FALSE)
  /\ body' = "settling"
  /\ UNCHANGED <<owner, cancelVars, frameVars, threadVars>>

\* unhandled_exception, when the task object still exists: set_exception<false>.
StoreException ==
  /\ ChildMayRun
  /\ \/ body = "throwing" /\ "broken" \notin state
     \/ body = "checking" /\ cancelled
  /\ P!BeginSet(Child, "exception", FALSE)
  /\ body' = "settling"
  /\ UNCHANGED <<owner, cancelVars, frameVars, threadVars>>

\* unhandled_exception, when it does not: the flag is loaded next.
CheckCancelled ==
  /\ ChildMayRun
  /\ body = "throwing" /\ "broken" \in state
  /\ body' = "checking"
  /\ UNCHANGED <<promiseVars, owner, cancelVars, frameVars, threadVars>>

\* Rethrown out of resume(), past final_suspend: nobody frees the frame.
Escape ==
  /\ ChildMayRun
  /\ body = "checking" /\ ~cancelled
  /\ body' = "escaped"
  /\ UNCHANGED <<promiseVars, owner, cancelVars, frameVars, threadVars>>

SettleStep ==
  /\ ChildMayRun
  /\ body = "settling"
  /\ P!Emplace(Child) \/ P!Publish(Child)
  /\ UNCHANGED taskVars

\* Mutant of AfterFinal: the frame of an abandoned task is not freed.
AfterFinalLeaks(flags) == IF "awaited" \in flags THEN "resuming" ELSE "finished"

\* Mutant of AfterFinal: the frame is freed whoever else holds it.
AfterFinalFrees(flags) == IF "awaited" \in flags THEN "resuming" ELSE "freeing"

\* Mutant of AfterFinal: the parent is not woken.
AfterFinalSilent(flags) == IF "broken" \in flags THEN "freeing" ELSE "finished"

\* Mutant of AfterFinal: the parent is woken although it has gone away.
AfterFinalWakes(flags) == "resuming"

\* What final_awaiter does next, given the flags fetch_or(sf_done) replaced.
AfterFinal(flags) ==
  IF "awaited" \in flags THEN "resuming"
  ELSE IF "broken" \in flags THEN "freeing"
  ELSE "finished"

RaiseDone(flags) == flags \cup {"done"}

\* final_awaiter::await_suspend: state.fetch_or(sf_done).
FinalSuspend ==
  /\ ChildMayRun
  /\ spc[Child] = "notify" /\ body = "settling"
  /\ state' = RaiseDone(state)
  /\ body' = AfterFinal(state)
  /\ returned' = TRUE
  /\ spc' = [spc EXCEPT ![Child] = "returned"]
  /\ UNCHANGED <<value, awaiter, link, alive, op, cpc, got, misfired,
                 owner, cancelVars, frameVars, sameThread>>

\* release_awaiter() and the symmetric transfer to the handle it returned.
ResumeParent ==
  /\ ChildMayRun
  /\ body = "resuming"
  /\ body' = "finished"
  /\ awaiter' = NoHandle
  /\ IF awaiter = Parent /\ cpc[Parent] = "suspended"
       THEN /\ cpc' = [cpc EXCEPT ![Parent] = "resume"]
            /\ UNCHANGED misfired
       ELSE /\ misfired' = misfired \cup {awaiter}
            /\ UNCHANGED cpc
  /\ faults' = Touch
  /\ UNCHANGED <<value, state, link, alive, spc, op, got, owner, frame,
                 cancelVars, threadVars>>

\* handle.destroy() in final_awaiter: the task object is gone.
FreeSelf ==
  /\ ChildMayRun
  /\ body = "freeing"
  /\ body' = "finished"
  /\ frame' = "freed"
  /\ faults' = Free
  /\ UNCHANGED <<promiseVars, owner, cancelVars, threadVars>>

ChildStep ==
  \/ Throw \/ Return \/ StoreException \/ CheckCancelled \/ Escape
  \/ SettleStep \/ FinalSuspend \/ ResumeParent \/ FreeSelf

-----------------------------------------------------------------------------
(* The parent, which owns the task object *)

\* co_await on the task object: only while the object exists.
BeginAwait ==
  /\ ParentMayRun
  /\ owner = "holding"
  /\ P!AwaitReady(Parent)
  /\ returned' = TRUE
  /\ UNCHANGED <<body, owner, cancelVars, frameVars, sameThread>>

AwaitStep ==
  /\ ParentMayRun
  /\ \/ P!StoreAwaiter(Parent)
     \/ P!AwaitSuspend(Parent)
     \/ ~parentCancelled /\ P!ClearAwaited(Parent)
     \/ P!ReadValue(Parent)
  /\ UNCHANGED taskVars

\* The parent's own proxy_awaiter throws before the task's await_resume runs,
\* so sf_awaited stays set.
UnwindParent ==
  /\ ParentMayRun
  /\ parentCancelled
  /\ cpc[Parent] = "resume"
  /\ cpc' = [cpc EXCEPT ![Parent] = "threw"]
  /\ UNCHANGED <<value, state, awaiter, link, alive, spc, op, got, misfired, taskVars>>

\* Somebody cancels the parent.
CancelParent ==
  /\ ~parentCancelled
  /\ parentCancelled' = TRUE
  /\ UNCHANGED <<promiseVars, body, owner, cancelled, frameVars, threadVars>>

\* task::cancel on a task object one still has.
Cancel ==
  /\ ParentMayRun
  /\ owner = "holding" /\ ~P!InAwait(Parent)
  /\ cancelled' = TRUE
  /\ faults' = Touch
  /\ UNCHANGED <<promiseVars, body, owner, parentCancelled, frame, threadVars>>

\* cleanup(), first half: abandon() = state.fetch_or(sf_broken).
AbandonTask ==
  /\ ParentMayRun
  /\ owner = "holding"
  /\ P!Abandon
  /\ owner' = IF "done" \in state THEN "destroy" ELSE "cancel"
  /\ UNCHANGED <<body, cancelVars, frameVars, threadVars>>

\* cleanup(), second half, of a task that was done: handle.destroy().
DestroyFrame ==
  /\ ParentMayRun
  /\ owner = "destroy"
  /\ owner' = "gone"
  /\ frame' = "freed"
  /\ faults' = Free
  /\ UNCHANGED <<promiseVars, body, cancelVars, threadVars>>

\* Mutant of CancelAbandoned: cleanup() only abandons a running task.
OnlyAbandon ==
  /\ ParentMayRun
  /\ owner = "cancel"
  /\ owner' = "gone"
  /\ UNCHANGED <<promiseVars, body, cancelVars, frameVars, threadVars>>

\* cleanup(), second half, of a task that was not: cancel() writes the flag
\* in the frame.
CancelAbandoned ==
  /\ ParentMayRun
  /\ owner = "cancel"
  /\ owner' = "gone"
  /\ cancelled' = TRUE
  /\ faults' = Touch
  /\ UNCHANGED <<promiseVars, body, parentCancelled, frame, threadVars>>

ParentStep == AwaitStep \/ UnwindParent \/ DestroyFrame \/ CancelAbandoned

Next ==
  \/ Suspend \/ Continue \/ ChildStep
  \/ BeginAwait \/ ParentStep \/ CancelParent \/ Cancel \/ AbandonTask

\* Threads run what they have begun; what a task awaits may never complete.
Fairness == WF_vars(ChildStep) /\ WF_vars(ParentStep)

Spec == Init /\ [][Next]_vars
FairSpec == Spec /\ Fairness

-----------------------------------------------------------------------------
(* What a task promises *)

\* The parent is resumed only while it is suspended on the task: either it
\* saw the result in await_suspend or final_suspend wakes it, not both.  With
\* a second thread this fails.
ResumedOnlyWhenSuspended == misfired = {}

\* The same on one thread, where final_suspend cannot come between the
\* parent's await_suspend and its await_resume.
WokenOnceOnOneThread == sameThread => misfired = {}

\* The destructor of the task object and final_suspend never both free the
\* frame: of fetch_or(sf_broken) and fetch_or(sf_done), only the later frees.
\* On one thread nobody uses the frame after it was freed either, cleanup()'s
\* late cancel() and final_suspend's release_awaiter() included.
FrameSafe ==
  /\ "double_free" \notin faults
  /\ sameThread => faults = {}

\* "If the task is still running, it will be cancelled" (~task), and the
\* exception of a cancelled task is kept: on one thread none is rethrown into
\* whoever resumed the task.
ExceptionKeptOnOneThread == sameThread => body # "escaped"

\* On one thread or on two, a parent that sleeps on a task that has a result is
\* one whose handle is stored and whose task has not got past final_suspend's
\* resumption, whether or not an earlier co_await was cancelled and left
\* sf_awaited behind.
SleeperIsServed ==
  cpc[Parent] = "suspended" /\ "ready" \in state =>
    awaiter = Parent /\ body \in {"settling", "resuming"}

\* A parent that sleeps on a task that has a result is woken, on one thread
\* or on two.
ParentWoken ==
  (cpc[Parent] = "suspended" /\ "ready" \in state) ~> (cpc[Parent] # "suspended")

\* On one thread, the frame of a task that has ended and whose object is gone
\* is freed by one of the two, however the parent was cancelled.
FrameReclaimedOnOneThread ==
  (sameThread /\ body = "finished" /\ owner = "gone") ~> (frame = "freed")

-----------------------------------------------------------------------------
(* The abstract specification it implements *)

\* To the future, a parent that left its co_await without a result, because it
\* was cancelled itself, waits on.
F == INSTANCE Future WITH
       Coroutines <- {Parent},
       outcome    <- IF "ready" \in state THEN value ELSE "none",
       waiting    <- {c \in {Parent} : cpc[c] # "running"}

\* Whatever is cancelled, dropped or freed on the way, and on however many
\* threads, a task has one result, settled once, and each co_await that ends
\* is handed it: without Notify too, the handshake is a one-shot future.
ImplementsFuture == F!SafeSpec
=============================================================================
