------------------------------- MODULE WhenAny -------------------------------
(***************************************************************************)
(* when_any (coro/when_any.h): a coroutine, the owner, co_awaits several   *)
(* awaitables at once. The constructor spawns one job for each, which      *)
(* co_awaits it and, if it is the first to finish, stores the result and   *)
(* resumes the owner. State and result are shared by the owner and the     *)
(* jobs, which may finish on one thread, one after the other, or on any.   *)
(***************************************************************************)
EXTENDS Naturals

CONSTANTS
  N,            \* the number of awaitables
  Cancellable,  \* those with a cancel() that resumes their job
  NoIndex,      \* the maximum of size_t
  ThreadModes   \* which of one thread (TRUE) and several (FALSE) to consider

ASSUME WhenAnyAssumption ==
  /\ N \in Nat \ {0} /\ NoIndex \notin 1 .. N + 1
  /\ Cancellable \subseteq 1 .. N
  /\ ThreadModes \subseteq BOOLEAN

Jobs == 1 .. N

\* What the variant holds besides the value of a job: a null exception_ptr, the
\* exception of a value's construction, or an alternative that is being written.
Null      == 0
Exception == N + 1
Partial   == N + 2

VARIABLES
  owner_state,     \* state_t::owner_state
  result,          \* state_t::result, by the alternative it holds
  handle,          \* state_t::handle is set
  index_finished,  \* state_t::index_finished
  jpc,             \* where each job is
  opc,             \* where the owner is
  at,              \* the job the constructor, or destructor, has reached
  inline,          \* the job that runs inside the constructor, or 0
  misfired,        \* history: the owner was resumed when not suspended
  sameThread       \* everything runs on one thread

vars == <<owner_state, result, handle, index_finished, jpc, opc, at, inline,
          misfired, sameThread>>

Active == {"check", "emplace", "emplacing", "exchange", "resume"}

TypeOK ==
  /\ owner_state \in {"started", "waiting", "done", "dangling"}
  /\ result \in 0 .. N + 2
  /\ handle \in BOOLEAN
  /\ index_finished \in Jobs \cup {NoIndex}
  /\ jpc \in [Jobs -> {"unborn", "awaiting", "ended"} \cup Active]
  /\ opc \in {"making", "made", "checked", "handled", "suspended", "resumed",
              "cancelling", "destroyed", "threw"}
  /\ at \in 1 .. N + 1
  /\ inline \in 0 .. N
  /\ misfired \in BOOLEAN /\ sameThread \in ThreadModes

Init ==
  /\ owner_state = "started"
  /\ result = Null
  /\ handle = FALSE
  /\ index_finished = NoIndex
  /\ jpc = [n \in Jobs |-> "unborn"]
  /\ opc = "making"
  /\ at = 1
  /\ inline = 0
  /\ misfired = FALSE
  /\ sameThread \in ThreadModes

\* On one thread, a job that runs runs until it ends or has resumed the owner,
\* and an owner that runs runs until it is at a place where it may suspend.
JobsRest   == sameThread => \A n \in Jobs : jpc[n] \notin Active
OwnerRests == sameThread => opc \in {"made", "suspended", "resumed", "destroyed", "threw"}

EndJob(n) ==
  /\ jpc' = [jpc EXCEPT ![n] = "ended"]
  /\ inline' = IF inline = n THEN 0 ELSE inline

GoTo(n, place) == jpc' = [jpc EXCEPT ![n] = place]

-----------------------------------------------------------------------------
(* The constructor *)

\* make_job<n>: the awaitable suspends the job, or is ready.
MakeJob ==
  /\ opc = "making" /\ at <= N /\ inline = 0
  /\ \/ GoTo(at, "awaiting") /\ UNCHANGED inline
     \/ GoTo(at, "check") /\ inline' = at
  /\ at' = at + 1
  /\ UNCHANGED <<owner_state, result, handle, index_finished, opc, misfired, sameThread>>

\* The awaitable throws at once: so does the constructor.
MakeThrows ==
  /\ opc = "making" /\ at <= N /\ inline = 0
  /\ GoTo(at, "ended")
  /\ opc' = "threw"
  /\ UNCHANGED <<owner_state, result, handle, index_finished, at, inline,
                 misfired, sameThread>>

Made ==
  /\ opc = "making" /\ at = N + 1 /\ inline = 0
  /\ opc' = "made"
  /\ at' = 1
  /\ UNCHANGED <<owner_state, result, handle, index_finished, jpc, inline,
                 misfired, sameThread>>

-----------------------------------------------------------------------------
(* make_job after its co_await *)

Complete(n) ==
  /\ jpc[n] = "awaiting" /\ JobsRest /\ OwnerRests
  /\ GoTo(n, "check")
  /\ UNCHANGED <<owner_state, result, handle, index_finished, opc, at, inline,
                 misfired, sameThread>>

\* An exception of the awaitable leaves the job: nothing is stored.
Fail(n) ==
  /\ jpc[n] = "awaiting" /\ JobsRest /\ OwnerRests
  /\ EndJob(n)
  /\ UNCHANGED <<owner_state, result, handle, index_finished, opc, at,
                 misfired, sameThread>>

\* Mutant of IsLate: a job forgets that another one may have been first.
IsDangling(s) == s = "dangling"

IsLate(s) == s \in {"dangling", "done"}

CheckState(n) ==
  /\ jpc[n] = "check"
  /\ IF IsLate(owner_state)
       THEN EndJob(n)
       ELSE GoTo(n, "emplace") /\ UNCHANGED inline
  /\ UNCHANGED <<owner_state, result, handle, index_finished, opc, at,
                 misfired, sameThread>>

BeginEmplace(n) ==
  /\ jpc[n] = "emplace"
  /\ GoTo(n, "emplacing")
  /\ result' = Partial
  /\ UNCHANGED <<owner_state, handle, index_finished, opc, at, inline,
                 misfired, sameThread>>

\* The value is moved or copied, or the exception of doing so is stored.
EndEmplace(n) ==
  /\ jpc[n] = "emplacing"
  /\ GoTo(n, "exchange")
  /\ result' \in {n, Exception}
  /\ UNCHANGED <<owner_state, handle, index_finished, opc, at, inline,
                 misfired, sameThread>>

\* Mutant of Wakes: only a destroyed when_any is left alone.
WakesUnlessDangling(s) == s # "dangling"

Wakes(s) == s = "waiting"

Exchange(n) ==
  /\ jpc[n] = "exchange"
  /\ owner_state' = "done"
  /\ IF Wakes(owner_state)
       THEN GoTo(n, "resume") /\ UNCHANGED inline
       ELSE EndJob(n)
  /\ UNCHANGED <<result, handle, index_finished, opc, at, misfired, sameThread>>

IndexOf(n) == n

\* The owner goes on inside handle.resume(), the last thing the job does.
ResumeOwner(n) ==
  /\ jpc[n] = "resume"
  /\ EndJob(n)
  /\ IF handle THEN index_finished' = IndexOf(n) ELSE UNCHANGED index_finished
  /\ IF handle /\ opc = "suspended"
       THEN opc' = "resumed" /\ UNCHANGED misfired
       ELSE misfired' = (misfired \/ handle) /\ UNCHANGED opc
  /\ UNCHANGED <<owner_state, result, handle, at, sameThread>>

JobStep(n) ==
  \/ CheckState(n) \/ BeginEmplace(n) \/ EndEmplace(n) \/ Exchange(n) \/ ResumeOwner(n)

-----------------------------------------------------------------------------
(* The owner's co_await, and the destructor *)

AwaitReady ==
  /\ opc = "made" /\ JobsRest
  /\ opc' = IF owner_state = "done" THEN "resumed" ELSE "checked"
  /\ UNCHANGED <<owner_state, result, handle, index_finished, jpc, at, inline,
                 misfired, sameThread>>

StoreHandle ==
  /\ opc = "checked"
  /\ opc' = "handled"
  /\ handle' = TRUE
  /\ UNCHANGED <<owner_state, result, index_finished, jpc, at, inline,
                 misfired, sameThread>>

\* Mutant of Suspends: await_suspend returns true whatever it found.
SuspendsAlways(s) == TRUE

Suspends(s) == s = "started"

\* compare_exchange_strong from started to waiting.
AwaitSuspend ==
  /\ opc = "handled"
  /\ owner_state' = IF owner_state = "started" THEN "waiting" ELSE owner_state
  /\ opc' = IF Suspends(owner_state) THEN "suspended" ELSE "resumed"
  /\ UNCHANGED <<result, handle, index_finished, jpc, at, inline, misfired, sameThread>>

\* ~when_any, of an object that was awaited or was not.
BeginDestroy ==
  /\ opc \in {"made", "resumed"} /\ JobsRest
  /\ opc' = "cancelling"
  /\ owner_state' = "dangling"
  /\ UNCHANGED <<result, handle, index_finished, jpc, at, inline, misfired, sameThread>>

Cancels(n) == n \in Cancellable

\* cancel() resumes the job with an exception, swallowed here; the cancel() of
\* a task only sets a flag, and an awaitable without one is left alone.
CancelNext ==
  /\ opc = "cancelling" /\ at <= N
  /\ IF Cancels(at) /\ jpc[at] = "awaiting" THEN EndJob(at) ELSE UNCHANGED <<jpc, inline>>
  /\ at' = at + 1
  /\ UNCHANGED <<owner_state, result, handle, index_finished, opc, misfired, sameThread>>

EndDestroy ==
  /\ opc = "cancelling" /\ at = N + 1
  /\ opc' = "destroyed"
  /\ UNCHANGED <<owner_state, result, handle, index_finished, jpc, at, inline,
                 misfired, sameThread>>

OwnerStep == AwaitReady \/ StoreHandle \/ AwaitSuspend \/ CancelNext \/ EndDestroy

Next ==
  \/ MakeJob \/ MakeThrows \/ Made
  \/ \E n \in Jobs : Complete(n) \/ Fail(n) \/ JobStep(n)
  \/ OwnerStep \/ BeginDestroy

\* Jobs run on once their awaitable is done; it may never be. What an owner
\* has begun, it goes on with.
Fairness == WF_vars(OwnerStep) /\ \A n \in Jobs : WF_vars(JobStep(n))

Spec == Init /\ [][Next]_vars
FairSpec == Spec /\ Fairness

-----------------------------------------------------------------------------
(* What when_any promises *)

\* However many jobs finish at once, and wherever the owner is meanwhile, its
\* handle is resumed only while it is suspended in this co_await.
ResumedOnlyWhenSuspended == ~misfired

\* On one thread the result the owner sees is whole, and is that of the job
\* which index() names, if it names any.
ResultOfFirstOnOneThread ==
  sameThread /\ opc = "resumed" =>
    /\ result \in Jobs \cup {Exception}
    /\ index_finished # NoIndex => result \in {index_finished, Exception}

\* On one thread a late job never replaces the result of the first, whether the
\* owner has already awaited it, or looks at it, or is gone.
ResultStaysOnOneThread ==
  [][ sameThread /\ owner_state \in {"done", "dangling"} => UNCHANGED result ]_vars

\* An owner that sleeps either waits for a first result, so that whichever job
\* exchanges owner_state next finds it waiting, or one job is about to resume
\* it: no job exchanges the state under it and ends without a word.
SleeperIsServed ==
  opc = "suspended" => owner_state = "waiting" \/ \E n \in Jobs : jpc[n] = "resume"

\* A job that finishes while the owner is suspended wakes it, or another that
\* was first does: two that finish at once never leave it to each other.
OwnerWoken ==
  \A n \in Jobs : (opc = "suspended" /\ jpc[n] = "check") ~> (opc # "suspended")

\* The result returned "on completion" has "the index of the awaitable that
\* finished first" (the comment of when_any).
IndexNamesFirst == opc = "resumed" => index_finished \in Jobs
=============================================================================
