---------------------------- MODULE BlockingCall -----------------------------
(***************************************************************************)
(* A thread that waits for an API call: sync_wait, sync_wait_for or        *)
(* sync_wait_until (coro/awaitable.h) on a dpp::coroutine whose body makes *)
(* a dpp::async (coro/async.h) and co_awaits it.                           *)
(*                                                                         *)
(*   caller --spawns--> job --co_await--> coroutine --co_await--> async    *)
(*                                                                 |       *)
(*   request's thread ------------- callback, set_value -----> promise     *)
(*                                                                         *)
(* The coroutine is module Coroutine's, the promise is module Promise's.   *)
(* The async and the callback share the promise; the async is a local of   *)
(* the body.  The job runs on the caller's thread until the body suspends, *)
(* then on the request's.  Result and condition variable are locals of the *)
(* caller, and so is the mutex it locks: the job never takes it, so nothing*)
(* orders the caller's looks at the result and the job's emplace. That the *)
(* job may use them after sync_wait has returned is left out: the steps go *)
(* on as if they still existed.                                            *)
(***************************************************************************)
EXTENDS Naturals, FiniteSets

CONSTANTS
  Request,       \* the thread that answers the API call
  Body,          \* the coroutine
  Job,           \* the job that sync_wait spawns
  NoHandle,      \* the null coroutine_handle
  Timed,         \* sync_wait_for or sync_wait_until, rather than sync_wait
  OutlivesWait   \* the caller keeps the coroutine until the job has ended

ASSUME BlockingCallAssumption ==
  /\ Timed \in BOOLEAN /\ OutlivesWait \in BOOLEAN
  /\ NoHandle \notin {Body, Job}

VARIABLES
  value, state, awaiter, link, alive, spc, op, cpc, got, misfired,
  frame, parent, kept,
  called,    \* the request was made, and has its copy of the callback
  owners,    \* the shared_ptrs to the promise
  body,      \* where the body is
  came,      \* what the body ended with
  job,       \* where the spawned job is
  runner,    \* whose thread runs the job and the body
  spawned,   \* spawn_sync_wait_job has returned to the caller
  given,     \* what co_await gave the job
  waiter,    \* where the calling thread is
  expired,   \* the time limit has passed
  result,    \* the caller's local variant: "partial" inside its emplace
  answer,    \* what sync_wait returned, threw, or that it timed out
  peeked     \* the caller has looked at the variant inside its emplace

P == INSTANCE Promise WITH
       Setters <- {Request}, Coroutines <- {Body}, NotifyModes <- {TRUE},
       SerialSet <- TRUE, SerialAwait <- TRUE
C == INSTANCE Coroutine

promiseVars == <<value, state, awaiter, link, alive, spc, op, cpc, got, misfired>>
coroVars    == <<frame, parent, kept>>
bodyVars    == <<called, owners, body, came>>
jobVars     == <<job, runner, spawned, given>>
waitVars    == <<waiter, expired, result, answer, peeked>>
vars == <<promiseVars, coroVars, bodyVars, jobVars, waitVars>>

TypeOK ==
  /\ P!TypeOK /\ C!TypeOK
  /\ parent \in {Job, NoHandle}
  /\ called \in BOOLEAN
  /\ owners \subseteq {"async", "callback"}
  /\ body \in {"lazy", "calling", "called", "awaiting", "unwinding", "leaving", "over"}
  /\ came \in P!Results \cup {"none"}
  /\ job \in {"await", "waiting", "resumed", "storing", "notify", "ended"}
  /\ runner \in {"caller", "request"}
  /\ spawned \in BOOLEAN /\ expired \in BOOLEAN /\ peeked \in BOOLEAN
  /\ given \in P!Results \cup {"none"}
  /\ waiter \in {"spawning", "checking", "blocking", "blocked", "taking",
                 "reading", "returned", "gone"}
  /\ result \in P!Results \cup {"none", "partial"}
  /\ answer \in P!Results \cup {"none", "timeout", "badAccess", "torn"}

\* There is no promise yet: it is made with the async.
Init ==
  /\ value = "empty" /\ state = {} /\ awaiter = NoHandle
  /\ link = "unmade" /\ alive = FALSE
  /\ spc = [s \in {Request} |-> "idle"]
  /\ op = [s \in {Request} |-> [result |-> "value", notify |-> TRUE]]
  /\ cpc = [c \in {Body} |-> "running"]
  /\ got = [c \in {Body} |-> "none"]
  /\ misfired = {}
  /\ C!Init
  /\ called = FALSE /\ owners = {} /\ body = "lazy" /\ came = "none"
  /\ job = "await" /\ runner = "caller" /\ spawned = FALSE
  /\ waiter = "spawning" /\ expired = FALSE
  /\ given = "none" /\ result = "none" /\ answer = "none" /\ peeked = FALSE

-----------------------------------------------------------------------------
(* The request's thread: the callback sets the value, then it is destroyed *)

Answer ==
  /\ called /\ spc[Request] = "idle"
  /\ \E r \in P!Results : P!BeginSet(Request, r, TRUE)
  /\ UNCHANGED <<coroVars, bodyVars, jobVars, waitVars>>

SetStep ==
  /\ P!SetStep(Request)
  /\ runner' = IF cpc'[Body] # cpc[Body] THEN "request" ELSE runner
  /\ UNCHANGED <<coroVars, bodyVars, job, spawned, given, waitVars>>

\* A shared_ptr to the promise goes; the last one frees the promise.
Release(o) ==
  /\ owners' = owners \ {o}
  /\ alive' = (owners' # {})

\* The callback goes once set_value has returned, which is when the coroutines
\* that it resumed have suspended or ended.
CallbackGone ==
  /\ "callback" \in owners
  /\ spc[Request] \in {"returned", "threw"}
  /\ runner = "request" => job = "ended"
  /\ Release("callback")
  /\ UNCHANGED <<value, state, awaiter, link, spc, op, cpc, got, misfired,
                 coroVars, called, body, came, jobVars, waitVars>>

RequestStep == SetStep \/ CallbackGone

-----------------------------------------------------------------------------
(* The body of the coroutine *)

\* Mutant of Sharers: the callback holds a plain pointer.
OnlyAsync == {"async"}

\* The async, and the copy of its callback that was passed to the request.
Sharers == {"async", "callback"}

\* async's constructor makes the promise and then the call.
MakeCall ==
  /\ body = "calling"
  /\ body' = "called"
  /\ called' = TRUE
  /\ owners' = Sharers
  /\ alive' = TRUE /\ link' = "valid"
  /\ UNCHANGED <<value, state, awaiter, spc, op, cpc, got, misfired,
                 coroVars, came, jobVars, waitVars>>

\* The call throws: the promise was delegated to, so ~async runs.
CallThrows ==
  /\ body = "calling"
  /\ body' = "unwinding"
  /\ came' = "exception"
  /\ owners' = {"async"}
  /\ alive' = TRUE /\ link' = "valid"
  /\ UNCHANGED <<value, state, awaiter, spc, op, cpc, got, misfired,
                 coroVars, called, jobVars, waitVars>>

BodyAwaits ==
  /\ body = "called"
  /\ P!AwaitReady(Body)
  /\ body' = "awaiting"
  /\ UNCHANGED <<coroVars, called, owners, came, jobVars, waitVars>>

\* A coroutine that suspends on the caller's thread gives the thread back.
BodySuspends ==
  /\ P!AwaitStep(Body)
  /\ spawned' = (spawned \/ cpc'[Body] = "suspended")
  /\ UNCHANGED <<coroVars, bodyVars, job, runner, given, waitVars>>

\* The body returns, or throws, without having awaited the call,
BodyDrops ==
  /\ body = "called"
  /\ body' = "unwinding"
  /\ came' \in C!Results
  /\ UNCHANGED <<promiseVars, coroVars, called, owners, jobVars, waitVars>>

\* or returns, or throws, what co_await gave it.
BodyReturns ==
  /\ body = "awaiting" /\ cpc[Body] = "running" /\ got[Body] # "none"
  /\ body' = "unwinding"
  /\ came' = got[Body]
  /\ UNCHANGED <<promiseVars, coroVars, called, owners, jobVars, waitVars>>

\* ~async abandons the promise,
AbandonAsync ==
  /\ body = "unwinding"
  /\ P!Abandon
  /\ body' = "leaving"
  /\ UNCHANGED <<coroVars, called, owners, came, jobVars, waitVars>>

\* and releases it; ~awaitable then abandons an awaitable that is unlinked.
ReleaseAsync ==
  /\ body = "leaving" /\ "async" \in owners
  /\ Release("async")
  /\ UNCHANGED <<value, state, awaiter, link, spc, op, cpc, got, misfired,
                 coroVars, called, body, came, jobVars, waitVars>>

\* final_suspend hands the thread to the parent.
BodyEnds ==
  /\ body = "leaving" /\ "async" \notin owners
  /\ C!Finish(came)
  /\ body' = "over"
  /\ job' = IF parent = Job THEN "resumed" ELSE job
  /\ UNCHANGED <<promiseVars, called, owners, came, runner, spawned, given, waitVars>>

BodyStep ==
  \/ MakeCall \/ CallThrows \/ BodyAwaits \/ BodySuspends \/ BodyDrops
  \/ BodyReturns \/ AbandonAsync \/ ReleaseAsync \/ BodyEnds

-----------------------------------------------------------------------------
(* The job *)

\* co_await on the coroutine: await_ready is false, the body starts.
JobAwaits ==
  /\ job = "await"
  /\ C!Await(Job)
  /\ job' = "waiting"
  /\ body' = "calling"
  /\ UNCHANGED <<promiseVars, called, owners, came, runner, spawned, given, waitVars>>

\* co_await gives the coroutine's result, or throws its exception, and
\* result_.emplace<1>, or emplace<2>, destroys what is in the variant,
JobStores ==
  /\ job = "resumed"
  /\ C!Resume
  /\ given' = kept
  /\ job' = "storing"
  /\ result' = "partial"
  /\ UNCHANGED <<promiseVars, bodyVars, runner, spawned, waiter, expired, answer, peeked>>

\* constructs the new one in its place, and sets the index.
JobStored ==
  /\ job = "storing"
  /\ job' = "notify"
  /\ result' = given
  /\ UNCHANGED <<promiseVars, coroVars, bodyVars, runner, spawned, given, waiter, expired,
                 answer, peeked>>

\* cv_.notify_all() wakes the caller if it is blocked now; the job ends.
JobNotifies ==
  /\ job = "notify"
  /\ job' = "ended"
  /\ spawned' = TRUE
  /\ waiter' = IF waiter = "blocked" THEN "checking" ELSE waiter
  /\ UNCHANGED <<promiseVars, coroVars, bodyVars, runner, given, expired, result, answer, peeked>>

JobStep == JobAwaits \/ JobStores \/ JobStored \/ JobNotifies

-----------------------------------------------------------------------------
(* The caller of sync_wait *)

StartWaiting ==
  /\ waiter = "spawning" /\ spawned
  /\ waiter' = "checking"
  /\ UNCHANGED <<promiseVars, coroVars, bodyVars, jobVars, expired, result, answer, peeked>>

\* The indexes the caller may find. Inside the emplace the variant has none
\* (variant_npos) and, as nothing orders the two threads, what is found may as
\* well be the old index or the new one.
Index == IF result = "partial" THEN {"none", "npos", given} ELSE {result}

Look == peeked' = (peeked \/ result = "partial")

\* Mutant of GivesUp: wait_for is written as a loop around wait.
NeverGivesUp == FALSE

\* cv.wait_for and cv.wait_until stop waiting at the time limit.
GivesUp == expired

\* The predicate of cv.wait, index() != 0, and of cv.wait_for, which gives up
\* on time.
Check ==
  /\ waiter = "checking"
  /\ \E i \in Index :
       waiter' = IF i # "none" \/ GivesUp THEN "taking" ELSE "blocking"
  /\ Look
  /\ UNCHANGED <<promiseVars, coroVars, bodyVars, jobVars, expired, result, answer>>

\* The caller goes to sleep: a notify_all that came before this is lost.
Block ==
  /\ waiter = "blocking"
  /\ waiter' = "blocked"
  /\ UNCHANGED <<promiseVars, coroVars, bodyVars, jobVars, expired, result, answer, peeked>>

SpuriousWakeup ==
  /\ waiter = "blocked"
  /\ waiter' = "checking"
  /\ UNCHANGED <<promiseVars, coroVars, bodyVars, jobVars, expired, result, answer, peeked>>

Expire ==
  /\ Timed /\ ~expired
  /\ waiter \in {"checking", "blocking", "blocked"}
  /\ expired' = TRUE
  /\ UNCHANGED <<promiseVars, coroVars, bodyVars, jobVars, waiter, result, answer, peeked>>

Timeout ==
  /\ waiter = "blocked" /\ expired
  /\ waiter' = "checking"
  /\ UNCHANGED <<promiseVars, coroVars, bodyVars, jobVars, expired, result, answer, peeked>>

\* What std::get reads under index i: inside the emplace, no value yet.
Read(i) == IF result = "partial" THEN "torn" ELSE i

\* sync_wait_impl after the wait: index() == 2 is rethrown.
TakeException ==
  /\ waiter = "taking"
  /\ \E i \in Index :
       IF i = "exception"
         THEN waiter' = "returned" /\ answer' = Read(i)
         ELSE waiter' = "reading" /\ answer' = answer
  /\ Look
  /\ UNCHANGED <<promiseVars, coroVars, bodyVars, jobVars, expired, result>>

\* Mutant of Absent: a wait that gave up rethrows the null exception.
AbsentIsThrown == "exception"

\* A limited wait has std::nullopt for any index but 1; without a limit
\* std::get<1> throws bad_variant_access.
Absent == IF Timed THEN "timeout" ELSE "badAccess"

\* The index is read again, and the value is returned.
TakeValue ==
  /\ waiter = "reading"
  /\ waiter' = "returned"
  /\ \E i \in Index : answer' = IF i = "value" THEN Read(i) ELSE Absent
  /\ Look
  /\ UNCHANGED <<promiseVars, coroVars, bodyVars, jobVars, expired, result>>

\* ~coroutine, of a body that has ended or, without OutlivesWait, is suspended:
\* its frame goes with its locals, and the async is abandoned and released.
Discard ==
  /\ waiter = "returned"
  /\ job = "ended" \/ (~OutlivesWait /\ cpc[Body] = "suspended")
  /\ waiter' = "gone"
  /\ C!Destroy
  /\ body' = "over"
  /\ cpc' = [cpc EXCEPT ![Body] = "running"]
  /\ IF link = "valid"
       THEN /\ state' = state \cup {"broken"}
            /\ link' = "abandoned"
            /\ Release("async")
       ELSE UNCHANGED <<state, link, alive, owners>>
  /\ UNCHANGED <<value, awaiter, spc, op, got, misfired, called, came, jobVars,
                 expired, result, answer, peeked>>

WaiterStep ==
  \/ StartWaiting \/ Check \/ Block \/ Timeout \/ TakeException \/ TakeValue
  \/ Discard

Next ==
  \/ Answer \/ RequestStep \/ BodyStep \/ JobStep
  \/ WaiterStep \/ SpuriousWakeup \/ Expire

\* All threads run, and time passes; nothing promises an answer or a spurious
\* wakeup.
Fairness ==
  /\ WF_vars(RequestStep) /\ WF_vars(BodyStep) /\ WF_vars(JobStep)
  /\ WF_vars(WaiterStep) /\ WF_vars(Expire)

Spec == Init /\ [][Next]_vars
FairSpec == Spec /\ Fairness

-----------------------------------------------------------------------------
(* What the call promises *)

\* What sync_wait returns or throws as the outcome is what the body ended with,
\* which is what the request was answered with if the body waited for it. An
\* "absence of value means timed out", and a value that is not there is never
\* read, unless the caller looked at the variant inside its emplace: no other
\* order of notify, timeout, spurious wakeup and store makes anything up.
AnswerIsOutcome ==
  /\ answer \in P!Results => answer = came
  /\ got[Body] # "none" => came \in {"none", op[Request].result}
  /\ answer = "timeout" => expired \/ peeked
  /\ answer \in {"badAccess", "torn"} => peeked

\* Whoever still has a pointer to the promise keeps it alive: the request that
\* answers a call nobody waits for any more, as well as the body.
PromiseOutlivesUsers ==
  \/ alive
  \/ ~P!InSet(Request) /\ ~P!InAwait(Body) /\ link # "valid"

\* The request resumes the body only where it is suspended. An async that is
\* gone "signals to the callback that the async object is gone and shouldn't be
\* notified of the result".
GoneIsNotNotified == misfired = {}

\* "Blocks this thread and waits for the awaitable to finish": once the
\* promise is settled, sync_wait returns.
ReturnsOnceSettled ==
  ("ready" \in state) ~> (waiter \in {"returned", "gone"})

\* sync_wait_for and sync_wait_until return, answered or not.
TimedWaitEnds == (waiter = "checking") ~> (waiter \in {"returned", "gone"})

\* Once the wait is over and the request is answered, in whichever order, the
\* job ends and both promise and frame are freed.
Reclaimed ==
  (waiter = "returned" /\ spc[Request] = "returned")
    ~> (job = "ended" /\ ~alive /\ frame = "destroyed")

-----------------------------------------------------------------------------
(* The abstract specification it implements *)

\* To the caller the chain is a future of its own: settled when the body has
\* its outcome, awaited by one thread, handed over when sync_wait ends with
\* something it takes for the outcome, which is then gone. A caller that gave
\* up waits on.
Taken == answer \in P!Results \cup {"torn"}

F == INSTANCE Future WITH
       Coroutines <- {"caller"},
       outcome    <- IF answer = "value" THEN "moved" ELSE came,
       waiting    <- IF waiter = "spawning" \/ Taken THEN {} ELSE {"caller"},
       got        <- [c \in {"caller"} |-> IF Taken THEN answer ELSE "none"]

\* However request, body, job and caller interleave, time out or are destroyed,
\* the wait is a one-shot future again as long as the caller does not look into
\* the emplace: the outcome is settled once, and the caller gets that outcome or
\* none.
ImplementsFuture == []~peeked => F!SafeSpec
=============================================================================
