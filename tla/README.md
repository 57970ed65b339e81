# TLA+ models of the D++ Windows bot template

This directory holds TLA+ specifications of the code in this repository, TLC
configurations that check them on small instances, and proofs of their main
safety properties for every instance. Paths below are relative to `src/`;
`dpp/` stands for `MyBot/dependencies/include/dpp-10.1/dpp/`. `PROJECT.json`
lists, definition by definition, the lines each one translates.

The repository consists of a small bot (`MyBot/MyBot.cpp`), the script that
keeps its copy of the D++ library up to date (`updatedpp.sh`, run by
`.github/workflows/update.yml`), and that copy: headers and Windows binaries.
Nearly all logic that is here as source is in the headers, as templates, and
the hard part of it is the coroutine library (`dpp/coro/`), the event router
and the object cache. What the binaries do (gateway, HTTP, thread pool, timers)
is visible only through declarations and comments: the models treat it as an
environment that may do anything those allow.

## 1. Inventory

| Component | State | Operations | Talks to |
|---|---|---|---|
| Promise and awaitable (`coro/awaitable.h`) | a variant for the result, one atomic byte of flags, a coroutine handle, who owns it | set_value / set_exception, notify_awaiter, get_awaitable, the awaiter's three calls, abandon, destructor | everything that produces a result; resumes the awaiting coroutine |
| Synchronous waits (same file) | result and condition variable on the caller's stack | sync_wait, sync_wait_for, sync_wait_until, the job they spawn | a promise, the waiting thread |
| Task (`coro/task.h`) | a promise in the coroutine's frame, a cancelled flag, the owning object | return, throw, suspend, final_suspend, co_await by a parent, cancel, destruction | its promise, its parent, tasks it awaits |
| when_any (`coro/when_any.h`) | a shared state: atomic owner state, result variant, handle, index | construction (one job per awaitable), co_await, destruction | its awaitables (tasks, promises, the router) |
| Job, coroutine, async (`coro/job.h`, `coroutine.h`, `async.h`) | a frame; a frame, its parent and its result; a promise shared with a callback | start, transfer to the parent, end, destroy; call, answer, drop | promise, API calls, each other |
| Event router (`event_router.h`) | map of listeners, list of awaiters, two locks; per awaitable an atomic state | attach, detach, handle_coro, co_await, cancel, destructor | thread pool, listeners' tasks, awaiting coroutines |
| Collector, timed listener (`collector.h`, `timed_listener.h`) | the collected items, a flag, a timer and a listener handle | collect, time out, cancel, destroy | router, timers |
| Cache (`cache.h`, `managed.h`) | map from id to object, deletion queue | store, remove, find, rehash; garbage collection | every thread |
| The bot (`MyBot/MyBot.cpp`, `once.h`) | run_once's static flag, its registered commands | on_ready, on_slashcommand | router, REST calls |
| Library updater (`updatedpp.sh`) | a checkout, a directory of artifacts, the remote's main | download, unzip and copy, pull, commit, push | GitHub, other runs of itself |
| Audio mixers (`isa/*.h`) | registers of samples | scale, clip, narrow, add | voice client |
| Cluster, gateway, sockets, HTTP, queues, thread pool, voice | in the binaries | declarations only | |
| Discord objects, value helpers, emoji table, JSON library | data | setters, pure functions | |

**Hard behaviours.** Results are produced on pool threads while a coroutine is
about to sleep: every handshake of two atomic steps has an order nobody tested.
Coroutine frames are freed by whichever of two parties ends last. An event is
passed by reference to coroutines that outlive the call. Pointers returned by
the cache outlive its lock. Waits have time limits that race the answer. READY
events come again with every reconnection, on any thread. The updater has no
`set -e`: it goes on after most failures, and cron starts runs that overlap.
`PROJECT.json` lists these hazards at the lines where they bite.

**What makes each component correct.** A promise gives its one result to its
awaiter, exactly once, and wakes it; it is never touched after its reader may
have freed it. A task wakes its parent once, its frame is freed once, and its
exception reaches the parent or is kept if nobody wants it. A wait returns with
the outcome or with a timeout, never with something else and never not at all.
when_any wakes its owner once, with the first result. The router calls
listeners in order, keeps the event alive for those that use it, never
resumes a coroutine twice or forgets it, and is not used once it is destroyed.
A collector hands over its list once, whole, while nothing writes to it. A
mixer adds up the voices without cutting any of them off. The cache deletes each object once,
and not while find() may return it or a prompt caller holds it. The bot
registers its commands, once. `main` holds one library
build, and does not go back.

## 2. Modules

`Promise` is used, by INSTANCE, in `Task` and, together with `Coroutine`, in
`BlockingCall`; the other components stand alone, with what they call
abstracted to its effect.

| Module | Models | Checked by | Proved in |
|---|---|---|---|
| `Future` | the abstract one-shot future | `promise_contract` | `Promise_proofs`, `Task_proofs`, `BlockingCall_proofs` |
| `Promise` | the handshake of `awaitable.h` | `promise_contract` | `Promise_proofs` |
| `Task` | a task and its owner, over `Promise` | `task` | `Task_proofs` |
| `Coroutine` | the operations of `coroutine.h` | in `BlockingCall` | `BlockingCall_proofs` |
| `BlockingCall` | the waits and their job, a coroutine, async and its callback, over `Promise` and `Coroutine` | `blocking_call`, `sync_wait_lost_wakeup`, `async_dropped` | `BlockingCall_proofs` |
| `WhenAny` | when_any and its jobs | `when_any` | `WhenAny_proofs` |
| `EventRouter` | the router | `router` | `EventRouter_proofs` |
| `Collector` | collector and timed listener | `collector` | `Collector_proofs` |
| `Lifecycle` | the abstract life of cached objects | `cache` | `Cache_proofs` |
| `Cache` | `cache.h` and the deletion queue | `cache` | `Cache_proofs` |
| `Bot` | `MyBot.cpp` and run_once | `bot` | `Standalone_proofs` |
| `UpdateDpp` | `updatedpp.sh` under its cron | `update` | `Standalone_proofs` |
| `AudioMixer` | the mixers of `isa/` | `audio_mixer` | `Standalone_proofs` |

Conventions. One action is one step that other threads can come between: an
atomic operation, a write that others read, the body of a locked section.
`MC*` modules give the constants their values. Definitions marked "Mutant of
X" are wrong variants of a step; putting one in X's place makes the property
named with it in `PROJECT.json` fail, which shows that the property depends on
that line of the code. Variables marked "history" are not in the code: they
record a misuse (a handle resumed when its coroutine is not suspended, a frame
freed twice) where the program would have undefined behaviour. The names of
`Bot`, `UpdateDpp` and `AudioMixer` that every module has (`Init`, `Next`,
`vars`) carry a prefix, as `Standalone_proofs` extends all three.

### Promise, Future

`state` is the set of flags raised in the atomic byte (`sf_has_awaitable`,
`sf_awaited`, `sf_ready`, `sf_done`, `sf_broken`), `value` the variant
(values are told apart only as value, exception, moved), `awaiter` the stored
handle, `link` who has the awaitable, `alive` whether the promise still exists.
`spc` and `cpc` say where each set call and each co_await is. A set call is
BeginSet (the emptiness test), Emplace, Publish (the fetch_or) and, if it
notifies and saw `sf_awaited`, ResumeAwaiter. A co_await is AwaitReady,
StoreAwaiter, AwaitSuspend (the fetch_or that decides whether to sleep),
ClearAwaited and ReadValue. Two constants say whether callers may overlap their
set calls or co_awaits; `NotifyModes` which template variants are used.

`Future` promises that one result is settled, that each co_await gets it, that
a value is moved to the first reader, and that who waits is served. `Promise`
implements it: `outcome` is the variant once `sf_ready` is up, and the waiting
coroutines are those inside a co_await. So does what is built on it: a `Task`,
where a parent that was cancelled out of its co_await waits on; and the whole
chain of `BlockingCall`, whose `outcome` is what the body ended with and whose
one reader is the thread that blocks (a caller that gave up waits on), as long as
it does not look into the job's variable while that is being written. Those two
were checked by TLC with the abstract steps added to the configuration, and are
proved.

### Task

`body` is where the coroutine is, up to and through final_suspend; `owner` where
the parent is in the destructor's cleanup (abandon, then cancel, or freeing);
`frame` whether the frame is freed; both `cancelled` flags are kept. The result
goes through `Promise` with Notify = FALSE, and final_suspend's one fetch_or of
`sf_done` decides among waking the parent, freeing the frame and neither.
`sameThread` restricts interleaving to suspension points, which is how a task
runs that nothing resumes from elsewhere; FALSE lets both threads interleave
freely.

### BlockingCall, Coroutine

The longest chain in the library: a thread blocks in sync_wait for a job, which
co_awaits a coroutine, whose body makes an API call and co_awaits its async,
which shares a promise with the callback that the request's thread runs. Result,
exception and thread then go the same way back. `body`, `job` and `waiter` say
where each is, `runner` on whose thread job and body run, `owners` who keeps
the promise alive. The body may also drop its async without awaiting it, return
or throw early, and the call itself may throw. The waiting thread's condition
variable has spurious wakeups and, for the timed variants, an expiry at any
moment; its mutex is a local of the caller, so it excludes nobody, and checking
the predicate and blocking are two steps. The job emplaces the outcome in two,
between which the variant has no value; the caller tests index() and reads in
steps of its own, which nothing orders with these. `peeked` records that it
looked in between: it may then see the old index, no index or the new one, and
return a timeout that has not come, throw bad_variant_access or read a value
that is not there (`AnswerIsOutcome` allows these to such a caller only).
`OutlivesWait` says whether the
coroutine is kept until the job has ended, or dies with a wait that gave up.

### WhenAny

A job goes from `check` (the test for done or dangling) through two steps of
emplacing to `exchange` and, if that found the owner waiting, `resume`. The
owner constructs, tests await_ready, stores its handle, swaps started for
waiting, and later destroys the object, cancelling awaitables that can be
cancelled. `inline` is the job that runs within the constructor because its
awaitable was ready. Awaitables complete or throw at any time, or never.

### EventRouter

Every event is dispatched by a thread of its own: resume_awaiters takes the
matching awaiters under the lock and resumes them one by one, the loop calls
the listeners in the order of their handles under the shared lock, and the
tasks they returned are then awaited. Listeners may cancel the event, throw,
return tasks that fail, and be attached or detached by others while no loop is
under way, which is what the exclusive lock allows. An awaiting coroutine goes
through await_suspend's three steps, is resumed by a dispatch, by cancel() or
by the destructor, uses the event, throws out of the resumption (which ends the
dispatch, with the other awaiters it had taken), suspends again or ends. The
destructor begins when no dispatch is under way, and loops until nothing is
attached: empty(), back() and the exchange in cancel() are steps of their own,
as it takes no lock, and cancel() of another thread can detach between them, or
still hold the mutex when the destructor ends. `raced` records that such a
cancel() was on its way while the destructor ran; `phase` is then "undefined"
when back() met an empty vector or ->cancel() an awaitable that was gone.

### Collector

Dispatches run the listener on pool threads and push to one vector in two
steps, so that two of them can meet. A tick detaches the listener and stops the
timer; cancel() and the destructor do the same on their way. A stopped timer
calls on_stop, which hands the list to completed(). Whether stop_timer makes
that call itself or leaves it to the timer's thread is in the library's binary:
`inPlace` is both. completed() may in turn cancel or destroy its collector, also
when it runs inside a cancel() or a destructor that has not nulled tl yet: tl is
then deleted twice. `object` follows the construction: the base constructor
attaches the listener and starts the timer before the derived part exists, and a
tick may come before the handles it detaches are stored. What is then undefined
is recorded in `faults`, by name. `onTimerThread` says that the owner calls between two ticks,
as code that runs in timers does; otherwise it may call at any moment.
`DestroyEarly` lets the owner destroy the collector before completed().

### Cache, Lifecycle

Each call is one step, as it holds the lock throughout. `held` is the pointer a
thread got from find(); `age` and `since` count ticks up to `Grace`, which
stands for the 60 seconds of the queue. The collection is in the library's
binary and modelled from the comments of `cache.h` and its use of
`deletion_queue`: it deletes what has been queued for `Grace`. That callers
drop pointers sooner than that is the assumption `Prompt`, a guard of Tick: the
comment of find() asks for it, the code cannot. `StaleStores` and
`StaleRemoves` let callers pass a pointer that was removed or replaced since
they found it. `Lifecycle` says that an object goes from new to cached to
queued to deleted, and nowhere else.

### Bot

on_ready and on_slashcommand, step by step, for several READY events and
interactions. run_once's exchange of a plain bool is a read and a write.
Discord accepts the registration or does not; users enter commands only when
some are registered, possibly those of an older version of the bot.

### UpdateDpp

A tree says of each file which version it has, or that it is not there. A file
comes in the archive of one build, and only some versions have it; `cp -rv` adds
and overwrites (`Copied`), and never removes. The script's directory is state (`level`), because `cd` may fail and the script goes on: a
missing artifact makes every later relative path wrong. git is modelled by what
its commands refuse: pull, to overwrite local changes; commit, when nothing is
staged; push, when the remote has moved. "Latest" is the newest run that is
*completed now*, as the script's grep has it; its header speaks of the last
successful one. It goes back when CI runs are run again or deleted (`Withdraw`)
and returns when they have completed again (`CompleteAgain`).

### AudioMixer

One register of samples, mixed by one of four instruction sets: combine_samples
adds a voice to the sums of every lane, collect_single_register multiplies each
with its gain, clips and truncates. Samples are integers of `Max16`'s width,
gains and products floats, counted in parts of 1 / `Unit`: `Floats` are the
numbers there are, and every operation takes its result to a nearest one
(`Rounded`), a multiplication and an addition that the compiler fuses (`fused`)
to one only. The sums are below the 2^24 that floats hold exactly. Each set clips in its own way, and has its own order of
lanes.

## 3. Runs and bounds

| Run | Instance | Shows |
|---|---|---|
| `promise_contract` | 2 setters, 2 coroutines, both Notify variants; set calls and co_awaits do not overlap their like; 7,451 states | one wake-up, from one side; no torn read, no use after free, no replaced result; the future is implemented, liveness included |
| `task` | one task, one parent, on one thread and on two; 1,337 states | on both: the parent is woken, no double free. On one thread: nothing uses a freed frame, every frame is reclaimed, no exception of a dropped task escapes, the parent is resumed once |
| `blocking_call` | sync_wait_for on one coroutine and one request; 955 states | it returns, with the outcome or a timeout unless it looked into the variant while it was written; the promise outlives its users; nothing leaks and nothing that is gone is resumed |
| `sync_wait_lost_wakeup` | sync_wait without a limit | **violated**: the wake-up is lost |
| `async_dropped` | the coroutine dies with a wait that gave up | **violated**: the late answer resumes its freed frame |
| `when_any` | 3 awaitables, 2 cancellable, on one thread and on several; 11,881 states | the owner is resumed once and always; on one thread, with the first result, which stays |
| `router` | 2 events, 1 coroutine, 2 listener handles, 2 predicates; 241,688 states | order of calls, lifetime of the event, one resumption per suspension, no forgotten coroutine, a clean destruction unless another thread was in cancel(); no dispatch hangs in its listeners, and the destructor ends |
| `collector` | 3 events, timers that stop in place or later, an owner on the timer's thread or not; 28,618 states | the list is at rest when it is handed over, once and whole; a stopped timer has led to completed(); on the timer's thread nothing is used that is freed or unset, beyond what nesting and the constructor do; completed() does come |
| `cache` | 3 objects on 2 ids, 2 threads, Grace 2; 4,267 states | ownership, lifetime of found pointers, the life cycle |
| `bot` | 3 READY events, 2 interactions, in turn and at once; 39,624 states | the commands are registered, once if the events come in turn |
| `audio_mixer` | 3 voices of 4 patterns, 3-bit samples, 4-bit floats, gains in sixteenths that rise, fall or stay, 4 instruction sets, fused or not; 41,472 states | each sample of the mix is off by less than one from the sum of the voices with its gain, or clipped, in whatever order they came |
| `update` | 2 overlapping runs for ever, 2 builds, 4 files, 2 new versions, 1 withdrawal, 1 broken archive; 608,778 states | `main` has every file of one build and older ones beside them, and never goes back, unless an archive was broken or a build withdrawn; it catches up with a build that stays |

Why the bounds suffice. A promise relates one result to one awaiter; a second
of each is what contends. A wait is one chain of parties, each of which there
is one of. A task has one frame and one owner. With three awaitables one can be
first, one late and one cancelled at once. Two events contend for one
coroutine, the coroutine awaits again so that later dispatches meet it in every
phase, and one handle is attached before the other; with two coroutines the
safety properties hold as well (3,660,466 states, too many for a routine run
with liveness), and with one handle fewer the liveness properties too
(230,998). Three events are two that race and one that comes late. Two objects
that share an id are what replacement needs, and a third goes through the queue
beside them. Two builds are the one whose absence stops the script and one that
can be missing; of the four files one is replaced by another in the last
version, as a header was; two versions suffice for a run to be overtaken.
Samples of 3 bits are wide enough for two voices to exceed the limits and for a
third to bring the sum back, and with floats of 4 bits and gains in sixteenths
ramps and products have to be rounded, up to the next whole sample too
(-7 * 9/16 becomes -4). The proofs of section 5 do not
depend on these bounds.

Deadlock checking is off where the program does stop (a settled promise, ended
events); `update`, which runs for ever, keeps it on.

## 4. Fairness

Every run that checks liveness assumes weak fairness of the steps inside a call
that has begun: a thread that runs goes on running. Nothing obliges a caller to
begin a call, a promise to be settled, an awaitable to complete, an event to
come or Discord to accept anything; the properties are stated accordingly
("once the result is published", "once a job has its result"). Listeners' tasks
may never end, so `DispatchEnds` only asks for the listener loop. In
`BlockingCall` the request that was made is answered in the end (`RequestStep`)
and a time limit passes; in `Collector` the timer's thread serves its timers
and nobody has to cancel. `Cache` has safety only: when the queue is collected
is decided in the library's binary. In `UpdateDpp` the cron starts runs again
and again and, with strong fairness, a download sometimes gets all artifacts:
without it nothing could ever be committed. `Future` asks that every waiter of
a settled result is served, which `Promise` implements under its own fairness.

## 5. Proofs

Eight modules hold proofs, for all values of the constants that satisfy the
modules' assumptions. Every safety invariant and action property that a run
checks is the statement of a theorem, or follows from one; of a refinement, the
safety part is. Type invariants are proved (`TypeCorrect`, or as a part of the
invariant) and not repeated in the runs. TLC has checked each invariant below,
and each property that only a theorem states, before its proof, by adding it to
the component's configuration.

Liveness is out of the proof system's reach, but much of what could break it is
not. The theorems `NoLostWakeup` (of `Promise`, `Task` and `WhenAny`),
`NoneForgotten`, `NoneUnhanded` and `SentAtRest` say that in every reachable
state whoever waits for something that is there has somebody about to bring it.
What stays with TLC is that this somebody takes his step.

**Promise.** `TypeCorrect` needs nothing of the callers. `ResumeOnce`,
`ReadAfterPublish`, `FreeAfterRead`, `SetOnce` and `Refinement` (the safety part
of `Future`) assume `Contract`: set calls that notify, no two at once, one
co_await at a time. No property is inductive by itself, since each depends on
what the other side may have seen; `HandshakeInv` says it for every program
point: a setter about to resume has raised `sf_ready` and its awaiter is
asleep; a coroutine asleep with the result published has a setter about to
resume it; a raised `sf_awaited` belongs to a coroutine that has not cleared it;
the promise outlives every call into it. `NoLostWakeup` is the second of these.

**Cache.** `TypeCorrect` again needs nothing. `FindIsAlive`, `HoldIsAlive` and
`Refinement` (of `Lifecycle`) assume that callers store what is new or stored
and remove what is stored. The invariant `IInv` says that every entry sits
under its object's own id, that queue, map and deleted objects are disjoint,
and that an object a thread holds has been in the queue for no longer than the
thread has held it, which is why a prompt caller drops it before it is due.

**WhenAny.** `TypeCorrect`, and `ResumeOnce` with no assumption on the number
of awaitables or threads. `IInv`: a waiting owner is suspended with its handle
stored; a job about to resume it is the only one, because its exchange replaced
waiting by done, and the owner sleeps until it comes. `NoLostWakeup`: an owner that
sleeps is still waiting, or that one job is about to come. `ResultOfFirst` and
`ResultStays` add that on one thread at most one job runs, while the owner rests
or is in the constructor around it, so that only a job that found no result
there stores one.

**EventRouter.** `CalledInOrderAlways` needs nothing: the map cannot change
between two calls of one loop, and the next listener is the least ahead.
`ResumeOnce`, `NoneForgotten`, `EventLives` and `DestructionIsClean` assume
`~EarlyCancel`. Their invariant says, for each phase of an awaitable, who holds
it: the list, one dispatch, or one cancel() of a thread or of the destructor;
a task's event is that of a dispatch that has not ended; and a router that is
going down has no dispatch. `DestructionIsClean` says what is left of a destructor
that takes no lock: only where another thread's cancel() was on its way to
detach_coro, or in it (`raced`), is anything undefined, or the mutex held by
somebody at the end.

**Task.** On any number of threads exactly one of destructor and final_suspend
frees the frame: the flags `sf_done` and `sf_broken` tell how far the two are
(`FlagsInv`), and so whose it is (`FrameInv`). On one thread one of them is
parked while the other runs (`InTurn`), from which `FrameFreedOnce`,
`WokenInTurn` and `ExceptionKept` follow. The lemmas on the flags are about
`Promise`'s actions as `Task` instantiates them. On any number of threads again,
`NoLostWakeup` needs that a parent about to sleep has its handle stored as long
as there is no result (`SleepInv`: final_suspend clears the handle, and a
cancelled co_await leaves `sf_awaited` raised), and `Refinement` that the result
is there before `sf_ready` is (`ResultInv`): so a task is a one-shot future even
where two threads may resume its parent twice, as section 6 says.

**BlockingCall.** The invariant follows the result on its way: from set_value to
the promise (`HandshakeInv`), to what the body ended with and the coroutine keeps
(`BodyInv`), to the caller's variable (`WayUp`); `OwnersInv` says who still has a
pointer to the promise. `AnswerIsTrue` and `PromiseLives` follow, with or without
a time limit and also where the coroutine dies with its wait. Only
`LateAnswerIsSafe` needs that the coroutine is kept (`OutlivesWait`): without it,
`ResumeInv` is what fails, and `async_dropped` shows how. `AnswerIsTrue` allows
the answers of a caller that looked inside the emplace (`peeked`), and
`Refinement`, that the chain is a one-shot future of its own, is of callers that
never do.

**Collector.** `ListAtRest`, `HandedOnce` and `FreedIsLeft`. Detaching comes
before stopping and waits for running listeners, so the list is at rest once
anybody is past his detach; the timer is stopped once, so on_stop comes once.
`FreedIsLeft` is stated of the timer's thread and names what it does not exclude:
two pushes at once, an event before the object is whole, and tl deleted by a
completed() inside a cancel() or destructor.
`NoneUnhanded` adds that it does not pass without completed(), unless the object
is gone.

**UpdateDpp.** For any files, versions and overlapping runs. `OnlyNewer`: while no
CI build is withdrawn, no file of a run is older than in the tree it started
from, and a push needs that to be what `main` has. `OneBuild`: a run that gets to
its commit found every artifact, since the first missing one leaves it outside
the directory of the others; so, as long as its archives were whole, it has every
file of its version, and what that version lacks is older (`CopiedHolds`). A pull
merges two such trees; each file is then the newer one of the two, and the merge
has every file of the newer version (`MergedHolds`).

**Bot.** `OnceInTurn`: with READY events in turn at most one handler is between
reading and writing run_once's flag, and one that is to register finds nothing
sent. At once or in turn, `SentAtRest`: what a handler has seen of the
flag stays true, so the first to raise it is one that registers.

**AudioMixer.** `MixIsSum`, for any number of voices, width of samples, gain and
`Floats`. The only assumption on these is that they hold every whole sample;
which of two nearest is taken, and whether the compiler fuses, is left open. As
rounding never goes past a float (`RoundedBounds`), a product between two whole
samples becomes one of them or stays between (`RoundedWhole`), so that what is
converted afterwards is off by less than one. It need not be rounded towards
zero.
The voices come in any order, while the promise speaks of a sum over a set: the
lemmas show that the sum does not depend on the order. As induction on the
number of voices is not available, `SumExists` and `SumAdds` take the least
number for which they fail (`WFMin` of the library, on `<` over the naturals).
`ClippedAlike`: the four ways to clip agree on all integers. `RampRises`: with
fallback.h and neon.h the gain ramp never makes a later lane quieter
(`RampGoesOneWayElsewhere`), as clipping, rounding and truncation are monotone; that it may
is the doing of avx.h and avx2.h alone.

**Model-checked only.** The liveness properties: `AwaiterWoken`, `ParentWoken`,
`FrameReclaimedOnOneThread`, `OwnerWoken`, `Completes`, `ReadyRegisters`, those of
`BlockingCall`, `EventRouter` and `UpdateDpp`, and the fairness part of
`Future`. The proof system has neither ENABLED nor the weak and strong fairness
that rest on it. Induction over recursive data is out of its reach too; no
theorem above needs it.

## 6. Where code and comments disagree

Found while modelling. Two are runs that TLC must find violated:

- `dpp/coro/awaitable.h:159` sync_wait may miss its notification and sleep for
  ever, as the mutex it waits with is its own (`sync_wait_lost_wakeup`).
- `dpp/coro/async.h:181` the destructor of an async is to keep the callback from
  notifying a coroutine that is gone; abandon() raises a flag that the callback
  does not read (`async_dropped`).

The next ones are repeated by changing a constant, or by adding the invariant
named to the component's configuration:

- `dpp/coro/task.h:418` final_suspend resumes the parent because `sf_awaited`
  is up, also when the parent saw `sf_ready` in await_suspend and did not
  suspend. It takes a second thread: `WokenOnceOnOneThread` fails without its
  condition.
- `dpp/coro/when_any.h:254` index() is the maximum of size_t when an awaitable
  was first before the owner suspended (`IndexNamesFirst`).
- `dpp/event_router.h:726` a cancel() that comes between the state and the
  attachment of an awaitable leaves it attached (`CancelledIsDetached`, with
  `EarlyCancel` TRUE).
- `dpp/collector.h:156` a collector destroyed before it has completed calls
  completed() of a derived class that is gone, or has its lambda run on freed
  memory (`SafeOnTimerThread` without its condition, with `DestroyEarly` TRUE).
- `dpp/coro/awaitable.h:142`, `159`, `176` and `193` the waiter tests and reads the
  variant while the job may be emplacing it, with nothing to order the two
  (`AnswerIsOutcome` without `peeked`).
- `dpp/event_router.h:429` the destructor reads coro_awaiters without
  coro_mutex: with cancel() on another thread it may call back() on an empty
  vector, or end while the mutex is held (`DestroyedIsUnused` without `raced`).
- `dpp/collector.h:147` nulls tl after delete tl, which may call completed(): one
  that cancels or destroys deletes tl twice; and the constructor (94) attaches a
  listener that calls a filter() the object does not have yet
  (`SafeOnTimerThread` without the faults it names).
- `updatedpp.sh:23` takes the build before when the newest CI run is run again or
  deleted, and pushes it over the newer one (`NeverOlder` without
  `withdrawn = 0`).
- `updatedpp.sh:33` never removes what the new build lacks: `sslclient.h` lies
  beside `sslconnection.h` in `dpp/`, and both define `DPP_BUFSIZE` at line 66
  (`OriginUniform` without its second case).
- `dpp/isa/avx.h:56`, `dpp/isa/avx2.h:57` list the steps of the gain ramp upwards,
  but `_mm_set_ps` takes the highest lane first: within each register the gain
  falls where it should rise (`RampGoesOneWay`; `RampRises` proves it of the
  others).

Seen in the code, and not reached by a model: cancel() of a collector from its
own filter() waits for the lock that the dispatch around it holds
(`collector.h:147`); the comments of the cache speak of a deletion within the next
60 seconds (`cache.h:91`, `121`) and of one after 60 seconds (`cache.h:260`), of
which the models take the second; a registration that fails is not repeated, as
run_once is used up before the request is sent (`MyBot.cpp:29`);
throw_if_not_empty is not one step with the emplace after it, which nobody in
the repository calls on two threads (`awaitable.h:410`); the job of a timed wait uses the stack of a caller that has
returned (`awaitable.h:727`); move assignment of a coroutine drops the frame it
had (`coroutine.h:185`); `isa/avx512.h` clips nothing, as its two masks are the
wrong way round, and does not compile.

Others limit what is claimed above, and are listed with their hazards:

- a second co_await overwrites the first awaiter's handle before it throws
  (`awaitable.h:674`; set `SerialAwait` to FALSE and `AwaiterWoken` and `ResumedOnlyWhenSuspended` fail);
- two awaitables of a when_any that finish at once on two threads both write
  the result (`when_any.h:223`; the properties about the result name one thread);
- remove() of a pointer that was replaced drops the replacement from the map
  without queueing it, and storing a pointer that was removed puts an object
  back that is about to be deleted (`cache.h:113`, `cache.h:136`; set
  `StaleRemoves` or `StaleStores` to TRUE and `ImplementsLifecycle` or
  `CachedNotQueued` fails);
- run_once can succeed on two threads at once (`once.h:43`; `RegisteredOnce`
  holds only of READY events that come in turn);
- an archive that cannot be unzipped leaves `main` with a mixture
  (`updatedpp.sh:58`; `OriginUniform` is stated of whole archives).

## 7. Not modelled

- The library's binaries: cluster, request queues, thread pool, gateway,
  sockets, HTTP, voice, timers. Only declarations are here, and they are most of
  the headers.
- Discord's objects, the value helpers, the command handler: data classes with
  setters and one-line functions, without a protocol; a model would restate
  them. The emoji table is generated. The JSON library, a third of all lines, is
  third-party code that this repository only includes.
- In the modelled parts: moves and move assignment of tasks, coroutines, asyncs
  and awaitables, and that of when_any, whose default drops the state it had
  without marking it dangling; the router's handle() of builds without coroutines; the filter
  of reaction_collector; `isa/avx512.h`, and sums of 2^24 and more, which no float
  holds exactly; what tells a failed CI build from a successful one;
  the job of a wait that uses the caller's stack after the caller has returned.
- Memory is sequentially consistent throughout. The relaxed and acquire loads
  of the handshakes are treated as such; what the models say of a weaker order
  is nothing.

## 8. Plan

Done, in this order: the promise handshake and its abstract future; tasks; the
router; when_any; the cache and its abstract life cycle; the bot; the updater;
the chain from a blocked thread through coroutine and async to the answer; the
collector; exceptions and destruction in the router; the mixers; proofs for all
of them.

Left, most important first:

1. Moves of tasks, coroutines and asyncs while their result is on its way, each
   as an exchange of the handle that the destructor looks at.
2. A weaker memory order for the handshake of `Promise`, with the relaxed loads
   the code has.
3. A task and the router together: handle_coro as a `Task` that awaits
   listeners' `Task`s, instead of their effect on its steps.
