------------------------- MODULE BlockingCall_proofs -------------------------
(***************************************************************************)
(* Theorems about a thread that waits for an API call, with or without a   *)
(* time limit, whether or not the caller keeps the coroutine until its job *)
(* has ended.                                                              *)
(*                                                                         *)
(* The invariant follows the result on its way up: from the setter's call  *)
(* to the promise (HandshakeInv), to what the body ended with and what the *)
(* coroutine keeps (BodyInv), to the caller's variable, whose emplace the  *)
(* caller may find half done (WayUp); who has a pointer to the promise     *)
(* shows in how far body and setter are (OwnersInv).  Only that the setter *)
(* finds the coroutine suspended needs a coroutine that is kept            *)
(* (ResumeInv).                                                            *)
(***************************************************************************)
EXTENDS BlockingCall, TLAPS

Inside == {"calling", "called", "awaiting", "unwinding", "leaving"}

\* How far the body is shows in its frame, in the job and in the async's link.
BodyInv ==
  /\ body = "lazy" => frame = "start" /\ job = "await"
  /\ body \in Inside => frame = "body" /\ parent = Job /\ job = "waiting"
  /\ body = "over" => frame \in {"final", "destroyed"}
  /\ job = "resumed" => frame = "final" /\ kept = came
  /\ job \in {"resumed", "storing", "notify", "ended"} => body = "over" /\ came # "none"
  /\ link = "unmade" <=> body \in {"lazy", "calling"}
  /\ link = "valid" <=> body \in {"called", "awaiting", "unwinding"}
  /\ P!InAwait(Body) => body = "awaiting"
  /\ body \in {"lazy", "calling", "called", "awaiting"} => came = "none"
  /\ body \in {"unwinding", "leaving"} => came # "none"

\* The request has one call to set_value, which finds the promise empty; what
\* it stores is what the body is given, once.
HandshakeInv ==
  /\ spc[Request] \notin {"notify", "threw"} /\ op[Request].notify
  /\ spc[Request] # "idle" => called
  /\ spc[Request] \in {"idle", "emplace"} => value = "empty"
  /\ spc[Request] = "publish" => value = op[Request].result
  /\ "ready" \in state <=> spc[Request] \in {"resume", "returned"}
  /\ cpc[Body] \in {"resume", "read"} => "ready" \in state
  /\ "ready" \in state /\ got[Body] = "none" => value = op[Request].result
  /\ got[Body] # "none" => "ready" \in state /\ got[Body] = op[Request].result
  /\ P!InAwait(Body) \/ body = "called" \/ link = "unmade" => got[Body] = "none"
  /\ got[Body] # "none" => came \in {"none", op[Request].result}

\* Whoever is to use the promise has its pointer.
OwnersInv ==
  /\ alive <=> owners # {}
  /\ link = "unmade" => owners = {} /\ ~called
  /\ link = "valid" => "async" \in owners
  /\ body = "over" => "async" \notin owners
  /\ called /\ spc[Request] # "returned" => "callback" \in owners
  /\ "callback" \in owners => called

\* The caller's variable has nothing, or what the body ended with, but for the
\* emplace, which only a caller that peeked has seen.
WayUp ==
  /\ result = "partial" <=> job = "storing"
  /\ job \in {"storing", "notify", "ended"} => given = came
  /\ result \in P!Results => result = came /\ job \in {"notify", "ended"}
  /\ waiter = "taking" => result \in P!Results \/ expired \/ peeked
  /\ waiter = "reading" => result = "value" \/ expired \/ peeked
  /\ answer # "none" => waiter \in {"returned", "gone"}
  /\ answer \in P!Results => answer = came
  /\ answer = "timeout" => expired \/ peeked
  /\ answer \in {"badAccess", "torn"} => peeked
  /\ expired => Timed

\* sf_awaited stands for a handle of a coroutine that is suspended, or that
\* has been resumed and will clear it.
ResumeInv ==
  /\ "awaited" \in state => cpc[Body] \in {"suspended", "resume"}
  /\ cpc[Body] \in {"suspend", "suspended"} => awaiter = Body
  /\ cpc[Body] = "suspended" => "awaited" \in state
  /\ spc[Request] = "resume" => cpc[Body] = "suspended"
  /\ misfired = {}

IInv ==
  /\ TypeOK /\ BodyInv /\ HandshakeInv /\ OwnersInv /\ WayUp
  /\ OutlivesWait => ResumeInv

-----------------------------------------------------------------------------
(* Types *)

\* Nothing has happened yet.
LEMMA TypeInit == Init => TypeOK
<1> SUFFICES ASSUME Init PROVE TypeOK
  OBVIOUS
<1>1. /\ spc \in [{Request} -> P!SetterPC] /\ cpc \in [{Body} -> P!AwaitPC]
      /\ got \in [{Body} -> P!Values \cup {"none"}]
  BY DEF Init, P!SetterPC, P!AwaitPC
<1>2. op \in [{Request} -> [result : P!Results, notify : BOOLEAN]]
  BY DEF Init, P!Results
<1>3. P!TypeOK /\ C!TypeOK
  BY <1>1, <1>2 DEF Init, P!TypeOK, C!Init, C!TypeOK, P!Values
<1> QED
  BY <1>3 DEF Init, C!Init, TypeOK

\* The request's thread keeps the types.
LEMMA TypeRequest == TypeOK /\ (Answer \/ RequestStep) => TypeOK'
<1> SUFFICES ASSUME TypeOK, Answer \/ RequestStep PROVE TypeOK'
  OBVIOUS
<1> USE DEF P!Values, P!Results, P!Flags, P!SetterPC, P!AwaitPC, P!sharedVars, P!awaitVars
<1>1. CASE Answer
  <2>1. PICK r \in P!Results : P!BeginSet(Request, r, TRUE)
    BY <1>1, Zenon DEF Answer
  <2>2. [result |-> r, notify |-> TRUE] \in [result : P!Results, notify : BOOLEAN]
    OBVIOUS
  <2>3. /\ \/ /\ spc' = [spc EXCEPT ![Request] = "emplace"]
              /\ op' = [op EXCEPT ![Request] = [result |-> r, notify |-> TRUE]]
           \/ spc' = [spc EXCEPT ![Request] = "threw"] /\ op' = op
        /\ UNCHANGED <<value, state, awaiter, link, alive, cpc, got, misfired>>
    BY <2>1, Zenon DEF P!BeginSet, P!sharedVars, P!awaitVars
  <2>4. spc \in [{Request} -> P!SetterPC] /\ op \in [{Request} -> [result : P!Results, notify : BOOLEAN]]
    BY Zenon DEF TypeOK, P!TypeOK
  <2>5. spc' \in [{Request} -> P!SetterPC]
    BY <2>3, <2>4
  <2>6. op' \in [{Request} -> [result : P!Results, notify : BOOLEAN]]
    BY <2>2, <2>3, <2>4
  <2>7. P!TypeOK'
    BY <2>3, <2>5, <2>6, Zenon DEF TypeOK, P!TypeOK
  <2>8. UNCHANGED <<coroVars, bodyVars, jobVars, waitVars>>
    BY <1>1, Zenon DEF Answer
  <2> QED
    BY <2>7, <2>8 DEF TypeOK, C!TypeOK, coroVars, bodyVars, jobVars, waitVars
<1>2. CASE SetStep
  <2>1. runner' \in {"caller", "request"}
        /\ UNCHANGED <<coroVars, bodyVars, job, spawned, given, waitVars>>
    BY <1>2 DEF SetStep, TypeOK
  <2>2. P!TypeOK'
    <3> USE DEF TypeOK, P!TypeOK
    <3>1. CASE P!Emplace(Request)
      BY <3>1 DEF P!Emplace
    <3>2. CASE P!Publish(Request)
      BY <3>2 DEF P!Publish, P!Published, P!AfterPublish
    <3>3. CASE P!NotifyAwaiter(Request)
      BY <3>3 DEF P!NotifyAwaiter
    <3>4. CASE P!ResumeAwaiter(Request)
      BY <3>4 DEF P!ResumeAwaiter
    <3> QED
      BY <1>2, <3>1, <3>2, <3>3, <3>4 DEF SetStep, P!SetStep
  <2> QED
    BY <2>1, <2>2 DEF TypeOK, C!TypeOK, coroVars, bodyVars, waitVars
<1>3. CASE CallbackGone
  BY <1>3 DEF CallbackGone, Release, TypeOK, P!TypeOK, C!TypeOK, coroVars, jobVars, waitVars
<1> QED
  BY <1>1, <1>2, <1>3 DEF RequestStep

\* The body keeps the types: it ends with a result.
LEMMA TypeBody ==
  TypeOK /\ BodyInv /\ HandshakeInv /\ BodyStep => TypeOK'
<1> SUFFICES ASSUME TypeOK, BodyInv, HandshakeInv, BodyStep PROVE TypeOK'
  OBVIOUS
<1> USE DEF P!Values, P!Results, P!Flags, P!SetterPC, P!AwaitPC, P!sharedVars, P!setVars,
            P!awaitVars, promiseVars, coroVars, bodyVars, jobVars, waitVars
<1>1. CASE MakeCall \/ CallThrows
  <2>1. P!TypeOK'
    BY <1>1 DEF MakeCall, CallThrows, TypeOK, P!TypeOK
  <2>2. /\ UNCHANGED <<coroVars, jobVars, waitVars>>
        /\ called' \in BOOLEAN /\ owners' \subseteq {"async", "callback"}
        /\ body' \in {"called", "unwinding"} /\ came' \in P!Results \cup {"none"}
    BY <1>1 DEF MakeCall, CallThrows, Sharers, TypeOK
  <2> QED
    BY <2>1, <2>2 DEF TypeOK, C!TypeOK
<1>2. CASE BodyAwaits
  BY <1>2 DEF BodyAwaits, P!AwaitReady, TypeOK, P!TypeOK, C!TypeOK
<1>3. CASE BodySuspends
  <2>1. spawned' \in BOOLEAN
        /\ UNCHANGED <<coroVars, bodyVars, job, runner, given, waitVars>>
    BY <1>3 DEF BodySuspends, TypeOK
  <2>2. P!TypeOK'
    <3> USE DEF TypeOK, P!TypeOK
    <3>1. CASE P!StoreAwaiter(Body)
      BY <3>1 DEF P!StoreAwaiter
    <3>2. CASE P!AwaitSuspend(Body)
      BY <3>2 DEF P!AwaitSuspend, P!AfterAwait
    <3>3. CASE P!ClearAwaited(Body)
      BY <3>3 DEF P!ClearAwaited
    <3>4. CASE P!ReadValue(Body)
      BY <3>4 DEF P!ReadValue, P!AfterRead
    <3> QED
      BY <1>3, <3>1, <3>2, <3>3, <3>4 DEF BodySuspends, P!AwaitStep
  <2> QED
    BY <2>1, <2>2 DEF TypeOK, C!TypeOK
<1>4. CASE BodyDrops \/ BodyReturns
  <2>1. came' \in P!Results /\ body' = "unwinding" /\ P!TypeOK
        /\ UNCHANGED <<promiseVars, coroVars, called, owners, jobVars, waitVars>>
    BY <1>4 DEF BodyDrops, BodyReturns, HandshakeInv, TypeOK, P!TypeOK, C!Results
  <2>2. P!TypeOK'
    BY <2>1, Zenon DEF P!TypeOK
  <2> QED
    BY <2>1, <2>2 DEF TypeOK, C!TypeOK
<1>5. CASE AbandonAsync
  BY <1>5 DEF AbandonAsync, P!Abandon, TypeOK, P!TypeOK, C!TypeOK
<1>6. CASE ReleaseAsync
  BY <1>6 DEF ReleaseAsync, Release, TypeOK, P!TypeOK, C!TypeOK
<1>7. CASE BodyEnds
  <2>1. came \in P!Results
    BY <1>7 DEF BodyEnds, BodyInv, TypeOK
  <2>2. P!TypeOK'
    BY <1>7, Zenon DEF BodyEnds, TypeOK, P!TypeOK, promiseVars
  <2> QED
    BY <1>7, <2>1, <2>2 DEF BodyEnds, C!Finish, TypeOK, C!TypeOK, C!Results
<1> QED
  BY <1>1, <1>2, <1>3, <1>4, <1>5, <1>6, <1>7 DEF BodyStep

\* The job and the caller keep the types: the job stores a result.
LEMMA TypeWait ==
  TypeOK /\ BodyInv /\ (JobStep \/ WaiterStep \/ SpuriousWakeup \/ Expire) => TypeOK'
<1> SUFFICES ASSUME TypeOK, BodyInv, JobStep \/ WaiterStep \/ SpuriousWakeup \/ Expire
             PROVE  TypeOK'
  OBVIOUS
<1> USE DEF coroVars, bodyVars, jobVars, waitVars
<1>0. ASSUME UNCHANGED promiseVars PROVE P!TypeOK'
  BY <1>0, Zenon DEF TypeOK, P!TypeOK, promiseVars
<1>1. CASE JobAwaits \/ JobNotifies
  BY <1>0, <1>1 DEF JobAwaits, JobNotifies, C!Await, TypeOK, C!TypeOK
<1>2. CASE JobStores
  <2>1. kept \in P!Results
    BY <1>2 DEF JobStores, BodyInv, TypeOK
  <2> QED
    BY <1>0, <1>2, <2>1 DEF JobStores, C!Resume, C!AfterResume, TypeOK, C!TypeOK, C!Results, P!Results
<1>3. CASE JobStored
  BY <1>0, <1>3 DEF JobStored, TypeOK, C!TypeOK, P!Results
<1>4. CASE StartWaiting \/ Check \/ Block \/ Timeout \/ SpuriousWakeup \/ Expire
             \/ TakeException \/ TakeValue
  <2>1. UNCHANGED <<promiseVars, coroVars, bodyVars, jobVars, result>>
    BY <1>4, Zenon DEF StartWaiting, Check, Block, Timeout, SpuriousWakeup, Expire, TakeException,
                       TakeValue
  <2>2. /\ waiter' \in {"checking", "blocking", "blocked", "taking", "reading", "returned", waiter}
        /\ expired' \in BOOLEAN /\ peeked' \in BOOLEAN
        /\ answer' \in {answer, "value", "exception", "torn", "timeout", "badAccess"}
    BY <1>4 DEF StartWaiting, Check, Block, Timeout, SpuriousWakeup, Expire, TakeException,
                TakeValue, Look, Read, Absent, TypeOK
  <2> QED
    BY <1>0, <2>1, <2>2 DEF TypeOK, C!TypeOK, P!Results
<1>5. CASE Discard
  <2>1. P!TypeOK'
    BY <1>5 DEF Discard, Release, TypeOK, P!TypeOK, P!Flags, P!AwaitPC
  <2>2. /\ waiter' = "gone" /\ frame' = "destroyed" /\ body' = "over"
        /\ owners' \subseteq {"async", "callback"}
        /\ UNCHANGED <<parent, kept, called, came, jobVars, expired, result, answer, peeked>>
    BY <1>5 DEF Discard, C!Destroy, C!Destroyed, Release, TypeOK
  <2> QED
    BY <2>1, <2>2 DEF TypeOK, C!TypeOK
<1> QED
  BY <1>1, <1>2, <1>3, <1>4, <1>5 DEF JobStep, WaiterStep

-----------------------------------------------------------------------------
(* Effects of the steps of the promise *)

\* The request answers: throw_if_not_empty lets its only set call through.
LEMMA AnswerEffect ==
  ASSUME TypeOK, HandshakeInv, Answer
  PROVE  /\ called /\ spc[Request] = "idle" /\ spc'[Request] = "emplace"
         /\ op'[Request].notify /\ op'[Request].result \in P!Results
         /\ UNCHANGED <<value, state, awaiter, link, alive, cpc, got, misfired,
                         coroVars, bodyVars, jobVars, waitVars>>
<1>1. PICK r \in P!Results : P!BeginSet(Request, r, TRUE)
  BY Zenon DEF Answer
<1>2. /\ called /\ spc[Request] = "idle"
      /\ UNCHANGED <<coroVars, bodyVars, jobVars, waitVars>>
  BY Zenon DEF Answer
<1>3. P!IsEmpty
  BY <1>2 DEF HandshakeInv, P!IsEmpty
<1>4. /\ spc' = [spc EXCEPT ![Request] = "emplace"]
      /\ op' = [op EXCEPT ![Request] = [result |-> r, notify |-> TRUE]]
      /\ UNCHANGED <<value, state, awaiter, link, alive, cpc, got, misfired>>
  BY <1>1, <1>3, Zenon DEF P!BeginSet, P!sharedVars, P!awaitVars
<1>5. spc'[Request] = "emplace" /\ op'[Request] = [result |-> r, notify |-> TRUE]
  BY <1>4 DEF TypeOK, P!TypeOK
<1> QED
  BY <1>2, <1>4, <1>5

\* The set call stores the result, publishes it, and resumes the body if it is
\* registered.
LEMMA SetEffect ==
  ASSUME TypeOK, HandshakeInv, SetStep
  PROVE  /\ UNCHANGED <<awaiter, link, alive, op, got, coroVars, bodyVars, job, given, waitVars>>
         /\ \/ /\ spc[Request] = "emplace" /\ spc'[Request] = "publish"
               /\ value' = op[Request].result
               /\ UNCHANGED <<state, cpc, misfired>>
            \/ /\ spc[Request] = "publish" /\ state' = state \cup {"ready"}
               /\ "awaited" \in state => spc'[Request] = "resume"
               /\ "awaited" \notin state => spc'[Request] = "returned"
               /\ UNCHANGED <<value, cpc, misfired>>
            \/ /\ spc[Request] = "resume" /\ spc'[Request] = "returned"
               /\ UNCHANGED <<value, state>>
               /\ \/ /\ cpc[Body] = "suspended" /\ cpc'[Body] = "resume"
                     /\ misfired' = misfired
                  \/ /\ ~(awaiter = Body /\ cpc[Body] = "suspended")
                     /\ cpc' = cpc
<1> USE DEF P!sharedVars, P!awaitVars
<1>1. UNCHANGED <<coroVars, bodyVars, job, given, waitVars>>
  BY Zenon DEF SetStep
<1>2. spc \in [{Request} -> P!SetterPC] /\ cpc \in [{Body} -> P!AwaitPC]
  BY DEF TypeOK, P!TypeOK
<1>3. CASE P!Emplace(Request)
  BY <1>1, <1>2, <1>3 DEF P!Emplace
<1>4. CASE P!Publish(Request)
  <2>1. /\ spc[Request] = "publish" /\ state' = state \cup {"ready"}
        /\ UNCHANGED <<value, awaiter, link, alive, op, cpc, got, misfired>>
    BY <1>4, Zenon DEF P!Publish, P!Published
  <2>2. spc'[Request] = IF "awaited" \in state THEN "resume" ELSE "returned"
    BY <1>2, <1>4 DEF P!Publish, P!AfterPublish, HandshakeInv
  <2> QED
    BY <1>1, <2>1, <2>2
<1>5. CASE P!ResumeAwaiter(Request)
  <2>1. /\ spc[Request] = "resume" /\ spc'[Request] = "returned"
        /\ UNCHANGED <<value, state, awaiter, link, alive, op, got>>
    BY <1>2, <1>5 DEF P!ResumeAwaiter
  <2>2. CASE awaiter = Body /\ cpc[Body] = "suspended"
    BY <1>1, <1>2, <1>5, <2>1, <2>2 DEF P!ResumeAwaiter
  <2>3. CASE ~(awaiter = Body /\ cpc[Body] = "suspended")
    <3>1. ~(awaiter \in {Body} /\ cpc[awaiter] = "suspended")
      BY <2>3
    <3>2. cpc' = cpc
      BY <1>5, <3>1, Zenon DEF P!ResumeAwaiter
    <3> QED
      BY <1>1, <2>1, <2>3, <3>2
  <2> QED
    BY <2>2, <2>3
<1>6. ~P!NotifyAwaiter(Request)
  BY DEF HandshakeInv, P!NotifyAwaiter
<1> QED
  BY <1>3, <1>4, <1>5, <1>6, Zenon DEF SetStep, P!SetStep

\* The body begins its co_await, of an awaitable that is valid.
LEMMA AwaitsEffect ==
  ASSUME TypeOK, BodyInv, BodyAwaits
  PROVE  /\ body = "called" /\ body' = "awaiting" /\ ~P!InAwait(Body)
         /\ \/ "ready" \in state /\ cpc'[Body] = "resume"
            \/ "ready" \notin state /\ cpc'[Body] = "store"
         /\ UNCHANGED <<value, state, awaiter, link, alive, spc, op, got, misfired,
                         coroVars, called, owners, came, jobVars, waitVars>>
<1>1. link = "valid" /\ cpc \in [{Body} -> P!AwaitPC]
  BY DEF BodyAwaits, BodyInv, TypeOK, P!TypeOK
<1> QED
  BY <1>1 DEF BodyAwaits, P!AwaitReady, P!HasResult, P!sharedVars, P!setVars

\* It goes on with it: registers, suspends, or takes the result.
LEMMA SuspendsEffect ==
  ASSUME TypeOK, BodySuspends
  PROVE  /\ UNCHANGED <<link, alive, spc, op, misfired, coroVars, bodyVars, job, runner, given,
                         waitVars>>
         /\ \/ /\ cpc[Body] = "store" /\ cpc'[Body] = "suspend" /\ awaiter' = Body
               /\ UNCHANGED <<value, state, got>>
            \/ /\ cpc[Body] = "suspend" /\ state' = state \cup {"awaited"}
               /\ cpc'[Body] \in {"threw", "resume", "suspended"}
               /\ "awaited" \notin state => cpc'[Body] # "threw"
               /\ cpc'[Body] = "resume" <=> "awaited" \notin state /\ "ready" \in state
               /\ UNCHANGED <<value, awaiter, got>>
            \/ /\ cpc[Body] = "resume" /\ cpc'[Body] = "read" /\ state' = state \ {"awaited"}
               /\ UNCHANGED <<value, awaiter, got>>
            \/ /\ cpc[Body] = "read" /\ cpc'[Body] = "running" /\ got'[Body] = value
               /\ UNCHANGED <<state, awaiter>>
<1> USE DEF TypeOK, P!TypeOK, P!setVars
<1>1. UNCHANGED <<coroVars, bodyVars, job, runner, given, waitVars>>
  BY Zenon DEF BodySuspends
<1>2. CASE P!StoreAwaiter(Body)
  BY <1>1, <1>2 DEF P!StoreAwaiter
<1>3. CASE P!AwaitSuspend(Body)
  BY <1>1, <1>3 DEF P!AwaitSuspend, P!AfterAwait
<1>4. CASE P!ClearAwaited(Body)
  BY <1>1, <1>4 DEF P!ClearAwaited
<1>5. CASE P!ReadValue(Body)
  BY <1>1, <1>5 DEF P!ReadValue
<1> QED
  BY <1>2, <1>3, <1>4, <1>5, Zenon DEF BodySuspends, P!AwaitStep

\* The coroutine is destroyed when its job has ended or, if the caller does not
\* keep it, while it is suspended.
LEMMA DiscardEffect ==
  ASSUME TypeOK, BodyInv, Discard
  PROVE  /\ job = "ended" \/ (~OutlivesWait /\ body = "awaiting")
         /\ waiter = "returned" /\ waiter' = "gone" /\ body' = "over" /\ frame' = "destroyed"
         /\ cpc'[Body] = "running"
         /\ \/ /\ link = "valid" /\ link' = "abandoned" /\ owners' = owners \ {"async"}
               /\ state' = state \cup {"broken"} /\ alive' = (owners' # {})
            \/ link # "valid" /\ UNCHANGED <<state, link, alive, owners>>
         /\ UNCHANGED <<value, awaiter, spc, op, got, misfired, parent, kept, called, came,
                         jobVars, expired, result, answer, peeked>>
<1>1. cpc \in [{Body} -> P!AwaitPC]
  BY DEF TypeOK, P!TypeOK
<1>2. cpc[Body] = "suspended" => body = "awaiting"
  BY DEF BodyInv, P!InAwait
<1> QED
  BY <1>1, <1>2 DEF Discard, C!Destroy, C!Destroyed, Release

-----------------------------------------------------------------------------
(* The way of the result, whether or not the coroutine is kept *)

Chain == BodyInv /\ HandshakeInv /\ OwnersInv /\ WayUp

\* As long as job and caller do nothing, and the body only ends, the result is
\* where it was.
LEMMA WayUpKept ==
  ASSUME TypeOK, BodyInv, WayUp, UNCHANGED <<given, waitVars>>,
         came' = came \/ (came = "none" /\ came' \in P!Results),
         job' = job \/ {job, job'} \subseteq {"await", "waiting", "resumed"}
  PROVE  WayUp'
<1>1. answer \notin P!Results \/ came' = came
  BY DEF WayUp, P!Results
<1>2. result \notin P!Results \/ came' = came
  BY DEF WayUp, P!Results
<1>3. job \in {"storing", "notify", "ended"} => came' = came
  BY DEF BodyInv
<1> QED
  BY <1>1, <1>2, <1>3 DEF WayUp, waitVars

\* The request's thread: the callback's pointer lasts for its set call.
LEMMA ChainRequest == TypeOK /\ Chain /\ (Answer \/ RequestStep) => Chain'
<1> SUFFICES ASSUME TypeOK, Chain, Answer \/ RequestStep PROVE Chain'
  OBVIOUS
<1>0. WayUp'
  <2>1. UNCHANGED <<came, job, given, waitVars>>
    BY Zenon DEF Answer, RequestStep, SetStep, CallbackGone, bodyVars, jobVars
  <2> QED
    BY <2>1, WayUpKept DEF Chain
<1> USE <1>0 DEF Chain, BodyInv, HandshakeInv, OwnersInv, Inside, P!InAwait,
            coroVars, bodyVars, jobVars, waitVars
<1>1. CASE Answer
  BY <1>1, AnswerEffect
<1>2. CASE SetStep
  <2>1. op[Request].result \in P!Results /\ P!Results = {"value", "exception"}
    BY DEF TypeOK, P!TypeOK, P!Results
  <2> QED
    BY <1>2, <2>1, SetEffect
<1>3. CASE CallbackGone
  <2>1. /\ spc[Request] = "returned" /\ owners' = owners \ {"callback"} /\ alive' = (owners' # {})
        /\ UNCHANGED <<value, state, link, spc, op, cpc, got, coroVars, called, body, came,
                       jobVars, waitVars>>
    BY <1>3 DEF CallbackGone, Release
  <2> QED
    BY <2>1
<1> QED
  BY <1>1, <1>2, <1>3 DEF RequestStep

\* The body: it ends with what it was given, and releases the async.
LEMMA ChainBody == TypeOK /\ Chain /\ BodyStep => Chain'
<1> SUFFICES ASSUME TypeOK, Chain, BodyStep PROVE Chain'
  OBVIOUS
<1>0. WayUp'
  <2>1. UNCHANGED <<given, waitVars>>
    BY Zenon DEF BodyStep, MakeCall, CallThrows, BodyAwaits, BodySuspends, BodyDrops, BodyReturns,
       AbandonAsync, ReleaseAsync, BodyEnds, jobVars
  <2>2. came' = came \/ (came = "none" /\ came' \in P!Results)
    <3>1. CASE CallThrows \/ BodyDrops \/ BodyReturns
      BY <3>1 DEF CallThrows, BodyDrops, BodyReturns, Chain, BodyInv, HandshakeInv, TypeOK,
                  P!TypeOK, C!Results, P!Results
    <3>2. CASE MakeCall \/ BodyAwaits \/ BodySuspends \/ AbandonAsync \/ ReleaseAsync \/ BodyEnds
      BY <3>2, Zenon DEF MakeCall, BodyAwaits, BodySuspends, AbandonAsync, ReleaseAsync, BodyEnds,
                         bodyVars
    <3> QED
      BY <3>1, <3>2 DEF BodyStep
  <2>3. job' = job \/ {job, job'} \subseteq {"await", "waiting", "resumed"}
    <3>1. CASE BodyEnds
      BY <3>1 DEF BodyEnds, Chain, BodyInv, Inside
    <3>2. CASE ~BodyEnds
      BY <3>2, Zenon DEF BodyStep, MakeCall, CallThrows, BodyAwaits, BodySuspends, BodyDrops,
         BodyReturns, AbandonAsync, ReleaseAsync, jobVars
    <3> QED
      BY <3>1, <3>2
  <2> QED
    BY <2>1, <2>2, <2>3, WayUpKept DEF Chain
<1> USE <1>0 DEF Chain, BodyInv, HandshakeInv, OwnersInv, Inside, P!InAwait,
            promiseVars, coroVars, bodyVars, jobVars, waitVars
<1>1. CASE MakeCall
  BY <1>1 DEF MakeCall, Sharers
<1>2. CASE CallThrows
  BY <1>2 DEF CallThrows
<1>3. CASE BodyAwaits
  BY <1>3, AwaitsEffect
<1>4. CASE BodySuspends
  <2>1. op[Request].result \in {"value", "exception"}
    BY DEF TypeOK, P!TypeOK, P!Results
  <2>2. /\ body = "awaiting" /\ got[Body] = "none"
    BY <1>4, SuspendsEffect
  <2>3. "ready" \in state' <=> "ready" \in state
    BY <1>4, SuspendsEffect
  <2>4. UNCHANGED <<link, alive, spc, op, misfired, coroVars, bodyVars, job, runner, given, waitVars>>
    BY <1>4, SuspendsEffect
  <2>5. BodyInv' /\ OwnersInv'
    BY <2>2, <2>4
  <2>6. HandshakeInv'
    <3>1. CASE got' = got /\ value' = value
      BY <1>4, <2>2, <2>3, <2>4, <3>1, SuspendsEffect
    <3>2. CASE cpc[Body] = "read"
      BY <1>4, <2>1, <2>2, <2>3, <2>4, <3>2, SuspendsEffect
    <3> QED
      BY <1>4, <3>1, <3>2, SuspendsEffect
  <2> QED
    BY <2>5, <2>6
<1>5. CASE BodyDrops
  BY <1>5 DEF BodyDrops, C!Results
<1>6. CASE BodyReturns
  BY <1>6 DEF BodyReturns
<1>7. CASE AbandonAsync
  BY <1>7 DEF AbandonAsync, P!Abandon, P!setVars, P!awaitVars
<1>8. CASE ReleaseAsync
  BY <1>8 DEF ReleaseAsync, Release
<1>9. CASE BodyEnds
  BY <1>9 DEF BodyEnds, C!Finish
<1> QED
  BY <1>1, <1>2, <1>3, <1>4, <1>5, <1>6, <1>7, <1>8, <1>9 DEF BodyStep

\* A caller that looks sees what is in the variant, unless it is inside the
\* emplace, and then it has peeked.
LEMMA LookEffect ==
  ASSUME TypeOK, BodyInv, WayUp, Check \/ TakeException \/ TakeValue,
         UNCHANGED <<came, job, given, result, expired>>
  PROVE  WayUp'
<1> USE DEF P!Results
<1>1. /\ result \in {"none", "partial", "value", "exception"} /\ peeked \in BOOLEAN
      /\ expired \in BOOLEAN /\ given \in {"none", "value", "exception"}
  BY DEF TypeOK
<1>2. peeked' = (peeked \/ result = "partial")
  BY DEF Check, TakeException, TakeValue, Look
<1>3. CASE Check
  <2>1. waiter = "checking" /\ waiter' \in {"taking", "blocking"} /\ answer' = answer
    BY <1>3 DEF Check
  <2>2. waiter' = "taking" => result # "none" \/ expired
    BY <1>3 DEF Check, Index, GivesUp
  <2> QED
    BY <1>1, <1>2, <2>1, <2>2 DEF WayUp
<1>4. CASE TakeException
  <2>1. PICK i \in Index : IF i = "exception"
                             THEN waiter' = "returned" /\ answer' = Read(i)
                             ELSE waiter' = "reading" /\ answer' = answer
    BY <1>4, Zenon DEF TakeException
  <2>2. waiter = "taking"
    BY <1>4 DEF TakeException
  <2> QED
    BY <1>1, <1>2, <2>1, <2>2 DEF WayUp, Index, Read
<1>5. CASE TakeValue
  <2>1. PICK i \in Index : answer' = IF i = "value" THEN Read(i) ELSE Absent
    BY <1>5, Zenon DEF TakeValue
  <2>2. waiter = "reading" /\ waiter' = "returned"
    BY <1>5 DEF TakeValue
  <2> QED
    BY <1>1, <1>2, <2>1, <2>2 DEF WayUp, Index, Read, Absent
<1> QED
  BY <1>3, <1>4, <1>5

\* The job and the caller: the result is stored before it is taken.
LEMMA ChainWait ==
  TypeOK /\ Chain /\ (JobStep \/ WaiterStep \/ SpuriousWakeup \/ Expire) => Chain'
<1> SUFFICES ASSUME TypeOK, Chain, JobStep \/ WaiterStep \/ SpuriousWakeup \/ Expire
             PROVE  Chain'
  OBVIOUS
<1> USE DEF Chain, BodyInv, HandshakeInv, OwnersInv, WayUp, Inside, P!InAwait, P!Results,
            promiseVars, coroVars, bodyVars, jobVars, waitVars
<1>1. CASE JobAwaits
  <2>1. /\ frame = "start" /\ frame' = "body" /\ parent' = Job
        /\ job' = "waiting" /\ body' = "calling"
        /\ UNCHANGED <<promiseVars, kept, called, owners, came, runner, spawned, given, waitVars>>
    BY <1>1 DEF JobAwaits, C!Await
  <2>2. body = "lazy"
    BY <2>1 DEF TypeOK
  <2> QED
    BY <2>1, <2>2
<1>2. CASE JobStores
  <2>1. /\ job = "resumed" /\ job' = "storing" /\ result' = "partial" /\ given' = came
        /\ UNCHANGED <<promiseVars, frame, parent, bodyVars, runner, spawned, waiter, expired,
                       answer, peeked>>
    BY <1>2 DEF JobStores, C!Resume
  <2>2. BodyInv' /\ HandshakeInv' /\ OwnersInv'
    BY <2>1
  <2>3. result \notin P!Results
    BY <2>1
  <2>4. WayUp'
    BY <2>1, <2>3
  <2> QED
    BY <2>2, <2>4
<1>3. CASE JobStored
  <2>1. /\ job = "storing" /\ job' = "notify" /\ result' = came
        /\ UNCHANGED <<promiseVars, coroVars, bodyVars, runner, spawned, given, waiter, expired,
                       answer, peeked>>
    BY <1>3 DEF JobStored
  <2>2. came \in P!Results
    BY <2>1 DEF TypeOK
  <2> QED
    BY <2>1, <2>2
<1>4. CASE JobNotifies
  BY <1>4 DEF JobNotifies
<1>5. CASE StartWaiting \/ Block \/ Timeout \/ SpuriousWakeup \/ Expire
  <2>1. UNCHANGED <<promiseVars, coroVars, bodyVars, jobVars, result>>
    BY <1>5, Zenon DEF StartWaiting, Block, Timeout, SpuriousWakeup, Expire
  <2>2. WayUp'
    BY <1>5, <2>1 DEF StartWaiting, Block, Timeout, SpuriousWakeup, Expire
  <2> QED
    BY <2>1, <2>2
<1>6. CASE Check \/ TakeException \/ TakeValue
  <2>1. UNCHANGED <<promiseVars, coroVars, bodyVars, jobVars, result, expired>>
    BY <1>6, Zenon DEF Check, TakeException, TakeValue
  <2>2. WayUp'
    BY <1>6, <2>1, LookEffect
  <2> QED
    BY <2>1, <2>2
<1>7. CASE Discard
  <2>1. /\ UNCHANGED <<value, spc, op, got, called, came, job, result, expired, answer>>
        /\ body' = "over" /\ frame' = "destroyed" /\ cpc'[Body] = "running"
        /\ waiter' = "gone"
        /\ "ready" \in state' <=> "ready" \in state
    BY <1>7, DiscardEffect
  <2>0. WayUp'
    <3>1. waiter = "returned" /\ waiter' = "gone"
          /\ UNCHANGED <<came, jobVars, expired, result, answer, peeked>>
      BY <1>7, DiscardEffect
    <3> QED
      BY <3>1
  <2> HIDE DEF WayUp
  <2>2. CASE job = "ended"
    <3>1. body = "over" /\ UNCHANGED <<link, alive, owners>>
      BY <1>7, <2>2, DiscardEffect
    <3> QED
      BY <2>0, <2>1, <2>2, <3>1
  <2>3. CASE body = "awaiting"
    <3>1. link' = "abandoned" /\ owners' = owners \ {"async"} /\ alive' = (owners' # {})
      BY <1>7, <2>3, DiscardEffect
    <3> QED
      BY <2>0, <2>1, <2>3, <3>1
  <2> QED
    BY <1>7, <2>2, <2>3, DiscardEffect
<1> QED
  BY <1>1, <1>2, <1>3, <1>4, <1>5, <1>6, <1>7 DEF JobStep, WaiterStep

-----------------------------------------------------------------------------
(* The setter and the suspended body, where the coroutine is kept *)

\* Whoever comes second of answer and co_await sees the other: sf_awaited is
\* raised for as long as the handle is of a coroutine that can be resumed.
LEMMA ResumeStep ==
  OutlivesWait /\ TypeOK /\ Chain /\ ResumeInv /\ [Next]_vars => ResumeInv'
<1> SUFFICES ASSUME OutlivesWait, TypeOK, Chain, ResumeInv, [Next]_vars PROVE ResumeInv'
  OBVIOUS
<1>1. cpc[Body] \in P!AwaitPC /\ spc[Request] \in P!SetterPC
  BY DEF TypeOK, P!TypeOK
<1>2. /\ "ready" \in state <=> spc[Request] \in {"resume", "returned"}
      /\ cpc[Body] \in {"resume", "read"} => "ready" \in state
  BY DEF Chain, HandshakeInv
<1>3. P!InAwait(Body) => body = "awaiting"
  BY DEF Chain, BodyInv
<1>4. ASSUME UNCHANGED <<awaiter, spc, cpc, misfired>>, "awaited" \in state' => "awaited" \in state,
             state \subseteq state'
      PROVE  ResumeInv'
  BY <1>4 DEF ResumeInv
<1> USE DEF promiseVars
<1>5. CASE Answer
  <2>1. spc'[Request] = "emplace" /\ UNCHANGED <<state, awaiter, cpc, misfired>>
    BY <1>5, AnswerEffect DEF Chain
  <2> QED
    BY <2>1 DEF ResumeInv
<1>6. CASE SetStep
  <2>1. HandshakeInv
    BY DEF Chain
  <2>2. awaiter' = awaiter
    BY <1>6, <2>1, SetEffect
  <2>3. CASE spc[Request] = "resume"
    <3>1. cpc'[Body] = "resume" /\ UNCHANGED <<state, misfired>> /\ spc'[Request] = "returned"
      BY <1>6, <2>1, <2>3, SetEffect DEF ResumeInv
    <3> QED
      BY <2>2, <3>1 DEF ResumeInv
  <2>4. CASE spc[Request] = "publish"
    <3>1. /\ state' = state \cup {"ready"} /\ UNCHANGED <<cpc, misfired>>
          /\ spc'[Request] = "resume" => "awaited" \in state
      BY <1>6, <2>1, <2>4, SetEffect
    <3>2. cpc[Body] # "resume"
      BY <1>2, <2>4
    <3> QED
      BY <2>2, <3>1, <3>2 DEF ResumeInv
  <2>5. CASE spc[Request] = "emplace"
    BY <1>6, <2>1, <2>2, <2>5, SetEffect DEF ResumeInv
  <2> QED
    BY <1>6, <2>1, <2>3, <2>4, <2>5, SetEffect
<1>7. CASE BodyAwaits
  <2>1. ~P!InAwait(Body) /\ UNCHANGED <<state, awaiter, spc, misfired>>
        /\ cpc'[Body] \in {"resume", "store"}
    BY <1>7, AwaitsEffect DEF Chain
  <2> QED
    BY <2>1 DEF ResumeInv, P!InAwait
<1>8. CASE BodySuspends
  BY <1>1, <1>2, <1>8, SuspendsEffect DEF ResumeInv
<1>9. CASE Discard
  <2>1. body = "over" /\ ~P!InAwait(Body)
    BY <1>3, <1>9, DiscardEffect DEF Chain, BodyInv
  <2>2. /\ cpc'[Body] = "running" /\ UNCHANGED <<awaiter, spc, misfired>>
        /\ "awaited" \in state' => "awaited" \in state
    BY <1>9, DiscardEffect DEF Chain
  <2> QED
    BY <2>1, <2>2 DEF ResumeInv, P!InAwait
<1>10. CASE CallbackGone
  BY <1>4, <1>10 DEF CallbackGone
<1>11. CASE MakeCall \/ CallThrows \/ BodyDrops \/ BodyReturns \/ ReleaseAsync \/ BodyEnds
  BY <1>4, <1>11 DEF MakeCall, CallThrows, BodyDrops, BodyReturns, ReleaseAsync, BodyEnds
<1>12. CASE AbandonAsync
  BY <1>4, <1>12 DEF AbandonAsync, P!Abandon, P!setVars, P!awaitVars
<1>13. CASE JobStep \/ StartWaiting \/ Check \/ Block \/ Timeout \/ TakeException \/ TakeValue
              \/ SpuriousWakeup \/ Expire
  <2>1. UNCHANGED promiseVars
    BY <1>13, Zenon DEF JobStep, JobAwaits, JobStores, JobStored, JobNotifies, StartWaiting,
                        Check, Block, Timeout, TakeException, TakeValue, SpuriousWakeup, Expire
  <2> QED
    BY <1>4, <2>1
<1>14. CASE UNCHANGED vars
  BY <1>4, <1>14 DEF vars
<1> QED
  BY <1>5, <1>6, <1>7, <1>8, <1>9, <1>10, <1>11, <1>12, <1>13, <1>14, Zenon
  DEF Next, RequestStep, BodyStep, WaiterStep

-----------------------------------------------------------------------------
(* Theorems *)

\* Before the call is made there is nothing to use and nothing to answer.
LEMMA InvInit == Init => IInv
<1> SUFFICES ASSUME Init PROVE IInv
  OBVIOUS
<1>1. BodyInv /\ HandshakeInv
  BY DEF Init, C!Init, BodyInv, HandshakeInv, Inside, P!InAwait
<1>2. OwnersInv /\ WayUp /\ ResumeInv
  BY DEF Init, OwnersInv, WayUp, ResumeInv, P!Results
<1> QED
  BY <1>1, <1>2, TypeInit DEF IInv

\* Every step keeps the invariant.
LEMMA InvStep == IInv /\ [Next]_vars => IInv'
<1> SUFFICES ASSUME IInv, [Next]_vars PROVE IInv'
  OBVIOUS
<1>1. TypeOK /\ Chain /\ BodyInv /\ HandshakeInv
  BY DEF IInv, Chain
<1>2. ASSUME UNCHANGED vars PROVE TypeOK' /\ Chain'
  <2>1. TypeOK'
    BY <1>1, <1>2 DEF TypeOK, P!TypeOK, C!TypeOK, vars, promiseVars, coroVars, bodyVars, jobVars,
                      waitVars
  <2>2. Chain'
    BY <1>1, <1>2 DEF Chain, BodyInv, HandshakeInv, OwnersInv, WayUp, Inside, P!InAwait, vars,
                      promiseVars, coroVars, bodyVars, jobVars, waitVars
  <2> QED
    BY <2>1, <2>2
<1>3. TypeOK' /\ Chain'
  BY <1>1, <1>2, TypeRequest, TypeBody, TypeWait, ChainRequest, ChainBody, ChainWait, Zenon DEF Next
<1>4. OutlivesWait => ResumeInv'
  BY <1>1, ResumeStep, Zenon DEF IInv
<1> QED
  BY <1>3, <1>4, Zenon DEF IInv, Chain

\* The invariant, type correctness included, holds with and without a time
\* limit, whatever the caller does with the coroutine.
THEOREM Invariance == Spec => []IInv
  BY InvInit, InvStep, PTL DEF Spec

\* sync_wait makes nothing up: what it gives as the outcome is what the body
\* ended with, which is what the request was answered with; an empty answer
\* means that the time has passed, or that the caller looked into the emplace,
\* as does any answer that is neither.
THEOREM AnswerIsTrue == Spec => []AnswerIsOutcome
<1>1. IInv => AnswerIsOutcome
  BY DEF IInv, WayUp, HandshakeInv, AnswerIsOutcome
<1> QED
  BY Invariance, <1>1, PTL

\* The promise outlives set_value, the co_await and the async, even where the
\* coroutine is destroyed while it waits.
THEOREM PromiseLives == Spec => []PromiseOutlivesUsers
<1>1. IInv => PromiseOutlivesUsers
  <2> SUFFICES ASSUME IInv, ~alive PROVE ~P!InSet(Request) /\ ~P!InAwait(Body) /\ link # "valid"
    BY DEF PromiseOutlivesUsers
  <2>1. owners = {} /\ link # "valid"
    BY DEF IInv, OwnersInv
  <2>2. ~P!InAwait(Body)
    BY <2>1 DEF IInv, BodyInv
  <2>3. ~P!InSet(Request)
    BY <2>1 DEF IInv, OwnersInv, HandshakeInv, P!InSet
  <2> QED
    BY <2>1, <2>2, <2>3
<1> QED
  BY Invariance, <1>1, PTL

\* A caller that keeps the coroutine until its job has ended never has it
\* resumed where it is not suspended, however late the answer comes.
THEOREM LateAnswerIsSafe == OutlivesWait => (Spec => []GoneIsNotNotified)
<1> SUFFICES ASSUME OutlivesWait PROVE Spec => []GoneIsNotNotified
  OBVIOUS
<1>1. IInv => GoneIsNotNotified
  BY DEF IInv, ResumeInv, GoneIsNotNotified
<1> QED
  BY Invariance, <1>1, PTL

-----------------------------------------------------------------------------
(* The future *)

\* Where the caller has nothing to wait for, or has it.
Idle == waiter = "spawning" \/ Taken

\* What the body ended with and what the caller knows of it say it all.
LEMMA Stutters ==
  ASSUME came' = came, answer' = answer, Idle' <=> Idle
  PROVE  UNCHANGED F!vars
<1>1. (IF Idle' THEN {} ELSE {"caller"}) = (IF Idle THEN {} ELSE {"caller"})
  OBVIOUS
<1>2. Taken' <=> Taken
  BY DEF Taken
<1>3. F!vars' = F!vars
  BY <1>1, <1>2 DEF F!vars, Idle
<1> QED
  BY <1>3

\* The body settles the outcome; nobody has been answered yet.
LEMMA Settles ==
  ASSUME IInv, came = "none", came' \in P!Results, UNCHANGED <<waiter, answer>>
  PROVE  F!Next
<1>1. answer \notin P!Results /\ (Taken' <=> Taken)
  BY DEF IInv, WayUp, P!Results, TypeOK, Taken
<1>2. (IF Idle' THEN {} ELSE {"caller"}) = (IF Idle THEN {} ELSE {"caller"})
  BY <1>1 DEF Idle
<1>3. F!Settle(came') /\ came' \in F!Results
  BY <1>1, <1>2 DEF F!Settle, F!Results, P!Results, Idle
<1> QED
  BY <1>3 DEF F!Next

\* The request's thread and the job do not show in the future, and of the steps
\* of the body only the one that ends it.
LEMMA UpRefines ==
  ASSUME IInv, Answer \/ RequestStep \/ BodyStep \/ JobStep
  PROVE  F!Next \/ UNCHANGED F!vars
<1>1. UNCHANGED <<answer, expired>> /\ (waiter' = waiter \/ (waiter = "blocked" /\ waiter' = "checking"))
  BY Zenon DEF Answer, RequestStep, SetStep, CallbackGone, BodyStep, MakeCall, CallThrows,
     BodyAwaits, BodySuspends, BodyDrops, BodyReturns, AbandonAsync, ReleaseAsync, BodyEnds,
     JobStep, JobAwaits, JobStores, JobStored, JobNotifies, waitVars
<1>2. CASE CallThrows \/ BodyDrops \/ BodyReturns
  <2>1. came = "none" /\ UNCHANGED <<waiter, answer>>
    BY <1>2 DEF CallThrows, BodyDrops, BodyReturns, IInv, BodyInv, waitVars
  <2>2. came' \in P!Results
    <3>1. CASE CallThrows \/ BodyDrops
      BY <3>1 DEF CallThrows, BodyDrops, P!Results, C!Results
    <3>2. CASE BodyReturns
      BY <3>2 DEF BodyReturns, IInv, TypeOK, P!TypeOK, HandshakeInv
    <3> QED
      BY <1>2, <3>1, <3>2
  <2> QED
    BY <2>1, <2>2, Settles
<1>3. ASSUME came' = came PROVE UNCHANGED F!vars
  BY <1>1, <1>3, Stutters DEF Idle, Taken
<1>4. CASE Answer \/ RequestStep \/ JobStep
  <2>1. came' = came
    BY <1>4, Zenon DEF Answer, RequestStep, SetStep, CallbackGone, JobStep, JobAwaits, JobStores,
       JobStored, JobNotifies, bodyVars
  <2> QED
    BY <1>3, <2>1
<1>5. CASE MakeCall \/ BodyAwaits \/ BodySuspends \/ AbandonAsync \/ ReleaseAsync \/ BodyEnds
  <2>1. came' = came
    BY <1>5, Zenon DEF MakeCall, BodyAwaits, BodySuspends, AbandonAsync, ReleaseAsync, BodyEnds,
       bodyVars
  <2> QED
    BY <1>3, <2>1
<1> QED
  BY <1>2, <1>4, <1>5 DEF BodyStep

\* The caller begins to wait, and takes the outcome or gives up.
LEMMA CallerRefines ==
  ASSUME IInv, ~peeked', WaiterStep \/ SpuriousWakeup \/ Expire
  PROVE  F!Next \/ UNCHANGED F!vars
<1>1. came' = came
  BY Zenon DEF WaiterStep, StartWaiting, Check, Block, Timeout, TakeException, TakeValue, Discard,
     SpuriousWakeup, Expire, bodyVars
<1>2. CASE StartWaiting
  <2>1. waiter = "spawning" /\ waiter' = "checking" /\ answer' = answer /\ answer = "none"
    BY <1>2 DEF StartWaiting, IInv, WayUp
  <2>2. F!Await("caller")
    BY <1>1, <2>1 DEF F!Await, Taken, P!Results
  <2> QED
    BY <2>2 DEF F!Next
<1>3. CASE TakeException \/ TakeValue
  <2>1. /\ waiter \in {"taking", "reading"} /\ waiter' \in {"reading", "returned"}
        /\ answer = "none" /\ result # "partial"
    BY <1>3 DEF TakeException, TakeValue, Look, IInv, WayUp, TypeOK
  <2>2. \/ answer' \in {"none", "timeout", "badAccess"}
        \/ answer' = result /\ result \in P!Results
    BY <1>3, <2>1 DEF TakeException, TakeValue, Index, Read, Absent, P!Results
  <2>3. CASE answer' \in {"none", "timeout", "badAccess"}
    <3>1. ~Taken /\ ~Taken' /\ ~Idle /\ ~Idle'
      BY <2>1, <2>3 DEF Taken, Idle, P!Results
    <3>2. answer # "value" /\ answer' # "value"
      BY <2>1, <2>3
    <3> QED
      BY <1>1, <3>1, <3>2 DEF F!vars, Idle
  <2>4. CASE answer' = result /\ result \in P!Results
    <3>1. answer' = came /\ came \in P!Results
      BY <2>4 DEF IInv, WayUp
    <3>2. F!Deliver("caller")
      BY <1>1, <2>1, <3>1 DEF F!Deliver, F!AfterRead, P!Results, Taken
    <3> QED
      BY <3>2 DEF F!Next
  <2> QED
    BY <2>2, <2>3, <2>4
<1>4. CASE Check \/ Block \/ Timeout \/ Discard \/ SpuriousWakeup \/ Expire
  <2>1. answer' = answer /\ (waiter = "spawning" <=> waiter' = "spawning")
    BY <1>4 DEF Check, Block, Timeout, Discard, SpuriousWakeup, Expire
  <2> QED
    BY <1>1, <2>1, Stutters DEF Idle, Taken
<1> QED
  BY <1>2, <1>3, <1>4 DEF WaiterStep

\* Nothing is settled and nobody waits.
LEMMA InitRefines == Init => F!Init
  BY DEF Init, F!Init, P!Results, Taken

\* Every step of the chain is one of the future or invisible to it, unless the
\* caller looks into the emplace.
LEMMA StepRefines == IInv /\ ~peeked' /\ [Next]_vars => [F!Next]_F!vars
<1> SUFFICES ASSUME IInv, ~peeked', [Next]_vars PROVE [F!Next]_F!vars
  OBVIOUS
<1>1. CASE UNCHANGED vars
  BY <1>1, Stutters DEF vars, bodyVars, waitVars, Idle, Taken
<1> QED
  BY <1>1, UpRefines, CallerRefines DEF Next

\* From the request's answer to the thread that blocks for it, the chain of
\* promise, async, coroutine and job is one one-shot future again, for a caller
\* that does not look into the emplace: with or without a time limit, and also
\* where the coroutine dies with its wait.
THEOREM Refinement == Spec => ImplementsFuture
  BY Invariance, InitRefines, StepRefines, PTL DEF Spec, ImplementsFuture, F!SafeSpec
=============================================================================
