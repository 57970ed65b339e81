--------------------------- MODULE Promise_proofs ---------------------------
(***************************************************************************)
(* Proofs about Promise for any sets of setter threads and coroutines.     *)
(* The handshake is safe when its users keep the contract that Contract    *)
(* states: set calls that notify, no two at once, one co_await at a time.  *)
(***************************************************************************)
EXTENDS Promise, TLAPS

\* No two set calls at once, no two co_await at once, and no set call with
\* Notify = false.
Contract == SerialSet /\ SerialAwait /\ NotifyModes = {TRUE}

OneSetter  == \A s, t \in Setters : InSet(s) /\ InSet(t) => s = t
OneAwaiter == \A c, d \in Coroutines : InAwait(c) /\ InAwait(d) => c = d

\* What a setter may rely on at each of its steps.
SetterPhase ==
  \A s \in Setters :
    /\ spc[s] # "notify"
    /\ InSet(s) => op[s].notify
    /\ spc[s] = "emplace" => value = "empty" /\ "ready" \notin state
    /\ spc[s] = "publish" => value \in Results /\ "ready" \notin state
    /\ spc[s] = "resume" => /\ "ready" \in state
                            /\ \E c \in Coroutines : cpc[c] = "suspended" /\ awaiter = c

\* What a coroutine may rely on at each step of its co_await.
AwaitPhase ==
  \A c \in Coroutines :
    /\ cpc[c] = "store" => "awaited" \notin state
    /\ cpc[c] = "suspend" => "awaited" \notin state /\ awaiter = c
    /\ cpc[c] = "suspended" =>
         /\ awaiter = c
         /\ "awaited" \in state
         /\ "ready" \in state => \E s \in Setters : spc[s] = "resume"
    /\ cpc[c] \in {"resume", "read"} => "ready" \in state
    /\ got[c] # "none" => "ready" \in state

\* A published result is there, and sf_awaited is raised by a coroutine that
\* has not yet cleared it.
FlagsMean ==
  /\ "ready" \in state => value # "empty"
  /\ "awaited" \in state => \E c \in Coroutines : cpc[c] \in {"suspended", "resume"}

\* The awaitable is not destroyed under a co_await, nor the promise under a
\* set call.
Lifetimes ==
  /\ link = "abandoned" => \A c \in Coroutines : ~InAwait(c)
  /\ ~alive => link = "abandoned" /\ \A s \in Setters : ~InSet(s)

HandshakeInv ==
  /\ TypeOK
  /\ OneSetter
  /\ OneAwaiter
  /\ SetterPhase
  /\ AwaitPhase
  /\ FlagsMean
  /\ Lifetimes
  /\ misfired = {}

-----------------------------------------------------------------------------
\* No step of either end leaves a variable outside its type.
LEMMA TypeStep == ASSUME TypeOK, [Next]_vars PROVE TypeOK'
<1> USE PromiseAssumption DEF TypeOK, Flags, Results, Values, SetterPC, AwaitPC
<1>1. ASSUME NEW s \in Setters, NEW r \in Results, NEW n \in NotifyModes,
             BeginSet(s, r, n)
      PROVE  TypeOK'
  BY <1>1 DEF BeginSet, sharedVars, awaitVars
<1>2. ASSUME NEW s \in Setters, Emplace(s) PROVE TypeOK'
  BY <1>2 DEF Emplace, awaitVars
<1>3. ASSUME NEW s \in Setters, Publish(s) PROVE TypeOK'
  BY <1>3 DEF Publish, AfterPublish, Published, awaitVars
<1>4. ASSUME NEW s \in Setters, NotifyAwaiter(s) PROVE TypeOK'
  BY <1>4 DEF NotifyAwaiter, sharedVars, awaitVars
<1>5. ASSUME NEW s \in Setters, ResumeAwaiter(s) PROVE TypeOK'
  BY <1>5 DEF ResumeAwaiter, sharedVars
<1>6. ASSUME NEW c \in Coroutines, AwaitReady(c) PROVE TypeOK'
  BY <1>6 DEF AwaitReady, sharedVars, setVars
<1>7. ASSUME NEW c \in Coroutines, StoreAwaiter(c) PROVE TypeOK'
  BY <1>7 DEF StoreAwaiter, setVars
<1>8. ASSUME NEW c \in Coroutines, AwaitSuspend(c) PROVE TypeOK'
  BY <1>8 DEF AwaitSuspend, AfterAwait, setVars
<1>9. ASSUME NEW c \in Coroutines, ClearAwaited(c) PROVE TypeOK'
  BY <1>9 DEF ClearAwaited, setVars
<1>10. ASSUME NEW c \in Coroutines, ReadValue(c) PROVE TypeOK'
  BY <1>10 DEF ReadValue, AfterRead, setVars
<1>11. CASE GetAwaitable
  BY <1>11 DEF GetAwaitable, setVars, awaitVars
<1>12. CASE Abandon
  BY <1>12 DEF Abandon, setVars, awaitVars
<1>13. CASE DestroyPromise
  BY <1>13 DEF DestroyPromise, setVars, awaitVars
<1>14. CASE UNCHANGED vars
  BY <1>14 DEF vars
<1>15. QED
  BY <1>1, <1>2, <1>3, <1>4, <1>5, <1>6, <1>7, <1>8, <1>9, <1>10, <1>11,
     <1>12, <1>13, <1>14 DEF Next, SetStep, AwaitStep

\* Every variable stays in its type, whatever the users of the promise do.
THEOREM TypeCorrect == Spec => []TypeOK
<1>1. Init => TypeOK
  BY PromiseAssumption DEF Init, TypeOK, Flags, Results, Values, SetterPC, AwaitPC
<1>2. TypeOK /\ [Next]_vars => TypeOK'
  BY TypeStep
<1>3. QED
  BY <1>1, <1>2, PTL DEF Spec

-----------------------------------------------------------------------------
\* The empty promise satisfies the invariant.
LEMMA InvInit == Init => HandshakeInv
  BY PromiseAssumption
  DEF Init, HandshakeInv, TypeOK, Flags, Results, Values, SetterPC, AwaitPC,
      OneSetter, OneAwaiter, SetterPhase, AwaitPhase, FlagsMean, Lifetimes,
      InSet, InAwait

\* Every step of the handshake keeps the invariant, as long as its users keep
\* the contract.
LEMMA InvStep ==
  ASSUME Contract, HandshakeInv, [Next]_vars PROVE HandshakeInv'
<1>1. TypeOK'
  BY TypeStep DEF HandshakeInv
<1> USE PromiseAssumption DEF HandshakeInv, TypeOK, OneSetter, OneAwaiter,
        SetterPhase, AwaitPhase, FlagsMean, Lifetimes, InSet, InAwait
<1>2. ASSUME NEW s \in Setters, NEW r \in Results, NEW n \in NotifyModes,
             BeginSet(s, r, n)
      PROVE  HandshakeInv'
  <2>1. /\ n = TRUE
        /\ \A t \in Setters : ~InSet(t)
    BY <1>2 DEF BeginSet, Contract
  <2>2. UNCHANGED <<value, state, awaiter, link, alive, cpc, got, misfired>>
    BY <1>2 DEF BeginSet, sharedVars, awaitVars
  <2>3. CASE IsEmpty
    <3>1. /\ spc' = [spc EXCEPT ![s] = "emplace"]
          /\ op' = [op EXCEPT ![s] = [result |-> r, notify |-> n]]
          /\ alive
      BY <1>2, <2>3 DEF BeginSet
    <3>2. SetterPhase'
      BY <2>1, <2>2, <2>3, <3>1 DEF IsEmpty
    <3>3. QED
      BY <1>1, <2>1, <2>2, <3>1, <3>2
  <2>4. CASE ~IsEmpty
    <3>1. spc' = [spc EXCEPT ![s] = "threw"] /\ op' = op
      BY <1>2, <2>4 DEF BeginSet
    <3>2. QED
      BY <1>1, <2>1, <2>2, <3>1
  <2>5. QED
    BY <2>3, <2>4
<1>3. ASSUME NEW s \in Setters, Emplace(s) PROVE HandshakeInv'
  BY <1>1, <1>3 DEF Emplace, awaitVars, Results
<1>4. ASSUME NEW s \in Setters, Publish(s) PROVE HandshakeInv'
  <2>1. /\ UNCHANGED <<value, awaiter, link, alive, op, cpc, got, misfired>>
        /\ state' = state \cup {"ready"}
        /\ spc[s] = "publish"
        /\ spc' = [spc EXCEPT ![s] = AfterPublish(op[s].notify, state)]
    BY <1>4 DEF Publish, Published, awaitVars
  <2>2. /\ \A c \in Coroutines : cpc[c] \notin {"resume", "read"}
        /\ \A t \in Setters \ {s} : ~InSet(t)
        /\ op[s].notify
    BY <2>1
  <2>3. CASE "awaited" \in state
    <3>1. spc' = [spc EXCEPT ![s] = "resume"]
      BY <2>1, <2>2, <2>3 DEF AfterPublish
    <3>2. PICK c \in Coroutines : cpc[c] = "suspended" /\ awaiter = c
      BY <2>2, <2>3
    <3>3. SetterPhase'
      BY <2>1, <2>2, <3>1, <3>2
    <3>4. AwaitPhase'
      BY <2>1, <2>2, <3>1
    <3>5. FlagsMean'
      BY <2>1, <3>2 DEF Results
    <3>6. OneSetter' /\ OneAwaiter' /\ Lifetimes' /\ misfired' = {}
      BY <2>1, <2>2, <3>1
    <3>7. QED
      BY <1>1, <3>3, <3>4, <3>5, <3>6
  <2>4. CASE "awaited" \notin state
    <3>1. spc' = [spc EXCEPT ![s] = "returned"]
      BY <2>1, <2>2, <2>4 DEF AfterPublish
    <3>2. AwaitPhase'
      BY <2>1, <2>2, <2>4, <3>1
    <3>3. FlagsMean'
      BY <2>1, <2>4 DEF Results
    <3>4. OneSetter' /\ SetterPhase' /\ OneAwaiter' /\ Lifetimes' /\ misfired' = {}
      BY <2>1, <2>2, <3>1
    <3>5. QED
      BY <1>1, <3>2, <3>3, <3>4
  <2>5. QED
    BY <2>3, <2>4
<1>5. ASSUME NEW s \in Setters, NotifyAwaiter(s) PROVE HandshakeInv'
  BY <1>5 DEF NotifyAwaiter
<1>6. ASSUME NEW s \in Setters, ResumeAwaiter(s) PROVE HandshakeInv'
  BY <1>1, <1>6 DEF ResumeAwaiter, sharedVars
<1>7. ASSUME NEW c \in Coroutines, AwaitReady(c) PROVE HandshakeInv'
  BY <1>1, <1>7 DEF AwaitReady, HasResult, Contract, sharedVars, setVars
<1>8. ASSUME NEW c \in Coroutines, StoreAwaiter(c) PROVE HandshakeInv'
  BY <1>1, <1>8 DEF StoreAwaiter, setVars
<1>9. ASSUME NEW c \in Coroutines, AwaitSuspend(c) PROVE HandshakeInv'
  BY <1>1, <1>9 DEF AwaitSuspend, AfterAwait, setVars
<1>10. ASSUME NEW c \in Coroutines, ClearAwaited(c) PROVE HandshakeInv'
  BY <1>1, <1>10 DEF ClearAwaited, setVars
<1>11. ASSUME NEW c \in Coroutines, ReadValue(c) PROVE HandshakeInv'
  BY <1>1, <1>11 DEF ReadValue, AfterRead, setVars
<1>12. CASE GetAwaitable
  BY <1>1, <1>12 DEF GetAwaitable, setVars, awaitVars
<1>13. CASE Abandon
  BY <1>1, <1>13 DEF Abandon, setVars, awaitVars
<1>14. CASE DestroyPromise
  BY <1>1, <1>14 DEF DestroyPromise, setVars, awaitVars
<1>15. CASE UNCHANGED vars
  BY <1>1, <1>15 DEF vars
<1>16. QED
  BY <1>2, <1>3, <1>4, <1>5, <1>6, <1>7, <1>8, <1>9, <1>10, <1>11, <1>12,
     <1>13, <1>14, <1>15 DEF Next, SetStep, AwaitStep

\* The invariant holds in every reachable state.
THEOREM Handshake == ASSUME Contract PROVE Spec => []HandshakeInv
<1>1. HandshakeInv /\ [Next]_vars => HandshakeInv'
  BY InvStep
<1>2. QED
  BY <1>1, InvInit, PTL DEF Spec

-----------------------------------------------------------------------------
(* The properties the runs check, for every instance that keeps the contract *)

\* No handle is ever resumed but that of a suspended coroutine: a result and a
\* co_await wake it through exactly one of set_value and await_suspend.
THEOREM ResumeOnce == ASSUME Contract PROVE Spec => []ResumedOnlyWhenSuspended
<1>1. HandshakeInv => ResumedOnlyWhenSuspended
  BY DEF HandshakeInv, ResumedOnlyWhenSuspended
<1>2. QED
  BY Handshake, <1>1, PTL

\* No coroutine sleeps on a published result but one whose awakening is the
\* next step of a set call: what AwaiterWoken asks of every fair behaviour can
\* be lost by no interleaving of the two fetch_or.
THEOREM NoLostWakeup == ASSUME Contract PROVE Spec => []SleeperIsServed
<1>1. HandshakeInv => SleeperIsServed
  BY DEF HandshakeInv, AwaitPhase, SleeperIsServed
<1>2. QED
  BY Handshake, <1>1, PTL

\* await_resume never reads a variant a setter is still writing.
THEOREM ReadAfterPublish == ASSUME Contract PROVE Spec => []ReadsOnlyPublished
<1>1. HandshakeInv => ReadsOnlyPublished
  BY DEF HandshakeInv, ReadsOnlyPublished, AwaitPhase, SetterPhase, FlagsMean
<1>2. QED
  BY Handshake, <1>1, PTL

\* The reader may free the promise as soon as it has read the result: no
\* setter touches it afterwards.
THEOREM FreeAfterRead == ASSUME Contract PROVE Spec => []SetterOutlived
<1>1. HandshakeInv => SetterOutlived
  BY DEF HandshakeInv, SetterOutlived, Lifetimes
<1>2. QED
  BY Handshake, <1>1, PTL

\* A stored result is never overwritten by another set call.
THEOREM SetOnce == ASSUME Contract PROVE Spec => ResultSetOnce
<1>1. HandshakeInv /\ [Next]_vars => KeepsResult
  <2> SUFFICES ASSUME HandshakeInv, [Next]_vars, value' # value
               PROVE  value = "empty" \/ (value = "value" /\ value' = "moved")
    BY DEF KeepsResult
  <2>1. ASSUME NEW s \in Setters, Emplace(s) PROVE value = "empty"
    BY <2>1 DEF Emplace, HandshakeInv, SetterPhase
  <2>2. ASSUME NEW c \in Coroutines, ReadValue(c)
        PROVE  value = "value" /\ value' = "moved"
    BY <2>2 DEF ReadValue, AfterRead
  <2>3. QED
    BY <2>1, <2>2 DEF Next, SetStep, AwaitStep, BeginSet, Publish,
       NotifyAwaiter, ResumeAwaiter, AwaitReady, StoreAwaiter, AwaitSuspend,
       ClearAwaited, GetAwaitable, Abandon, DestroyPromise, vars, sharedVars
<1>2. QED
  BY Handshake, <1>1, PTL DEF Spec, ResultSetOnce

-----------------------------------------------------------------------------
(* Refinement *)

\* The empty promise is the unsettled future.
LEMMA InitRefines == Init => F!Init
  BY DEF Init, F!Init, InAwait

\* Publishing is Settle, entering a co_await is Await, reading is Deliver, and
\* every other step of the handshake is invisible.
LEMMA StepRefines ==
  ASSUME Contract, HandshakeInv, [Next]_vars PROVE [F!Next]_F!vars
<1> DEFINE Asleep == {c \in Coroutines : InAwait(c)}
           Outcome == IF "ready" \in state THEN value ELSE "none"
<1> USE DEF HandshakeInv, TypeOK, SetterPhase, AwaitPhase, FlagsMean, InSet,
            InAwait
<1>1. ASSUME NEW s \in Setters, NEW r \in Results, NEW n \in NotifyModes,
             BeginSet(s, r, n)
      PROVE  UNCHANGED F!vars
  BY <1>1 DEF BeginSet, sharedVars, awaitVars, F!vars
<1>2. ASSUME NEW s \in Setters, Emplace(s) PROVE UNCHANGED F!vars
  BY <1>2 DEF Emplace, awaitVars, F!vars
<1>3. ASSUME NEW s \in Setters, Publish(s) PROVE F!Settle(value)
  BY <1>3 DEF Publish, Published, awaitVars, F!Settle
<1>4. ASSUME NEW s \in Setters, NotifyAwaiter(s) PROVE UNCHANGED F!vars
  BY <1>4 DEF NotifyAwaiter, sharedVars, awaitVars, F!vars
<1>5. ASSUME NEW s \in Setters, ResumeAwaiter(s) PROVE UNCHANGED F!vars
  BY <1>5 DEF ResumeAwaiter, sharedVars, F!vars
<1>6. ASSUME NEW c \in Coroutines, AwaitReady(c)
      PROVE  F!Await(c) \/ UNCHANGED F!vars
  BY <1>6 DEF AwaitReady, HasResult, sharedVars, F!Await, F!vars
<1>7. ASSUME NEW c \in Coroutines, StoreAwaiter(c) PROVE UNCHANGED F!vars
  BY <1>7 DEF StoreAwaiter, F!vars
<1>8. ASSUME NEW c \in Coroutines, AwaitSuspend(c) PROVE UNCHANGED F!vars
  BY <1>8 DEF AwaitSuspend, AfterAwait, F!vars
<1>9. ASSUME NEW c \in Coroutines, ClearAwaited(c) PROVE UNCHANGED F!vars
  BY <1>9 DEF ClearAwaited, F!vars
<1>10. ASSUME NEW c \in Coroutines, ReadValue(c) PROVE F!Deliver(c)
  BY <1>10 DEF ReadValue, AfterRead, F!Deliver, F!AfterRead, Values, Results
<1>11. CASE GetAwaitable
  BY <1>11 DEF GetAwaitable, awaitVars, F!vars
<1>12. CASE Abandon
  BY <1>12 DEF Abandon, awaitVars, F!vars
<1>13. CASE DestroyPromise
  BY <1>13 DEF DestroyPromise, awaitVars, F!vars
<1>14. CASE UNCHANGED vars
  BY <1>14 DEF vars, F!vars
<1>15. ASSUME NEW s \in Setters, spc[s] = "publish" PROVE value \in F!Results
  BY <1>15 DEF F!Results, Results
<1>16. QED
  BY <1>1, <1>2, <1>3, <1>4, <1>5, <1>6, <1>7, <1>8, <1>9, <1>10, <1>11,
     <1>12, <1>13, <1>14, <1>15
  DEF Next, SetStep, AwaitStep, F!Next, Publish

\* The lock-free handshake implements the one-shot future: the result is
\* settled once and each co_await is handed it once.
THEOREM Refinement == ASSUME Contract PROVE Spec => F!SafeSpec
<1>1. HandshakeInv /\ [Next]_vars => [F!Next]_F!vars
  BY StepRefines
<1>2. QED
  BY Handshake, InitRefines, <1>1, PTL DEF Spec, F!SafeSpec
=============================================================================
