------------------------- MODULE EventRouter_proofs -------------------------
(***************************************************************************)
(* Theorems about the event router for any number of events, listeners and *)
(* awaiting coroutines.  The argument: at every moment exactly one party   *)
(* may resume a suspended awaiter, and its state says which: the router's  *)
(* list, one dispatch, or one cancel().  The listener loop is in order     *)
(* because nobody can change the map while a dispatch holds it.            *)
(***************************************************************************)
EXTENDS EventRouter, FiniteSetTheorems, WellFoundedInduction, TLAPS

-----------------------------------------------------------------------------
(* The least element of a set of handles *)

Below == {ss \in Nat \X Nat : ss[1] < ss[2]}

\* There is no infinite descent in the naturals.
LEMMA BelowWellFounded == IsWellFoundedOn(Below, Nat)
<1>1. IsWellFoundedOn(OpToRel(<, Nat), Nat)
  BY NatLessThanWellFounded
<1>2. OpToRel(<, Nat) = Below
  BY DEF OpToRel, Below
<1> QED
  BY <1>1, <1>2

\* The first listener ahead is there, and comes before all others ahead.
LEMMA MinIsLeast ==
  ASSUME NEW S, S \subseteq Nat, S # {}
  PROVE  Min(S) \in S /\ \A y \in S : Min(S) <= y
<1>1. PICK x \in S : \A y \in S : ~ (<<y, x>> \in Below)
  BY BelowWellFounded, WFMin, Zenon
<1>2. \A y \in S : x <= y
  <2> SUFFICES ASSUME NEW y \in S, y < x PROVE FALSE
    BY <1>1
  <2>1. <<y, x>> \in Nat \X Nat /\ <<y, x>>[1] = y /\ <<y, x>>[2] = x
    BY <1>1
  <2> QED
    BY <1>1, <2>1 DEF Below
<1> QED
  BY <1>2 DEF Min

-----------------------------------------------------------------------------
(* The invariants *)

\* Where the loop of a dispatch is, while the map cannot change.
LoopInv ==
  \A e \in Events :
    /\ pc[e] \in {"calling", "inside"} =>
         /\ Reached(e) \in Nat
         /\ called[e] = {h \in DOMAIN container : h <= Reached(e)}
    /\ pc[e] = "inside" => Reached(e) \in DOMAIN container
    /\ pc[e] \notin {"calling", "inside"} => called[e] = {}

\* Who may resume a suspended awaiter, by the awaiter's state.
Waits(a)      == astate[a] = "waiting" /\ event[a] = NoEvent
Cancelling(a) == astate[a] = "cancelling" /\ event[a] = NoEvent
Taken(a)      == astate[a] = "resuming" /\ event[a] \in Events

Suspended(a) ==
  \/ Waits(a) /\ canceller[a] = "none" /\ a \in attached
  \/ Cancelling(a) /\ canceller[a] = "detach" /\ a \in attached
  \/ Cancelling(a) /\ canceller[a] \in {"unlock", "resume"} /\ a \notin attached
  \/ /\ Taken(a) /\ canceller[a] = "none" /\ a \notin attached
     /\ \/ pc[event[a]] = "resuming" /\ a \in toResume[event[a]]
        \/ pc[event[a]] = "aborted"

\* What is true of an awaiting coroutine, by where it is.
AwaiterAt(a) ==
  /\ apc[a] = "idle" =>
       astate[a] = "none" /\ event[a] = NoEvent /\ canceller[a] = "none"
  /\ apc[a] \in {"stored", "handled"} => Waits(a) /\ canceller[a] = "none"
  /\ apc[a] = "suspended" => Suspended(a)
  /\ apc[a] = "resumed" =>
       /\ canceller[a] = "none"
       /\ Cancelling(a) \/ (Taken(a) /\ pc[event[a]] = "resuming")
  /\ apc[a] = "using" =>
       /\ astate[a] = "none" /\ canceller[a] = "none"
       /\ event[a] \in Events /\ pc[event[a]] = "resuming"
  /\ runner[a] = IF apc[a] \in {"resumed", "using"} THEN event[a] ELSE NoEvent
  /\ a \in attached => apc[a] = "suspended"
  /\ \A e \in Events :
       a \in toResume[e] => apc[a] = "suspended" /\ Taken(a) /\ event[a] = e

\* A dispatch runs one coroutine at a time.
OneRuns ==
  \A a, b \in Awaiters : runner[a] \in Events /\ runner[a] = runner[b] => a = b

\* Nobody is about to attach to a router that is being destroyed.
CloseInv ==
  /\ phase # "up" => \A a \in Awaiters : apc[a] \notin {"stored", "handled"}
  /\ phase = "down" => attached = {}

\* Where no other thread is in detach_coro, only the destructor takes awaiters
\* off the list, and what it saw there is there.
RaceInv ==
  /\ phase = "up" => closer = "test" /\ closing = {} /\ ~raced
  /\ phase = "down" => closer = "test"
  /\ phase = "undefined" => raced
  /\ phase # "up" /\ ~raced =>
       /\ \A a \in Awaiters : InDetach(a) => closer = "inside" /\ closing = {a}
       /\ closer = "back" => attached # {}
       /\ closer = "cancel" => closing \subseteq attached

OwnerInv == /\ \A a \in Awaiters : AwaiterAt(a)
            /\ OneRuns /\ CloseInv
            /\ faults = {}

\* Every task that still runs is one that its dispatch awaits, or is of the
\* listener that the dispatch is in.
TaskInv ==
  \A e \in Events : pc[e] # "aborted" =>
    \A h \in running[e] :
      h \in tasks[e] \/ (pc[e] = "inside" /\ h = Reached(e) /\ container[h] = "task")

\* Which is over when the dispatch has ended.
TasksEnded == \A e \in Events : pc[e] = "done" => tasks[e] = {}

-----------------------------------------------------------------------------
(* Types *)

\* A router starts with no listener and no awaiter.
LEMMA TypeInit == Init => TypeOK
<1> SUFFICES ASSUME Init PROVE TypeOK
  OBVIOUS
<1>1. MaxHandle \in Nat
  BY EventRouterAssumption
<1>2. DOMAIN container \subseteq Handles /\ Range(container) \subseteq Kinds
  BY DEF Init, Range
<1>3. /\ called \in [Events -> SUBSET Handles] /\ tasks \in [Events -> SUBSET Handles]
      /\ running \in [Events -> SUBSET Handles] /\ failed \in [Events -> SUBSET Handles]
  BY DEF Init
<1>4. /\ pc \in [Events -> DispatchPC] /\ cancelled \in [Events -> BOOLEAN]
      /\ toResume \in [Events -> SUBSET Awaiters]
  BY DEF Init, DispatchPC
<1>5. /\ pred \in [Awaiters -> SUBSET Events] /\ apc \in [Awaiters -> AwaiterPC]
      /\ event \in [Awaiters -> Events \cup {NoEvent}]
      /\ runner \in [Awaiters -> Events \cup {NoEvent}]
      /\ canceller \in [Awaiters -> {"none", "detach", "unlock", "resume"}]
      /\ astate \in [Awaiters -> {"none", "waiting", "resuming", "cancelling"}]
  BY DEF Init, AwaiterPC
<1>6. phase \in {"up"} /\ closer \in {"test"} /\ closing \subseteq Awaiters /\ raced \in BOOLEAN
  BY DEF Init
<1>7. nextHandle \in 1 .. MaxHandle + 1 /\ attached \subseteq Awaiters /\ faults \subseteq Awaiters
  BY <1>1 DEF Init
<1> QED
  BY <1>2, <1>3, <1>4, <1>5, <1>6, <1>7 DEF TypeOK

\* Every step of a dispatch keeps the types.
LEMMA TypeDispatch ==
  ASSUME TypeOK, LoopInv, NEW e \in Events, TakeAwaiters(e) \/ DispatchStep(e)
  PROVE  TypeOK'
<1> USE DEF TypeOK, DispatchPC, AwaiterPC, listenVars, dispatchVars, awaitVars, closeVars
<1>1. CASE TakeAwaiters(e)
  BY <1>1 DEF TakeAwaiters, Accepts
<1>2. ASSUME NEW a \in Awaiters, ResumeNext(e, a) PROVE TypeOK'
  BY <1>2 DEF ResumeNext, ResumeHandle
<1>3. CASE StartCalling(e)
  BY <1>3 DEF StartCalling
<1>4. CASE CallListener(e)
  <2>1. Ahead(e) \subseteq Nat /\ Ahead(e) # {}
    BY <1>4, EventRouterAssumption DEF CallListener, Ahead, Handles
  <2>2. Min(Ahead(e)) \in Handles
    BY <2>1, MinIsLeast DEF Ahead
  <2> QED
    BY <1>4, <2>2 DEF CallListener
<1>5. CASE ListenerReturns(e)
  <2>1. Reached(e) \in Handles
    BY <1>5 DEF ListenerReturns, LoopInv
  <2> QED
    BY <1>5, <2>1 DEF ListenerReturns
<1>6. ASSUME Abort(e), UNCHANGED <<listenVars, awaitVars, closeVars>> PROVE TypeOK'
  BY <1>6 DEF Abort
<1>7. CASE StopCalling(e)
  BY <1>7 DEF StopCalling
<1>8. CASE AwaitTask(e)
  BY <1>8 DEF AwaitTask
<1>9. CASE EndDispatch(e)
  BY <1>9 DEF EndDispatch
<1> QED
  BY <1>1, <1>2, <1>3, <1>4, <1>5, <1>6, <1>7, <1>8, <1>9
  DEF DispatchStep, ListenerThrows, RethrowTask

\* So does everything else.
LEMMA TypeStep == TypeOK /\ LoopInv /\ [Next]_vars => TypeOK'
<1> SUFFICES ASSUME TypeOK, LoopInv, [Next]_vars PROVE TypeOK'
  OBVIOUS
<1> USE DEF TypeOK, DispatchPC, AwaiterPC, listenVars, dispatchVars, awaitVars, closeVars
<1>1. ASSUME NEW k \in Kinds, Attach(k) PROVE TypeOK'
  <2>1. container' = Attached(k) /\ nextHandle \in Handles
    BY <1>1 DEF Attach
  <2>2. DOMAIN container' \subseteq Handles
    BY <2>1 DEF Attached
  <2>3. \A h \in DOMAIN container' : container'[h] \in Kinds
    BY <1>1, <2>1 DEF Attached, Range
  <2>4. nextHandle' \in 1 .. MaxHandle + 1
    BY <1>1, EventRouterAssumption DEF Attach, Handles
  <2> QED
    BY <1>1, <2>2, <2>3, <2>4 DEF Attach, Range
<1>2. ASSUME NEW h \in Handles, Detach(h) PROVE TypeOK'
  <2>1. container' = Restrict(container, DOMAIN container \ {h})
    BY <1>2 DEF Detach
  <2>2. DOMAIN container' \subseteq DOMAIN container
    BY <2>1 DEF Restrict
  <2>3. \A k \in DOMAIN container' : container'[k] \in Kinds
    BY <2>1 DEF Restrict, Range
  <2>4. UNCHANGED <<nextHandle, dispatchVars, toResume, awaitVars, closeVars>>
    BY <1>2 DEF Detach
  <2> QED
    BY <2>2, <2>3, <2>4 DEF Range
<1>3. ASSUME NEW e \in Events, TakeAwaiters(e) \/ DispatchStep(e) PROVE TypeOK'
  BY <1>3, TypeDispatch
<1>4. ASSUME NEW e \in Events, NEW h \in Handles, TaskEnds(e, h) PROVE TypeOK'
  BY <1>4 DEF TaskEnds
<1>5. ASSUME NEW a \in Awaiters, NEW p \in Predicates, BeginAwait(a, p) PROVE TypeOK'
  BY <1>5, EventRouterAssumption DEF BeginAwait
<1>6. ASSUME NEW a \in Awaiters, AwaiterStep(a) PROVE TypeOK'
  <2>1. CASE StoreHandle(a) \/ AttachAwaiter(a)
    BY <2>1 DEF StoreHandle, AttachAwaiter
  <2>2. CASE AwaitResume(a)
    BY <2>2 DEF AwaitResume
  <2>3. CASE StopUsing(a)
    BY <2>3 DEF StopUsing
  <2>4. CASE AwaiterThrows(a)
    BY <2>4 DEF AwaiterThrows, Abort
  <2>5. CASE CancelDetach(a) \/ CancelUnlock(a)
    BY <2>5 DEF CancelDetach, CancelUnlock, AfterDetach
  <2>6. CASE CancelResume(a)
    BY <2>6 DEF CancelResume, ResumeHandle
  <2> QED
    BY <1>6, <2>1, <2>2, <2>3, <2>4, <2>5, <2>6 DEF AwaiterStep
<1>7. ASSUME NEW a \in Awaiters, Cancel(a) PROVE TypeOK'
  BY <1>7 DEF Cancel
<1>8. CASE BeginDestroy \/ CloseTest \/ CloseBack
  BY <1>8 DEF BeginDestroy, CloseTest, CloseBack
<1>9. ASSUME NEW a \in Awaiters, CloseCancel(a) \/ CloseSkip(a) PROVE TypeOK'
  BY <1>9 DEF CloseCancel, CloseSkip
<1>10. CASE UNCHANGED vars
  BY <1>10 DEF vars
<1> QED
  BY <1>1, <1>2, <1>3, <1>4, <1>5, <1>6, <1>7, <1>8, <1>9, <1>10
  DEF Next, DestroyStep

-----------------------------------------------------------------------------
(* The loop over the listeners *)

\* No loop has begun.
LEMMA LoopInit == Init => LoopInv
  BY DEF Init, LoopInv

\* A step that changes neither the map nor this dispatch's place in it.
LEMMA LoopFrame ==
  ASSUME NEW e \in Events, LoopInv,
         pc'[e] = pc[e], called'[e] = called[e], container' = container
  PROVE  /\ pc'[e] \in {"calling", "inside"} =>
              /\ Reached(e)' \in Nat
              /\ called'[e] = {h \in DOMAIN container' : h <= Reached(e)'}
         /\ pc'[e] = "inside" => Reached(e)' \in DOMAIN container'
         /\ pc'[e] \notin {"calling", "inside"} => called'[e] = {}
  BY DEF LoopInv, Reached

\* The listener that is called next is the first ahead.
LEMMA LoopCall ==
  ASSUME TypeOK, LoopInv, NEW e \in Events, CallListener(e)
  PROVE  /\ Reached(e)' = Min(Ahead(e))
         /\ Reached(e)' \in DOMAIN container' /\ Reached(e)' \in Nat
         /\ called'[e] = {h \in DOMAIN container' : h <= Reached(e)'}
<1> DEFINE n == Min(Ahead(e))
<1>1. /\ Ahead(e) \subseteq DOMAIN container /\ Ahead(e) # {}
      /\ DOMAIN container \subseteq Nat
  BY EventRouterAssumption DEF CallListener, Ahead, TypeOK, Handles
<1>2. n \in Ahead(e) /\ \A h \in Ahead(e) : n <= h
  BY <1>1, MinIsLeast
<1>3. /\ called'[e] = called[e] \cup {n} /\ container' = container
      /\ called[e] = {h \in DOMAIN container : h <= Reached(e)}
      /\ Reached(e) \in Nat
  BY DEF CallListener, listenVars, TypeOK, LoopInv
<1>4. n \in DOMAIN container /\ n \in Nat /\ n > Reached(e)
  BY <1>1, <1>2 DEF Ahead
<1>5. called[e] \cup {n} = {h \in DOMAIN container : h <= n}
  <2>1. \A h \in called[e] : h \in DOMAIN container /\ h <= n
    BY <1>1, <1>3, <1>4
  <2>2. ASSUME NEW h \in DOMAIN container, h <= n, h \notin called[e] PROVE h = n
    <3>1. h > Reached(e)
      BY <2>2, <1>1, <1>3
    <3>2. h \in Ahead(e)
      BY <3>1 DEF Ahead
    <3> QED
      BY <3>2, <2>2, <1>1, <1>2, <1>4
  <2> HIDE DEF n
  <2> QED
    BY <1>1, <1>4, <2>1, <2>2
<1>6. Max(called'[e]) = n
  <2>1. n \in called'[e] /\ \A h \in called'[e] : h \in Nat /\ n >= h
    BY <1>1, <1>3, <1>4, <1>5
  <2> HIDE DEF n
  <2>2. \A m \in called'[e] : (\A h \in called'[e] : m >= h) => m = n
    BY <2>1, <1>4
  <2> QED
    BY <2>1, <2>2 DEF Max
<1>7. Reached(e)' = n
  BY <1>3, <1>6 DEF Reached
<1> QED
  BY <1>3, <1>4, <1>5, <1>7

\* What a step of one dispatch does to the loop of any.
LEMMA LoopStep == TypeOK /\ LoopInv /\ [Next]_vars => LoopInv'
<1> SUFFICES ASSUME TypeOK, LoopInv, [Next]_vars PROVE LoopInv'
  OBVIOUS
<1> USE DEF TypeOK, listenVars, dispatchVars, awaitVars, closeVars
<1>1. ASSUME NEW k \in Kinds, Attach(k) PROVE LoopInv'
  <2>1. \A e \in Events : pc[e] \notin {"calling", "inside"}
    BY <1>1 DEF Attach, Unshared
  <2> QED
    BY <1>1, <2>1 DEF Attach, LoopInv
<1>2. ASSUME NEW h \in Handles, Detach(h) PROVE LoopInv'
  <2>1. \A e \in Events : pc[e] \notin {"calling", "inside"}
    BY <1>2 DEF Detach, Unshared
  <2> QED
    BY <1>2, <2>1 DEF Detach, LoopInv
<1>3. ASSUME NEW e \in Events, CallListener(e) PROVE LoopInv'
  <2>1. \A d \in Events \ {e} :
          pc'[d] = pc[d] /\ called'[d] = called[d] /\ container' = container
    BY <1>3 DEF CallListener
  <2>2. pc'[e] = "inside"
    BY <1>3 DEF CallListener
  <2> QED
    BY <1>3, <2>1, <2>2, LoopCall, LoopFrame DEF LoopInv
<1>4. ASSUME NEW e \in Events, Abort(e), container' = container PROVE LoopInv'
  <2>1. \A d \in Events \ {e} :
          pc'[d] = pc[d] /\ called'[d] = called[d] /\ container' = container
    BY <1>4 DEF Abort
  <2>2. pc'[e] = "aborted" /\ called'[e] = {}
    BY <1>4 DEF Abort
  <2> QED
    BY <2>1, <2>2, LoopFrame DEF LoopInv
<1>5. ASSUME NEW e \in Events, TakeAwaiters(e) PROVE LoopInv'
  BY <1>5, LoopFrame DEF TakeAwaiters, LoopInv, Reached
<1>6. ASSUME NEW e \in Events, NEW a \in Awaiters, ResumeNext(e, a) PROVE LoopInv'
  BY <1>6, LoopFrame DEF ResumeNext, LoopInv
<1>7. ASSUME NEW e \in Events, StartCalling(e) PROVE LoopInv'
  <2>1. \A d \in Events \ {e} :
          pc'[d] = pc[d] /\ called'[d] = called[d] /\ container' = container
    BY <1>7 DEF StartCalling
  <2>2. pc'[e] = "calling" /\ called'[e] = {} /\ container' = container
    BY <1>7 DEF StartCalling, LoopInv
  <2>3. Reached(e)' = 0
    BY <2>2 DEF Reached
  <2>4. {h \in DOMAIN container' : h <= 0} = {}
    BY <2>2, EventRouterAssumption DEF Handles
  <2> QED
    BY <2>1, <2>2, <2>3, <2>4, LoopFrame DEF LoopInv
<1>8. ASSUME NEW e \in Events, ListenerReturns(e) PROVE LoopInv'
  <2>1. \A d \in Events : called'[d] = called[d] /\ container' = container
    BY <1>8 DEF ListenerReturns
  <2>2. \A d \in Events \ {e} : pc'[d] = pc[d]
    BY <1>8 DEF ListenerReturns
  <2>3. pc[e] = "inside" /\ pc'[e] = "calling"
    BY <1>8 DEF ListenerReturns
  <2>4. Reached(e)' = Reached(e)
    BY <2>1 DEF Reached
  <2> QED
    BY <2>1, <2>2, <2>3, <2>4, LoopFrame DEF LoopInv
<1>9. ASSUME NEW e \in Events, StopCalling(e) PROVE LoopInv'
  BY <1>9, LoopFrame DEF StopCalling, LoopInv
<1>10. ASSUME NEW e \in Events, AwaitTask(e) \/ EndDispatch(e) PROVE LoopInv'
  <2>1. \A d \in Events : called'[d] = called[d] /\ container' = container
    BY <1>10 DEF AwaitTask, EndDispatch
  <2>2. \A d \in Events \ {e} : pc'[d] = pc[d]
    BY <1>10 DEF AwaitTask, EndDispatch
  <2>3. pc[e] = "awaiting" /\ pc'[e] \in {"awaiting", "done"}
    BY <1>10 DEF AwaitTask, EndDispatch
  <2> QED
    BY <2>1, <2>2, <2>3, LoopFrame DEF LoopInv
<1>11. ASSUME UNCHANGED <<pc, called, container>> PROVE LoopInv'
  BY <1>11, LoopFrame DEF LoopInv
<1>12. ASSUME NEW e \in Events, NEW h \in Handles, TaskEnds(e, h) PROVE LoopInv'
  BY <1>11, <1>12 DEF TaskEnds
<1>13. ASSUME NEW a \in Awaiters, NEW p \in Predicates, BeginAwait(a, p) PROVE LoopInv'
  BY <1>11, <1>13 DEF BeginAwait
<1>14. ASSUME NEW a \in Awaiters, AwaiterStep(a) \/ Cancel(a) \/ CloseCancel(a) \/ CloseSkip(a)
       PROVE  LoopInv'
  <2>1. CASE AwaiterThrows(a)
    BY <2>1, <1>4 DEF AwaiterThrows
  <2> QED
    BY <1>11, <1>14, <2>1
    DEF AwaiterStep, StoreHandle, AttachAwaiter, AwaitResume, StopUsing,
        CancelDetach, CancelUnlock, CancelResume, Cancel, CloseCancel, CloseSkip
<1>15. CASE BeginDestroy \/ CloseTest \/ CloseBack \/ UNCHANGED vars
  BY <1>11, <1>15 DEF BeginDestroy, CloseTest, CloseBack, vars
<1> QED
  BY <1>1, <1>2, <1>3, <1>4, <1>5, <1>6, <1>7, <1>8, <1>9, <1>10, <1>12, <1>13,
     <1>14, <1>15
  DEF Next, DispatchStep, DestroyStep, ListenerThrows, RethrowTask

\* While an event is passed to the listeners, those called are the attached
\* ones up to the one reached, whoever attaches and detaches.
THEOREM CalledInOrderAlways == Spec => [](TypeOK /\ CalledInOrder)
<1>1. TypeOK /\ LoopInv => CalledInOrder
  BY DEF LoopInv, CalledInOrder
<1> QED
  BY TypeInit, TypeStep, LoopInit, LoopStep, <1>1, PTL DEF Spec

-----------------------------------------------------------------------------
(* Who may resume an awaiter *)

\* No coroutine awaits.
LEMMA OwnerInit == Init => OwnerInv
<1> SUFFICES ASSUME Init PROVE OwnerInv
  OBVIOUS
<1>1. NoEvent \notin Events
  BY EventRouterAssumption
<1> QED
  BY <1>1 DEF Init, OwnerInv, AwaiterAt, OneRuns, CloseInv

\* An awaiter none of whose state changes keeps its owner, if the dispatch
\* that took it goes on resuming, or is aborted.
LEMMA AwaiterFrame ==
  ASSUME NEW a \in Awaiters, AwaiterAt(a),
         /\ apc'[a] = apc[a] /\ astate'[a] = astate[a] /\ event'[a] = event[a]
         /\ canceller'[a] = canceller[a] /\ runner'[a] = runner[a],
         a \in attached' <=> a \in attached,
         event[a] \in Events => pc'[event[a]] = pc[event[a]],
         \A e \in Events : a \in toResume'[e] <=> a \in toResume[e]
  PROVE  AwaiterAt(a)'
<1> QED
  BY DEF AwaiterAt, Suspended, Waits, Cancelling, Taken

\* An event that no coroutine was given yet, or has any more.
LEMMA EventFree ==
  ASSUME TypeOK, OwnerInv, NEW e \in Events, pc[e] \notin {"resuming", "aborted"}
  PROVE  /\ toResume[e] = {}
         /\ \A a \in Awaiters : event[a] # e /\ runner[a] # e
<1> USE EventRouterAssumption DEF OwnerInv, TypeOK
<1>1. ASSUME NEW a \in Awaiters, event[a] = e PROVE FALSE
  <2>1. apc[a] \in {"suspended", "resumed", "using"}
    BY <1>1 DEF AwaiterAt, Waits, AwaiterPC
  <2> QED
    BY <1>1, <2>1 DEF AwaiterAt, Suspended, Waits, Cancelling, Taken
<1>2. \A a \in Awaiters : runner[a] # e
  BY <1>1 DEF AwaiterAt
<1>3. \A a \in Awaiters : a \notin toResume[e]
  BY <1>1 DEF AwaiterAt
<1> QED
  BY <1>1, <1>2, <1>3

\* The abort of a dispatch leaves those it took to nobody.
LEMMA AbortOwner ==
  ASSUME TypeOK, OwnerInv, NEW e \in Events, Abort(e),
         NEW a \in Awaiters,
         /\ apc'[a] = apc[a] /\ astate'[a] = astate[a] /\ event'[a] = event[a]
         /\ canceller'[a] = canceller[a] /\ runner'[a] = runner[a],
         attached' = attached, runner[a] # e
  PROVE  AwaiterAt(a)'
<1> USE EventRouterAssumption DEF OwnerInv, TypeOK
<1>1. CASE event[a] = e
  <2>1. apc[a] = "suspended" /\ Taken(a) /\ canceller[a] = "none" /\ a \notin attached
    BY <1>1 DEF AwaiterAt, Suspended, Waits, Cancelling, Taken, AwaiterPC
  <2>2. pc'[e] = "aborted" /\ \A d \in Events : a \notin toResume'[d]
    BY <1>1 DEF Abort, AwaiterAt
  <2>3. runner[a] = NoEvent
    BY <2>1 DEF AwaiterAt
  <2> QED
    BY <1>1, <2>1, <2>2, <2>3 DEF AwaiterAt, Suspended, Taken
<1>2. CASE event[a] # e
  <2>1. event[a] \in Events => pc'[event[a]] = pc[event[a]]
    BY <1>2 DEF Abort
  <2>2. \A d \in Events : a \in toResume'[d] <=> a \in toResume[d]
    BY <1>2 DEF Abort, AwaiterAt
  <2> QED
    BY <2>1, <2>2, AwaiterFrame
<1> QED
  BY <1>1, <1>2

\* The steps of a dispatch.
LEMMA OwnerDispatch ==
  ASSUME TypeOK, OwnerInv, NEW e \in Events, TakeAwaiters(e) \/ DispatchStep(e)
  PROVE  OwnerInv'
<1> USE EventRouterAssumption DEF TypeOK, listenVars, dispatchVars, awaitVars, closeVars
<1>1. CASE TakeAwaiters(e)
  <2>1. toResume[e] = {} /\ \A a \in Awaiters : event[a] # e /\ runner[a] # e
    BY <1>1, EventFree DEF TakeAwaiters
  <2>2. ASSUME NEW a \in Awaiters, Accepts(e, a) PROVE AwaiterAt(a)'
    <3>1. apc[a] = "suspended" /\ Waits(a) /\ canceller[a] = "none" /\ runner[a] = NoEvent
      BY <2>2 DEF Accepts, OwnerInv, AwaiterAt, Suspended, Cancelling, Taken
    <3>2. /\ apc' = apc /\ canceller' = canceller /\ runner' = runner
          /\ astate'[a] = "resuming" /\ event'[a] = e /\ a \notin attached'
          /\ pc'[e] = "resuming" /\ a \in toResume'[e]
      BY <1>1, <2>2 DEF TakeAwaiters
    <3>3. \A d \in Events \ {e} : a \notin toResume'[d]
      BY <1>1, <3>1 DEF TakeAwaiters, OwnerInv, AwaiterAt, Waits, Taken
    <3> QED
      BY <3>1, <3>2, <3>3 DEF AwaiterAt, Suspended, Taken
  <2>3. ASSUME NEW a \in Awaiters, ~Accepts(e, a) PROVE AwaiterAt(a)'
    <3>1. /\ apc'[a] = apc[a] /\ astate'[a] = astate[a] /\ event'[a] = event[a]
          /\ canceller'[a] = canceller[a] /\ runner'[a] = runner[a]
          /\ a \in attached' <=> a \in attached
          /\ \A d \in Events : a \in toResume'[d] <=> a \in toResume[d]
      BY <1>1, <2>1, <2>3 DEF TakeAwaiters
    <3>2. event[a] \in Events => pc'[event[a]] = pc[event[a]]
      BY <1>1, <2>1 DEF TakeAwaiters
    <3> QED
      BY <3>1, <3>2, AwaiterFrame DEF OwnerInv
  <2>4. UNCHANGED <<apc, runner, faults, phase>> /\ attached' \subseteq attached
    BY <1>1 DEF TakeAwaiters
  <2>5. OneRuns' /\ CloseInv' /\ faults' = {}
    BY <2>4 DEF OwnerInv, OneRuns, CloseInv
  <2> QED
    BY <2>2, <2>3, <2>5 DEF OwnerInv
<1>2. ASSUME NEW a \in Awaiters, ResumeNext(e, a) PROVE OwnerInv'
  <2>1. /\ apc[a] = "suspended" /\ Taken(a) /\ event[a] = e
        /\ canceller[a] = "none" /\ a \notin attached /\ pc[e] = "resuming"
    BY <1>2 DEF ResumeNext, OwnerInv, AwaiterAt, Suspended, Waits, Cancelling, Taken
  <2>2. /\ apc' = [apc EXCEPT ![a] = "resumed"] /\ runner' = [runner EXCEPT ![a] = e]
        /\ UNCHANGED <<faults, pc, attached, astate, event, canceller, phase>>
        /\ toResume' = [toResume EXCEPT ![e] = @ \ {a}]
    BY <1>2, <2>1 DEF ResumeNext, ResumeHandle
  <2>3. AwaiterAt(a)'
    <3>1. \A d \in Events : a \notin toResume'[d]
      BY <2>1, <2>2 DEF OwnerInv, AwaiterAt
    <3> QED
      BY <2>1, <2>2, <3>1 DEF AwaiterAt, Taken
  <2>4. ASSUME NEW b \in Awaiters \ {a} PROVE AwaiterAt(b)'
    BY <2>2, AwaiterFrame DEF OwnerInv
  <2>5. \A b \in Awaiters : runner[b] # e
    BY <1>2 DEF ResumeNext, Busy
  <2>6. OneRuns' /\ CloseInv' /\ faults' = {}
    BY <2>2, <2>5 DEF OwnerInv, OneRuns, CloseInv
  <2> QED
    BY <2>3, <2>4, <2>6 DEF OwnerInv
<1>3. CASE StartCalling(e)
  <2>1. /\ pc' = [pc EXCEPT ![e] = "calling"]
        /\ UNCHANGED <<toResume, attached, astate, event, apc, runner, canceller,
                       faults, phase>>
    BY <1>3 DEF StartCalling
  <2>2. ASSUME NEW a \in Awaiters, event[a] = e, apc[a] # "suspended" PROVE FALSE
    <3>1. apc[a] \in {"resumed", "using"}
      BY <2>2 DEF OwnerInv, AwaiterAt, AwaiterPC, Waits
    <3>2. runner[a] = e
      BY <2>2, <3>1 DEF OwnerInv, AwaiterAt
    <3> QED
      BY <1>3, <3>2 DEF StartCalling, Busy
  <2>3. ASSUME NEW a \in Awaiters, event[a] = e, apc[a] = "suspended" PROVE FALSE
    BY <1>3, <2>3 DEF StartCalling, OwnerInv, AwaiterAt, Suspended, Waits,
                      Cancelling, Taken
  <2>4. ASSUME NEW a \in Awaiters PROVE AwaiterAt(a)'
    BY <2>1, <2>2, <2>3, AwaiterFrame DEF OwnerInv
  <2> QED
    BY <2>1, <2>4 DEF OwnerInv, OneRuns, CloseInv
<1>4. ASSUME pc[e] \notin {"resuming", "aborted"},
             \A d \in Events \ {e} : pc'[d] = pc[d],
             UNCHANGED <<toResume, awaitVars, closeVars>>
      PROVE  OwnerInv'
  <2>1. \A a \in Awaiters : event[a] # e
    BY <1>4, EventFree
  <2>2. ASSUME NEW a \in Awaiters PROVE AwaiterAt(a)'
    BY <1>4, <2>1, AwaiterFrame DEF OwnerInv
  <2> QED
    BY <1>4, <2>2 DEF OwnerInv, OneRuns, CloseInv
<1>5. ASSUME pc[e] \notin {"resuming", "aborted"}, Abort(e), UNCHANGED <<awaitVars, closeVars>>
      PROVE  OwnerInv'
  <2>1. \A a \in Awaiters : runner[a] # e
    BY <1>5, EventFree
  <2>2. ASSUME NEW a \in Awaiters PROVE AwaiterAt(a)'
    BY <1>5, <2>1, AbortOwner
  <2> QED
    BY <1>5, <2>2 DEF OwnerInv, OneRuns, CloseInv
<1>6. CASE CallListener(e) \/ ListenerReturns(e) \/ StopCalling(e)
  BY <1>6, <1>4 DEF CallListener, ListenerReturns, StopCalling
<1>7. CASE AwaitTask(e) \/ EndDispatch(e)
  BY <1>7, <1>4 DEF AwaitTask, EndDispatch
<1>8. CASE ListenerThrows(e) \/ RethrowTask(e)
  BY <1>8, <1>5 DEF ListenerThrows, RethrowTask
<1> QED
  BY <1>1, <1>2, <1>3, <1>6, <1>7, <1>8 DEF DispatchStep

\* A step of one awaiter, or of a cancel() of it, leaves the others alone.
LEMMA OthersKept ==
  ASSUME OwnerInv, NEW a \in Awaiters, NEW b \in Awaiters \ {a},
         /\ apc'[b] = apc[b] /\ astate'[b] = astate[b] /\ event'[b] = event[b]
         /\ canceller'[b] = canceller[b] /\ runner'[b] = runner[b],
         b \in attached' <=> b \in attached,
         UNCHANGED <<pc, toResume>>
  PROVE  AwaiterAt(b)'
  BY AwaiterFrame DEF OwnerInv

\* The steps of the awaiting coroutine.
LEMMA OwnerAwait ==
  ASSUME TypeOK, OwnerInv, ~EarlyCancel, NEW a \in Awaiters,
         \/ \E p \in Predicates : BeginAwait(a, p)
         \/ StoreHandle(a) \/ AttachAwaiter(a) \/ AwaitResume(a) \/ StopUsing(a)
  PROVE  OwnerInv'
<1> USE EventRouterAssumption DEF TypeOK, listenVars, dispatchVars, awaitVars, closeVars
<1>1. ASSUME NEW p \in Predicates, BeginAwait(a, p) PROVE OwnerInv'
  <2>1. AwaiterAt(a)'
    BY <1>1 DEF BeginAwait, OwnerInv, AwaiterAt, Waits, Taken
  <2>2. ASSUME NEW b \in Awaiters \ {a} PROVE AwaiterAt(b)'
    BY <1>1, OthersKept DEF BeginAwait
  <2>3. OneRuns' /\ CloseInv' /\ faults' = {}
    BY <1>1 DEF BeginAwait, OwnerInv, OneRuns, CloseInv
  <2> QED
    BY <2>1, <2>2, <2>3 DEF OwnerInv
<1>2. CASE StoreHandle(a)
  <2>1. AwaiterAt(a)'
    BY <1>2 DEF StoreHandle, OwnerInv, AwaiterAt, Waits, Taken
  <2>2. ASSUME NEW b \in Awaiters \ {a} PROVE AwaiterAt(b)'
    BY <1>2, OthersKept DEF StoreHandle
  <2>3. OneRuns' /\ CloseInv' /\ faults' = {}
    BY <1>2 DEF StoreHandle, OwnerInv, OneRuns, CloseInv
  <2> QED
    BY <2>1, <2>2, <2>3 DEF OwnerInv
<1>3. CASE AttachAwaiter(a)
  <2>1. AwaiterAt(a)'
    BY <1>3 DEF AttachAwaiter, OwnerInv, AwaiterAt, Suspended, Waits, Taken
  <2>2. ASSUME NEW b \in Awaiters \ {a} PROVE AwaiterAt(b)'
    BY <1>3, OthersKept DEF AttachAwaiter
  <2>3. OneRuns' /\ CloseInv' /\ faults' = {}
    BY <1>3 DEF AttachAwaiter, OwnerInv, OneRuns, CloseInv
  <2> QED
    BY <2>1, <2>2, <2>3 DEF OwnerInv
<1>4. CASE AwaitResume(a)
  <2>1. /\ canceller[a] = "none" /\ a \notin attached /\ \A e \in Events : a \notin toResume[e]
        /\ Cancelling(a) \/ (Taken(a) /\ pc[event[a]] = "resuming" /\ runner[a] = event[a])
    BY <1>4 DEF AwaitResume, OwnerInv, AwaiterAt
  <2>2. AwaiterAt(a)'
    BY <1>4, <2>1 DEF AwaitResume, AwaiterAt, Cancelling, Taken, AwaiterPC
  <2>3. ASSUME NEW b \in Awaiters \ {a} PROVE AwaiterAt(b)'
    BY <1>4, OthersKept DEF AwaitResume
  <2>4. OneRuns' /\ CloseInv' /\ faults' = {}
    BY <1>4 DEF AwaitResume, OwnerInv, OneRuns, CloseInv
  <2> QED
    BY <2>2, <2>3, <2>4 DEF OwnerInv
<1>5. CASE StopUsing(a)
  <2>1. AwaiterAt(a)'
    BY <1>5 DEF StopUsing, OwnerInv, AwaiterAt, Taken
  <2>2. ASSUME NEW b \in Awaiters \ {a} PROVE AwaiterAt(b)'
    BY <1>5, OthersKept DEF StopUsing
  <2>3. OneRuns' /\ CloseInv' /\ faults' = {}
    BY <1>5 DEF StopUsing, OwnerInv, OneRuns, CloseInv
  <2> QED
    BY <2>1, <2>2, <2>3 DEF OwnerInv
<1> QED
  BY <1>1, <1>2, <1>3, <1>4, <1>5

\* cancel() by another thread, or by the destructor.
LEMMA OwnerCancel ==
  ASSUME TypeOK, OwnerInv, ~EarlyCancel, NEW a \in Awaiters,
         \/ Cancel(a) \/ CloseCancel(a)
         \/ CancelDetach(a) \/ CancelUnlock(a) \/ CancelResume(a)
  PROVE  OwnerInv'
<1> USE EventRouterAssumption DEF TypeOK, listenVars, dispatchVars, awaitVars, closeVars
<1>1. CASE Cancel(a) \/ CloseCancel(a)
  <2>1. apc[a] = "suspended" /\ astate[a] = "waiting"
    <3>1. apc[a] \in {"stored", "handled", "suspended"} \/ astate[a] # "waiting"
      BY DEF OwnerInv, AwaiterAt, AwaiterPC, Cancelling, Taken
    <3>2. CASE CloseCancel(a)
      BY <3>1, <3>2 DEF CloseCancel, OwnerInv, CloseInv
    <3> QED
      BY <1>1, <3>2 DEF Cancel
  <2>2. a \in attached /\ event[a] = NoEvent
    BY <2>1 DEF OwnerInv, AwaiterAt, Suspended, Waits, Cancelling, Taken
  <2>3. /\ astate' = [astate EXCEPT ![a] = "cancelling"]
        /\ canceller' = [canceller EXCEPT ![a] = "detach"]
        /\ UNCHANGED <<pc, toResume, attached, event, apc, runner, faults, phase>>
    BY <1>1 DEF Cancel, CloseCancel
  <2>4. AwaiterAt(a)'
    BY <2>1, <2>2, <2>3 DEF OwnerInv, AwaiterAt, Suspended, Cancelling, Taken
  <2>5. ASSUME NEW b \in Awaiters \ {a} PROVE AwaiterAt(b)'
    BY <2>3, OthersKept
  <2> QED
    BY <2>3, <2>4, <2>5 DEF OwnerInv, OneRuns, CloseInv
<1>2. ASSUME canceller[a] # "none"
      PROVE  /\ apc[a] = "suspended" /\ Cancelling(a)
             /\ canceller[a] \in {"unlock", "resume"} => a \notin attached
             /\ \A e \in Events : a \notin toResume[e]
  <2>1. apc[a] = "suspended"
    BY <1>2 DEF OwnerInv, AwaiterAt, AwaiterPC
  <2> QED
    BY <1>2, <2>1 DEF OwnerInv, AwaiterAt, Suspended, Waits, Taken, Cancelling
<1>3. CASE CancelDetach(a) \/ CancelUnlock(a)
  <2>1. /\ attached' = attached \ {a}
        /\ \/ canceller' = [canceller EXCEPT ![a] = "unlock"]
           \/ canceller' = [canceller EXCEPT ![a] = "resume"]
        /\ UNCHANGED <<pc, toResume, astate, event, apc, runner, faults, phase>>
        /\ canceller[a] # "none"
    BY <1>2, <1>3 DEF CancelDetach, CancelUnlock, AfterDetach
  <2>2. AwaiterAt(a)'
    BY <1>2, <2>1 DEF OwnerInv, AwaiterAt, Suspended, Cancelling, Taken
  <2>3. ASSUME NEW b \in Awaiters \ {a} PROVE AwaiterAt(b)'
    BY <2>1, OthersKept
  <2> QED
    BY <2>1, <2>2, <2>3 DEF OwnerInv, OneRuns, CloseInv
<1>4. CASE CancelResume(a)
  <2>1. apc[a] = "suspended" /\ Cancelling(a) /\ a \notin attached /\ canceller[a] = "resume"
    BY <1>2, <1>4 DEF CancelResume
  <2>2. /\ canceller' = [canceller EXCEPT ![a] = "none"]
        /\ apc' = [apc EXCEPT ![a] = "resumed"] /\ runner' = [runner EXCEPT ![a] = NoEvent]
        /\ UNCHANGED <<pc, toResume, attached, astate, event, faults, phase>>
    BY <1>4, <2>1 DEF CancelResume, ResumeHandle
  <2>3. AwaiterAt(a)'
    BY <1>2, <2>1, <2>2 DEF AwaiterAt, Cancelling, Taken
  <2>4. ASSUME NEW b \in Awaiters \ {a} PROVE AwaiterAt(b)'
    BY <2>2, OthersKept
  <2> QED
    BY <2>2, <2>3, <2>4 DEF OwnerInv, OneRuns, CloseInv
<1> QED
  BY <1>1, <1>3, <1>4

\* An exception of a resumed coroutine aborts the dispatch it ran in.
LEMMA OwnerThrows ==
  ASSUME TypeOK, OwnerInv, NEW a \in Awaiters, AwaiterThrows(a)
  PROVE  OwnerInv'
<1> USE EventRouterAssumption DEF TypeOK, listenVars, dispatchVars, awaitVars, closeVars
<1>1. /\ apc[a] = "using" /\ runner[a] \in Events /\ Abort(runner[a])
      /\ apc' = [apc EXCEPT ![a] = "idle"]
      /\ runner' = [runner EXCEPT ![a] = NoEvent]
      /\ event' = [event EXCEPT ![a] = NoEvent]
      /\ UNCHANGED <<attached, astate, canceller, faults, phase>>
  BY DEF AwaiterThrows
<1>2. AwaiterAt(a)'
  <2>1. \A e \in Events : a \notin toResume'[e]
    BY <1>1 DEF OwnerInv, AwaiterAt, Abort
  <2> QED
    BY <1>1, <2>1 DEF OwnerInv, AwaiterAt
<1>3. ASSUME NEW b \in Awaiters \ {a} PROVE AwaiterAt(b)'
  <2>1. runner[b] # runner[a]
    BY <1>1 DEF OwnerInv, OneRuns
  <2> QED
    BY <1>1, <2>1, AbortOwner
<1> QED
  BY <1>1, <1>2, <1>3 DEF OwnerInv, OneRuns, CloseInv

\* No step takes a suspended awaiter from the one who is to resume it.
LEMMA OwnerStep == ~EarlyCancel /\ TypeOK /\ OwnerInv /\ [Next]_vars => OwnerInv'
<1> SUFFICES ASSUME ~EarlyCancel, TypeOK, OwnerInv, [Next]_vars PROVE OwnerInv'
  OBVIOUS
<1> USE DEF listenVars, dispatchVars, awaitVars, closeVars
<1>1. ASSUME UNCHANGED <<pc, toResume, awaitVars, phase>> PROVE OwnerInv'
  BY <1>1, AwaiterFrame DEF OwnerInv, OneRuns, CloseInv
<1>2. ASSUME NEW k \in Kinds, Attach(k) PROVE OwnerInv'
  BY <1>1, <1>2 DEF Attach
<1>3. ASSUME NEW h \in Handles, Detach(h) PROVE OwnerInv'
  BY <1>1, <1>3 DEF Detach
<1>4. ASSUME NEW e \in Events, NEW h \in Handles, TaskEnds(e, h) PROVE OwnerInv'
  BY <1>1, <1>4 DEF TaskEnds
<1>5. CASE BeginDestroy
  <2>1. \A a \in Awaiters : apc[a] \notin {"stored", "handled"}
    BY <1>5 DEF BeginDestroy, OwnerInv, AwaiterAt
  <2> QED
    BY <1>5, <2>1, AwaiterFrame DEF BeginDestroy, OwnerInv, OneRuns, CloseInv
<1>6. CASE CloseTest \/ CloseBack \/ \E a \in Awaiters : CloseSkip(a)
  BY <1>6, AwaiterFrame
  DEF CloseTest, CloseBack, CloseSkip, AllCancelled, OwnerInv, OneRuns, CloseInv
<1>7. CASE UNCHANGED vars
  BY <1>1, <1>7 DEF vars
<1> QED
  BY <1>2, <1>3, <1>4, <1>5, <1>6, <1>7, OwnerDispatch, OwnerAwait, OwnerCancel,
     OwnerThrows
  DEF Next, AwaiterStep, DestroyStep

-----------------------------------------------------------------------------
(* The destructor and other threads' cancel() *)

\* The destructor relies on what it saw only where nobody else detaches.
LEMMA RaceStep ==
  ~EarlyCancel /\ TypeOK /\ OwnerInv /\ RaceInv /\ [Next]_vars => RaceInv'
<1> SUFFICES ASSUME ~EarlyCancel, TypeOK, OwnerInv, RaceInv, [Next]_vars PROVE RaceInv'
  OBVIOUS
<1> USE DEF RaceInv, InDetach, listenVars, dispatchVars, awaitVars, closeVars
<1>0. canceller \in [Awaiters -> {"none", "detach", "unlock", "resume"}]
  BY DEF TypeOK
<1>1. ASSUME UNCHANGED <<closeVars, canceller>>, phase = "up" \/ attached \subseteq attached'
      PROVE  RaceInv'
  BY <1>1
<1>2. ASSUME NEW e \in Events, TakeAwaiters(e) \/ DispatchStep(e) PROVE RaceInv'
  <2>1. UNCHANGED <<closeVars, canceller>> /\ (phase = "up" \/ attached' = attached)
    BY <1>2 DEF TakeAwaiters, DispatchStep, ResumeNext, StartCalling, CallListener,
       ListenerReturns, ListenerThrows, StopCalling, AwaitTask, RethrowTask, EndDispatch
  <2> QED
    BY <1>1, <2>1
<1>3. ASSUME NEW a \in Awaiters, AwaiterStep(a) PROVE RaceInv'
  <2>1. CASE StoreHandle(a) \/ AttachAwaiter(a) \/ StopUsing(a) \/ AwaiterThrows(a)
    BY <1>1, <2>1 DEF StoreHandle, AttachAwaiter, StopUsing, AwaiterThrows
  <2>2. CASE AwaitResume(a)
    <3>1. canceller[a] = "none" /\ UNCHANGED <<phase, raced, canceller, attached>>
      BY <2>2 DEF AwaitResume, OwnerInv, AwaiterAt
    <3>2. \/ closer = "inside" /\ closing = {a} /\ closer' = "test" /\ closing' = {}
          \/ UNCHANGED <<closer, closing>>
      BY <2>2 DEF AwaitResume
    <3> QED
      BY <3>1, <3>2
  <2>3. CASE CancelDetach(a)
    <3>1. /\ canceller[a] = "detach" /\ canceller' = [canceller EXCEPT ![a] = "unlock"]
          /\ UNCHANGED closeVars
      BY <2>3 DEF CancelDetach
    <3> QED
      BY <1>0, <3>1
  <2>4. CASE CancelUnlock(a) \/ CancelResume(a)
    <3>1. /\ UNCHANGED <<closeVars, attached>>
          /\ canceller' = [canceller EXCEPT ![a] = canceller'[a]] /\ ~InDetach(a)'
      BY <1>0, <2>4 DEF CancelUnlock, CancelResume, AfterDetach
    <3> QED
      BY <1>0, <3>1
  <2> QED
    BY <1>3, <2>1, <2>2, <2>3, <2>4 DEF AwaiterStep
<1>4. ASSUME NEW a \in Awaiters, Cancel(a) PROVE RaceInv'
  <2>1. /\ UNCHANGED <<phase, closer, closing, attached>> /\ raced' = (raced \/ phase = "closing")
        /\ apc[a] = "suspended" /\ astate[a] = "waiting"
    BY <1>4 DEF Cancel
  <2>2. a \in attached
    BY <2>1 DEF OwnerInv, AwaiterAt, Suspended, Waits, Cancelling, Taken
  <2>3. phase # "down"
    BY <2>2 DEF OwnerInv, CloseInv
  <2>4. phase \in {"up", "closing"} \/ raced
    BY <2>3 DEF TypeOK
  <2> QED
    BY <2>1, <2>4
<1>5. CASE BeginDestroy
  BY <1>5 DEF BeginDestroy
<1>6. CASE CloseTest
  BY <1>6 DEF CloseTest, AllCancelled
<1>7. CASE CloseBack
  <2>1. phase = "closing" /\ closer = "back" /\ UNCHANGED <<canceller, attached, raced>>
    BY <1>7 DEF CloseBack
  <2>2. \/ attached = {} /\ phase' = "undefined"
        \/ phase' = phase /\ closer' = "cancel" /\ closing' \subseteq attached
    BY <1>7 DEF CloseBack
  <2> QED
    BY <2>1, <2>2
<1>8. ASSUME NEW a \in Awaiters, CloseCancel(a) PROVE RaceInv'
  <2>1. /\ phase = "closing" /\ closer = "cancel" /\ closing = {a} /\ closer' = "inside"
        /\ canceller' = [canceller EXCEPT ![a] = "detach"]
        /\ UNCHANGED <<phase, closing, raced>>
    BY <1>8 DEF CloseCancel
  <2> QED
    BY <1>0, <2>1
<1>9. ASSUME NEW a \in Awaiters, CloseSkip(a) PROVE RaceInv'
  <2>1. /\ phase = "closing" /\ closer = "cancel" /\ closing = {a}
        /\ UNCHANGED <<canceller, attached, raced>>
        /\ \/ phase' = phase /\ closer' = "test" /\ closing' = {}
           \/ ~Lives(a) /\ phase' = "undefined"
    BY <1>9 DEF CloseSkip
  <2>2. a \in attached => Lives(a)
    BY DEF OwnerInv, AwaiterAt, Lives
  <2> QED
    BY <2>1, <2>2
<1>10. ASSUME NEW a \in Awaiters, NEW p \in Predicates, BeginAwait(a, p) PROVE RaceInv'
  BY <1>1, <1>10 DEF BeginAwait
<1>11. CASE \/ \E k \in Kinds : Attach(k)
            \/ \E h \in Handles : Detach(h)
            \/ \E e \in Events, h \in Handles : TaskEnds(e, h)
            \/ UNCHANGED vars
  BY <1>1, <1>11 DEF Attach, Detach, TaskEnds, vars
<1> QED
  BY <1>2, <1>3, <1>4, <1>5, <1>6, <1>7, <1>8, <1>9, <1>10, <1>11 DEF Next, DestroyStep

-----------------------------------------------------------------------------
(* The tasks of a dispatch *)

TaskKept(e) ==
  pc[e] # "aborted" =>
    \A h \in running[e] :
      h \in tasks[e] \/ (pc[e] = "inside" /\ h = Reached(e) /\ container[h] = "task")

\* Every step leaves each dispatch with the tasks that still run.
LEMMA TaskStep == TypeOK /\ LoopInv /\ TaskInv /\ [Next]_vars => TaskInv'
<1> SUFFICES ASSUME TypeOK, LoopInv, TaskInv, [Next]_vars, NEW e \in Events
             PROVE  TaskKept(e)'
  BY DEF TaskInv, TaskKept
<1> USE DEF TypeOK, TaskInv, TaskKept, listenVars, dispatchVars, awaitVars, closeVars
<1>1. ASSUME NEW k \in Kinds, Attach(k) PROVE TaskKept(e)'
  BY <1>1 DEF Attach, Unshared
<1>2. ASSUME NEW h \in Handles, Detach(h) PROVE TaskKept(e)'
  BY <1>2 DEF Detach, Unshared
<1>3. ASSUME UNCHANGED <<container, pc[e], called[e], tasks[e], running[e]>>
      PROVE  TaskKept(e)'
  BY <1>3 DEF Reached
<1>4. ASSUME pc[e] # "aborted", pc[e] # "inside", UNCHANGED <<tasks[e], running[e]>>
      PROVE  TaskKept(e)'
  BY <1>4
<1>5. ASSUME NEW d \in Events, TakeAwaiters(d) \/ DispatchStep(d), d # e
      PROVE  TaskKept(e)'
  <2>1. UNCHANGED <<container, pc[e], called[e], tasks[e], running[e]>>
    BY <1>5
    DEF TakeAwaiters, DispatchStep, ResumeNext, StartCalling, CallListener,
        ListenerReturns, ListenerThrows, StopCalling, AwaitTask, RethrowTask,
        EndDispatch, Abort
  <2> QED
    BY <1>3, <2>1
<1>6. CASE CallListener(e)
  <2>1. Reached(e)' = Min(Ahead(e)) /\ UNCHANGED <<container, tasks>>
    BY <1>6, LoopCall DEF CallListener
  <2>2. \A h \in running'[e] :
          h \in running[e] \/ (h = Min(Ahead(e)) /\ container[h] = "task")
    BY <1>6 DEF CallListener
  <2>3. \A h \in running[e] : h \in tasks[e]
    BY <1>6 DEF CallListener
  <2>4. pc'[e] = "inside"
    BY <1>6 DEF CallListener
  <2> QED
    BY <2>1, <2>2, <2>3, <2>4
<1>7. CASE ListenerReturns(e)
  <2>1. Reached(e) \in Handles
    BY <1>7 DEF ListenerReturns, LoopInv
  <2> QED
    BY <1>7, <2>1 DEF ListenerReturns
<1>8. CASE Abort(e)
  BY <1>8 DEF Abort
<1>9. CASE AwaitTask(e)
  <2>1. /\ UNCHANGED <<pc, running>>
        /\ tasks'[e] = tasks[e] \ {Min(tasks[e])} /\ Min(tasks[e]) \notin running[e]
        /\ pc[e] = "awaiting"
    BY <1>9 DEF AwaitTask
  <2> QED
    BY <2>1
<1>10. CASE TakeAwaiters(e) \/ StartCalling(e) \/ StopCalling(e) \/ EndDispatch(e)
  BY <1>4, <1>10 DEF TakeAwaiters, StartCalling, StopCalling, EndDispatch
<1>11. ASSUME NEW a \in Awaiters, ResumeNext(e, a) PROVE TaskKept(e)'
  BY <1>4, <1>11 DEF ResumeNext
<1>12. ASSUME NEW d \in Events, NEW h \in Handles, TaskEnds(d, h) PROVE TaskKept(e)'
  <2>1. UNCHANGED <<container, pc, called, tasks>> /\ running'[e] \subseteq running[e]
    BY <1>12 DEF TaskEnds
  <2> QED
    BY <2>1 DEF Reached
<1>13. ASSUME NEW a \in Awaiters, AwaiterStep(a) \/ Cancel(a) \/ CloseCancel(a) \/ CloseSkip(a)
       PROVE  TaskKept(e)'
  <2>1. CASE AwaiterThrows(a)
    <3>1. CASE runner[a] = e
      BY <1>8, <2>1, <3>1 DEF AwaiterThrows
    <3>2. CASE runner[a] # e
      BY <1>3, <2>1, <3>2 DEF AwaiterThrows, Abort
    <3> QED
      BY <3>1, <3>2
  <2> QED
    BY <1>3, <1>13, <2>1
    DEF AwaiterStep, StoreHandle, AttachAwaiter, AwaitResume, StopUsing,
        CancelDetach, CancelUnlock, CancelResume, Cancel, CloseCancel, CloseSkip
<1>14. ASSUME NEW a \in Awaiters, NEW p \in Predicates, BeginAwait(a, p) PROVE TaskKept(e)'
  BY <1>3, <1>14 DEF BeginAwait
<1>15. CASE BeginDestroy \/ CloseTest \/ CloseBack \/ UNCHANGED vars
  BY <1>3, <1>15 DEF BeginDestroy, CloseTest, CloseBack, vars
<1> QED
  BY <1>1, <1>2, <1>5, <1>6, <1>7, <1>8, <1>9, <1>10, <1>11, <1>12, <1>13, <1>14, <1>15
  DEF Next, DispatchStep, DestroyStep, ListenerThrows, RethrowTask

\* A dispatch that has ended gets no more tasks.
LEMMA EndedStep == TypeOK /\ TasksEnded /\ [Next]_vars => TasksEnded'
<1> SUFFICES ASSUME TypeOK, TasksEnded, [Next]_vars, NEW e \in Events, pc'[e] = "done"
             PROVE  tasks'[e] = {}
  BY DEF TasksEnded
<1> USE DEF TypeOK, TasksEnded, listenVars, dispatchVars, awaitVars, closeVars
<1>1. ASSUME NEW d \in Events, TakeAwaiters(d) \/ DispatchStep(d) PROVE tasks'[e] = {}
  <2>1. CASE EndDispatch(d)
    BY <2>1 DEF EndDispatch, TasksOver
  <2> QED
    BY <1>1, <2>1
    DEF TakeAwaiters, DispatchStep, ResumeNext, StartCalling, CallListener,
        ListenerReturns, ListenerThrows, StopCalling, AwaitTask, RethrowTask, Abort
<1>2. ASSUME NEW a \in Awaiters, AwaiterThrows(a) PROVE tasks'[e] = {}
  BY <1>2 DEF AwaiterThrows, Abort
<1>3. ASSUME UNCHANGED <<pc, tasks>> PROVE tasks'[e] = {}
  BY <1>3
<1> QED
  BY <1>1, <1>2, <1>3
  DEF Next, Attach, Detach, TaskEnds, BeginAwait, AwaiterStep, StoreHandle,
      AttachAwaiter, AwaitResume, StopUsing, CancelDetach, CancelUnlock, CancelResume,
      Cancel, BeginDestroy, DestroyStep, CloseTest, CloseBack, CloseCancel, CloseSkip, vars

-----------------------------------------------------------------------------
(* The theorems *)

IInv == TypeOK /\ LoopInv /\ OwnerInv /\ RaceInv /\ TaskInv /\ TasksEnded

\* The invariant holds where cancel() is only called on awaitables that are
\* suspended, or by the destructor.
THEOREM Invariance == ASSUME ~EarlyCancel PROVE Spec => []IInv
<1>1. Init => TaskInv /\ TasksEnded /\ RaceInv
  BY DEF Init, TaskInv, TasksEnded, RaceInv
<1> QED
  BY TypeInit, TypeStep, LoopInit, LoopStep, OwnerInit, OwnerStep, RaceStep, TaskStep,
     EndedStep, <1>1, PTL DEF Spec, IInv

\* A coroutine is resumed only while it is suspended in the router, however
\* many dispatches and cancels compete for it.
THEOREM ResumeOnce == ASSUME ~EarlyCancel PROVE Spec => []ResumedOnlyWhenSuspended
<1>1. IInv => ResumedOnlyWhenSuspended
  BY DEF IInv, OwnerInv, ResumedOnlyWhenSuspended
<1> QED
  BY Invariance, <1>1, PTL

\* A suspended coroutine is attached, or exactly one party is about to resume
\* it, unless the dispatch that took it ended with an exception.
THEOREM NoneForgotten == ASSUME ~EarlyCancel PROVE Spec => []SuspendedIsHeld
<1>1. ASSUME IInv, NEW a \in Awaiters, apc[a] = "suspended"
      PROVE  LET holders == {e \in Events : a \in toResume[e]} IN
             \/ a \in attached /\ holders = {}
             \/ Cardinality(holders) = 1 /\ canceller[a] = "none"
             \/ holders = {} /\ canceller[a] \in {"unlock", "resume"}
             \/ event[a] \in Events /\ pc[event[a]] = "aborted"
  <2> DEFINE holders == {e \in Events : a \in toResume[e]}
  <2>1. Suspended(a) /\ \A e \in holders : event[a] = e /\ Taken(a)
    BY <1>1 DEF IInv, OwnerInv, AwaiterAt
  <2>2. CASE ~Taken(a)
    BY <2>1, <2>2 DEF Suspended
  <2>3. CASE Taken(a)
    <3>1. CASE a \in toResume[event[a]]
      <4>1. holders = {event[a]}
        BY <2>1, <2>3, <3>1 DEF Taken
      <4>2. Cardinality(holders) = 1
        BY <4>1, FS_Singleton
      <4>3. canceller[a] = "none"
        BY <2>1, <2>3 DEF Suspended, Taken, Waits, Cancelling
      <4> QED
        BY <4>2, <4>3
    <3>2. CASE a \notin toResume[event[a]]
      <4>1. pc[event[a]] = "aborted" /\ event[a] \in Events
        BY <2>1, <2>3, <3>2 DEF Suspended, Taken, Waits, Cancelling
      <4> QED
        BY <4>1
    <3> QED
      BY <3>1, <3>2
  <2> QED
    BY <2>2, <2>3
<1>2. IInv => SuspendedIsHeld
  BY <1>1 DEF SuspendedIsHeld
<1> QED
  BY Invariance, <1>2, PTL

\* The event of a dispatch that has ended is used by no task and no coroutine.
THEOREM EventLives == ASSUME ~EarlyCancel PROVE Spec => []EventOutlivesUsers
<1>1. ASSUME IInv, NEW e \in Events, pc[e] = "done"
      PROVE  /\ running[e] = {}
             /\ \A a \in Awaiters : event[a] # e /\ runner[a] # e /\ a \notin toResume[e]
  <2>1. running[e] = {}
    BY <1>1 DEF IInv, TaskInv, TasksEnded
  <2> QED
    BY <1>1, <2>1, EventFree DEF IInv
<1>2. IInv => EventOutlivesUsers
  BY <1>1 DEF EventOutlivesUsers
<1> QED
  BY Invariance, <1>2, PTL

\* Nothing is attached to a router that has been destroyed; where no other
\* thread's cancel() had yet to leave detach_coro, nobody holds or will take its
\* lock, and the destructor has touched nothing that is gone.
THEOREM DestructionIsClean == ASSUME ~EarlyCancel PROVE Spec => []DestroyedIsUnused
<1>1. IInv => DestroyedIsUnused
  BY DEF IInv, OwnerInv, CloseInv, RaceInv, DestroyedIsUnused
<1> QED
  BY Invariance, <1>1, PTL
=============================================================================
