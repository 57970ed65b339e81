--------------------------- MODULE WhenAny_proofs ---------------------------
(***************************************************************************)
(* Theorems about when_any for any number of awaitables and on any number  *)
(* of threads. The argument: "waiting" is only ever written by the owner   *)
(* as it suspends, and only one exchange can replace it; the job that made *)
(* that exchange owns the resumption, and the owner sleeps until it comes. *)
(***************************************************************************)
EXTENDS WhenAny, TLAPS

\* An owner that waits is suspended, and its handle is there to resume.
WaitingSleeps == owner_state = "waiting" => opc = "suspended"
HandleStored  == opc \in {"handled", "suspended"} => handle

\* A job that is to resume the owner is the one whose exchange found it
\* waiting: the owner sleeps, and no other job has found it waiting.
OneResumer ==
  \A n \in Jobs : jpc[n] = "resume" =>
    /\ opc = "suspended"
    /\ owner_state = "done"
    /\ \A m \in Jobs : jpc[m] = "resume" => m = n

IInv == TypeOK /\ WaitingSleeps /\ HandleStored /\ OneResumer /\ ~misfired

-----------------------------------------------------------------------------
(* Types *)

\* No job has been made, and the owner has the result of none.
LEMMA TypeInit == Init => TypeOK
<1> SUFFICES ASSUME Init PROVE TypeOK
    OBVIOUS
<1>1. N \in Nat \ {0} /\ ThreadModes \subseteq BOOLEAN
      BY WhenAnyAssumption
<1>2. jpc \in [Jobs -> {"unborn", "awaiting", "ended"} \cup Active]
      BY DEF Init
<1>3. result \in 0 .. N + 2 /\ at \in 1 .. N + 1 /\ inline \in 0 .. N
      BY <1>1 DEF Init, Null
<1> QED  BY <1>1, <1>2, <1>3 DEF Init, TypeOK

\* Every step of a job or of the owner keeps the types.
LEMMA TypeStep == TypeOK /\ [Next]_vars => TypeOK'
<1> SUFFICES ASSUME TypeOK, [Next]_vars PROVE TypeOK'
    OBVIOUS
<1> USE WhenAnyAssumption DEF TypeOK, Jobs, Active, EndJob, GoTo
<1>1. CASE MakeJob \/ MakeThrows \/ Made
      BY <1>1 DEF MakeJob, MakeThrows, Made
<1>2. ASSUME NEW n \in Jobs, Complete(n) \/ Fail(n) PROVE TypeOK'
      BY <1>2 DEF Complete, Fail
<1>3. ASSUME NEW n \in Jobs, JobStep(n) PROVE TypeOK'
      <2>1. CASE CheckState(n)
            BY <2>1 DEF CheckState
      <2>2. CASE BeginEmplace(n)
            BY <2>2 DEF BeginEmplace, Partial
      <2>3. CASE EndEmplace(n)
            BY <2>3 DEF EndEmplace, Exception
      <2>4. CASE Exchange(n)
            BY <2>4 DEF Exchange
      <2>5. CASE ResumeOwner(n)
            BY <2>5 DEF ResumeOwner, IndexOf
      <2> QED  BY <1>3, <2>1, <2>2, <2>3, <2>4, <2>5 DEF JobStep
<1>4. CASE AwaitReady \/ StoreHandle \/ AwaitSuspend
      BY <1>4 DEF AwaitReady, StoreHandle, AwaitSuspend, Suspends
<1>5. CASE BeginDestroy \/ CancelNext \/ EndDestroy
      BY <1>5 DEF BeginDestroy, CancelNext, EndDestroy
<1>6. CASE UNCHANGED vars
      BY <1>6 DEF vars
<1> QED  BY <1>1, <1>2, <1>3, <1>4, <1>5, <1>6 DEF Next, OwnerStep

\* Every variable of when_any and its jobs keeps its type (state_t, make_job).
THEOREM TypeCorrect == Spec => []TypeOK
<1>1. Init => TypeOK
      BY TypeInit
<1>2. TypeOK /\ [Next]_vars => TypeOK'
      BY TypeStep
<1> QED  BY <1>1, <1>2, PTL DEF Spec

-----------------------------------------------------------------------------
(* The owner is resumed once *)

\* No step makes a second resumer, or a resumer of an owner that is awake.
LEMMA InvStep == IInv /\ [Next]_vars => IInv'
<1> SUFFICES ASSUME IInv, [Next]_vars PROVE IInv'
    OBVIOUS
<1>0. TypeOK'
      BY TypeStep DEF IInv
<1> USE <1>0 DEF IInv, TypeOK, WaitingSleeps, HandleStored, OneResumer, EndJob, GoTo
<1>1. CASE MakeJob \/ MakeThrows \/ Made
      <2>1. \A n \in Jobs : jpc'[n] = "resume" => jpc[n] = "resume"
            BY <1>1 DEF MakeJob, MakeThrows, Made
      <2> QED  BY <1>1, <2>1 DEF MakeJob, MakeThrows, Made
<1>2. ASSUME NEW n \in Jobs, Complete(n) \/ Fail(n) PROVE IInv'
      BY <1>2 DEF Complete, Fail
<1>3. ASSUME NEW n \in Jobs, CheckState(n) \/ BeginEmplace(n) \/ EndEmplace(n)
      PROVE  IInv'
      BY <1>3 DEF CheckState, BeginEmplace, EndEmplace
<1>4. ASSUME NEW n \in Jobs, Exchange(n) PROVE IInv'
      <2>1. CASE Wakes(owner_state)
            BY <1>4, <2>1 DEF Exchange, Wakes
      <2>2. CASE ~Wakes(owner_state)
            BY <1>4, <2>2 DEF Exchange, Wakes
      <2> QED  BY <2>1, <2>2
<1>5. ASSUME NEW n \in Jobs, ResumeOwner(n) PROVE IInv'
      BY <1>5 DEF ResumeOwner
<1>6. CASE AwaitReady \/ StoreHandle
      BY <1>6 DEF AwaitReady, StoreHandle
<1>7. CASE AwaitSuspend
      BY <1>7 DEF AwaitSuspend, Suspends
<1>8. CASE BeginDestroy \/ CancelNext \/ EndDestroy
      BY <1>8 DEF BeginDestroy, CancelNext, EndDestroy
<1>9. CASE UNCHANGED vars
      BY <1>9 DEF vars
<1> QED  BY <1>1, <1>2, <1>3, <1>4, <1>5, <1>6, <1>7, <1>8, <1>9
         DEF Next, JobStep, OwnerStep

\* However many awaitables finish at once, and on however many threads, the
\* owner's handle is only resumed while the owner is suspended (make_job's
\* exchange, await_suspend's compare_exchange).
THEOREM ResumeOnce == Spec => []ResumedOnlyWhenSuspended
<1>1. Init => IInv
      BY TypeInit DEF Init, IInv, WaitingSleeps, HandleStored, OneResumer
<1>2. IInv /\ [Next]_vars => IInv'
      BY InvStep
<1>3. IInv => ResumedOnlyWhenSuspended
      BY DEF IInv, ResumedOnlyWhenSuspended
<1> QED  BY <1>1, <1>2, <1>3, PTL DEF Spec

\* The owner falls asleep as it writes "waiting", and the exchange that takes
\* that away leaves a job that is to resume it.
LEMMA ServedStep == IInv /\ SleeperIsServed /\ [Next]_vars => SleeperIsServed'
<1> SUFFICES ASSUME IInv, SleeperIsServed, [Next]_vars, opc' = "suspended"
             PROVE  owner_state' = "waiting" \/ \E n \in Jobs : jpc'[n] = "resume"
    BY DEF SleeperIsServed
<1> USE DEF IInv, TypeOK, SleeperIsServed, HandleStored, EndJob, GoTo
<1>1. CASE MakeJob \/ MakeThrows \/ Made
      BY <1>1 DEF MakeJob, MakeThrows, Made
<1>2. ASSUME NEW n \in Jobs, Complete(n) \/ Fail(n) \/ CheckState(n) \/ BeginEmplace(n) \/ EndEmplace(n)
      PROVE  owner_state' = "waiting" \/ \E m \in Jobs : jpc'[m] = "resume"
      <2>1. /\ jpc[n] # "resume" /\ owner_state' = owner_state /\ opc' = opc
            /\ \A m \in Jobs \ {n} : jpc'[m] = jpc[m]
            BY <1>2 DEF Complete, Fail, CheckState, BeginEmplace, EndEmplace
      <2> QED  BY <2>1
<1>3. ASSUME NEW n \in Jobs, Exchange(n)
      PROVE  owner_state' = "waiting" \/ \E m \in Jobs : jpc'[m] = "resume"
      <2>1. CASE owner_state = "waiting"
            <3>1. jpc'[n] = "resume"
                  BY <1>3, <2>1 DEF Exchange, Wakes
            <3> QED  BY <3>1
      <2>2. CASE owner_state # "waiting"
            <3>1. PICK m \in Jobs : jpc[m] = "resume"
                  BY <1>3, <2>2 DEF Exchange
            <3>2. jpc'[m] = "resume"
                  BY <1>3, <3>1 DEF Exchange
            <3> QED  BY <3>2
      <2> QED  BY <2>1, <2>2
<1>4. ASSUME NEW n \in Jobs, ResumeOwner(n) PROVE FALSE
      <2>1. opc = "suspended" /\ handle
            BY <1>4 DEF ResumeOwner, OneResumer
      <2> QED  BY <1>4, <2>1 DEF ResumeOwner
<1>5. CASE AwaitReady \/ StoreHandle \/ BeginDestroy \/ EndDestroy
      BY <1>5 DEF AwaitReady, StoreHandle, BeginDestroy, EndDestroy
<1>6. CASE AwaitSuspend
      BY <1>6 DEF AwaitSuspend, Suspends
<1>7. CASE CancelNext
      BY <1>7 DEF CancelNext
<1>8. CASE UNCHANGED vars
      BY <1>8 DEF vars
<1> QED  BY <1>1, <1>2, <1>3, <1>4, <1>5, <1>6, <1>7, <1>8
         DEF Next, JobStep, OwnerStep

\* However many jobs find each other's marks in owner_state, an owner that
\* sleeps is waited for or about to be resumed (make_job's exchange).
THEOREM NoLostWakeup == Spec => []SleeperIsServed
<1>1. Init => IInv /\ SleeperIsServed
      BY TypeInit DEF Init, IInv, WaitingSleeps, HandleStored, OneResumer, SleeperIsServed
<1>2. IInv /\ SleeperIsServed /\ [Next]_vars => IInv' /\ SleeperIsServed'
      BY InvStep, ServedStep
<1> QED  BY <1>1, <1>2, PTL DEF Spec

-----------------------------------------------------------------------------
(* The result, where everything runs on one thread *)

\* At most one job runs, and while it does the owner does not: it is where it
\* may rest, or in the constructor that the job runs inside.
OneRuns ==
  \A n \in Jobs : jpc[n] \in Active =>
    /\ \A m \in Jobs : jpc[m] \in Active => m = n
    /\ \/ opc \in {"made", "suspended", "resumed", "destroyed", "threw"}
       \/ opc = "making" /\ inline = n

\* A job on its way to store a result is the first; what it has stored is there
\* until it is done, and stays.
FirstStores ==
  /\ \A n \in Jobs :
       /\ jpc[n] \in {"emplace", "emplacing", "exchange"} => owner_state \in {"started", "waiting"}
       /\ jpc[n] \in {"exchange", "resume"} => result \in {n, Exception}
  /\ owner_state = "done" => result \in Jobs \cup {Exception}
  /\ index_finished # NoIndex =>
       owner_state \in {"done", "dangling"} /\ result \in {index_finished, Exception}

\* An owner that goes on with a result found, or was told, that it is there.
OwnerKnows ==
  /\ opc = "resumed" => owner_state = "done"
  /\ owner_state = "dangling" => opc \in {"cancelling", "destroyed"}

ResultInv == IInv /\ OwnerKnows /\ (sameThread => OneRuns /\ FirstStores)

\* Nothing runs, and nothing is stored.
LEMMA ResultInit == Init => ResultInv
<1> SUFFICES ASSUME Init PROVE ResultInv
    OBVIOUS
<1>1. IInv
      BY TypeInit DEF Init, IInv, WaitingSleeps, HandleStored, OneResumer
<1>2. OneRuns /\ FirstStores /\ OwnerKnows
      BY DEF Init, OneRuns, FirstStores, OwnerKnows, Active
<1> QED  BY <1>1, <1>2 DEF ResultInv

\* A job only goes on alone, and only the first gets to the result.
LEMMA ResultStep == ResultInv /\ [Next]_vars => ResultInv'
<1> SUFFICES ASSUME ResultInv, [Next]_vars PROVE ResultInv'
    OBVIOUS
<1>0. IInv /\ IInv' /\ TypeOK
      BY InvStep DEF ResultInv, IInv
<1>a. sameThread' = sameThread
      BY <1>0 DEF Next, JobStep, OwnerStep, vars, MakeJob, MakeThrows, Made, Complete, Fail,
                  CheckState, BeginEmplace, EndEmplace, Exchange, ResumeOwner, AwaitReady,
                  StoreHandle, AwaitSuspend, BeginDestroy, CancelNext, EndDestroy
<1>b. /\ OwnerKnows
      /\ sameThread => OneRuns /\ FirstStores
      /\ WaitingSleeps /\ OneResumer
      BY <1>0 DEF ResultInv, IInv
<1> SUFFICES OwnerKnows' /\ (sameThread => OneRuns' /\ FirstStores')
    BY <1>0, <1>a DEF ResultInv
<1> USE <1>0, <1>b DEF TypeOK, OneRuns, FirstStores, OwnerKnows, Active, EndJob, GoTo
<1>1. CASE MakeJob \/ MakeThrows \/ Made
      <2>1. CASE MakeJob
            <3>1. /\ opc = "making" /\ inline = 0 /\ at \in Jobs
                  /\ UNCHANGED <<owner_state, result, index_finished, opc>>
                  BY <2>1, WhenAnyAssumption DEF MakeJob, Jobs
            <3>2. sameThread => \A m \in Jobs : jpc[m] \notin Active
                  BY <3>1 DEF Jobs
            <3>3. CASE jpc' = [jpc EXCEPT ![at] = "awaiting"] /\ inline' = inline
                  BY <3>1, <3>2, <3>3
            <3>4. CASE jpc' = [jpc EXCEPT ![at] = "check"] /\ inline' = at
                  BY <3>1, <3>2, <3>4
            <3> QED  BY <2>1, <3>3, <3>4 DEF MakeJob
      <2>2. CASE MakeThrows
            BY <2>2 DEF MakeThrows, Jobs
      <2>3. CASE Made
            BY <2>3 DEF Made
      <2> QED  BY <1>1, <2>1, <2>2, <2>3
<1>2. ASSUME NEW n \in Jobs, Complete(n) \/ Fail(n)
      PROVE  OwnerKnows' /\ (sameThread => OneRuns' /\ FirstStores')
      BY <1>2 DEF Complete, Fail, JobsRest, OwnerRests
<1>3. ASSUME NEW n \in Jobs, CheckState(n)
      PROVE  OwnerKnows' /\ (sameThread => OneRuns' /\ FirstStores')
      BY <1>3 DEF CheckState, IsLate
<1>4. ASSUME NEW n \in Jobs, BeginEmplace(n) \/ EndEmplace(n)
      PROVE  OwnerKnows' /\ (sameThread => OneRuns' /\ FirstStores')
      BY <1>4 DEF BeginEmplace, EndEmplace
<1>5. ASSUME NEW n \in Jobs, Exchange(n)
      PROVE  OwnerKnows' /\ (sameThread => OneRuns' /\ FirstStores')
      BY <1>5 DEF Exchange, Wakes
<1>6. ASSUME NEW n \in Jobs, ResumeOwner(n)
      PROVE  OwnerKnows' /\ (sameThread => OneRuns' /\ FirstStores')
      BY <1>6 DEF ResumeOwner, IndexOf, OneResumer
<1>7. CASE AwaitReady \/ StoreHandle
      BY <1>7 DEF AwaitReady, StoreHandle, JobsRest
<1>8. CASE AwaitSuspend
      BY <1>8 DEF AwaitSuspend, Suspends, WaitingSleeps
<1>9. CASE BeginDestroy \/ CancelNext \/ EndDestroy
      BY <1>9 DEF BeginDestroy, CancelNext, EndDestroy, JobsRest
<1>10. CASE UNCHANGED vars
      BY <1>10 DEF vars
<1> QED  BY <1>1, <1>2, <1>3, <1>4, <1>5, <1>6, <1>7, <1>8, <1>9, <1>10
         DEF Next, JobStep, OwnerStep

\* On one thread, the owner finds a whole result, of the job that index() names.
THEOREM ResultOfFirst == Spec => []ResultOfFirstOnOneThread
<1>1. ResultInv => ResultOfFirstOnOneThread
      BY DEF ResultInv, ResultOfFirstOnOneThread, OwnerKnows, FirstStores
<1> QED  BY <1>1, ResultInit, ResultStep, PTL DEF Spec

\* On one thread, no late job replaces the result of the first.
THEOREM ResultStays == Spec => ResultStaysOnOneThread
<1>1. ASSUME ResultInv, [Next]_vars, sameThread, owner_state \in {"done", "dangling"}
      PROVE  result' = result
      <2>1. \A n \in Jobs : jpc[n] \notin {"emplace", "emplacing"}
            BY <1>1 DEF ResultInv, FirstStores
      <2> QED  BY <1>1, <2>1
               DEF Next, JobStep, OwnerStep, vars, MakeJob, MakeThrows, Made, Complete, Fail,
                   CheckState, BeginEmplace, EndEmplace, Exchange, ResumeOwner, AwaitReady,
                   StoreHandle, AwaitSuspend, BeginDestroy, CancelNext, EndDestroy
<1>2. ResultInv /\ [Next]_vars =>
        [sameThread /\ owner_state \in {"done", "dangling"} => UNCHANGED result]_vars
      BY <1>1
<1> QED  BY <1>2, ResultInit, ResultStep, PTL DEF Spec, ResultStaysOnOneThread
=============================================================================
