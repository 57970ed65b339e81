-------------------------- MODULE Collector_proofs --------------------------
(***************************************************************************)
(* Theorems about the collector for any number of events, however its      *)
(* timer stops.  The argument: detach comes before stop_timer, in the tick *)
(* as in the destructor, and waits for the listeners that are running, so  *)
(* that the list is at rest from then on; and the timer is stopped once,   *)
(* so that on_stop comes once.                                             *)
(***************************************************************************)
EXTENDS Collector, SequenceTheorems, TLAPS

\* What is detached has no listener running.
DetachedIsQuiet == ~attached => Quiet

\* Whoever has got past its detach finds the listener detached.
Past ==
  \/ timer \in {"stopped", "gone"} \/ tl = "freed" \/ triggered \/ nested
  \/ tpc \in {"stop", "ending", "completing"}
  \/ opc \in {"stop", "ending", "completing", "free"}

\* on_stop is called by one thread, once, when the timer is gone.
StopsOnce ==
  /\ tpc = "ending" => timer = "gone" /\ ~triggered /\ opc # "ending"
  /\ opc = "ending" => timer = "gone" /\ ~triggered
  /\ triggered => timer = "gone"
  /\ handed # <<>> => triggered
  /\ Len(handed) <= 1
  /\ nested \/ opc = "completing" => timer = "gone"
  /\ timer = "unset" <=> opc = "attached"
  /\ opc = "attached" => tpc = "idle"

\* The derived part is missing while the constructor runs.
HalfBuilt == object = "half" <=> opc \in {"attached", "started", "deriving"}

\* completed() was given the list as it is: nothing was added since.
HandedStored == \A i \in DOMAIN handed : handed[i] = stored

\* Where no two events raced, the list holds what was kept.
StoredIsKept ==
  "race" \notin faults =>
    /\ ToSet(stored) = {d \in Dispatches : dpc[d] = "kept"}
    /\ \A d, e \in Dispatches : dpc[d] = "pushing" /\ dpc[e] = "pushing" => d = e
    /\ \A d \in Dispatches : dpc[d] = "pushing" => seen[d] = stored

\* How far the threads have come, apart from the list.
Course == (Past => ~attached) /\ StopsOnce /\ HalfBuilt

ListInv ==
  /\ TypeOK
  /\ DetachedIsQuiet
  /\ Course
  /\ HandedStored
  /\ StoredIsKept

Faults ==
  {"race", "halfBuilt", "pureVirtual", "useAfterFree", "doubleDelete", "uninitialized"}

-----------------------------------------------------------------------------
(* Types *)

\* The lists of events, and what push_back makes of one.
LEMMA ListFacts ==
  /\ <<>> \in Lists
  /\ \A s \in Lists, d \in Dispatches :
       /\ Append(s, d) \in Lists
       /\ ToSet(Append(s, d)) = ToSet(s) \cup {d}
  /\ <<>> \in Seq(Lists)
  /\ \A h \in Seq(Lists), s \in Lists : Append(h, s) \in Seq(Lists)
<1>1. <<>> \in Lists
  BY EmptySeq DEF Lists
<1>2. ASSUME NEW s \in Lists, NEW d \in Dispatches
      PROVE  /\ Append(s, d) \in Lists
             /\ ToSet(Append(s, d)) = ToSet(s) \cup {d}
  <2> DEFINE t == Append(s, d)
  <2>1. /\ t \in Seq(Dispatches) /\ Len(t) = Len(s) + 1
        /\ \A i \in 1 .. Len(s) : t[i] = s[i]
        /\ t[Len(s) + 1] = d
    BY <1>2, AppendProperties DEF Lists
  <2>2. /\ DOMAIN t = 1 .. Len(t) /\ DOMAIN s = 1 .. Len(s) /\ Len(s) \in Nat
    BY <1>2, <2>1, LenProperties DEF Lists
  <2>3. DOMAIN t = DOMAIN s \cup {Len(s) + 1}
    BY <2>1, <2>2
  <2> HIDE DEF t
  <2>4. ToSet(t) = ToSet(s) \cup {d}
    BY <2>1, <2>2, <2>3 DEF ToSet
  <2> QED
    BY <2>1, <2>4 DEF Lists, t
<1>3. <<>> \in Seq(Lists)
  BY EmptySeq
<1>4. \A h \in Seq(Lists), s \in Lists : Append(h, s) \in Seq(Lists)
  BY AppendProperties
<1> QED
  BY <1>1, <1>2, <1>3, <1>4

\* The constructor leaves a listener and a timer.
LEMMA TypeInit == Init => TypeOK
  BY ListFacts DEF Init, TypeOK

\* What a dispatch does when it calls the listener, or finds it gone.
LEMMA ListenEffect ==
  ASSUME NEW d \in Dispatches, Listen(d)
  PROVE  \E at \in {"listening", "passed"} :
           /\ dpc' = [dpc EXCEPT ![d] = at]
           /\ at = "listening" => attached
           /\ UNCHANGED <<attached, stored, seen, timerVars, ownerVars, doneVars, faults>>
<1>1. CASE attached
  <2>1. dpc' = [dpc EXCEPT ![d] = "listening"]
    BY <1>1, Zenon DEF Listen
  <2> QED
    BY <1>1, <2>1, Zenon DEF Listen
<1>2. CASE ~attached
  <2>1. dpc' = [dpc EXCEPT ![d] = "passed"]
    BY <1>2, Zenon DEF Listen
  <2>2. "passed" # "listening"
    OBVIOUS
  <2> QED
    BY <2>1, <2>2, Zenon DEF Listen
<1> QED
  BY <1>1, <1>2

\* What a listener does: it passes, or begins to push.
LEMMA FilterEffect ==
  ASSUME NEW d \in Dispatches, Filter(d)
  PROVE  /\ dpc[d] = "listening"
         /\ UNCHANGED <<attached, stored, timerVars, ownerVars, doneVars>>
         /\ \/ /\ dpc' = [dpc EXCEPT ![d] = "passed"] /\ seen' = seen
               /\ faults' = faults \/ faults' = faults \cup {Missing}
            \/ /\ dpc' = [dpc EXCEPT ![d] = "pushing"]
               /\ seen' = [seen EXCEPT ![d] = stored]
               /\ \/ faults' = faults \cup {"race"}
                  \/ /\ faults' = faults
                     /\ \A e \in Dispatches \ {d} : dpc[e] # "pushing"
  BY Zenon DEF Filter, Fault

\* What the end of a cancel() or of a destructor does.
LEMMA FreeEffect ==
  ASSUME Free
  PROVE  /\ opc = "free"
         /\ tl' = "freed" /\ opc' \in {"completing", "idle"}
         /\ opc' = "completing" => nested
         /\ nested' = FALSE
         /\ object' = IF object = "base" THEN "gone" ELSE object
         /\ faults' = faults \/ faults' = faults \cup {"doubleDelete"}
         /\ UNCHANGED <<routerVars, timerVars, doneVars>>
<1>1. CASE nested
  BY <1>1, Zenon DEF Free, Fault
<1>2. CASE ~nested
  <2>1. opc' = "idle" /\ "idle" # "completing"
    BY <1>2, Zenon DEF Free
  <2> QED
    BY <2>1, Zenon DEF Free, Fault
<1> QED
  BY <1>1, <1>2

\* What the begin of a cancel() or of a destructor does.
LEMMA EnterEffect ==
  ASSUME Cancel \/ Destroy
  PROVE  /\ object = "whole" /\ opc \in {"idle", "completing"}
         /\ onTimerThread => tpc \in {"idle", "completing"}
         /\ nested' \in BOOLEAN /\ (nested' => opc = "completing")
         /\ opc' \in {"detach", "free"} /\ (opc' = "free" => tl # "live")
         /\ object' = object \/ (object' = "base" /\ (DestroyEarly \/ handed # <<>>))
         /\ UNCHANGED <<routerVars, timerVars, tl, doneVars, faults>>
<1>1. CASE Cancel
  BY <1>1, Zenon DEF Cancel, Enter, MayOwn
<1>2. CASE Destroy
  <2>1. opc' \in {"detach", "free"} /\ (opc' = "free" => tl # "live")
    <3>1. CASE tl = "live"
      <4>1. opc' = "detach" /\ "detach" # "free"
        BY <1>2, <3>1, Zenon DEF Destroy
      <4> QED
        BY <4>1, Zenon
    <3>2. CASE tl # "live"
      BY <1>2, <3>2, Zenon DEF Destroy
    <3> QED
      BY <3>1, <3>2
  <2> QED
    BY <1>2, <2>1, Zenon DEF Destroy, Enter, MayOwn
<1> QED
  BY <1>1, <1>2

\* Every step keeps the types.
LEMMA TypeStep == TypeOK /\ [Next]_vars => TypeOK'
<1> SUFFICES ASSUME TypeOK, [Next]_vars PROVE TypeOK'
  OBVIOUS
<1> USE DEF TypeOK, Faults, routerVars, timerVars, fixedVars, ownerVars, doneVars, Fault
<1>1. ASSUME NEW d \in Dispatches, DispatchStep(d) PROVE TypeOK'
  <2>1. CASE Listen(d)
    <3>1. PICK at \in {"listening", "passed"} :
            /\ dpc' = [dpc EXCEPT ![d] = at]
            /\ UNCHANGED <<attached, stored, seen, timerVars, ownerVars, doneVars, faults>>
      BY <1>1, <2>1, ListenEffect, Zenon
    <3> QED
      BY <1>1, <3>1
  <2>2. CASE Filter(d)
    <3>1. dpc' \in [Dispatches -> {"queued", "listening", "pushing", "kept", "passed"}]
      BY <1>1, <2>2, FilterEffect
    <3>2. seen' \in [Dispatches -> Lists]
      BY <1>1, <2>2, FilterEffect
    <3>3. faults' \subseteq Faults
      BY <1>1, <2>2, FilterEffect DEF Missing
    <3> QED
      BY <1>1, <2>2, <3>1, <3>2, <3>3, FilterEffect
  <2>3. CASE Store(d)
    <3>1. Append(seen[d], d) \in Lists
      BY <1>1, ListFacts
    <3> QED
      BY <2>3, <3>1 DEF Store
  <2> QED
    BY <1>1, <2>1, <2>2, <2>3 DEF DispatchStep
<1>2. ASSUME OnEnd
      PROVE  /\ triggered' \in BOOLEAN /\ handed' \in Seq(Lists)
             /\ faults' \subseteq Faults
  <2>1. Append(handed, stored) \in Seq(Lists)
    BY ListFacts
  <2> QED
    BY <1>2, <2>1 DEF OnEnd, Missing
<1>3. CASE TimerStep
  <2>1. CASE TimerDue \/ StopNoticed \/ TimerCompleted
    <3>1. /\ UNCHANGED <<routerVars, fixedVars, ownerVars, doneVars, faults>>
          /\ tpc' \in {"detach", "ending", "idle"} /\ timer' \in {timer, "gone"}
      BY <2>1, Zenon DEF TimerDue, StopNoticed, TimerCompleted
    <3> QED
      BY <3>1
  <2>5. CASE TickOnFreed
    BY <2>5 DEF TickOnFreed
  <2>6. CASE TickStopsNone
    BY <2>6 DEF TickStopsNone
  <2>2. CASE TickDetach
    BY <2>2 DEF TickDetach, TickDetaches
  <2>3. CASE TickStop
    BY <2>3 DEF TickStop, TickStops, Stopped, AfterStop
  <2>4. CASE TimerEnds
    BY <1>2, <2>4 DEF TimerEnds
  <2> QED
    BY <1>3, <2>1, <2>2, <2>3, <2>4, <2>5, <2>6 DEF TimerStep
<1>4. CASE Cancel \/ Destroy
  BY <1>4, EnterEffect
<1>5. CASE OwnerStep
  <2>1. CASE OwnerDetach
    BY <2>1 DEF OwnerDetach, AfterDetach
  <2>2. CASE OwnerStop
    BY <2>2 DEF OwnerStop, Stopped, AfterStop
  <2>3. CASE OwnerEnds
    BY <1>2, <2>3 DEF OwnerEnds
  <2>4. CASE OwnerCompleted
    BY <2>4 DEF OwnerCompleted
  <2>5. CASE Free
    <3>1. object' = object \/ object' = "gone"
      BY <2>5, FreeEffect
    <3>2. tl' = "freed" /\ opc' \in {"completing", "idle"} /\ nested' = FALSE
      BY <2>5, FreeEffect, Zenon
    <3>4. nested' \in BOOLEAN
      BY <3>2, Zenon
    <3>5. faults' \subseteq Faults
      BY <2>5, FreeEffect
    <3>3. UNCHANGED <<routerVars, timerVars, doneVars>>
      BY <2>5, FreeEffect, Zenon
    <3>6. tl' \in {"live", "freed"} /\ object' \in {"half", "whole", "base", "gone"}
      BY <3>1, <3>2
    <3> QED
      BY <3>2, <3>3, <3>4, <3>5, <3>6
  <2>6. CASE ConstructorStep
    <3>1. /\ timer' \in {timer, "armed"} /\ opc' \in {"started", "deriving", "idle"}
          /\ object' = object \/ object' = "whole"
          /\ UNCHANGED <<routerVars, fixedVars, tpc, nested, tl, doneVars, faults>>
      BY <2>6, Zenon DEF ConstructorStep, StartTimer, KeepHandles, Constructed
    <3> QED
      BY <3>1
  <2> QED
    BY <1>5, <2>1, <2>2, <2>3, <2>4, <2>5, <2>6 DEF OwnerStep
<1>6. CASE UNCHANGED vars
  BY <1>6 DEF vars
<1> QED
  BY <1>1, <1>3, <1>4, <1>5, <1>6 DEF Next

-----------------------------------------------------------------------------
(* The list *)

\* The list is empty and no event has come.
LEMMA ListInit == Init => ListInv
<1> SUFFICES ASSUME Init PROVE ListInv
  OBVIOUS
<1>1. ToSet(stored) = {} /\ {d \in Dispatches : dpc[d] = "kept"} = {}
  BY DEF Init, ToSet
<1> QED
  BY <1>1, TypeInit
  DEF Init, ListInv, Course, DetachedIsQuiet, Past, StopsOnce, HandedStored, StoredIsKept, HalfBuilt

\* Whatever leaves the timer's and the owner's course alone keeps it.
LEMMA CourseKept ==
  ASSUME Course, UNCHANGED <<attached, timerVars, ownerVars, doneVars>>
  PROVE  Course'
  BY DEF Course, Past, StopsOnce, HalfBuilt, timerVars, ownerVars, doneVars

\* What a step of an event's dispatch does to the list.
LEMMA ListDispatch ==
  ASSUME ListInv, NEW d \in Dispatches, DispatchStep(d), TypeOK'
  PROVE  ListInv'
<1>0. /\ dpc \in [Dispatches -> {"queued", "listening", "pushing", "kept", "passed"}]
      /\ seen \in [Dispatches -> Lists] /\ stored \in Lists /\ Course
  BY DEF ListInv, TypeOK
<1>1. CASE Listen(d)
  <2>1. Course'
    BY <1>0, <1>1, ListenEffect, CourseKept
  <2>2. dpc[d] = "queued"
    BY <1>1 DEF Listen
  <2>3. PICK at \in {"listening", "passed"} :
           /\ dpc' = [dpc EXCEPT ![d] = at]
           /\ at = "listening" => attached
           /\ UNCHANGED <<attached, stored, seen, handed, faults>>
    BY <1>1, ListenEffect, Zenon DEF doneVars
  <2>4. DetachedIsQuiet' /\ HandedStored'
    BY <1>0, <2>3 DEF ListInv, DetachedIsQuiet, Quiet, Inside, HandedStored
  <2>5. StoredIsKept'
    BY <1>0, <2>2, <2>3 DEF ListInv, StoredIsKept
  <2> QED
    BY <2>1, <2>4, <2>5 DEF ListInv
<1>2. CASE Filter(d)
  <2>1. Course'
    BY <1>0, <1>2, FilterEffect, CourseKept
  <2>2. /\ dpc[d] = "listening" /\ UNCHANGED <<attached, stored, handed>>
        /\ \/ dpc' = [dpc EXCEPT ![d] = "passed"] /\ seen' = seen
           \/ /\ dpc' = [dpc EXCEPT ![d] = "pushing"]
              /\ seen' = [seen EXCEPT ![d] = stored]
              /\ "race" \in faults' \/ \A e \in Dispatches \ {d} : dpc[e] # "pushing"
        /\ faults \subseteq faults'
    BY <1>2, FilterEffect DEF doneVars
  <2>3. DetachedIsQuiet' /\ HandedStored'
    BY <1>0, <2>2 DEF ListInv, DetachedIsQuiet, Quiet, Inside, HandedStored
  <2>4. {e \in Dispatches : dpc'[e] = "kept"} = {e \in Dispatches : dpc[e] = "kept"}
    BY <1>0, <2>2
  <2>5. StoredIsKept'
    BY <1>0, <2>2, <2>4 DEF ListInv, StoredIsKept
  <2> QED
    BY <2>1, <2>3, <2>5 DEF ListInv
<1>3. CASE Store(d)
  <2>1. /\ dpc[d] = "pushing" /\ attached
        /\ dpc' = [dpc EXCEPT ![d] = "kept"] /\ stored' = Append(seen[d], d)
        /\ UNCHANGED <<attached, seen, timerVars, ownerVars, doneVars, faults>>
    BY <1>3 DEF Store, ListInv, DetachedIsQuiet, Quiet, Inside
  <2>2. handed = <<>>
    BY <1>0, <2>1 DEF Course, StopsOnce, Past
  <2>3. StoredIsKept'
    <3> SUFFICES ASSUME "race" \notin faults PROVE StoredIsKept'
      BY <2>1 DEF StoredIsKept
    <3>1. seen[d] = stored /\ \A e \in Dispatches \ {d} : dpc[e] # "pushing"
      BY <2>1 DEF ListInv, StoredIsKept
    <3>2. ToSet(stored') = ToSet(stored) \cup {d}
      BY <1>0, <2>1, <3>1, ListFacts
    <3>3. {e \in Dispatches : dpc'[e] = "kept"} =
            {e \in Dispatches : dpc[e] = "kept"} \cup {d}
      BY <1>0, <2>1
    <3>4. \A e \in Dispatches : dpc'[e] # "pushing"
      BY <1>0, <2>1, <3>1
    <3> QED
      BY <2>1, <3>2, <3>3, <3>4 DEF ListInv, StoredIsKept
  <2>4. DetachedIsQuiet' /\ HandedStored'
    BY <2>1, <2>2 DEF DetachedIsQuiet, HandedStored, doneVars
  <2> QED
    BY <1>0, <2>1, <2>3, <2>4, CourseKept DEF ListInv
<1> QED
  BY <1>1, <1>2, <1>3 DEF DispatchStep

\* on_stop hands the list over, once.
LEMMA ListOnEnd ==
  ASSUME ListInv, OnEnd, ~triggered, UNCHANGED routerVars
  PROVE  /\ handed' # <<>> => triggered'
         /\ Len(handed') <= 1
         /\ DetachedIsQuiet' /\ HandedStored' /\ StoredIsKept'
<1> USE DEF routerVars, doneVars, Fault
<1>1. handed = <<>>
  BY DEF ListInv, Course, StopsOnce
<1>2. handed' = handed \/ (handed' = <<stored>> /\ triggered')
  BY <1>1 DEF OnEnd
<1>3. faults \subseteq faults'
  BY DEF OnEnd
<1>4. HandedStored'
  BY <1>1, <1>2 DEF HandedStored
<1>5. Len(handed') <= 1 /\ (handed' # <<>> => triggered')
  <2>1. CASE handed' = <<stored>> /\ triggered'
    <3>1. Len(<<stored>>) = 1
      OBVIOUS
    <3> QED
      BY <2>1, <3>1
  <2>2. CASE handed' = <<>>
    BY <2>2, EmptySeq
  <2> QED
    BY <1>1, <1>2, <2>1, <2>2
<1>6. StoredIsKept'
  BY <1>3 DEF ListInv, StoredIsKept
<1>7. DetachedIsQuiet'
  BY DEF ListInv, DetachedIsQuiet, Quiet, Inside
<1> QED
  BY <1>4, <1>5, <1>6, <1>7

\* Every step of the timer, and of the owner, that calls nothing keeps the
\* course.
LEMMA CourseStep ==
  ASSUME Course, timer \in {"unset", "armed", "stopped", "gone"},
         tl \in {"live", "freed"},
         \/ TimerStep /\ ~TimerEnds
         \/ Cancel \/ Destroy
         \/ OwnerStep /\ ~OwnerEnds
  PROVE  Course' /\ UNCHANGED <<dpc, stored, seen, handed>>
<1> USE DEF Course, Past, StopsOnce, HalfBuilt,
            routerVars, timerVars, fixedVars, ownerVars, doneVars
<1>1. CASE TimerDue
  BY <1>1 DEF TimerDue
<1>2. CASE TickOnFreed
  BY <1>2 DEF TickOnFreed
<1>3. CASE TickDetach
  BY <1>3 DEF TickDetach, TickDetaches
<1>4. CASE TickStop
  BY <1>4 DEF TickStop, TickStops, Stopped, AfterStop
<1>5. CASE TickStopsNone
  BY <1>5 DEF TickStopsNone
<1>6. CASE StopNoticed
  BY <1>6 DEF StopNoticed
<1>7. CASE TimerCompleted
  BY <1>7 DEF TimerCompleted
<1>8. CASE Cancel \/ Destroy
  BY <1>8, EnterEffect
<1>9. CASE ConstructorStep
  BY <1>9 DEF ConstructorStep, StartTimer, KeepHandles, Constructed
<1>10. CASE OwnerDetach
  BY <1>10 DEF OwnerDetach, AfterDetach
<1>11. CASE OwnerStop
  BY <1>11 DEF OwnerStop, Stopped, AfterStop
<1>12. CASE OwnerCompleted
  BY <1>12 DEF OwnerCompleted
<1>13. CASE Free
  BY <1>13, FreeEffect
<1> QED
  BY <1>1, <1>2, <1>3, <1>4, <1>5, <1>6, <1>7, <1>8, <1>9, <1>10, <1>11, <1>12, <1>13
  DEF TimerStep, OwnerStep

\* The same steps leave the list alone.
LEMMA ListKept ==
  ASSUME \/ TimerStep /\ ~TimerEnds
         \/ Cancel \/ Destroy
         \/ OwnerStep /\ ~OwnerEnds
  PROVE  /\ faults \subseteq faults'
         /\ attached' = attached \/ (Quiet /\ attached' = FALSE)
<1> USE DEF routerVars, timerVars, fixedVars, ownerVars, doneVars, Fault
<1>1. CASE TimerStep /\ ~TimerEnds
  BY <1>1 DEF TimerStep, TimerDue, TickOnFreed, TickDetach, TickDetaches, TickStop,
              TickStopsNone, StopNoticed, TimerCompleted
<1>2. CASE Cancel \/ Destroy
  BY <1>2, EnterEffect
<1>3. CASE OwnerStep /\ ~OwnerEnds
  <2>1. CASE Free
    BY <2>1, FreeEffect
  <2> QED
    BY <1>3, <2>1 DEF OwnerStep, ConstructorStep, StartTimer, KeepHandles, Constructed,
                      OwnerDetach, OwnerStop, OwnerCompleted
<1> QED
  BY <1>1, <1>2, <1>3

\* Every step keeps the list at rest once the listener is detached.
LEMMA ListStep == ListInv /\ [Next]_vars => ListInv'
<1> SUFFICES ASSUME ListInv, [Next]_vars PROVE ListInv'
  OBVIOUS
<1>1. TypeOK'
  BY TypeStep DEF ListInv
<1>2. ASSUME NEW d \in Dispatches, DispatchStep(d) PROVE ListInv'
  BY <1>1, <1>2, ListDispatch
<1>3. ASSUME UNCHANGED <<dpc, stored, seen, handed>>, faults \subseteq faults',
             attached' = attached \/ (Quiet /\ attached' = FALSE)
      PROVE  DetachedIsQuiet' /\ HandedStored' /\ StoredIsKept'
  BY <1>3 DEF ListInv, DetachedIsQuiet, Quiet, Inside, HandedStored, StoredIsKept
<1>4. ASSUME \/ TimerStep /\ ~TimerEnds
             \/ Cancel \/ Destroy
             \/ OwnerStep /\ ~OwnerEnds
      PROVE  ListInv'
  <2>1. Course /\ timer \in {"unset", "armed", "stopped", "gone"} /\ tl \in {"live", "freed"}
    BY DEF ListInv, TypeOK
  <2>2. Course' /\ UNCHANGED <<dpc, stored, seen, handed>>
    BY <1>4, <2>1, CourseStep
  <2>3. DetachedIsQuiet' /\ HandedStored' /\ StoredIsKept'
    BY <1>3, <1>4, <2>2, ListKept
  <2> QED
    BY <1>1, <2>2, <2>3 DEF ListInv
<1>5. CASE TimerEnds
  <2>1. OnEnd /\ ~triggered /\ timer = "gone" /\ opc # "ending" /\ ~attached
    BY <1>5 DEF TimerEnds, ListInv, Course, StopsOnce, Past
  <2>2. UNCHANGED <<routerVars, attached, timer, opc, nested, tl, object>> /\ tpc' # "ending"
    BY <1>5 DEF TimerEnds, ownerVars, routerVars
  <2>3. /\ handed' # <<>> => triggered'
        /\ Len(handed') <= 1
        /\ DetachedIsQuiet' /\ HandedStored' /\ StoredIsKept'
    BY <2>1, <2>2, ListOnEnd
  <2>4. Course'
    BY <2>1, <2>2, <2>3 DEF ListInv, Course, Past, StopsOnce, HalfBuilt
  <2> QED
    BY <1>1, <2>3, <2>4 DEF ListInv
<1>6. CASE OwnerEnds
  <2>1. OnEnd /\ ~triggered /\ timer = "gone" /\ opc = "ending" /\ tpc # "ending" /\ ~attached
    BY <1>6 DEF OwnerEnds, ListInv, Course, StopsOnce, Past
  <2>2. /\ UNCHANGED <<routerVars, attached, timer, tpc, nested, tl, object>>
        /\ opc' \in {"completing", "free"}
    BY <1>6 DEF OwnerEnds, timerVars, routerVars
  <2>3. /\ handed' # <<>> => triggered'
        /\ Len(handed') <= 1
        /\ DetachedIsQuiet' /\ HandedStored' /\ StoredIsKept'
    BY <2>1, <2>2, ListOnEnd
  <2>4. Course'
    BY <2>1, <2>2, <2>3 DEF ListInv, Course, Past, StopsOnce, HalfBuilt
  <2> QED
    BY <1>1, <2>3, <2>4 DEF ListInv
<1>7. CASE UNCHANGED vars
  BY <1>1, <1>3, <1>7, CourseKept DEF vars, routerVars, doneVars, ListInv
<1> QED
  BY <1>2, <1>4, <1>5, <1>6, <1>7 DEF Next

\* The invariant of the list holds whatever the owner does, and whichever
\* thread the timer's on_stop is called on.
THEOREM ListAlways == Spec => []ListInv
  BY ListInit, ListStep, PTL DEF Spec

\* No listener writes to the list while completed() reads it.
THEOREM ListAtRest == Spec => []ListIsStable
<1>1. ListInv => ListIsStable
  BY DEF ListInv, Course, Past, DetachedIsQuiet, Quiet, Inside, ListIsStable, Completing
<1> QED
  BY ListAlways, <1>1, PTL

\* completed() is called once at most, with all that was stored unless two
\* events raced.
THEOREM HandedOnce == Spec => []HandedWhole
<1>1. ListInv => HandedWhole
  BY DEF ListInv, Course, StopsOnce, HandedStored, StoredIsKept, HandedWhole
<1> QED
  BY ListAlways, <1>1, PTL

\* on_stop, once it has run, has called completed() or met a freed object.
LEMMA StopCalls ==
  ASSUME ListInv, OnEnd, ~triggered, faults' \subseteq {"race"}
  PROVE  handed' # <<>>
<1>1. object = "whole"
  <2>1. object # "whole" => Missing \in faults'
    BY DEF OnEnd, Fault
  <2>2. Missing # "race"
    BY DEF Missing
  <2> QED
    BY <2>1, <2>2
<1>2. handed' = Append(handed, stored)
  <2>1. object # "gone"
    BY <1>1
  <2> QED
    BY <1>1, <2>1, Zenon DEF OnEnd
<1>3. handed \in Seq(Lists) /\ stored \in Lists
  BY DEF ListInv, TypeOK
<1>4. Len(handed') = Len(handed) + 1 /\ Len(handed) \in Nat
  BY <1>2, <1>3, AppendProperties, LenProperties
<1> QED
  BY <1>4, EmptySeq

\* Nobody ends a timer but on the way to on_stop, and what is missed stays on
\* record.
LEMMA StopStep == ListInv /\ StoppedIsCompleted /\ [Next]_vars => StoppedIsCompleted'
<1> SUFFICES ASSUME ListInv, StoppedIsCompleted, [Next]_vars,
                    timer' = "gone", tpc' # "ending", opc' # "ending", faults' \subseteq {"race"}
             PROVE  handed' # <<>>
  BY DEF StoppedIsCompleted
<1> USE DEF StoppedIsCompleted, routerVars, timerVars, fixedVars, ownerVars, doneVars, Fault
<1>1. ASSUME NEW d \in Dispatches, DispatchStep(d) PROVE handed' # <<>>
  BY <1>1 DEF DispatchStep, Listen, Filter, Store
<1>2. CASE TimerStep
  <2>1. CASE TimerDue \/ TickOnFreed \/ TickDetach \/ TickStopsNone \/ StopNoticed
              \/ TimerCompleted
    BY <2>1 DEF TimerDue, TickOnFreed, TickDetach, TickStopsNone, StopNoticed,
                TimerCompleted
  <2>2. CASE TickStop
    BY <2>2 DEF TickStop, TickStops, Stopped, AfterStop
  <2>3. CASE TimerEnds
    BY <2>3, StopCalls, Zenon DEF TimerEnds, ListInv, Course, StopsOnce
  <2> QED
    BY <1>2, <2>1, <2>2, <2>3 DEF TimerStep
<1>3. CASE Cancel \/ Destroy
  BY <1>3, EnterEffect
<1>4. CASE OwnerStep
  <2>1. CASE ConstructorStep \/ OwnerDetach \/ OwnerCompleted
    BY <2>1 DEF ConstructorStep, StartTimer, KeepHandles, Constructed, OwnerDetach,
                OwnerCompleted
  <2>4. CASE Free
    BY <2>4, FreeEffect
  <2>2. CASE OwnerStop
    BY <2>2 DEF OwnerStop, Stopped, AfterStop
  <2>3. CASE OwnerEnds
    BY <2>3, StopCalls, Zenon DEF OwnerEnds, ListInv, Course, StopsOnce
  <2> QED
    BY <1>4, <2>1, <2>2, <2>3, <2>4 DEF OwnerStep
<1>5. CASE UNCHANGED vars
  BY <1>5 DEF vars
<1> QED
  BY <1>1, <1>2, <1>3, <1>4, <1>5 DEF Next

\* Whoever stops the timer, and wherever on_stop then runs, the list is handed
\* over: with HandedOnce, exactly once.
THEOREM NoneUnhanded == Spec => []StoppedIsCompleted
<1>1. Init => StoppedIsCompleted
  BY DEF Init, StoppedIsCompleted
<1> QED
  BY <1>1, ListAlways, StopStep, PTL DEF Spec

-----------------------------------------------------------------------------
(* Who may still run *)

\* An owner that keeps to the timer's thread acts between two ticks; what it
\* freed has a timer that is stopped, and what it destroyed has completed.
Between ==
  /\ opc # "idle" => tpc \in {"idle", "completing"}
  /\ tpc \in {"detach", "stop"} => tl = "live"
  /\ tl = "freed" \/ opc \in {"free", "completing"} => timer \in {"stopped", "gone"}
  /\ object \in {"base", "gone"} => handed # <<>>
  /\ faults \subseteq {"race", "halfBuilt", "doubleDelete"}

SafeInv == onTimerThread /\ ~DestroyEarly => Between

\* Of a collector that is being built, nothing was freed.
LEMMA SafeInit == Init => SafeInv
  BY DEF Init, SafeInv, Between

\* A listener runs on a collector that is whole, or on its way to be.
LEMMA SafeDispatch ==
  ASSUME ListInv, Between, NEW d \in Dispatches, DispatchStep(d)
  PROVE  Between'
<1>1. faults' \subseteq {"race", "halfBuilt", "doubleDelete"}
  <2>1. CASE Listen(d) \/ Store(d)
    BY <2>1, Zenon DEF Listen, Store, Between
  <2>2. CASE Filter(d)
    <3>1. attached /\ handed = <<>>
      <4>1. dpc[d] = "listening"
        BY <2>2, FilterEffect
      <4>2. attached
        BY <4>1, Zenon DEF ListInv, DetachedIsQuiet, Quiet, Inside
      <4> QED
        BY <4>2, Zenon DEF ListInv, Course, StopsOnce, Past
    <3>2. object \in {"whole", "half"}
      BY <3>1 DEF ListInv, TypeOK, Between
    <3>3. \/ faults' = faults \/ faults' = faults \cup {"race"}
          \/ object # "whole" /\ faults' = faults \cup {Missing}
      BY <2>2, Zenon DEF Filter, Fault
    <3> QED
      BY <3>2, <3>3 DEF Missing, Between
  <2> QED
    BY <2>1, <2>2 DEF DispatchStep
<1>2. UNCHANGED <<timerVars, ownerVars, doneVars>>
  BY Zenon DEF DispatchStep, Listen, Filter, Store
<1> QED
  BY <1>1, <1>2, Zenon DEF Between, timerVars, fixedVars, ownerVars, doneVars

\* on_stop finds the collector whole.
LEMMA SafeOnEnd ==
  ASSUME ListInv, Between, OnEnd, ~triggered, opc \in {"idle", "ending"}
  PROVE  faults' = faults /\ handed = <<>>
<1>1. object = "whole" /\ handed = <<>>
  <2>1. handed = <<>>
    BY Zenon DEF ListInv, Course, StopsOnce
  <2>2. object \in {"half", "whole", "base", "gone"} /\ object # "half"
    BY DEF ListInv, TypeOK, Course, HalfBuilt
  <2> QED
    BY <2>1, <2>2 DEF Between
<1>2. faults' = faults
  <2>1. object # "gone"
    BY <1>1
  <2> QED
    BY <1>1, <2>1, Zenon DEF OnEnd
<1> QED
  BY <1>1, <1>2

\* Every step keeps the owner between two ticks.
LEMMA SafeStep == ListInv /\ SafeInv /\ [Next]_vars => SafeInv'
<1> SUFFICES ASSUME ListInv, SafeInv, [Next]_vars, onTimerThread', ~DestroyEarly
             PROVE  Between'
  BY DEF SafeInv
<1> USE DEF routerVars, timerVars, fixedVars, ownerVars, doneVars
<1>1. onTimerThread' = onTimerThread
  <2>1. ASSUME NEW d \in Dispatches, DispatchStep(d)
        PROVE  onTimerThread' = onTimerThread
    BY <2>1, Zenon DEF DispatchStep, Listen, Filter, Store
  <2>2. CASE TimerStep
    BY <2>2, Zenon DEF TimerStep, TimerDue, TickOnFreed, TickDetach, TickStop,
                       TickStopsNone, StopNoticed, TimerEnds, TimerCompleted
  <2>3. CASE Cancel \/ Destroy \/ OwnerStep
    BY <2>3, Zenon DEF Cancel, Destroy, OwnerStep, ConstructorStep, StartTimer,
                       KeepHandles, Constructed, OwnerDetach, OwnerStop, OwnerEnds,
                       OwnerCompleted, Free
  <2>4. CASE UNCHANGED vars
    BY <2>4, Zenon DEF vars
  <2> QED
    BY <2>1, <2>2, <2>3, <2>4 DEF Next
<1>2. onTimerThread /\ Between
  BY <1>1 DEF SafeInv
<1>3. ASSUME NEW d \in Dispatches, DispatchStep(d) PROVE Between'
  BY <1>2, <1>3, SafeDispatch
<1> USE DEF Between
<1>0. /\ timer \in {"unset", "armed", "stopped", "gone"} /\ tl \in {"live", "freed"}
      /\ object \in {"half", "whole", "base", "gone"}
      /\ timer = "unset" <=> opc = "attached"
      /\ handed # <<>> => triggered
      /\ tpc = "ending" \/ opc = "ending" => timer = "gone" /\ ~triggered
      /\ opc = "completing" => timer = "gone"
  BY DEF ListInv, TypeOK, Course, StopsOnce
<1>4. CASE TimerStep
  <2>1. CASE TimerDue \/ StopNoticed \/ TimerCompleted
    <3>1. opc = "idle"
      BY <1>2, <2>1, Zenon DEF TimerDue, StopNoticed, TimerCompleted, OwnerBusy
    <3>2. /\ UNCHANGED <<opc, tl, object, handed, faults>>
          /\ tpc' = "detach" => timer = "armed"
          /\ tpc' # "stop" /\ timer' \in {timer, "gone"}
      BY <3>1, <2>1 DEF TimerDue, StopNoticed, TimerCompleted
    <3> QED
      BY <1>0, <1>2, <3>1, <3>2
  <2>2. CASE TickOnFreed
    BY <1>2, <2>2 DEF TickOnFreed
  <2>3. CASE TickDetach
    BY <1>2, <2>3 DEF TickDetach
  <2>4. CASE TickStop
    BY <1>0, <1>2, <2>4 DEF TickStop, TickStops, Stopped, AfterStop
  <2>5. CASE TickStopsNone
    BY <1>2, <2>5 DEF TickStopsNone
  <2>6. CASE TimerEnds
    <3>1. OnEnd /\ ~triggered /\ tpc = "ending" /\ opc = "idle"
      BY <1>0, <1>2, <2>6 DEF TimerEnds
    <3>2. tpc' \in {"idle", "completing"} /\ UNCHANGED <<timer, opc, tl, object>>
      BY <2>6 DEF TimerEnds
    <3>3. faults' = faults /\ handed = <<>>
      BY <1>2, <3>1, SafeOnEnd
    <3> QED
      BY <1>2, <3>1, <3>2, <3>3
  <2> QED
    BY <1>4, <2>1, <2>2, <2>3, <2>4, <2>5, <2>6 DEF TimerStep
<1>5. CASE Cancel \/ Destroy
  BY <1>0, <1>2, <1>5, EnterEffect
<1>6. CASE OwnerStep
  <2>1. CASE ConstructorStep
    BY <1>0, <1>2, <2>1 DEF ConstructorStep, StartTimer, KeepHandles, Constructed
  <2>2. CASE OwnerDetach
    BY <1>2, <2>2 DEF OwnerDetach, AfterDetach
  <2>3. CASE OwnerStop
    BY <1>0, <1>2, <2>3 DEF OwnerStop, Stopped, AfterStop
  <2>4. CASE OwnerCompleted
    BY <1>0, <1>2, <2>4 DEF OwnerCompleted
  <2>5. CASE Free
    <3>1. tpc \in {"idle", "completing"} /\ timer \in {"stopped", "gone"}
      BY <1>2, <2>5, FreeEffect
    <3>2. object' \in {"base", "gone"} => handed # <<>>
      BY <1>2, <2>5, FreeEffect
    <3>3. faults' \subseteq {"race", "halfBuilt", "doubleDelete"}
      BY <1>2, <2>5, FreeEffect
    <3>4. UNCHANGED <<tpc, timer, handed>>
      BY <2>5, FreeEffect
    <3> QED
      BY <3>1, <3>2, <3>3, <3>4
  <2>6. CASE OwnerEnds
    <3>1. OnEnd /\ ~triggered /\ opc = "ending" /\ timer = "gone"
      BY <1>0, <2>6 DEF OwnerEnds
    <3>2. opc' \in {"free", "completing"} /\ UNCHANGED <<timer, tpc, tl, object>>
      BY <2>6 DEF OwnerEnds
    <3>3. faults' = faults /\ handed = <<>>
      BY <1>2, <3>1, SafeOnEnd
    <3> QED
      BY <1>2, <3>1, <3>2, <3>3
  <2> QED
    BY <1>6, <2>1, <2>2, <2>3, <2>4, <2>5, <2>6 DEF OwnerStep
<1>7. CASE UNCHANGED vars
  BY <1>2, <1>7 DEF vars
<1> QED
  BY <1>3, <1>4, <1>5, <1>6, <1>7 DEF Next

\* Nothing runs on what an owner freed that keeps to the timer's thread and
\* destroys the collector after completed(): no tick, listener or on_stop meets
\* a freed object or a destroyed part of one, whatever an event that came before
\* the constructor was over, or a cancel() within a cancel(), did.
THEOREM FreedIsLeft == Spec => []SafeOnTimerThread
<1>1. Init => ListInv /\ SafeInv
  BY ListInit, SafeInit
<1>2. ListInv /\ SafeInv /\ [Next]_vars => (ListInv /\ SafeInv)'
  BY ListStep, SafeStep
<1>3. SafeInv => SafeOnTimerThread
  BY DEF SafeInv, Between, SafeOnTimerThread
<1> QED
  BY <1>1, <1>2, <1>3, PTL DEF Spec
=============================================================================
