------------------------------ MODULE Task_proofs ------------------------------
(***************************************************************************)
(* Theorems about a task and its owner.  On any number of threads, of the  *)
(* destructor of the task object and final_suspend only the one that comes *)
(* later frees the frame: each leaves its flag in the same byte in one     *)
(* step, and reads the other's.  On one thread the two run in turn, so     *)
(* that a parent is woken only while it sleeps, nobody uses a freed frame, *)
(* and a task that was dropped knows that it is cancelled before it runs   *)
(* on.                                                                     *)
(***************************************************************************)
EXTENDS Task, TLAPS

\* TypeOK, and the types of what belongs to the handshake.
Types ==
  /\ TypeOK
  /\ spc \in [{Child} -> P!SetterPC]
  /\ op \in [{Child} -> [result : P!Results, notify : BOOLEAN]]
  /\ cpc \in [{Parent} -> P!AwaitPC]

\* How far the body and the owner are shows in the flags.
FlagsInv ==
  /\ "done" \in state <=> body \in {"resuming", "freeing", "finished"}
  /\ "broken" \in state <=> owner # "holding"
  /\ spc[Child] = "notify" => "ready" \in state
  /\ "done" \in state => "ready" \in state
  /\ "ready" \in state => body \in {"settling", "resuming", "freeing", "finished"}
  /\ body = "checking" => "broken" \in state
  /\ owner = "gone" => cancelled \/ "done" \in state
  /\ P!InAwait(Parent) => owner = "holding"

\* Whose it is to free the frame.
FrameInv ==
  /\ body = "freeing" => owner \in {"cancel", "gone"} /\ frame = "live"
  /\ owner = "destroy" => body \in {"resuming", "finished"} /\ frame = "live"
  /\ frame = "freed" => owner \in {"cancel", "gone"} /\ body \in {"resuming", "finished"}
  /\ "double_free" \notin faults

\* On one thread: one of the two is parked, and a parent that has raised
\* sf_awaited sleeps until the task has ended.
InTurn ==
  /\ ParentParked \/ ChildParked
  /\ "awaited" \in state => cpc[Parent] = "suspended" \/ body = "finished"
  /\ cpc[Parent] = "suspended" => "awaited" \in state
  /\ cpc[Parent] \in {"suspend", "suspended"} => awaiter = Parent
  /\ cpc[Parent] \in {"store", "suspend"} => state \cap {"ready", "awaited"} = {}
  /\ body = "resuming" => cpc[Parent] = "suspended"
  /\ owner = "cancel" => "done" \notin state
  /\ body # "escaped"
  /\ faults = {} /\ misfired = {}

ThreadInv == sameThread => InTurn

IInv == Types /\ FlagsInv /\ FrameInv /\ ThreadInv

-----------------------------------------------------------------------------
(* Types *)

\* The task's frame is made with an empty promise.
LEMMA TypeInit == Init => Types
<1> SUFFICES ASSUME Init PROVE Types
  OBVIOUS
<1>1. /\ spc \in [{Child} -> P!SetterPC] /\ cpc \in [{Parent} -> P!AwaitPC]
      /\ op \in [{Child} -> [result : P!Results, notify : BOOLEAN]]
  BY DEF Init, P!SetterPC, P!AwaitPC, P!Results
<1>2. TypeOK
  BY DEF Init, TypeOK, BodyPC, P!Values, P!Results, P!Flags
<1> QED
  BY <1>1, <1>2 DEF Types

\* The child's steps keep the types.
LEMMA TypeChild == Types /\ (Suspend \/ Continue \/ ChildStep) => Types'
<1> SUFFICES ASSUME Types, Suspend \/ Continue \/ ChildStep PROVE Types'
  OBVIOUS
<1> USE DEF Types, TypeOK, BodyPC, promiseVars, cancelVars, frameVars, threadVars, taskVars,
            P!Values, P!Results, P!Flags, P!SetterPC, P!AwaitPC, P!sharedVars, P!awaitVars
<1>1. CASE Suspend \/ Continue \/ Throw \/ CheckCancelled \/ Escape
  <2>1. CASE Suspend
    BY <2>1 DEF Suspend
  <2>2. CASE Continue
    <3>1. body' \in {"throwing", "running"}
      BY <2>2, Zenon DEF Continue
    <3>2. UNCHANGED <<promiseVars, owner, cancelVars, frameVars, threadVars>>
      BY <2>2, Zenon DEF Continue
    <3> QED
      BY <3>1, <3>2
  <2>3. CASE Throw \/ CheckCancelled \/ Escape
    <3>1. body' \in {"throwing", "checking", "escaped"}
      BY <2>3, Zenon DEF Throw, CheckCancelled, Escape
    <3>2. UNCHANGED <<promiseVars, owner, cancelVars, frameVars, threadVars>>
      BY <2>3, Zenon DEF Throw, CheckCancelled, Escape
    <3> QED
      BY <3>1, <3>2
  <2> QED
    BY <1>1, <2>1, <2>2, <2>3
<1>2. CASE Return \/ StoreException
  <2>1. ASSUME NEW r \in {"value", "exception"}, P!BeginSet(Child, r, FALSE)
        PROVE  /\ spc' \in [{Child} -> {"idle", "emplace", "publish", "notify", "resume",
                                         "returned", "threw"}]
               /\ op' \in [{Child} -> [result : {"value", "exception"}, notify : BOOLEAN]]
               /\ UNCHANGED <<value, state, awaiter, link, alive, cpc, got, misfired>>
    <3>1. CASE P!IsEmpty
      <4>1. /\ spc' = [spc EXCEPT ![Child] = "emplace"]
            /\ op' = [op EXCEPT ![Child] = [result |-> r, notify |-> FALSE]]
            /\ UNCHANGED <<value, state, awaiter, link, alive, cpc, got, misfired>>
        BY <2>1, <3>1, Zenon DEF P!BeginSet
      <4>2. [result |-> r, notify |-> FALSE] \in [result : {"value", "exception"}, notify : BOOLEAN]
        BY <2>1
      <4> QED
        BY <4>1, <4>2
    <3>2. CASE ~P!IsEmpty
      BY <2>1, <3>2 DEF P!BeginSet
    <3> QED
      BY <3>1, <3>2
  <2>2. /\ spc' \in [{Child} -> {"idle", "emplace", "publish", "notify", "resume",
                                  "returned", "threw"}]
        /\ op' \in [{Child} -> [result : {"value", "exception"}, notify : BOOLEAN]]
        /\ UNCHANGED <<value, state, awaiter, cpc, misfired>>
    <3>1. P!BeginSet(Child, "value", FALSE) \/ P!BeginSet(Child, "exception", FALSE)
      BY <1>2, Zenon DEF Return, StoreException
    <3> QED
      BY <2>1, <3>1
  <2>3. body' = "settling" /\ UNCHANGED <<owner, cancelVars, frameVars, threadVars>>
    BY <1>2, Zenon DEF Return, StoreException
  <2> QED
    BY <2>2, <2>3
<1>3. CASE SettleStep
  <2>1. CASE P!Emplace(Child)
    BY <1>3, <2>1 DEF SettleStep, P!Emplace, P!awaitVars
  <2>2. CASE P!Publish(Child)
    BY <1>3, <2>2 DEF SettleStep, P!Publish, P!Published, P!AfterPublish, P!awaitVars
  <2> QED
    BY <1>3, <2>1, <2>2 DEF SettleStep
<1>4. CASE FinalSuspend
  BY <1>4 DEF FinalSuspend, AfterFinal, RaiseDone
<1>5. CASE ResumeParent
  BY <1>5 DEF ResumeParent, Touch
<1>6. CASE FreeSelf
  BY <1>6 DEF FreeSelf, Free
<1> QED
  BY <1>1, <1>2, <1>3, <1>4, <1>5, <1>6 DEF ChildStep

\* The parent's steps keep the types.
LEMMA TypeParent ==
  Types /\ (BeginAwait \/ ParentStep \/ CancelParent \/ Cancel \/ AbandonTask) => Types'
<1> SUFFICES ASSUME Types, BeginAwait \/ ParentStep \/ CancelParent \/ Cancel \/ AbandonTask
             PROVE  Types'
  OBVIOUS
<1> USE DEF Types, TypeOK, BodyPC, promiseVars, cancelVars, frameVars, threadVars, taskVars,
            P!Values, P!Results, P!Flags, P!SetterPC, P!AwaitPC,
            P!sharedVars, P!setVars, P!awaitVars
<1>1. CASE BeginAwait
  BY <1>1 DEF BeginAwait, P!AwaitReady
<1>2. CASE AwaitStep
  <2>1. CASE P!StoreAwaiter(Parent)
    BY <1>2, <2>1 DEF AwaitStep, P!StoreAwaiter
  <2>2. CASE P!AwaitSuspend(Parent)
    BY <1>2, <2>2 DEF AwaitStep, P!AwaitSuspend, P!AfterAwait
  <2>3. CASE P!ClearAwaited(Parent)
    BY <1>2, <2>3 DEF AwaitStep, P!ClearAwaited
  <2>4. CASE P!ReadValue(Parent)
    BY <1>2, <2>4 DEF AwaitStep, P!ReadValue, P!AfterRead
  <2> QED
    BY <1>2, <2>1, <2>2, <2>3, <2>4 DEF AwaitStep
<1>3. CASE UnwindParent
  BY <1>3 DEF UnwindParent
<1>4. CASE DestroyFrame \/ CancelAbandoned
  BY <1>4 DEF DestroyFrame, CancelAbandoned, Free, Touch
<1>5. CASE CancelParent \/ Cancel
  <2>1. CASE CancelParent
    BY <2>1 DEF CancelParent
  <2>2. CASE Cancel
    <3>1. faults' \subseteq {"use_after_free", "double_free"}
      BY <2>2 DEF Cancel, Touch
    <3>2. cancelled' = TRUE /\ UNCHANGED <<promiseVars, body, owner, parentCancelled, frame, threadVars>>
      BY <2>2, Zenon DEF Cancel
    <3> QED
      BY <3>1, <3>2
  <2> QED
    BY <1>5, <2>1, <2>2
<1>6. CASE AbandonTask
  BY <1>6 DEF AbandonTask, P!Abandon
<1> QED
  BY <1>1, <1>2, <1>3, <1>4, <1>5, <1>6 DEF ParentStep

-----------------------------------------------------------------------------
(* Flags *)

\* A set call begins: no flag changes yet.
LEMMA BeginEffect ==
  ASSUME Types, Return \/ StoreException
  PROVE  /\ body \in {"running", "throwing", "checking"} /\ body' = "settling"
         /\ spc'[Child] \in {"emplace", "threw"}
         /\ UNCHANGED <<value, state, awaiter, cpc, misfired, owner, cancelled, frame, faults>>
<1>1. P!BeginSet(Child, "value", FALSE) \/ P!BeginSet(Child, "exception", FALSE)
  BY Zenon DEF Return, StoreException
<1>2. /\ spc' = [spc EXCEPT ![Child] = "emplace"] \/ spc' = [spc EXCEPT ![Child] = "threw"]
      /\ UNCHANGED <<value, state, awaiter, cpc, misfired>>
  BY <1>1, Zenon DEF P!BeginSet, P!sharedVars, P!awaitVars
<1>3. spc'[Child] \in {"emplace", "threw"}
  BY <1>2 DEF Types
<1>4. /\ body \in {"running", "throwing", "checking"} /\ body' = "settling"
      /\ UNCHANGED <<owner, cancelled, frame, faults>>
  BY Zenon DEF Return, StoreException, cancelVars, frameVars
<1> QED
  BY <1>2, <1>3, <1>4

\* The set call goes on: the result is written, then sf_ready is raised.
LEMMA SettleEffect ==
  ASSUME Types, SettleStep
  PROVE  /\ body = "settling"
         /\ \/ state' = state /\ spc'[Child] = "publish"
            \/ state' = state \cup {"ready"}
         /\ UNCHANGED <<awaiter, cpc, misfired, body, owner, cancelled, frame, faults>>
<1>1. CASE P!Emplace(Child)
  BY <1>1 DEF Types, SettleStep, P!Emplace, P!awaitVars, taskVars, cancelVars, frameVars
<1>2. CASE P!Publish(Child)
  BY <1>2 DEF Types, SettleStep, P!Publish, P!Published, P!awaitVars, taskVars, cancelVars, frameVars
<1> QED
  BY <1>1, <1>2 DEF SettleStep

\* The child's steps keep the flags in line with where both are.
LEMMA FlagsChild ==
  Types /\ FlagsInv /\ FrameInv /\ (Suspend \/ Continue \/ ChildStep)
    => (FlagsInv /\ FrameInv)'
<1> SUFFICES ASSUME Types, FlagsInv, FrameInv, Suspend \/ Continue \/ ChildStep
             PROVE  (FlagsInv /\ FrameInv)'
  OBVIOUS
<1> USE DEF FlagsInv, FrameInv, P!InAwait
<1>0. owner \in {"holding", "destroy", "cancel", "gone"} /\ frame \in {"live", "freed"}
  BY DEF Types, TypeOK
<1>1. CASE Suspend \/ Continue \/ Throw \/ CheckCancelled \/ Escape
  <2>1. /\ body \in {"running", "waiting", "throwing", "checking"}
        /\ body' \in {"running", "waiting", "throwing", "checking", "escaped"}
        /\ body' = "checking" => "broken" \in state
        /\ UNCHANGED <<state, spc, cpc, owner, cancelled, frame, faults>>
    <3>1. CASE Suspend \/ Throw \/ CheckCancelled \/ Escape
      BY <3>1 DEF Suspend, Throw, CheckCancelled, Escape, promiseVars, cancelVars, frameVars
    <3>2. CASE Continue
      <4>1. body = "waiting" /\ (body' = "throwing" \/ body' = "running")
        BY <3>2, Zenon DEF Continue
      <4>2. UNCHANGED <<state, spc, cpc, owner, cancelled, frame, faults>>
        BY <3>2, Zenon DEF Continue, promiseVars, cancelVars, frameVars
      <4> QED
        BY <4>1, <4>2
    <3> QED
      BY <1>1, <3>1, <3>2
  <2> QED
    BY <2>1
<1>2. CASE Return \/ StoreException
  BY <1>2, BeginEffect
<1>3. CASE SettleStep
  BY <1>3, SettleEffect
<1>4. CASE FinalSuspend
  <2>1. /\ body = "settling" /\ "ready" \in state /\ spc'[Child] = "returned"
        /\ state' = state \cup {"done"}
        /\ body' \in {"resuming", "freeing", "finished"}
        /\ body' = "freeing" => "broken" \in state
        /\ UNCHANGED <<cpc, owner, cancelled, frame, faults>>
    BY <1>4 DEF FinalSuspend, AfterFinal, RaiseDone, Types, cancelVars, frameVars
  <2> QED
    BY <1>0, <2>1
<1>5. CASE ResumeParent
  <2>1. /\ body = "resuming" /\ body' = "finished"
        /\ cpc' = cpc \/ (cpc[Parent] = "suspended" /\ cpc'[Parent] = "resume")
        /\ UNCHANGED <<state, spc, owner, cancelled, frame>>
    BY <1>5 DEF ResumeParent, Types, cancelVars
  <2>2. faults' \subseteq faults \cup {"use_after_free"}
    BY <1>5 DEF ResumeParent, Touch
  <2> QED
    BY <1>0, <2>1, <2>2
<1>6. CASE FreeSelf
  <2>1. /\ body = "freeing" /\ body' = "finished" /\ frame' = "freed"
        /\ faults' = IF frame = "live" THEN faults ELSE faults \cup {"double_free"}
        /\ UNCHANGED <<state, spc, cpc, owner, cancelled>>
    BY <1>6 DEF FreeSelf, Free, promiseVars, cancelVars
  <2> QED
    BY <1>0, <2>1
<1> QED
  BY <1>1, <1>2, <1>3, <1>4, <1>5, <1>6 DEF ChildStep

\* A co_await begins while the parent holds the task object.
LEMMA AwaitBegins ==
  ASSUME Types, BeginAwait
  PROVE  /\ owner = "holding" /\ ~P!InAwait(Parent)
         /\ \/ cpc'[Parent] = "threw"
            \/ cpc'[Parent] = "resume" /\ "ready" \in state
            \/ cpc'[Parent] = "store" /\ "ready" \notin state
         /\ UNCHANGED <<state, spc, awaiter, misfired, body, owner, cancelled, frame, faults>>
  BY DEF Types, BeginAwait, P!AwaitReady, P!HasResult, P!sharedVars, P!setVars, cancelVars, frameVars

\* A co_await goes on.
LEMMA AwaitEffect ==
  ASSUME Types, AwaitStep
  PROVE  /\ UNCHANGED <<spc, misfired, body, owner, cancelled, frame, faults>>
         /\ \/ /\ cpc[Parent] = "store" /\ cpc'[Parent] = "suspend"
               /\ awaiter' = Parent /\ state' = state
            \/ /\ cpc[Parent] = "suspend" /\ awaiter' = awaiter /\ state' = state \cup {"awaited"}
               /\ cpc'[Parent] \in {"threw", "resume", "suspended"}
               /\ state \cap {"ready", "awaited"} = {} => cpc'[Parent] = "suspended"
            \/ /\ cpc[Parent] = "resume" /\ cpc'[Parent] = "read"
               /\ awaiter' = awaiter /\ state' = state \ {"awaited"}
            \/ /\ cpc[Parent] = "read" /\ cpc'[Parent] = "running"
               /\ awaiter' = awaiter /\ state' = state
<1> USE DEF Types, AwaitStep, taskVars, cancelVars, frameVars, P!setVars, P!awaitVars
<1>1. CASE P!StoreAwaiter(Parent)
  BY <1>1 DEF P!StoreAwaiter
<1>2. CASE P!AwaitSuspend(Parent)
  BY <1>2 DEF P!AwaitSuspend, P!AfterAwait
<1>3. CASE P!ClearAwaited(Parent)
  BY <1>3 DEF P!ClearAwaited
<1>4. CASE P!ReadValue(Parent)
  BY <1>4 DEF P!ReadValue
<1> QED
  BY <1>1, <1>2, <1>3, <1>4

\* The parent unwinds out of its co_await.
LEMMA UnwindEffect ==
  ASSUME Types, UnwindParent
  PROVE  /\ cpc[Parent] = "resume" /\ cpc'[Parent] = "threw"
         /\ UNCHANGED <<state, spc, awaiter, misfired, body, owner, cancelled, frame, faults>>
  BY DEF Types, UnwindParent, taskVars, cancelVars, frameVars

\* The parent's steps keep the flags in line with where both are.
LEMMA FlagsParent ==
  Types /\ FlagsInv /\ FrameInv
      /\ (BeginAwait \/ ParentStep \/ CancelParent \/ Cancel \/ AbandonTask)
    => (FlagsInv /\ FrameInv)'
<1> SUFFICES ASSUME Types, FlagsInv, FrameInv,
                    BeginAwait \/ ParentStep \/ CancelParent \/ Cancel \/ AbandonTask
             PROVE  (FlagsInv /\ FrameInv)'
  OBVIOUS
<1> USE DEF FlagsInv, FrameInv, P!InAwait
<1>0. /\ owner \in {"holding", "destroy", "cancel", "gone"} /\ frame \in {"live", "freed"}
      /\ cancelled \in BOOLEAN /\ body \in BodyPC
  BY DEF Types, TypeOK
<1>1. CASE BeginAwait
  BY <1>1, AwaitBegins
<1>2. CASE AwaitStep
  BY <1>2, AwaitEffect
<1>3. CASE UnwindParent
  BY <1>3, UnwindEffect
<1>4. CASE DestroyFrame
  <2>1. /\ owner = "destroy" /\ owner' = "gone" /\ frame' = "freed"
        /\ faults' = IF frame = "live" THEN faults ELSE faults \cup {"double_free"}
        /\ UNCHANGED <<state, spc, cpc, body, cancelled>>
    BY <1>4 DEF DestroyFrame, Free, promiseVars, cancelVars
  <2> QED
    BY <1>0, <2>1
<1>5. CASE CancelAbandoned
  <2>1. /\ owner = "cancel" /\ owner' = "gone" /\ cancelled' = TRUE
        /\ UNCHANGED <<state, spc, cpc, body, frame>>
    BY <1>5, Zenon DEF CancelAbandoned, promiseVars
  <2>2. faults' \subseteq faults \cup {"use_after_free"}
    BY <1>5 DEF CancelAbandoned, Touch
  <2> QED
    BY <1>0, <2>1, <2>2
<1>6. CASE CancelParent
  BY <1>6 DEF CancelParent, promiseVars, frameVars
<1>7. CASE Cancel
  <2>1. /\ cancelled' = TRUE /\ UNCHANGED <<state, spc, cpc, body, owner, frame>>
    BY <1>7, Zenon DEF Cancel, promiseVars
  <2>2. faults' \subseteq faults \cup {"use_after_free"}
    BY <1>7 DEF Cancel, Touch
  <2> QED
    BY <1>0, <2>1, <2>2
<1>8. CASE AbandonTask
  <2>1. /\ owner = "holding" /\ ~P!InAwait(Parent)
        /\ owner' = IF "done" \in state THEN "destroy" ELSE "cancel"
        /\ state' = state \cup {"broken"}
        /\ UNCHANGED <<spc, cpc, body, cancelled, frame, faults>>
    BY <1>8 DEF AbandonTask, P!Abandon, P!setVars, P!awaitVars, cancelVars, frameVars
  <2> QED
    BY <1>0, <2>1
<1> QED
  BY <1>1, <1>2, <1>3, <1>4, <1>5, <1>6, <1>7, <1>8 DEF ParentStep

-----------------------------------------------------------------------------
(* One thread *)

\* The child runs while its parent is parked, and parks itself to wake it.
LEMMA TurnChild ==
  ASSUME Types, FlagsInv, FrameInv, sameThread, InTurn, Suspend \/ Continue \/ ChildStep
  PROVE  InTurn'
<1> USE DEF InTurn, ParentParked, ChildParked
<1>0. /\ cpc[Parent] \in P!AwaitPC /\ body \in BodyPC
      /\ owner \in {"holding", "destroy", "cancel", "gone"}
  BY DEF Types, TypeOK
<1>1. ParentParked
  BY Zenon DEF Suspend, Continue, ChildStep, ChildMayRun, Throw, Return, StoreException,
               CheckCancelled, Escape, SettleStep, FinalSuspend, ResumeParent, FreeSelf
<1>2. CASE Suspend \/ Continue \/ Throw \/ CheckCancelled
  <2>1. /\ body \in {"running", "waiting", "throwing"}
        /\ body' \in {"running", "waiting", "throwing", "checking"}
        /\ UNCHANGED <<state, cpc, awaiter, misfired, owner, faults>>
    <3>1. CASE Suspend \/ Throw \/ CheckCancelled
      BY <3>1 DEF Suspend, Throw, CheckCancelled, promiseVars, frameVars
    <3>2. CASE Continue
      <4>1. body = "waiting" /\ (body' = "throwing" \/ body' = "running")
        BY <3>2, Zenon DEF Continue
      <4>2. UNCHANGED <<state, cpc, awaiter, misfired, owner, faults>>
        BY <3>2, Zenon DEF Continue, promiseVars, frameVars
      <4> QED
        BY <4>1, <4>2
    <3> QED
      BY <1>2, <3>1, <3>2
  <2> QED
    BY <1>1, <2>1
<1>3. ~Escape
  <2> SUFFICES ASSUME Escape PROVE FALSE
    OBVIOUS
  <2>1. body = "checking" /\ ~cancelled
    BY DEF Escape
  <2>2. owner = "gone" /\ "done" \notin state
    BY <1>1, <2>1 DEF FlagsInv
  <2> QED
    BY <2>1, <2>2 DEF FlagsInv
<1>4. CASE Return \/ StoreException
  BY <1>1, <1>4, BeginEffect
<1>5. CASE SettleStep
  BY <1>1, <1>5, SettleEffect
<1>6. CASE FinalSuspend
  <2>1. /\ body = "settling" /\ state' = state \cup {"done"}
        /\ body' = IF "awaited" \in state THEN "resuming"
                   ELSE IF "broken" \in state THEN "freeing" ELSE "finished"
        /\ UNCHANGED <<cpc, awaiter, misfired, owner, faults>>
    BY <1>6 DEF FinalSuspend, AfterFinal, RaiseDone, frameVars
  <2> QED
    BY <1>1, <2>1
<1>7. CASE ResumeParent
  <2>1. body = "resuming" /\ cpc[Parent] = "suspended" /\ awaiter = Parent
    BY <1>7 DEF ResumeParent
  <2>2. frame = "live"
    BY <2>1 DEF FrameInv, FlagsInv, P!InAwait, Types, TypeOK
  <2>3. /\ body' = "finished" /\ cpc'[Parent] = "resume"
        /\ UNCHANGED <<state, misfired, owner, faults>>
    BY <1>7, <2>1, <2>2 DEF ResumeParent, Touch, Types
  <2> QED
    BY <1>1, <2>1, <2>3
<1>8. CASE FreeSelf
  <2>1. /\ body = "freeing" /\ body' = "finished"
        /\ faults' = IF frame = "live" THEN faults ELSE faults \cup {"double_free"}
        /\ UNCHANGED <<state, cpc, awaiter, misfired, owner>>
    BY <1>8 DEF FreeSelf, Free, promiseVars
  <2>2. faults' = faults
    BY <2>1 DEF FrameInv
  <2> QED
    BY <1>1, <2>1, <2>2
<1> QED
  BY <1>2, <1>3, <1>4, <1>5, <1>6, <1>7, <1>8 DEF ChildStep

\* The parent runs while its child is parked: it has ended, or has no result.
LEMMA TurnParent ==
  ASSUME Types, FlagsInv, FrameInv, sameThread, InTurn,
         BeginAwait \/ ParentStep \/ CancelParent \/ Cancel \/ AbandonTask
  PROVE  InTurn'
<1> USE DEF InTurn, ParentParked, ChildParked
<1>0. /\ cpc[Parent] \in P!AwaitPC /\ body \in BodyPC
      /\ owner \in {"holding", "destroy", "cancel", "gone"} /\ frame \in {"live", "freed"}
  BY DEF Types, TypeOK
<1>1. CASE CancelParent
  BY <1>1 DEF CancelParent, promiseVars, frameVars
<1>2. ASSUME ~CancelParent PROVE body \in {"waiting", "finished"}
  BY <1>2, Zenon DEF BeginAwait, ParentStep, Cancel, AbandonTask, AwaitStep, UnwindParent,
                     DestroyFrame, CancelAbandoned, ParentMayRun
<1>3. "ready" \in state => body = "finished" \/ CancelParent
  BY <1>2 DEF FlagsInv
<1>4. body = "finished" => "ready" \in state
  BY DEF FlagsInv
<1>5. CASE ~CancelParent /\ BeginAwait
  BY <1>2, <1>3, <1>4, <1>5, AwaitBegins DEF P!InAwait
<1>6. CASE ~CancelParent /\ AwaitStep
  BY <1>2, <1>3, <1>6, AwaitEffect
<1>7. CASE ~CancelParent /\ UnwindParent
  BY <1>2, <1>7, UnwindEffect
<1>8. CASE ~CancelParent /\ DestroyFrame
  <2>1. /\ owner = "destroy" /\ owner' = "gone"
        /\ faults' = IF frame = "live" THEN faults ELSE faults \cup {"double_free"}
        /\ UNCHANGED <<state, cpc, awaiter, misfired, body>>
    BY <1>8 DEF DestroyFrame, Free, promiseVars
  <2>2. faults' = faults
    BY <2>1 DEF FrameInv
  <2> QED
    BY <1>2, <1>8, <2>1, <2>2
<1>9. CASE ~CancelParent /\ (CancelAbandoned \/ Cancel)
  <2>1. frame = "live"
    <3>1. owner = "holding" \/ owner = "cancel"
      BY <1>9, Zenon DEF CancelAbandoned, Cancel
    <3> QED
      BY <1>0, <3>1 DEF FrameInv, FlagsInv
  <2>2. faults' = faults
    BY <1>9, <2>1 DEF CancelAbandoned, Cancel, Touch
  <2>3. owner' \in {owner, "gone"} /\ UNCHANGED <<state, cpc, awaiter, misfired, body>>
    BY <1>9, Zenon DEF CancelAbandoned, Cancel, promiseVars
  <2> QED
    BY <1>2, <1>9, <2>2, <2>3
<1>10. CASE ~CancelParent /\ AbandonTask
  <2>1. /\ ~P!InAwait(Parent)
        /\ owner' = IF "done" \in state THEN "destroy" ELSE "cancel"
        /\ state' = state \cup {"broken"}
        /\ UNCHANGED <<cpc, awaiter, misfired, body, faults>>
    BY <1>10 DEF AbandonTask, P!Abandon, P!setVars, P!awaitVars, frameVars
  <2> QED
    BY <1>2, <1>10, <2>1 DEF P!InAwait
<1> QED
  BY <1>1, <1>5, <1>6, <1>7, <1>8, <1>9, <1>10 DEF ParentStep

-----------------------------------------------------------------------------
(* Theorems *)

\* A task begins with no flag raised, held by its parent.
LEMMA InvInit == Init => IInv
<1> SUFFICES ASSUME Init PROVE IInv
  OBVIOUS
<1>1. FlagsInv /\ FrameInv
  BY DEF Init, FlagsInv, FrameInv, P!InAwait
<1>2. ThreadInv
  BY TaskAssumption DEF Init, ThreadInv, InTurn, ParentParked, ChildParked
<1> QED
  BY <1>1, <1>2, TypeInit DEF IInv

\* Every step keeps the invariant.
LEMMA InvStep == IInv /\ [Next]_vars => IInv'
<1> SUFFICES ASSUME IInv, [Next]_vars PROVE IInv'
  OBVIOUS
<1>1. CASE Suspend \/ Continue \/ ChildStep
  <2>1. sameThread' = sameThread
    BY <1>1, Zenon DEF Suspend, Continue, ChildStep, Throw, Return, StoreException, CheckCancelled,
       Escape, SettleStep, FinalSuspend, ResumeParent, FreeSelf, taskVars, threadVars
  <2> QED
    BY <1>1, <2>1, TypeChild, FlagsChild, TurnChild, Zenon DEF IInv, ThreadInv
<1>2. CASE BeginAwait \/ ParentStep \/ CancelParent \/ Cancel \/ AbandonTask
  <2>1. sameThread' = sameThread
    BY <1>2, Zenon DEF BeginAwait, ParentStep, CancelParent, Cancel, AbandonTask, AwaitStep,
       UnwindParent, DestroyFrame, CancelAbandoned, taskVars, threadVars
  <2> QED
    BY <1>2, <2>1, TypeParent, FlagsParent, TurnParent, Zenon DEF IInv, ThreadInv
<1>3. CASE UNCHANGED vars
  <2>1. Types' /\ FlagsInv' /\ FrameInv'
    BY <1>3 DEF IInv, Types, TypeOK, FlagsInv, FrameInv, P!InAwait, vars, promiseVars, taskVars,
                cancelVars, frameVars, threadVars
  <2>2. ThreadInv'
    BY <1>3, Zenon DEF IInv, ThreadInv, InTurn, ParentParked, ChildParked, vars, promiseVars,
                taskVars, cancelVars, frameVars, threadVars
  <2> QED
    BY <2>1, <2>2 DEF IInv
<1> QED
  BY <1>1, <1>2, <1>3 DEF Next

\* The invariant, type correctness included, holds of every thread mode.
THEOREM Invariance == Spec => []IInv
  BY InvInit, InvStep, PTL DEF Spec

\* The frame is freed once on any threads; on one nobody uses it afterwards.
THEOREM FrameFreedOnce == Spec => []FrameSafe
<1>1. IInv => FrameSafe
  BY DEF IInv, FrameInv, ThreadInv, InTurn, FrameSafe
<1> QED
  BY Invariance, <1>1, PTL

\* On one thread final_suspend resumes the parent only while it is suspended.
THEOREM WokenInTurn == Spec => []WokenOnceOnOneThread
<1>1. IInv => WokenOnceOnOneThread
  BY DEF IInv, ThreadInv, InTurn, WokenOnceOnOneThread
<1> QED
  BY Invariance, <1>1, PTL

\* On one thread no exception of a dropped task leaves its coroutine.
THEOREM ExceptionKept == Spec => []ExceptionKeptOnOneThread
<1>1. IInv => ExceptionKeptOnOneThread
  BY DEF IInv, ThreadInv, InTurn, ExceptionKeptOnOneThread
<1> QED
  BY Invariance, <1>1, PTL

-----------------------------------------------------------------------------
(* The wake-up *)

\* A parent about to sleep, as far as there is no result, and one that sleeps:
\* its handle is stored, its flag is up, and final_suspend is not past it.
SleepInv ==
  /\ cpc[Parent] = "suspend" /\ "ready" \notin state => awaiter = Parent
  /\ cpc[Parent] = "suspended" =>
       awaiter = Parent /\ "awaited" \in state /\ ("done" \in state => body = "resuming")

\* The task's side: sf_done finds the flag of a parent that sleeps.
LEMMA SleepChild == IInv /\ SleepInv /\ (Suspend \/ Continue \/ ChildStep) => SleepInv'
<1> SUFFICES ASSUME IInv, SleepInv, Suspend \/ Continue \/ ChildStep PROVE SleepInv'
  OBVIOUS
<1> USE DEF SleepInv
<1>0. Types /\ FlagsInv
  BY DEF IInv
<1>1. CASE Suspend \/ Continue \/ Throw \/ CheckCancelled \/ Escape
  <2>1. UNCHANGED promiseVars /\ body \in {"running", "waiting", "throwing", "checking"}
    BY <1>1, Zenon DEF Suspend, Continue, Throw, CheckCancelled, Escape
  <2>2. "done" \notin state
    BY <1>0, <2>1 DEF FlagsInv
  <2> QED
    BY <2>1, <2>2 DEF promiseVars
<1>2. CASE Return \/ StoreException
  BY <1>0, <1>2, BeginEffect DEF FlagsInv
<1>3. CASE SettleStep
  BY <1>0, <1>3, SettleEffect
<1>4. CASE FinalSuspend
  <2>1. /\ body = "settling" /\ state' = state \cup {"done"}
        /\ body' = IF "awaited" \in state THEN "resuming"
                   ELSE IF "broken" \in state THEN "freeing" ELSE "finished"
        /\ UNCHANGED <<cpc, awaiter>>
    BY <1>4 DEF FinalSuspend, AfterFinal, RaiseDone
  <2> QED
    BY <2>1
<1>5. CASE ResumeParent
  <2>1. body = "resuming" /\ state' = state /\ "ready" \in state
    BY <1>0, <1>5 DEF ResumeParent, FlagsInv
  <2>2. cpc'[Parent] # "suspended"
    BY <1>0, <1>5 DEF ResumeParent, Types
  <2> QED
    BY <2>1, <2>2
<1>6. CASE FreeSelf
  <2>1. UNCHANGED promiseVars /\ body = "freeing"
    BY <1>6, Zenon DEF FreeSelf
  <2>2. "done" \in state
    BY <1>0, <2>1 DEF FlagsInv
  <2> QED
    BY <2>1, <2>2 DEF promiseVars
<1> QED
  BY <1>1, <1>2, <1>3, <1>4, <1>5, <1>6 DEF ChildStep

\* The parent's side: it sleeps only if there was no result as it raised its flag.
LEMMA SleepParent ==
  IInv /\ SleepInv /\ (BeginAwait \/ ParentStep \/ CancelParent \/ Cancel \/ AbandonTask)
    => SleepInv'
<1> SUFFICES ASSUME IInv, SleepInv,
                    BeginAwait \/ ParentStep \/ CancelParent \/ Cancel \/ AbandonTask
             PROVE  SleepInv'
  OBVIOUS
<1> USE DEF SleepInv
<1>0. Types /\ FlagsInv
  BY DEF IInv
<1>1. CASE BeginAwait
  BY <1>0, <1>1, AwaitBegins
<1>2. CASE AwaitStep
  <2>1. "done" \in state => "ready" \in state
    BY <1>0 DEF FlagsInv
  <2>2. "ready" \in state => ~(cpc[Parent] = "suspend" /\ cpc'[Parent] = "suspended")
    BY <1>0, <1>2 DEF Types, AwaitStep, P!StoreAwaiter, P!AwaitSuspend, P!AfterAwait,
                      P!ClearAwaited, P!ReadValue
  <2> QED
    BY <1>0, <1>2, <2>1, <2>2, AwaitEffect
<1>3. CASE UnwindParent
  BY <1>0, <1>3, UnwindEffect
<1>4. CASE DestroyFrame \/ CancelAbandoned \/ CancelParent \/ Cancel
  <2>1. UNCHANGED <<promiseVars, body>>
    BY <1>4, Zenon DEF DestroyFrame, CancelAbandoned, CancelParent, Cancel
  <2> QED
    BY <2>1 DEF promiseVars
<1>5. CASE AbandonTask
  <2>1. state' = state \cup {"broken"} /\ UNCHANGED <<cpc, awaiter, body>>
    BY <1>5 DEF AbandonTask, P!Abandon, P!awaitVars
  <2> QED
    BY <2>1
<1> QED
  BY <1>1, <1>2, <1>3, <1>4, <1>5 DEF ParentStep

\* On any number of threads, no parent sleeps on a task that has passed it by,
\* though its own earlier, cancelled co_await may have left sf_awaited raised.
THEOREM NoLostWakeup == Spec => []SleeperIsServed
<1>1. Init => SleepInv
  BY DEF Init, SleepInv
<1>2. IInv /\ SleepInv /\ [Next]_vars => SleepInv'
  <2>1. UNCHANGED vars /\ SleepInv => SleepInv'
    BY DEF SleepInv, vars, promiseVars, taskVars
  <2> QED
    BY <2>1, SleepChild, SleepParent DEF Next
<1>3. IInv /\ SleepInv => SleeperIsServed
  BY DEF IInv, FlagsInv, SleepInv, SleeperIsServed
<1> QED
  BY Invariance, <1>1, <1>2, <1>3, PTL DEF Spec

-----------------------------------------------------------------------------
(* The future *)

\* The result is there before sf_ready is, and who goes on to read it has seen
\* sf_ready.
ResultInv ==
  /\ got \in [{Parent} -> P!Values \cup {"none"}]
  /\ spc[Child] \in {"emplace", "publish"} => "ready" \notin state
  /\ spc[Child] = "publish" => value \in P!Results
  /\ "ready" \in state => value # "empty"
  /\ cpc[Parent] \in {"resume", "read"} => "ready" \in state

\* A step that the future does not see.
Invisible ==
  /\ "ready" \in state' <=> "ready" \in state
  /\ "ready" \in state => value' = value
  /\ cpc'[Parent] = "running" <=> cpc[Parent] = "running"
  /\ got' = got

\* It leaves result and waiting parent as they are.
LEMMA InvisibleStutters == Invisible => UNCHANGED F!vars
<1> SUFFICES ASSUME Invisible PROVE UNCHANGED F!vars
  OBVIOUS
<1>1. (IF "ready" \in state' THEN value' ELSE "none") = (IF "ready" \in state THEN value ELSE "none")
  BY DEF Invisible
<1>2. {c \in {Parent} : cpc'[c] # "running"} = {c \in {Parent} : cpc[c] # "running"}
  BY DEF Invisible
<1> QED
  BY <1>1, <1>2 DEF Invisible, F!vars

\* The task settles the future as it raises sf_ready, and does nothing else to it.
LEMMA ChildRefines ==
  ASSUME IInv, ResultInv, Suspend \/ Continue \/ ChildStep
  PROVE  ResultInv' /\ (Invisible \/ (value \in F!Results /\ F!Settle(value)))
<1> USE DEF IInv, Types, TypeOK, ResultInv, Invisible, P!Values, P!Results
<1>1. ASSUME Suspend \/ Continue \/ Throw \/ CheckCancelled \/ Escape \/ FreeSelf
      PROVE  ResultInv' /\ Invisible
  <2>1. UNCHANGED promiseVars
    BY <1>1, Zenon DEF Suspend, Continue, Throw, CheckCancelled, Escape, FreeSelf
  <2> QED
    BY <2>1 DEF promiseVars
<1>2. ASSUME Return \/ StoreException PROVE ResultInv' /\ Invisible
  <2>1. /\ spc'[Child] \in {"emplace", "threw"} /\ "ready" \notin state
        /\ UNCHANGED <<value, state, cpc>>
    BY <1>2, BeginEffect DEF FlagsInv
  <2>2. got' = got
    <3>1. P!BeginSet(Child, "value", FALSE) \/ P!BeginSet(Child, "exception", FALSE)
      BY <1>2, Zenon DEF Return, StoreException
    <3> QED
      BY <3>1, Zenon DEF P!BeginSet, P!awaitVars
  <2> QED
    BY <2>1, <2>2
<1>3. CASE SettleStep
  <2>1. ASSUME P!Emplace(Child) PROVE ResultInv' /\ Invisible
    <3>1. /\ spc[Child] = "emplace" /\ value' = op[Child].result /\ spc'[Child] = "publish"
          /\ UNCHANGED <<state, cpc, got>>
      BY <2>1 DEF P!Emplace, P!awaitVars
    <3> QED
      BY <3>1
  <2>2. CASE P!Publish(Child)
    <3>1. /\ spc[Child] = "publish" /\ spc'[Child] \in {"notify", "resume", "returned"}
          /\ state' = state \cup {"ready"} /\ UNCHANGED <<value, cpc, got>>
      BY <2>2 DEF P!Publish, P!Published, P!AfterPublish, P!awaitVars
    <3>2. value \in F!Results /\ F!Settle(value)
      BY <3>1 DEF F!Settle, F!Results
    <3> QED
      BY <3>1, <3>2
  <2> QED
    BY <1>3, <2>1, <2>2 DEF SettleStep
<1>4. ASSUME FinalSuspend PROVE ResultInv' /\ Invisible
  BY <1>4 DEF FinalSuspend, RaiseDone
<1>5. ASSUME ResumeParent PROVE ResultInv' /\ Invisible
  <2>1. /\ body = "resuming" /\ UNCHANGED <<value, state, spc, got>>
        /\ cpc' = cpc \/ (cpc[Parent] = "suspended" /\ cpc'[Parent] = "resume")
    BY <1>5 DEF ResumeParent
  <2>2. "ready" \in state
    BY <2>1 DEF FlagsInv
  <2> QED
    BY <2>1, <2>2
<1> QED
  BY <1>1, <1>2, <1>3, <1>4, <1>5 DEF ChildStep

\* The parent begins to wait and, once it reads the result, has it.
LEMMA ParentRefines ==
  ASSUME IInv, ResultInv,
         BeginAwait \/ ParentStep \/ CancelParent \/ Cancel \/ AbandonTask
  PROVE  ResultInv' /\ (Invisible \/ F!Await(Parent) \/ F!Deliver(Parent))
<1> USE DEF IInv, Types, TypeOK, ResultInv, Invisible, P!Values, P!Results
<1>1. CASE BeginAwait
  <2>1. /\ cpc[Parent] \in {"running", "threw"} /\ cpc'[Parent] \in {"threw", "resume", "store"}
        /\ cpc'[Parent] = "resume" => "ready" \in state
        /\ UNCHANGED <<value, state, spc, got>>
    BY <1>1 DEF BeginAwait, P!AwaitReady, P!HasResult, P!InAwait, P!AwaitPC, P!sharedVars, P!setVars
  <2>2. CASE cpc[Parent] = "running"
    BY <2>1, <2>2 DEF F!Await
  <2>3. CASE cpc[Parent] = "threw"
    BY <2>1, <2>3
  <2> QED
    BY <2>1, <2>2, <2>3
<1>2. CASE AwaitStep
  <2>1. CASE P!StoreAwaiter(Parent)
    BY <2>1 DEF P!StoreAwaiter, P!setVars
  <2>2. CASE P!AwaitSuspend(Parent)
    BY <2>2 DEF P!AwaitSuspend, P!AfterAwait, P!setVars
  <2>3. CASE P!ClearAwaited(Parent)
    BY <2>3 DEF P!ClearAwaited, P!setVars
  <2>4. CASE P!ReadValue(Parent)
    <3>1. /\ cpc[Parent] = "read" /\ cpc'[Parent] = "running" /\ "ready" \in state
          /\ got' = [got EXCEPT ![Parent] = value]
          /\ value' = IF value = "value" THEN "moved" ELSE value
          /\ UNCHANGED <<state, spc>>
      BY <2>4 DEF P!ReadValue, P!AfterRead, P!setVars
    <3>2. F!Deliver(Parent)
      BY <3>1 DEF F!Deliver, F!AfterRead
    <3> QED
      BY <3>1, <3>2
  <2> QED
    BY <1>2, <2>1, <2>2, <2>3, <2>4 DEF AwaitStep
<1>3. CASE UnwindParent
  BY <1>3 DEF UnwindParent
<1>4. CASE DestroyFrame \/ CancelAbandoned \/ CancelParent \/ Cancel
  <2>1. UNCHANGED promiseVars
    BY <1>4, Zenon DEF DestroyFrame, CancelAbandoned, CancelParent, Cancel
  <2> QED
    BY <2>1 DEF promiseVars
<1>5. CASE AbandonTask
  BY <1>5 DEF AbandonTask, P!Abandon, P!setVars, P!awaitVars
<1> QED
  BY <1>1, <1>2, <1>3, <1>4, <1>5 DEF ParentStep

\* An unsettled future.
LEMMA InitRefines == Init => ResultInv /\ F!Init
  BY DEF Init, ResultInv, F!Init

\* Publishing is Settle, co_await is Await, reading is Deliver; the rest, the
\* fate of the frame and who is woken by whom included, is invisible.
LEMMA StepRefines == IInv /\ ResultInv /\ [Next]_vars => ResultInv' /\ [F!Next]_F!vars
<1> SUFFICES ASSUME IInv, ResultInv, [Next]_vars PROVE ResultInv' /\ [F!Next]_F!vars
  OBVIOUS
<1>1. CASE Suspend \/ Continue \/ ChildStep
  BY <1>1, ChildRefines, InvisibleStutters DEF F!Next
<1>2. CASE BeginAwait \/ ParentStep \/ CancelParent \/ Cancel \/ AbandonTask
  BY <1>2, ParentRefines, InvisibleStutters DEF F!Next
<1>3. CASE UNCHANGED vars
  BY <1>3, InvisibleStutters DEF vars, promiseVars, ResultInv, Invisible
<1> QED
  BY <1>1, <1>2, <1>3 DEF Next

\* A task is a one-shot future to its parent, on any number of threads and
\* whoever is cancelled: also where final_suspend wakes a parent that is awake,
\* nobody is handed anything but the one result.
THEOREM Refinement == Spec => ImplementsFuture
  BY Invariance, InitRefines, StepRefines, PTL DEF Spec, ImplementsFuture, F!SafeSpec
=============================================================================
