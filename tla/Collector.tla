----------------------------- MODULE Collector ------------------------------
(***************************************************************************)
(* dpp::collector (collector.h) over dpp::timed_listener                   *)
(* (timed_listener.h): a listener stores what the collector's filter       *)
(* accepts until a timer, cancel() or the destructor ends it, and          *)
(* completed() is handed the list.  The listener and the timer begin in    *)
(* the base constructor: the derived part, with filter() and completed(),  *)
(* is not there yet.                                                       *)
(*                                                                         *)
(* Events are dispatched on pool threads, several at once: they hold the   *)
(* router's mutex shared while they call the listener, and detach takes it *)
(* exclusively (module EventRouter).  The timer belongs to the library,    *)
(* whose source is not here: it ticks on one thread, and stop_timer has    *)
(* on_stop called, by stop_timer itself or by the timer's thread later;    *)
(* cluster.h:492 leaves open which, so both are explored.                  *)
(***************************************************************************)
EXTENDS Naturals, Sequences, SequencesExt

CONSTANTS
  Dispatches,    \* the dispatches of the event, each of one object
  DestroyEarly   \* the collector may be destroyed before it has completed

ASSUME CollectorAssumption == DestroyEarly \in BOOLEAN

VARIABLES
  attached,   \* the listener is in the router's dispatch_container
  dpc,        \* where each dispatch is
  stored,     \* collector::stored
  seen,       \* stored as each push_back in progress found it
  timer,      \* the library's timer; "unset" before it is started,
              \* "stopped" while its on_stop is to come
  inPlace,    \* stop_timer calls on_stop itself
  onTimerThread, \* cancel() and the destructor run between two ticks
  tpc,        \* where the timer's thread is
  opc,        \* where the owner's thread is: in the constructor, in cancel()
              \* or in ~collector
  nested,     \* it is in a cancel() or a destructor that completed() called,
              \* itself called in place by cancel()
  tl,         \* the timed_listener: live or freed
  object,     \* the collector; "half" before its derived part is built,
              \* "base" once that is destroyed
  triggered,  \* collector::triggered
  handed,     \* history: the lists completed() was called with
  faults      \* history: undefined behaviour met

routerVars == <<attached, dpc, stored, seen>>
fixedVars  == <<inPlace, onTimerThread>>
timerVars  == <<timer, fixedVars, tpc>>
ownerVars  == <<opc, nested, tl, object>>
doneVars   == <<triggered, handed>>
vars       == <<routerVars, timerVars, ownerVars, doneVars, faults>>

Lists == Seq(Dispatches)

TypeOK ==
  /\ attached \in BOOLEAN
  /\ dpc \in [Dispatches -> {"queued", "listening", "pushing", "kept", "passed"}]
  /\ stored \in Lists
  /\ seen \in [Dispatches -> Lists]
  /\ timer \in {"unset", "armed", "stopped", "gone"}
  /\ inPlace \in BOOLEAN /\ onTimerThread \in BOOLEAN
  /\ tpc \in {"idle", "detach", "stop", "ending", "completing"}
  /\ opc \in {"attached", "started", "deriving",
              "idle", "detach", "stop", "ending", "completing", "free"}
  /\ nested \in BOOLEAN
  /\ tl \in {"live", "freed"}
  /\ object \in {"half", "whole", "base", "gone"}
  /\ triggered \in BOOLEAN
  /\ handed \in Seq(Lists)
  /\ faults \subseteq {"race", "halfBuilt", "pureVirtual", "useAfterFree",
                      "doubleDelete", "uninitialized"}

\* The base constructor has attached the listener and goes on.
Init ==
  /\ attached = TRUE
  /\ dpc = [d \in Dispatches |-> "queued"]
  /\ stored = <<>>
  /\ seen = [d \in Dispatches |-> <<>>]
  /\ timer = "unset" /\ inPlace \in BOOLEAN /\ tpc = "idle"
  /\ onTimerThread \in BOOLEAN
  /\ opc = "attached" /\ nested = FALSE /\ tl = "live" /\ object = "half"
  /\ triggered = FALSE /\ handed = <<>>
  /\ faults = {}

Fault(f) == faults' = faults \cup {f}

\* What a call of a virtual function meets that is not the derived one's:
\* filter() and completed() are pure.
Missing ==
  IF object = "half" THEN "halfBuilt"
  ELSE IF object = "base" THEN "pureVirtual" ELSE "useAfterFree"

-----------------------------------------------------------------------------
(* The rest of the constructor, on the owner's thread *)

StartTimer ==
  /\ opc = "attached"
  /\ timer' = "armed"
  /\ opc' = "started"
  /\ UNCHANGED <<routerVars, fixedVars, tpc, nested, tl, object, doneVars, faults>>

\* th is assigned what start_timer returned, and tl what new returned.
KeepHandles ==
  /\ opc = "started"
  /\ opc' = "deriving"
  /\ UNCHANGED <<routerVars, timerVars, nested, tl, object, doneVars, faults>>

Constructed ==
  /\ opc = "deriving"
  /\ object' = "whole"
  /\ opc' = "idle"
  /\ UNCHANGED <<routerVars, timerVars, nested, tl, doneVars, faults>>

ConstructorStep == StartTimer \/ KeepHandles \/ Constructed

-----------------------------------------------------------------------------
(* The listener, on pool threads *)

Inside(d) == dpc[d] \in {"listening", "pushing"}

\* A dispatch takes the mutex shared and calls the listener if it is there.
Listen(d) ==
  /\ dpc[d] = "queued"
  /\ dpc' = [dpc EXCEPT ![d] = IF attached THEN "listening" ELSE "passed"]
  /\ UNCHANGED <<attached, stored, seen, timerVars, ownerVars, doneVars, faults>>

\* filter(event) is pure virtual where the derived part is not there yet, or
\* not any more.  Where it accepts, push_back begins by reading the vector it
\* will extend.
Filter(d) ==
  /\ dpc[d] = "listening"
  /\ \/ /\ dpc' = [dpc EXCEPT ![d] = "passed"]
        /\ IF object # "whole" THEN Fault(Missing) ELSE UNCHANGED faults
        /\ UNCHANGED seen
     \/ /\ object = "whole"
        /\ dpc' = [dpc EXCEPT ![d] = "pushing"]
        /\ seen' = [seen EXCEPT ![d] = stored]
        /\ IF \E e \in Dispatches \ {d} : dpc[e] = "pushing"
             THEN Fault("race") ELSE UNCHANGED faults
  /\ UNCHANGED <<attached, stored, timerVars, ownerVars, doneVars>>

\* push_back ends: of two at once, one item is lost.
Store(d) ==
  /\ dpc[d] = "pushing"
  /\ stored' = Append(seen[d], d)
  /\ dpc' = [dpc EXCEPT ![d] = "kept"]
  /\ UNCHANGED <<attached, seen, timerVars, ownerVars, doneVars, faults>>

\* Mutant of Quiet: detach takes the mutex shared.
AlwaysQuiet == TRUE

\* No dispatch holds the mutex shared: detach can take it.
Quiet == \A d \in Dispatches : ~Inside(d)

DispatchStep(d) == Listen(d) \/ Filter(d) \/ Store(d)

-----------------------------------------------------------------------------
(* The timer's thread *)

OwnerBusy == opc # "idle"

TimerDue ==
  /\ timer = "armed" /\ tpc = "idle"
  /\ onTimerThread => ~OwnerBusy
  /\ tpc' = "detach"
  /\ UNCHANGED <<routerVars, timer, fixedVars, ownerVars, doneVars, faults>>

\* The tick's lambda uses the timed_listener it captured: freed, if the owner
\* was faster.
TickOnFreed ==
  /\ tpc \in {"detach", "stop"} /\ tl = "freed"
  /\ tpc' = "idle"
  /\ Fault("useAfterFree")
  /\ UNCHANGED <<routerVars, timer, fixedVars, ownerVars, doneVars>>

\* Mutant of TickDetaches: the tick leaves the listener attached.
TickKeeps == attached

\* What ev.detach(listener_handle) makes of attached.
TickDetaches == FALSE

TickDetach ==
  /\ tpc = "detach" /\ tl = "live"
  /\ Quiet
  /\ attached' = TickDetaches
  /\ tpc' = "stop"
  /\ UNCHANGED <<dpc, stored, seen, timer, fixedVars, ownerVars, doneVars, faults>>

\* stop_timer: of a timer that is still there, it has on_stop called.
AfterStop(next) == IF timer = "armed" /\ inPlace THEN "ending" ELSE next
Stopped == IF timer = "armed" THEN (IF inPlace THEN "gone" ELSE "stopped") ELSE timer

\* Mutant of TickStops: the tick does not stop its timer.
TickGoesOn == timer

TickStops == Stopped

TickStop ==
  /\ tpc = "stop" /\ tl = "live" /\ opc # "started"
  /\ timer' = TickStops
  /\ tpc' = AfterStop("idle")
  /\ UNCHANGED <<routerVars, fixedVars, ownerVars, doneVars, faults>>

\* The tick was faster than the constructor, which has yet to assign th.
TickStopsNone ==
  /\ tpc = "stop" /\ tl = "live" /\ opc = "started"
  /\ tpc' = "idle"
  /\ Fault("uninitialized")
  /\ UNCHANGED <<routerVars, timer, fixedVars, ownerVars, doneVars>>

\* The timer's thread finds the timer stopped and calls on_stop.
StopNoticed ==
  /\ timer = "stopped" /\ tpc = "idle"
  /\ onTimerThread => ~OwnerBusy
  /\ timer' = "gone"
  /\ tpc' = "ending"
  /\ UNCHANGED <<routerVars, fixedVars, ownerVars, doneVars, faults>>

-----------------------------------------------------------------------------
(* on_stop: completed(stored), on the timer's thread or in stop_timer *)

Completing == tpc = "completing" \/ opc = "completing" \/ nested

\* completed() is called, with the list as it is, if it was not before.
Calls == object = "whole" /\ ~triggered

\* The on_end lambda, which captured the collector, up to that call.
OnEnd ==
  IF object = "gone" THEN Fault(Missing) /\ UNCHANGED doneVars
  ELSE IF triggered THEN UNCHANGED <<doneVars, faults>>
  ELSE /\ triggered' = TRUE
       /\ IF object = "whole" THEN handed' = Append(handed, stored) /\ UNCHANGED faults
          ELSE Fault(Missing) /\ UNCHANGED handed

TimerEnds ==
  /\ tpc = "ending"
  /\ OnEnd
  /\ tpc' = IF Calls THEN "completing" ELSE "idle"
  /\ UNCHANGED <<routerVars, timer, fixedVars, ownerVars>>

\* completed() returns; it may have cancelled or destroyed the collector.
TimerCompleted ==
  /\ tpc = "completing"
  /\ onTimerThread => ~OwnerBusy
  /\ tpc' = "idle"
  /\ UNCHANGED <<routerVars, timer, fixedVars, ownerVars, doneVars, faults>>

TimerStep ==
  \/ TimerDue \/ TickOnFreed \/ TickDetach \/ TickStop \/ TickStopsNone \/ StopNoticed
  \/ TimerEnds \/ TimerCompleted

-----------------------------------------------------------------------------
(* The owner: cancel() and ~collector, both by way of delete tl *)

\* cancel() and the destructor are called from outside, or by a completed()
\* that cancel() itself called.
MayOwn ==
  /\ opc = "idle" \/ (opc = "completing" /\ ~nested)
  /\ onTimerThread => tpc \in {"idle", "completing"}

Enter == nested' = (opc = "completing")

Cancel ==
  /\ MayOwn /\ object = "whole" /\ tl = "live"
  /\ Enter
  /\ opc' = "detach"
  /\ UNCHANGED <<routerVars, timerVars, tl, object, doneVars, faults>>

\* The derived destructor has run; delete of a null tl does nothing.
Destroy ==
  /\ MayOwn /\ object = "whole"
  /\ DestroyEarly \/ handed # <<>>
  /\ Enter
  /\ object' = "base"
  /\ opc' = IF tl = "live" THEN "detach" ELSE "free"
  /\ UNCHANGED <<routerVars, timerVars, tl, doneVars, faults>>

\* Mutant of AfterDetach: the destructor leaves the timer running.
AfterDetachFree == "free"

AfterDetach == "stop"

OwnerDetach ==
  /\ opc = "detach" /\ Quiet
  /\ attached' = FALSE
  /\ opc' = AfterDetach
  /\ UNCHANGED <<dpc, stored, seen, timerVars, nested, tl, object, doneVars, faults>>

\* Mutant of OwnerStop: the timer goes without its on_stop, as the comment of
\* the destructor has it ("do not call on_end").
OwnerStopSilent ==
  /\ opc = "stop"
  /\ timer' = "gone"
  /\ opc' = "free"
  /\ UNCHANGED <<routerVars, fixedVars, tpc, nested, tl, object, doneVars, faults>>

OwnerStop ==
  /\ opc = "stop"
  /\ timer' = Stopped
  /\ opc' = AfterStop("free")
  /\ UNCHANGED <<routerVars, fixedVars, tpc, nested, tl, object, doneVars, faults>>

OwnerEnds ==
  /\ opc = "ending"
  /\ OnEnd
  /\ opc' = IF Calls THEN "completing" ELSE "free"
  /\ UNCHANGED <<routerVars, timerVars, nested, tl, object>>

\* completed() returns into the cancel() that called it.
OwnerCompleted ==
  /\ opc = "completing" /\ ~nested
  /\ opc' = "free"
  /\ UNCHANGED <<routerVars, timerVars, nested, tl, object, doneVars, faults>>

\* tl is nulled when delete tl is over and not before: a cancel() within
\* deleted what this one deletes now.  A destructor that finds it null frees
\* the collector alone.
Free ==
  /\ opc = "free"
  /\ IF tl = "freed" /\ object # "base" THEN Fault("doubleDelete") ELSE UNCHANGED faults
  /\ tl' = "freed"
  /\ object' = IF object = "base" THEN "gone" ELSE object
  /\ opc' = IF nested THEN "completing" ELSE "idle"
  /\ nested' = FALSE
  /\ UNCHANGED <<routerVars, timerVars, doneVars>>

OwnerStep ==
  ConstructorStep \/ OwnerDetach \/ OwnerStop \/ OwnerEnds \/ OwnerCompleted \/ Free

Next ==
  \/ \E d \in Dispatches : DispatchStep(d)
  \/ TimerStep
  \/ Cancel \/ Destroy \/ OwnerStep

\* Dispatches go on, time passes and the timer's thread serves its timers, and
\* what the owner began it ends; nobody has to cancel or to destroy.
Fairness ==
  /\ \A d \in Dispatches : WF_vars(DispatchStep(d))
  /\ WF_vars(TimerStep) /\ WF_vars(OwnerStep)

Spec == Init /\ [][Next]_vars
FairSpec == Spec /\ Fairness

-----------------------------------------------------------------------------
(* What a collector promises *)

\* While completed() reads the list it was given a reference to, no listener
\* writes to it: detach waits for the listeners that are running, and comes
\* before stop_timer both in the tick and in the destructor.
ListIsStable == Completing => \A d \in Dispatches : dpc[d] # "pushing"

\* completed() is called once, and is given all that was ever stored: nothing
\* slips in afterwards, and nothing is lost unless two events raced.
HandedWhole ==
  /\ Len(handed) <= 1
  /\ "race" \notin faults =>
       \A i \in DOMAIN handed :
         ToSet(handed[i]) = {d \in Dispatches : dpc[d] = "kept"}

\* An owner that creates and cancels between two ticks, and destroys the
\* collector after completed(), has nothing run on what it freed and calls no
\* destroyed part of it, whichever of cancel(), the tick and the destructor
\* comes first.  What is left to it is what this code cannot avoid: two events
\* that push at once, an event before the constructor is over, and a
\* completed() that cancels, or destroys, inside the cancel() that called it.
SafeOnTimerThread ==
  onTimerThread /\ ~DestroyEarly => faults \subseteq {"race", "halfBuilt", "doubleDelete"}

\* A timer that has been stopped, by whomever, and whose on_stop has run, has
\* had completed() called: none of tick, cancel() and destructor takes the
\* timer from another without that call, unless the object was not whole then.
StoppedIsCompleted ==
  timer = "gone" /\ tpc # "ending" /\ opc # "ending" /\ faults \subseteq {"race"}
    => handed # <<>>

\* "When either the predetermined timeout is reached, or the
\* collector::cancel() method is called, or the collector is destroyed, the
\* collector::completed() method is called": by the timer's turn at the latest,
\* unless an event or the tick came before the constructor was over, and the
\* program ended in a call of a pure virtual function.
Completes == <>(handed # <<>> \/ "halfBuilt" \in faults)
=============================================================================
