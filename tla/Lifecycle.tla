------------------------------ MODULE Lifecycle ------------------------------
(***************************************************************************)
(* What dpp::cache promises of the objects that are handed to it (the      *)
(* comments of cache::store and cache::remove in cache.h): the cache owns  *)
(* an object until it is removed or replaced, the garbage collection queue *)
(* owns it from then on, and it is deleted, once. No object is dropped.    *)
(***************************************************************************)
CONSTANT Objects

VARIABLE stage

Init == stage = [o \in Objects |-> "new"]

\* An object may take the place of another.
Hand(o) ==
  /\ stage[o] = "new"
  /\ \E old \in SUBSET {p \in Objects : stage[p] = "cached"} :
       stage' = [p \in Objects |-> IF p = o THEN "cached"
                                   ELSE IF p \in old THEN "queued" ELSE stage[p]]

Retire(o) ==
  /\ stage[o] = "cached"
  /\ stage' = [stage EXCEPT ![o] = "queued"]

Delete(old) ==
  /\ \A o \in old : stage[o] = "queued"
  /\ stage' = [o \in Objects |-> IF o \in old THEN "deleted" ELSE stage[o]]

Next ==
  \/ \E o \in Objects : Hand(o) \/ Retire(o)
  \/ \E old \in SUBSET Objects : Delete(old)

Spec == Init /\ [][Next]_stage
=============================================================================
