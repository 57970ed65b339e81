---------------------------- MODULE Cache_proofs ----------------------------
(***************************************************************************)
(* Theorems about dpp::cache for any objects, ids, threads and grace.      *)
(* The invariant says who owns an object: the map, under the object's own  *)
(* id, or the deletion queue, or nobody once it is deleted; and that what  *)
(* a thread still holds was not queued before the thread found it, so that *)
(* it is younger in the queue than the thread's hold on it.                *)
(***************************************************************************)
EXTENDS Cache, TLAPS

\* store() and remove() are given objects that the cache does not own yet, or
\* owns still: the contract of the comments in cache.h.
Contract == ~StaleStores /\ ~StaleRemoves

MapKeyed      == \A i \in Ids : cache_map[i] # NoObject => IdOf[cache_map[i]] = i
QueuedNotFreed == queue \cap freed = {}
HeldYoung ==
  \A t \in Threads : held[t] # NoObject =>
    /\ held[t] \notin freed
    /\ since[t] < Grace
    /\ held[t] \in queue => age[held[t]] <= since[t]

IInv == TypeOK /\ MapKeyed /\ CachedNotQueued /\ QueuedNotFreed /\ HeldYoung

-----------------------------------------------------------------------------
(* Types *)

\* Every step keeps the types, whatever the callers do.
LEMMA TypeStep == TypeOK /\ [Next]_vars => TypeOK'
<1> SUFFICES ASSUME TypeOK, [Next]_vars PROVE TypeOK'
    OBVIOUS
<1> USE CacheAssumption DEF TypeOK
<1>1. ASSUME NEW o \in Objects, Store(o) PROVE TypeOK'
      BY <1>1 DEF Store, Replace, Enqueue
<1>2. CASE \E o \in Objects : StoreNew(o)
      BY <1>1, <1>2 DEF StoreNew
<1>3. CASE \E t \in Threads : StoreFound(t)
      BY <1>1, <1>3 DEF StoreFound
<1>4. CASE \E t \in Threads : Remove(t)
      BY <1>4 DEF Remove, Removed, Enqueue
<1>5. CASE \E t \in Threads : Drop(t)
      BY <1>5 DEF Drop
<1>6. CASE \E t \in Threads, i \in Ids : Find(t, i)
      BY <1>6 DEF Find
<1>7. CASE Tick
      <2>1. \A n \in 0 .. Grace : OneMore(n) \in 0 .. Grace
            BY DEF OneMore
      <2> QED  BY <1>7, <2>1 DEF Tick
<1>8. CASE Collect
      BY <1>8 DEF Collect, Remaining
<1>9. CASE UNCHANGED vars
      BY <1>9 DEF vars
<1> QED  BY <1>2, <1>3, <1>4, <1>5, <1>6, <1>7, <1>8, <1>9 DEF Next

LEMMA TypeInit == Init => TypeOK
BY CacheAssumption DEF Init, TypeOK

\* The variables keep their types, with no assumption on the callers.
THEOREM TypeCorrect == Spec => []TypeOK
BY TypeInit, TypeStep, PTL DEF Spec

-----------------------------------------------------------------------------
(* Ownership *)

LEMMA InvInit == Init => IInv
BY TypeInit, CacheAssumption
   DEF Init, IInv, MapKeyed, CachedNotQueued, Cached, QueuedNotFreed, HeldYoung

\* What store() leaves of the invariant, for a new object or a cached one.
LEMMA StoreKeeps ==
  ASSUME IInv, NEW o \in Objects, o \notin queue \cup freed, Store(o)
  PROVE  IInv'
<1> USE CacheAssumption DEF IInv, TypeOK
<1> DEFINE existing == cache_map[IdOf[o]]
<1>1. TypeOK'
      BY DEF Store, Replace, Enqueue
<1>2. MapKeyed'
      BY DEF MapKeyed, Store
<1>3. CASE existing \in {NoObject, o}
      <2>1. UNCHANGED <<queue, age, freed, held, since>>
            BY <1>3 DEF Store, Replace
      <2>2. CachedNotQueued'
            BY <2>1 DEF Store, CachedNotQueued, Cached
      <2> QED  BY <1>1, <1>2, <2>1, <2>2 DEF QueuedNotFreed, HeldYoung
<1>4. CASE existing \notin {NoObject, o}
      <2>1. /\ queue' = queue \cup {existing}
            /\ age' = [age EXCEPT ![existing] = 0]
            /\ UNCHANGED <<freed, held, since>>
            BY <1>4 DEF Store, Replace, Enqueue
      <2>2. existing \in Objects /\ IdOf[existing] = IdOf[o] /\ Cached(existing)
            BY <1>4 DEF MapKeyed, Cached
      <2>3. existing \notin freed
            BY <2>2 DEF CachedNotQueued
      <2>4. CachedNotQueued'
            BY <1>4, <2>1, <2>2 DEF Store, CachedNotQueued, Cached
      <2>5. QueuedNotFreed'
            BY <2>1, <2>3 DEF QueuedNotFreed
      <2>6. HeldYoung'
            BY <2>1, <2>2 DEF HeldYoung
      <2> QED  BY <1>1, <1>2, <2>4, <2>5, <2>6
<1> QED  BY <1>3, <1>4

\* remove() of a cached object moves it from the map to the queue.
LEMMA RemoveKeeps ==
  ASSUME IInv, NEW t \in Threads, Remove(t), Cached(held[t])
  PROVE  IInv'
<1> USE CacheAssumption DEF IInv, TypeOK
<1> DEFINE o == held[t]
<1>1. o \in Objects /\ o \notin freed /\ o \notin queue
      BY DEF Remove, CachedNotQueued
<1>2. /\ queue' = queue \cup {o}
      /\ age' = [age EXCEPT ![o] = 0]
      /\ cache_map' = [cache_map EXCEPT ![IdOf[o]] = NoObject]
      /\ UNCHANGED <<freed, held, since>>
      BY <1>1 DEF Remove, Removed, Enqueue, Cached
<1>3. TypeOK'
      BY <1>1, <1>2
<1>4. MapKeyed'
      BY <1>1, <1>2 DEF MapKeyed
<1>5. CachedNotQueued'
      BY <1>1, <1>2 DEF CachedNotQueued, Cached
<1>6. QueuedNotFreed'
      BY <1>1, <1>2 DEF QueuedNotFreed
<1>7. HeldYoung'
      BY <1>1, <1>2 DEF HeldYoung
<1> QED  BY <1>3, <1>4, <1>5, <1>6, <1>7

LEMMA InvStep == ASSUME Contract, IInv, [Next]_vars PROVE IInv'
<1> USE CacheAssumption DEF IInv
<1>0. TypeOK'
      BY TypeStep
<1>1. CASE \E o \in Objects : StoreNew(o)
      BY <1>1, StoreKeeps DEF StoreNew, Fresh
<1>2. CASE \E t \in Threads : StoreFound(t)
      <2> PICK t \in Threads : StoreFound(t)
          BY <1>2
      <2>1. held[t] \in Objects /\ Cached(held[t])
            BY DEF StoreFound, Contract, TypeOK
      <2> QED  BY <2>1, StoreKeeps DEF StoreFound, CachedNotQueued
<1>3. CASE \E t \in Threads : Remove(t)
      BY <1>3, RemoveKeeps DEF Remove, Contract
<1>4. CASE \E t \in Threads : Drop(t)
      BY <1>0, <1>4
         DEF Drop, TypeOK, MapKeyed, CachedNotQueued, Cached, QueuedNotFreed, HeldYoung
<1>5. CASE \E t \in Threads, i \in Ids : Find(t, i)
      <2> PICK t \in Threads, i \in Ids : Find(t, i)
          BY <1>5
      <2>1. cache_map[i] \in Objects /\ cache_map[i] \notin queue \cup freed
            BY DEF Find, TypeOK, MapKeyed, CachedNotQueued, Cached
      <2>2. HeldYoung'
            BY <2>1 DEF Find, HeldYoung, TypeOK
      <2> QED  BY <1>0, <2>2 DEF Find, MapKeyed, CachedNotQueued, Cached, QueuedNotFreed
<1>6. CASE Tick
      <2>1. UNCHANGED <<cache_map, queue, freed, held>>
            BY <1>6 DEF Tick
      <2>2. HeldYoung'
            BY <1>6 DEF Tick, Prompt, OneMore, HeldYoung, TypeOK
      <2> QED  BY <1>0, <2>1, <2>2 DEF MapKeyed, CachedNotQueued, Cached, QueuedNotFreed
<1>7. CASE Collect
      <2>1. /\ freed' = freed \cup {o \in Objects : Due(o)}
            /\ queue' = {o \in queue : ~Due(o)}
            /\ UNCHANGED <<cache_map, age, held, since>>
            BY <1>7 DEF Collect, Remaining
      <2>2. \A o \in Objects : Cached(o) => ~Due(o)
            BY DEF CachedNotQueued, Due
      <2>3. \A t \in Threads : held[t] # NoObject => ~Due(held[t])
            BY DEF HeldYoung, Due, TypeOK
      <2>4. CachedNotQueued'
            BY <2>1, <2>2 DEF CachedNotQueued, Cached
      <2>5. QueuedNotFreed'
            BY <2>1 DEF QueuedNotFreed, TypeOK
      <2>6. HeldYoung'
            BY <2>1, <2>3 DEF HeldYoung
      <2> QED  BY <1>0, <2>1, <2>4, <2>5, <2>6 DEF MapKeyed
<1>8. CASE UNCHANGED vars
      BY <1>0, <1>8 DEF vars, MapKeyed, CachedNotQueued, Cached, QueuedNotFreed, HeldYoung
<1> QED  BY <1>1, <1>2, <1>3, <1>4, <1>5, <1>6, <1>7, <1>8 DEF Next

\* The invariant, for every cache whose callers keep the contract.
THEOREM Ownership == ASSUME Contract PROVE Spec => []IInv
<1>1. IInv /\ [Next]_vars => IInv'
      BY InvStep
<1> QED  BY <1>1, InvInit, PTL DEF Spec

\* find() never returns what is queued or deleted.
THEOREM FindIsAlive == ASSUME Contract PROVE Spec => []CachedNotQueued
<1>1. IInv => CachedNotQueued
      BY DEF IInv
<1> QED  BY <1>1, Ownership, PTL

\* A pointer that is held for less than the time of grace stays valid.
THEOREM HoldIsAlive == ASSUME Contract PROVE Spec => []HeldAlive
<1>1. ASSUME IInv, NEW t \in Threads PROVE held[t] \notin freed
      BY <1>1, CacheAssumption DEF IInv, HeldYoung, TypeOK
<1>2. IInv => HeldAlive
      BY <1>1 DEF HeldAlive
<1> QED  BY <1>2, Ownership, PTL

-----------------------------------------------------------------------------
(* The cache implements the life cycle of its objects *)

LEMMA InitRefines == Init => L!Init
BY CacheAssumption DEF Init, L!Init, stage, Cached

\* Storing a new object hands it over and retires the one it replaces.
LEMMA StoreHands ==
  ASSUME IInv, NEW o \in Objects, StoreNew(o)
  PROVE  L!Hand(o)
<1> USE CacheAssumption DEF IInv, TypeOK
<1> DEFINE existing == cache_map[IdOf[o]]
           old == {existing} \ {NoObject}
<1>1. existing # o /\ o \notin queue /\ o \notin freed
      BY DEF StoreNew, Fresh, Cached
<1>2. /\ queue' = queue \cup old
      /\ cache_map' = [cache_map EXCEPT ![IdOf[o]] = o]
      /\ freed' = freed
      BY <1>1 DEF StoreNew, Store, Replace, Enqueue
<1>3. old \subseteq Objects /\ \A p \in old : Cached(p) /\ p \notin queue \cup freed
      BY DEF MapKeyed, CachedNotQueued, Cached
<1>4. old \in SUBSET {p \in Objects : stage[p] = "cached"}
      BY <1>3 DEF stage
<1>5. stage[o] = "new"
      BY DEF StoreNew, Fresh, stage
<1>6. \A p \in Objects :
        stage'[p] = IF p = o THEN "cached" ELSE IF p \in old THEN "queued" ELSE stage[p]
  <2> TAKE p \in Objects
  <2>1. CASE p = o
        BY <1>1, <1>2, <1>3, <2>1 DEF stage, Cached
  <2>2. CASE p # o /\ p \in old
        BY <1>2, <1>3, <2>2 DEF stage
  <2>3. CASE p # o /\ p \notin old
    <3>1. Cached(p)' <=> Cached(p)
          BY <1>2, <2>3 DEF Cached
    <3> QED  BY <1>2, <2>3, <3>1 DEF stage
  <2> QED  BY <2>1, <2>2, <2>3
<1>7. stage' = [p \in Objects |-> IF p = o THEN "cached"
                                  ELSE IF p \in old THEN "queued" ELSE stage[p]]
      BY <1>6 DEF stage
<1> QED  BY <1>4, <1>5, <1>7 DEF L!Hand

\* Removing an object retires it.
LEMMA RemoveRetires ==
  ASSUME Contract, IInv, NEW t \in Threads, Remove(t)
  PROVE  \E o \in Objects : L!Retire(o)
<1> USE CacheAssumption DEF IInv, TypeOK
<1> DEFINE o == held[t]
<1>1. o \in Objects /\ Cached(o) /\ o \notin queue /\ o \notin freed
      BY DEF Remove, Contract, CachedNotQueued
<1>2. /\ queue' = queue \cup {o}
      /\ cache_map' = [cache_map EXCEPT ![IdOf[o]] = NoObject]
      /\ freed' = freed
      BY <1>1 DEF Remove, Removed, Enqueue, Cached
<1>3. stage[o] = "cached"
      BY <1>1 DEF stage
<1>4. \A p \in Objects : stage'[p] = IF p = o THEN "queued" ELSE stage[p]
  <2> TAKE p \in Objects
  <2>1. CASE p = o
        BY <1>1, <1>2, <2>1 DEF stage
  <2>2. CASE p # o
    <3>1. Cached(p)' <=> Cached(p)
          BY <1>1, <1>2, <2>2 DEF Cached
    <3> QED  BY <1>2, <2>2, <3>1 DEF stage
  <2> QED  BY <2>1, <2>2
<1>5. stage' = [stage EXCEPT ![o] = "queued"]
      BY <1>1, <1>4 DEF stage
<1> QED  BY <1>1, <1>3, <1>5 DEF L!Retire

\* A collection deletes what is due, all of which is in the queue.
LEMMA CollectDeletes ==
  ASSUME IInv, Collect
  PROVE  \E old \in SUBSET Objects : L!Delete(old)
<1> DEFINE old == {o \in Objects : Due(o)}
<1>1. /\ freed' = freed \cup old
      /\ queue' = {o \in queue : ~Due(o)}
      /\ cache_map' = cache_map
      BY DEF Collect, Remaining
<1>2. \A o \in old : stage[o] = "queued"
      BY DEF IInv, QueuedNotFreed, Due, stage
<1>3. \A o \in Objects : stage'[o] = IF o \in old THEN "deleted" ELSE stage[o]
      BY <1>1 DEF stage, Cached
<1>4. stage' = [o \in Objects |-> IF o \in old THEN "deleted" ELSE stage[o]]
      BY <1>3 DEF stage
<1> QED  BY <1>2, <1>4 DEF L!Delete

\* Storing a cached object again, and all other steps, leave the stages alone.
LEMMA StepRefines == ASSUME Contract, IInv, [Next]_vars PROVE [L!Next]_stage
<1>1. CASE \E o \in Objects : StoreNew(o)
      BY <1>1, StoreHands DEF L!Next
<1>2. CASE \E t \in Threads : StoreFound(t)
  <2> PICK t \in Threads : StoreFound(t)
      BY <1>2
  <2>1. held[t] \in Objects /\ Cached(held[t])
        BY DEF StoreFound, Contract, IInv, TypeOK
  <2>2. UNCHANGED <<cache_map, queue, freed>>
        BY <2>1, CacheAssumption DEF StoreFound, Store, Replace, Cached, IInv, TypeOK
  <2> QED  BY <2>2 DEF stage, Cached
<1>3. CASE \E t \in Threads : Remove(t)
      BY <1>3, RemoveRetires DEF L!Next
<1>4. CASE \/ \E t \in Threads : Drop(t)
           \/ \E t \in Threads, i \in Ids : Find(t, i)
           \/ Tick
           \/ UNCHANGED vars
  <2>1. UNCHANGED <<cache_map, queue, freed>>
        BY <1>4 DEF Drop, Find, Tick, vars
  <2> QED  BY <2>1 DEF stage, Cached
<1>5. CASE Collect
      BY <1>5, CollectDeletes DEF L!Next
<1> QED  BY <1>1, <1>2, <1>3, <1>4, <1>5 DEF Next

\* Under the contract no object is dropped and none is deleted twice.
THEOREM Refinement == ASSUME Contract PROVE Spec => ImplementsLifecycle
<1>1. IInv /\ [Next]_vars => [L!Next]_stage
      BY StepRefines
<1> QED  BY <1>1, Ownership, InitRefines, PTL DEF Spec, ImplementsLifecycle, L!Spec
=============================================================================
