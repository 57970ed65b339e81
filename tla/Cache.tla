-------------------------------- MODULE Cache --------------------------------
(***************************************************************************)
(* dpp::cache (cache.h): a map from id to heap object, shared by the       *)
(* threads that store, remove and find, and the deletion queue that the    *)
(* garbage collection empties after a time of grace.  Each call is one     *)
(* step: it holds cache_mutex, and deletion_mutex inside it, throughout.   *)
(* rehash() moves the same entries to a new map and changes nothing here.  *)
(***************************************************************************)
EXTENDS Naturals

CONSTANTS
  Objects,      \* objects, each allocated once
  Ids,          \* their ids
  IdOf,         \* managed::id
  Threads,      \* the threads that use the cache
  NoObject,     \* a null pointer
  Grace,        \* ticks an object stays in the queue (60 seconds)
  StaleStores,  \* store() may be given an object found before and since removed
  StaleRemoves  \* remove() may be given an object found before and since replaced

ASSUME CacheAssumption ==
  /\ IdOf \in [Objects -> Ids]
  /\ NoObject \notin Objects
  /\ Grace \in Nat \ {0}
  /\ StaleStores \in BOOLEAN /\ StaleRemoves \in BOOLEAN

VARIABLES
  cache_map,  \* the object stored under each id
  queue,      \* the keys of deletion_queue
  age,        \* the ticks since the time stored in deletion_queue
  freed,      \* the objects that were deleted
  held,       \* the pointer each thread holds, from find()
  since       \* the ticks since it found it

vars == <<cache_map, queue, age, freed, held, since>>

TypeOK ==
  /\ cache_map \in [Ids -> Objects \cup {NoObject}]
  /\ queue \subseteq Objects
  /\ age \in [Objects -> 0 .. Grace]
  /\ freed \subseteq Objects
  /\ held \in [Threads -> Objects \cup {NoObject}]
  /\ since \in [Threads -> 0 .. Grace]

Init ==
  /\ cache_map = [i \in Ids |-> NoObject]
  /\ queue = {}
  /\ age = [o \in Objects |-> 0]
  /\ freed = {}
  /\ held = [t \in Threads |-> NoObject]
  /\ since = [t \in Threads |-> 0]

Cached(o) == cache_map[IdOf[o]] = o
Fresh(o)  == ~Cached(o) /\ o \notin queue \cup freed

-----------------------------------------------------------------------------
(* The operations *)

\* deletion_queue[o] = time(nullptr).
Enqueue(o) ==
  /\ queue' = queue \cup {o}
  /\ age' = [age EXCEPT ![o] = 0]

\* Mutant of Replace: the entry is overwritten and the old object forgotten.
ReplaceOnly(o) == UNCHANGED <<queue, age>>

\* What becomes of the entry that a stored object displaces.
Replace(o) ==
  LET existing == cache_map[IdOf[o]] IN
  IF existing \in {NoObject, o} THEN UNCHANGED <<queue, age>> ELSE Enqueue(existing)

Store(o) ==
  /\ cache_map' = [cache_map EXCEPT ![IdOf[o]] = o]
  /\ Replace(o)
  /\ UNCHANGED <<freed, held, since>>

StoreNew(o) == Fresh(o) /\ Store(o)

\* An object that was found, and perhaps changed, is stored again.
StoreFound(t) ==
  /\ held[t] # NoObject
  /\ StaleStores \/ Cached(held[t])
  /\ Store(held[t])

\* Mutant of Removed: the object is deleted, the map keeps the pointer.
RemovedNot(o) == cache_map

\* The entry of the object's id goes, whatever it points to.
Removed(o) == [cache_map EXCEPT ![IdOf[o]] = NoObject]

Remove(t) ==
  /\ held[t] # NoObject
  /\ StaleRemoves \/ Cached(held[t])
  /\ cache_map' = Removed(held[t])
  /\ IF cache_map[IdOf[held[t]]] # NoObject
       THEN Enqueue(held[t]) ELSE UNCHANGED <<queue, age>>
  /\ UNCHANGED <<freed, held, since>>

Find(t, i) ==
  /\ held[t] = NoObject
  /\ cache_map[i] # NoObject
  /\ held' = [held EXCEPT ![t] = cache_map[i]]
  /\ since' = [since EXCEPT ![t] = 0]
  /\ UNCHANGED <<cache_map, queue, age, freed>>

\* The caller of find() is done with the pointer.
Drop(t) ==
  /\ held[t] # NoObject
  /\ held' = [held EXCEPT ![t] = NoObject]
  /\ UNCHANGED <<cache_map, queue, age, freed, since>>

-----------------------------------------------------------------------------
(* Time and garbage collection, which is in the library's binary *)

\* A pointer is not held for as long as the queue keeps what it points to.
Prompt == \A t \in Threads : held[t] # NoObject => since[t] + 1 < Grace

OneMore(n) == IF n < Grace THEN n + 1 ELSE n

Tick ==
  /\ Prompt
  /\ age' = [o \in Objects |-> IF o \in queue THEN OneMore(age[o]) ELSE age[o]]
  /\ since' = [t \in Threads |-> IF held[t] # NoObject THEN OneMore(since[t]) ELSE since[t]]
  /\ UNCHANGED <<cache_map, queue, freed, held>>

\* Mutant of Due: what is in the queue is deleted at once.
DueAtOnce(o) == o \in queue

\* Deleted over 60 seconds ago.
Due(o) == o \in queue /\ age[o] = Grace

Remaining == {o \in queue : ~Due(o)}

Collect ==
  /\ \E o \in Objects : Due(o)
  /\ freed' = freed \cup {o \in Objects : Due(o)}
  /\ queue' = Remaining
  /\ UNCHANGED <<cache_map, age, held, since>>

Next ==
  \/ \E o \in Objects : StoreNew(o)
  \/ \E t \in Threads : StoreFound(t) \/ Remove(t) \/ Drop(t)
  \/ \E t \in Threads, i \in Ids : Find(t, i)
  \/ Tick \/ Collect

Spec == Init /\ [][Next]_vars

-----------------------------------------------------------------------------
(* What the cache promises *)

\* Nothing that find() can return is deleted, or waits to be: the map and the
\* queue never own an object together ("the lifetime of the stored object is
\* managed by the cache class").
CachedNotQueued == \A o \in Objects : Cached(o) => o \notin queue \cup freed

\* A pointer from find() that is not held "indefinitely" stays valid, whoever
\* removes or replaces the object meanwhile.
HeldAlive == \A t \in Threads : held[t] \notin freed

stage ==
  [o \in Objects |-> IF o \in freed THEN "deleted"
                     ELSE IF o \in queue THEN "queued"
                     ELSE IF Cached(o) THEN "cached" ELSE "new"]

L == INSTANCE Lifecycle

\* Every object goes from the cache to the queue, and from there it is deleted,
\* once: none is dropped on the way, none comes back.
ImplementsLifecycle == L!Spec
=============================================================================
