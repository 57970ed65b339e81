-------------------------- MODULE Standalone_proofs --------------------------
(***************************************************************************)
(* Theorems about the components that no other one interacts with.         *)
(*                                                                         *)
(* The updater, updatedpp.sh, for any number of overlapping runs, builds,  *)
(* files and versions.  As long as no CI build is withdrawn, what a run    *)
(* has in its tree is never older than what it is based on, which is why a *)
(* fast-forward never takes main back.  A run that gets as far as a commit *)
(* found every artifact, because the first one that is missing leaves it   *)
(* in a directory it cannot recover from; it then has every file of its    *)
(* version, and what else is there is older.  A merge of two such trees    *)
(* is one of the newer version.                                            *)
(* The bot, for any number of READY events and interactions.  Where READY  *)
(* events come in turn, at most one handler is under way; the plain bool   *)
(* of run_once is then read and written as if in one step, so that whoever *)
(* finds it false is the first.                                            *)
(* The mixers, for any number of voices, width of the samples, gain and    *)
(* floats.  The sum over a set of voices does not depend on the order in   *)
(* which they are taken, so that what is added up, voice by voice, is the  *)
(* sum that the promise speaks of; all instruction sets then clip alike,   *)
(* and since floats hold every whole sample, rounding to a nearest float   *)
(* and then towards zero never goes past the next whole sample.            *)
(***************************************************************************)
EXTENDS UpdateDpp, Bot, AudioMixer, FiniteSetTheorems, WellFoundedInduction, TLAPS

-----------------------------------------------------------------------------
(* The updater *)

\* Where a run is in the script.
Place(r) ==
  /\ pc[r] \in {"idle", "download"} => next[r] = 1
  /\ pc[r] # "process" => level[r] = 0
  /\ pc[r] = "process" => level[r] >= 2 - next[r]

PlaceInv == \A r \in Runs : Place(r)

\* A file is there with a version that has it.
Filed(t) == \A f \in Files : t[f] # Absent => f \in FilesOf[t[f]]

FiledInv == Filed(origin) /\ \A r \in Runs : Filed(tree[r]) /\ Filed(base[r])

\* How old what a run has is.
Aged(r) ==
  /\ version[r] <= latest
  /\ pc[r] # "idle" /\ ~behind[r] => base[r] = origin
  /\ \A f \in Files :
       /\ pc[r] \in {"process", "pull"} => base[r][f] <= version[r]
       /\ base[r][f] <= tree[r][f] /\ tree[r][f] <= latest
       /\ base[r][f] <= origin[f]

AgeInv ==
  withdrawn = 0 =>
    /\ latest = issued
    /\ \A f \in Files : origin[f] <= latest
    /\ \A r \in Runs : Aged(r)

Uniform(t) == \E v \in Versions : Holds(t, v)

\* While the run is in temp, it has what it was based on and what it copied;
\* once it has left, it holds a version.
Whole(r) ==
  /\ pc[r] = "download" => tree[r] = base[r]
  /\ pc[r] = "process" /\ level[r] = 1 =>
       \A f \in Files :
         tree[r][f] = IF ArchiveOf[f] < next[r] /\ f \in FilesOf[version[r]]
                        THEN version[r] ELSE base[r][f]
  /\ pc[r] = "pull" => Holds(tree[r], version[r])
  /\ pc[r] \in {"commit", "push"} => Uniform(tree[r])

WholeInv ==
  broken = 0 /\ withdrawn = 0 => Uniform(origin) /\ \A r \in Runs : Whole(r)

UpdateInv == UpdateTypeOK /\ PlaceInv /\ FiledInv /\ AgeInv /\ WholeInv

-----------------------------------------------------------------------------
(* Effects of the steps *)

\* What the trees are made of.
LEMMA TreeFacts ==
  /\ Versions \subseteq Nat /\ 0 \in Versions
  /\ \A v \in Versions : FilesOf[v] \subseteq Files
  /\ \A t \in Trees, f \in Files : t[f] \in Int /\ (t[f] = Absent \/ t[f] \in Versions)
  /\ NoTree \in Trees /\ \A f \in Files : NoTree[f] = -1
  /\ Absent = -1
  BY UpdateDppAssumption DEF Versions, Trees, NoTree, Absent

\* What a run forgets when it is over.
LEMMA OverEffect ==
  ASSUME UpdateTypeOK, NEW r \in Runs, Over(r)
  PROVE  /\ pc' = [pc EXCEPT ![r] = "idle"] /\ level' = [level EXCEPT ![r] = 0]
         /\ pc'[r] = "idle" /\ level'[r] = 0 /\ version'[r] = 0 /\ next'[r] = 1
         /\ tree'[r] = NoTree /\ base'[r] = NoTree
  BY DEF UpdateTypeOK, Over

\* What a run leaves alone: everything of the others but whether main moved.
OthersKept(r) ==
  \A s \in Runs \ {r} :
    /\ pc'[s] = pc[s] /\ level'[s] = level[s] /\ version'[s] = version[s]
    /\ next'[s] = next[s] /\ tree'[s] = tree[s] /\ base'[s] = base[s]

\* Each step is of one run.
LEMMA RunFrame ==
  ASSUME UpdateTypeOK, NEW r \in Runs, RunStep(r)
  PROVE  UNCHANGED ciVars /\ OthersKept(r)
<1> USE DEF UpdateTypeOK, OthersKept
<1>0. ASSUME Over(r) PROVE OthersKept(r)
  BY <1>0 DEF Over
<1>1. CASE Checkout(r)
  BY <1>1 DEF Checkout
<1>2. ASSUME NEW got \in SUBSET Builds, Download(r, got)
      PROVE  UNCHANGED ciVars /\ OthersKept(r)
  <2>1. CASE 1 \in got
    BY <1>2, <2>1 DEF Download
  <2>2. CASE 1 \notin got
    BY <1>0, <1>2, <2>2 DEF Download
  <2> QED
    BY <2>1, <2>2
<1>3. ASSUME NEW unzips \in BOOLEAN, Process(r, unzips)
      PROVE  UNCHANGED ciVars /\ OthersKept(r)
  BY <1>3 DEF Process
<1>4. CASE Convert(r)
  BY <1>0, <1>4 DEF Convert
<1>5. CASE Pull(r)
  BY <1>5 DEF Pull
<1>6. CASE Commit(r)
  BY <1>6 DEF Commit
<1>7. CASE Push(r)
  BY <1>0, <1>7 DEF Push
<1> QED
  BY <1>1, <1>2, <1>3, <1>4, <1>5, <1>6, <1>7 DEF RunStep

\* main only moves by a push, which everybody else is then behind of.
LEMMA MainMoves ==
  ASSUME UpdateTypeOK, NEW r \in Runs, RunStep(r)
  PROVE  \/ origin' = origin /\ \A s \in Runs \ {r} : behind'[s] = behind[s]
         \/ Push(r) /\ origin' = tree[r] /\ \A s \in Runs \ {r} : behind'[s]
<1> USE DEF UpdateTypeOK
<1>1. CASE Checkout(r)
  BY <1>1 DEF Checkout
<1>2. CASE \E got \in SUBSET Builds : Download(r, got)
  BY <1>2, Zenon DEF Download
<1>3. CASE \E unzips \in BOOLEAN : Process(r, unzips)
  BY <1>3, Zenon DEF Process
<1>4. CASE Convert(r) \/ Commit(r)
  BY <1>4, Zenon DEF Convert, Commit
<1>5. CASE Pull(r)
  BY <1>5 DEF Pull
<1>6. CASE Push(r)
  <2>1. CASE ahead[r] /\ FastForward(r)
    <3>1. origin' = tree[r] /\ behind' = [s \in Runs |-> s # r]
      BY <1>6, <2>1, Zenon DEF Push
    <3> QED
      BY <1>6, <3>1
  <2>2. CASE ~(ahead[r] /\ FastForward(r))
    BY <1>6, <2>2, Zenon DEF Push
  <2> QED
    BY <2>1, <2>2
<1> QED
  BY <1>1, <1>2, <1>3, <1>4, <1>5, <1>6 DEF RunStep

\* An archive that cannot be unzipped is counted.
LEMMA ProcessBreaks ==
  ASSUME NEW r \in Runs, NEW unzips \in BOOLEAN, Process(r, unzips)
  PROVE  (unzips /\ broken' = broken) \/ (~unzips /\ broken' = broken + 1)
<1>1. broken' = IF unzips THEN broken ELSE broken + 1
  BY DEF Process
<1>2. CASE unzips = TRUE
  BY <1>1, <1>2
<1>3. CASE unzips = FALSE
  BY <1>1, <1>3
<1> QED
  BY <1>2, <1>3

\* A file after the copy: that of the archive, or the one before.
LEMMA CopiedFile ==
  ASSUME NEW t, NEW b, NEW v, NEW f \in Files
  PROVE  Copied(t, b, v)[f] = IF ArchiveOf[f] = b /\ f \in FilesOf[v] THEN v ELSE t[f]
  BY DEF Copied

\* What Process does to a run: it copies an archive, or goes on without it.
LEMMA ProcessEffect ==
  ASSUME UpdateTypeOK, NEW r \in Runs, NEW unzips \in BOOLEAN, Process(r, unzips)
  PROVE  /\ pc[r] = "process" /\ next[r] <= NBuilds
         /\ pc' = pc /\ version' = version /\ base' = base /\ behind' = behind
         /\ origin' = origin /\ UNCHANGED ciVars
         /\ next'[r] = next[r] + 1 /\ level'[r] = Leave(r)
         /\ (unzips /\ broken' = broken) \/ (~unzips /\ broken' = broken + 1)
         /\ \/ InPlace(r) /\ tree'[r] = Copied(tree[r], next[r], version[r])
            \/ tree'[r] = tree[r] /\ (unzips => ~InPlace(r))
<1> USE DEF UpdateTypeOK
<1>1. /\ pc[r] = "process" /\ next[r] <= NBuilds
      /\ pc' = pc /\ version' = version /\ base' = base /\ behind' = behind
      /\ origin' = origin /\ UNCHANGED ciVars
      /\ next'[r] = next[r] + 1 /\ level'[r] = Leave(r)
  BY DEF Process
<1>2. (unzips /\ broken' = broken) \/ (~unzips /\ broken' = broken + 1)
  BY ProcessBreaks
<1>3. CASE InPlace(r) /\ unzips
  <2> DEFINE copied == Copied(tree[r], next[r], version[r])
  <2>1. tree' = [tree EXCEPT ![r] = copied]
    BY <1>3 DEF Process
  <2> HIDE DEF copied
  <2>2. tree'[r] = copied
    BY <2>1
  <2> QED
    BY <1>1, <1>2, <1>3, <2>2 DEF copied
<1>4. CASE ~(InPlace(r) /\ unzips)
  <2>1. tree' = tree
    BY <1>4 DEF Process
  <2> QED
    BY <1>1, <1>2, <1>4, <2>1
<1> QED
  BY <1>3, <1>4

\* Of each file, a pull leaves a run the one of main or, if that is the one it
\* was based on, its own; or it leaves all of them.
Merged(r) ==
  /\ base'[r] = origin /\ ~behind'[r]
  /\ \A f \in Files : \/ tree'[r][f] = origin[f] /\ tree[r][f] = base[r][f]
                      \/ tree'[r][f] = tree[r][f] /\ base[r][f] = origin[f]

\* git pull merges, or refuses.
LEMMA PullEffect ==
  ASSUME UpdateTypeOK, NEW r \in Runs, Pull(r)
  PROVE  \/ Merged(r)
         \/ tree'[r] = tree[r] /\ base'[r] = base[r] /\ behind'[r] = behind[r]
<1> DEFINE mine   == Differ(tree[r], base[r])
           theirs == Differ(origin, base[r])
           merged == [f \in Files |-> IF f \in theirs THEN origin[f] ELSE tree[r][f]]
<1>1. CASE mine \cap theirs = {}
  <2>1. /\ tree' = [tree EXCEPT ![r] = merged] /\ base' = [base EXCEPT ![r] = origin]
        /\ behind' = [behind EXCEPT ![r] = FALSE]
    BY <1>1 DEF Pull
  <2>2. \A f \in Files : merged[f] = IF f \in theirs THEN origin[f] ELSE tree[r][f]
    OBVIOUS
  <2>3. \A f \in Files : /\ f \in theirs <=> origin[f] # base[r][f]
                         /\ f \in mine <=> tree[r][f] # base[r][f]
    BY DEF Differ
  <2> HIDE DEF merged, mine, theirs
  <2>4. tree'[r] = merged /\ base'[r] = origin /\ ~behind'[r]
    BY <2>1 DEF UpdateTypeOK
  <2>5. ASSUME NEW f \in Files
        PROVE  \/ tree'[r][f] = origin[f] /\ tree[r][f] = base[r][f]
               \/ tree'[r][f] = tree[r][f] /\ base[r][f] = origin[f]
    BY <1>1, <2>2, <2>3, <2>4
  <2> QED
    BY <2>4, <2>5 DEF Merged
<1>2. CASE mine \cap theirs # {}
  <2>1. tree' = tree /\ base' = base /\ behind' = behind
    BY <1>2 DEF Pull
  <2> QED
    BY <2>1
<1> QED
  BY <1>1, <1>2

-----------------------------------------------------------------------------
(* Types *)

\* Every run begins in its checkout, as does everything else.
LEMMA TypeInit == UpdateInit => UpdateTypeOK
<1> SUFFICES ASSUME UpdateInit PROVE UpdateTypeOK
  OBVIOUS
<1>1. /\ 0 \in Versions /\ 0 \in 0 .. MaxBroken /\ 0 \in 0 .. MaxWithdrawn
      /\ 0 \in 1 - NBuilds .. 1 /\ 1 \in 1 .. NBuilds + 1
  BY UpdateDppAssumption DEF Versions
<1>2. origin \in Trees
  BY <1>1 DEF UpdateInit, Trees
<1> QED
  BY <1>1, <1>2, TreeFacts DEF UpdateInit, UpdateTypeOK

\* Every step of a run keeps the types.
LEMMA TypeRun ==
  ASSUME UpdateTypeOK, NEW r \in Runs, Place(r), RunStep(r)
  PROVE  UpdateTypeOK'
<1> USE DEF UpdateTypeOK, ciVars
<1>0. /\ 0 \in Versions /\ 0 \in 1 - NBuilds .. 1 /\ 1 \in 1 .. NBuilds + 1 /\ 1 \in 1 - NBuilds .. 1
      /\ NBuilds \in Nat \ {0} /\ MaxVersion \in Nat /\ MaxBroken \in Nat
      /\ NoTree \in Trees
  BY UpdateDppAssumption, TreeFacts DEF Versions
<1>1. ASSUME Over(r)
      PROVE  /\ pc' \in [Runs -> {"idle", "download", "process", "pull", "commit", "push"}]
             /\ level' \in [Runs -> 1 - NBuilds .. 1] /\ version' \in [Runs -> Versions]
             /\ dirs' \in [Runs -> SUBSET Builds] /\ next' \in [Runs -> 1 .. NBuilds + 1]
             /\ tree' \in [Runs -> Trees] /\ base' \in [Runs -> Trees]
             /\ ahead' \in [Runs -> BOOLEAN]
  <2>1. /\ pc' \in [Runs -> {"idle", "download", "process", "pull", "commit", "push"}]
        /\ level' \in [Runs -> 1 - NBuilds .. 1] /\ version' \in [Runs -> Versions]
    BY <1>0, <1>1 DEF Over
  <2>2. dirs' \in [Runs -> SUBSET Builds] /\ next' \in [Runs -> 1 .. NBuilds + 1]
    BY <1>0, <1>1 DEF Over
  <2>3. tree' \in [Runs -> Trees] /\ base' \in [Runs -> Trees] /\ ahead' \in [Runs -> BOOLEAN]
    BY <1>0, <1>1 DEF Over
  <2> QED
    BY <2>1, <2>2, <2>3
<1>2. CASE Checkout(r)
  BY <1>2 DEF Checkout
<1>3. ASSUME NEW got \in SUBSET Builds, Download(r, got) PROVE UpdateTypeOK'
  <2>1. CASE 1 \in got
    BY <1>0, <1>3, <2>1 DEF Download
  <2>2. CASE 1 \notin got
    BY <1>1, <1>3, <2>2 DEF Download
  <2> QED
    BY <2>1, <2>2
<1>4. ASSUME NEW unzips \in BOOLEAN, Process(r, unzips) PROVE UpdateTypeOK'
  <2>1. Leave(r) \in 1 - NBuilds .. 1
    BY <1>0, <1>4, ProcessEffect DEF Leave, InPlace, Place
  <2>2. level' \in [Runs -> 1 - NBuilds .. 1] /\ next' \in [Runs -> 1 .. NBuilds + 1]
    <3>1. next[r] + 1 \in 1 .. NBuilds + 1
      BY <1>0, <1>4 DEF Process
    <3> QED
      BY <1>4, <2>1, <3>1 DEF Process
  <2>3. tree' \in [Runs -> Trees]
    <3>1. CASE InPlace(r) /\ unzips
      <4> DEFINE copied == Copied(tree[r], next[r], version[r])
      <4>1. tree' = [tree EXCEPT ![r] = copied]
        BY <1>4, <3>1 DEF Process
      <4>2. copied \in Trees
        BY DEF Trees, Copied
      <4> HIDE DEF copied
      <4> QED
        BY <4>1, <4>2
    <3>2. CASE ~(InPlace(r) /\ unzips)
      BY <1>4, <3>2 DEF Process
    <3> QED
      BY <3>1, <3>2
  <2>4. broken' \in 0 .. MaxBroken
    <3>1. CASE unzips
      BY <1>4, <3>1 DEF Process
    <3>2. CASE ~unzips
      BY <1>0, <1>4, <3>2 DEF Process
    <3> QED
      BY <3>1, <3>2
  <2> QED
    BY <1>4, <2>2, <2>3, <2>4 DEF Process
<1>5. CASE Convert(r)
  <2>1. CASE level[r] - 1 = 0
    BY <1>0, <1>5, <2>1 DEF Convert
  <2>2. CASE level[r] - 1 # 0
    BY <1>1, <1>5, <2>2 DEF Convert
  <2> QED
    BY <2>1, <2>2
<1>6. CASE Pull(r)
  <2> DEFINE mine == Differ(tree[r], base[r])
             theirs == Differ(origin, base[r])
             merged == [f \in Files |-> IF f \in theirs THEN origin[f] ELSE tree[r][f]]
  <2>1. merged \in Trees
    BY DEF Trees
  <2>2. CASE mine \cap theirs = {}
    <3>1. /\ tree' = [tree EXCEPT ![r] = merged] /\ base' = [base EXCEPT ![r] = origin]
          /\ behind' = [behind EXCEPT ![r] = FALSE]
      BY <1>6, <2>2 DEF Pull
    <3> HIDE DEF merged, mine, theirs
    <3>2. tree' \in [Runs -> Trees] /\ base' \in [Runs -> Trees] /\ behind' \in [Runs -> BOOLEAN]
      BY <2>1, <3>1
    <3> QED
      BY <1>6, <3>2 DEF Pull
  <2>3. CASE mine \cap theirs # {}
    BY <1>6, <2>3 DEF Pull
  <2> QED
    BY <2>2, <2>3
<1>7. CASE Commit(r)
  <2>1. (Staged(r) # {}) \in BOOLEAN
    OBVIOUS
  <2> QED
    BY <1>7, <2>1 DEF Commit
<1>8. CASE Push(r)
  <2>1. origin' \in Trees
    BY <1>8 DEF Push
  <2>2. behind' \in [Runs -> BOOLEAN]
    <3>1. \A s \in Runs : (s # r) \in BOOLEAN
      OBVIOUS
    <3>2. behind' = [s \in Runs |-> s # r] \/ behind' = behind
      BY <1>8, Zenon DEF Push
    <3> QED
      BY <3>1, <3>2
  <2> QED
    BY <1>1, <1>8, <2>1, <2>2 DEF Push
<1> QED
  BY <1>2, <1>3, <1>4, <1>5, <1>6, <1>7, <1>8 DEF RunStep

-----------------------------------------------------------------------------
(* Place *)

\* The script's steps leave the run where its next command can find it.
LEMMA PlaceRun ==
  ASSUME UpdateTypeOK, NEW r \in Runs, Place(r), RunStep(r)
  PROVE  Place(r)'
<1> USE DEF UpdateTypeOK, Place
<1>0. next[r] \in Nat /\ level[r] \in Int /\ level[r] <= 1
  BY UpdateDppAssumption
<1>1. ASSUME Over(r) PROVE Place(r)'
  BY <1>1, OverEffect
<1>2. CASE Checkout(r)
  BY <1>2 DEF Checkout
<1>3. ASSUME NEW got \in SUBSET Builds, Download(r, got) PROVE Place(r)'
  <2>1. CASE 1 \in got
    BY <1>0, <1>3, <2>1 DEF Download
  <2>2. CASE 1 \notin got
    BY <1>1, <1>3, <2>2 DEF Download
  <2> QED
    BY <2>1, <2>2
<1>4. ASSUME NEW unzips \in BOOLEAN, Process(r, unzips) PROVE Place(r)'
  BY <1>0, <1>4, ProcessEffect DEF Leave, InPlace
<1>5. CASE Convert(r)
  <2>1. CASE level[r] - 1 = 0
    BY <1>5, <2>1 DEF Convert
  <2>2. CASE level[r] - 1 # 0
    BY <1>1, <1>5, <2>2 DEF Convert
  <2> QED
    BY <2>1, <2>2
<1>6. CASE Pull(r)
  BY <1>6 DEF Pull
<1>7. CASE Commit(r)
  BY <1>7 DEF Commit
<1>8. CASE Push(r)
  BY <1>1, <1>8 DEF Push
<1> QED
  BY <1>2, <1>3, <1>4, <1>5, <1>6, <1>7, <1>8 DEF RunStep

-----------------------------------------------------------------------------
(* Files *)

\* The trees of a run after a step of it: nothing, main's, what it had, or what
\* it had with an archive copied or main merged into it.
LEMMA TreeStep ==
  ASSUME UpdateTypeOK, NEW r \in Runs, RunStep(r)
  PROVE  \/ tree'[r] = NoTree /\ base'[r] = NoTree
         \/ tree'[r] = origin /\ base'[r] = origin
         \/ tree'[r] = tree[r] /\ base'[r] = base[r]
         \/ tree'[r] = Copied(tree[r], next[r], version[r]) /\ base'[r] = base[r]
         \/ Pull(r) /\ Merged(r)
<1>1. CASE Checkout(r)
  BY <1>1 DEF Checkout, UpdateTypeOK
<1>2. ASSUME NEW got \in SUBSET Builds, Download(r, got)
      PROVE  (tree'[r] = NoTree /\ base'[r] = NoTree) \/ (tree' = tree /\ base' = base)
  BY <1>2, OverEffect, Zenon DEF Download
<1>3. ASSUME NEW unzips \in BOOLEAN, Process(r, unzips)
      PROVE  \/ tree'[r] = tree[r] /\ base'[r] = base[r]
             \/ tree'[r] = Copied(tree[r], next[r], version[r]) /\ base'[r] = base[r]
  BY <1>3, ProcessEffect
<1>4. CASE Convert(r)
  BY <1>4, OverEffect, Zenon DEF Convert
<1>5. CASE Pull(r)
  BY <1>5, PullEffect
<1>6. CASE Commit(r)
  BY <1>6 DEF Commit
<1>7. CASE Push(r)
  BY <1>7, OverEffect, Zenon DEF Push
<1> QED
  BY <1>1, <1>2, <1>3, <1>4, <1>5, <1>6, <1>7 DEF RunStep

\* No step puts a file where no version has it.
LEMMA FiledStep == UpdateTypeOK /\ FiledInv /\ [UpdateNext]_updateVars => FiledInv'
<1> SUFFICES ASSUME UpdateTypeOK, FiledInv, [UpdateNext]_updateVars PROVE FiledInv'
  OBVIOUS
<1>1. CASE UNCHANGED <<origin, runVars>>
  BY <1>1 DEF FiledInv, Filed, runVars
<1>2. ASSUME NEW r \in Runs, RunStep(r) PROVE FiledInv'
  <2>1. Filed(origin) /\ Filed(tree[r]) /\ Filed(base[r])
    BY DEF FiledInv
  <2>2. Filed(NoTree)
    BY DEF Filed, NoTree
  <2>3. ASSUME NEW b, NEW v \in Versions PROVE Filed(Copied(tree[r], b, v))
    BY <2>1, CopiedFile DEF Filed
  <2>4. Filed(tree'[r]) /\ Filed(base'[r])
    <3>1. CASE Merged(r)
      BY <2>1, <3>1 DEF Filed, Merged
    <3>2. version[r] \in Versions
      BY DEF UpdateTypeOK
    <3> QED
      BY <1>2, <2>1, <2>2, <2>3, <3>1, <3>2, TreeStep
  <2>5. Filed(origin')
    BY <1>2, <2>1, MainMoves
  <2>6. \A s \in Runs \ {r} : Filed(tree'[s]) /\ Filed(base'[s])
    BY <1>2, RunFrame DEF FiledInv, OthersKept
  <2> QED
    BY <2>4, <2>5, <2>6 DEF FiledInv, Filed
<1>3. CASE UNCHANGED updateVars
  BY <1>1, <1>3 DEF updateVars
<1> QED
  BY <1>1, <1>2, <1>3 DEF UpdateNext, CompleteBuild, Withdraw, CompleteAgain

-----------------------------------------------------------------------------
(* Age *)

\* What a run has from the step of another one: it may be left behind.
LEMMA AgedOther ==
  ASSUME UpdateTypeOK, NEW r \in Runs, NEW s \in Runs \ {r}, Aged(s), RunStep(r),
         latest' = latest, origin' \in Trees,
         \A f \in Files : origin[f] <= origin'[f]
  PROVE  Aged(s)'
<1>1. /\ pc'[s] = pc[s] /\ version'[s] = version[s] /\ tree'[s] = tree[s]
      /\ base'[s] = base[s]
  BY RunFrame DEF OthersKept
<1>2. behind'[s] \/ (behind'[s] = behind[s] /\ origin' = origin)
  BY MainMoves
<1>3. \A f \in Files : base[s][f] \in Int /\ origin[f] \in Int /\ origin'[f] \in Int
  BY TreeFacts DEF UpdateTypeOK
<1>4. \A f \in Files : base[s][f] <= origin'[f]
  BY <1>3 DEF Aged
<1> QED
  BY <1>1, <1>2, <1>4 DEF Aged

\* The script's steps keep what a run has from being older than its base, and
\* main from being older than it was.
LEMMA AgeRun ==
  ASSUME UpdateTypeOK, AgeInv, withdrawn = 0, NEW r \in Runs, RunStep(r)
  PROVE  Aged(r)' /\ \A f \in Files : origin[f] <= origin'[f] /\ origin'[f] <= latest
<1>0. /\ Aged(r) /\ UNCHANGED ciVars /\ latest \in Nat /\ version[r] \in Nat
      /\ \A f \in Files : /\ origin[f] <= latest /\ origin[f] \in Int /\ origin[f] >= -1
                           /\ tree[r][f] \in Int /\ base[r][f] \in Int
                           /\ tree[r][f] >= -1 /\ base[r][f] >= -1
  <2>1. Aged(r) /\ UNCHANGED ciVars /\ \A f \in Files : origin[f] <= latest
    BY RunFrame DEF AgeInv
  <2>2. /\ latest \in Versions /\ version[r] \in Versions
        /\ origin \in Trees /\ tree[r] \in Trees /\ base[r] \in Trees
    BY DEF UpdateTypeOK
  <2>3. \A t \in Trees, f \in Files : t[f] \in Int /\ t[f] >= -1
    BY TreeFacts
  <2> QED
    BY <2>1, <2>2, <2>3, TreeFacts
<1>00. latest' = latest
  BY <1>0 DEF ciVars
<1>1. ASSUME Over(r), \A f \in Files : origin'[f] \in Int /\ origin'[f] >= -1 PROVE Aged(r)'
  <2>1. /\ pc'[r] = "idle" /\ version'[r] = 0
        /\ \A f \in Files : tree'[r][f] = -1 /\ base'[r][f] = -1
    BY <1>1, OverEffect, TreeFacts
  <2> QED
    BY <1>0, <1>00, <1>1, <2>1 DEF Aged
<1>2. CASE Checkout(r)
  <2>1. /\ pc'[r] = "download" /\ version' = version /\ origin' = origin
        /\ tree'[r] = origin /\ base'[r] = origin
    BY <1>2 DEF Checkout, UpdateTypeOK
  <2> QED
    BY <1>0, <1>00, <2>1 DEF Aged
<1>3. ASSUME NEW got \in SUBSET Builds, Download(r, got)
      PROVE  Aged(r)' /\ origin' = origin
  <2>1. CASE 1 \in got
    <3>1. /\ pc[r] = "download" /\ pc'[r] = "process" /\ version'[r] = latest
          /\ UNCHANGED <<tree, base, behind, origin>>
      BY <1>3, <2>1 DEF Download, UpdateTypeOK
    <3>2. \A f \in Files : base[r][f] <= latest
      BY <1>0 DEF Aged
    <3> QED
      BY <1>0, <1>00, <3>1, <3>2 DEF Aged
  <2>2. CASE 1 \notin got
    <3>1. Over(r) /\ origin' = origin
      BY <1>3, <2>2 DEF Download
    <3> QED
      BY <1>0, <1>1, <3>1
  <2> QED
    BY <2>1, <2>2
<1>4. ASSUME NEW unzips \in BOOLEAN, Process(r, unzips)
      PROVE  Aged(r)' /\ origin' = origin
  <2>1. /\ pc' = pc /\ version' = version /\ base' = base /\ behind' = behind
        /\ pc[r] = "process" /\ origin' = origin
    BY <1>4, ProcessEffect
  <2>2. \A f \in Files : tree'[r][f] = tree[r][f] \/ tree'[r][f] = version[r]
    BY <1>4, ProcessEffect, CopiedFile
  <2>3. \A f \in Files : tree'[r][f] <= latest /\ base[r][f] <= tree'[r][f]
    BY <1>0, <2>1, <2>2 DEF Aged
  <2> QED
    BY <1>0, <1>00, <2>1, <2>3 DEF Aged
<1>5. CASE Convert(r)
  <2>1. CASE level[r] - 1 = 0
    <3>1. /\ pc[r] = "process" /\ pc'[r] = "pull"
          /\ UNCHANGED <<version, tree, base, behind, origin>>
      BY <1>5, <2>1 DEF Convert, UpdateTypeOK
    <3> QED
      BY <1>0, <1>00, <3>1 DEF Aged
  <2>2. CASE level[r] - 1 # 0
    <3>1. Over(r) /\ origin' = origin
      BY <1>5, <2>2 DEF Convert
    <3> QED
      BY <1>0, <1>1, <3>1
  <2> QED
    BY <2>1, <2>2
<1>6. CASE Pull(r)
  <2>1. /\ pc[r] = "pull" /\ pc'[r] = "commit" /\ origin' = origin
        /\ version' = version
    BY <1>6 DEF Pull, UpdateTypeOK
  <2>2. CASE Merged(r)
    BY <1>0, <1>00, <2>1, <2>2 DEF Aged, Merged
  <2>3. CASE tree'[r] = tree[r] /\ base'[r] = base[r] /\ behind'[r] = behind[r]
    BY <1>0, <1>00, <2>1, <2>3 DEF Aged
  <2> QED
    BY <1>6, <2>2, <2>3, PullEffect
<1>7. CASE Commit(r)
  <2>1. /\ pc[r] = "commit" /\ pc'[r] = "push"
        /\ UNCHANGED <<version, tree, base, behind, origin>>
    BY <1>7 DEF Commit, UpdateTypeOK
  <2> QED
    BY <1>0, <1>00, <2>1 DEF Aged
<1>8. CASE Push(r)
  <2>1. origin' = origin \/ (origin' = tree[r] /\ base[r] = origin)
    <3>1. origin' = origin \/ (origin' = tree[r] /\ ~behind[r])
      BY <1>8, Zenon DEF Push, FastForward
    <3>2. pc[r] = "push"
      BY <1>8 DEF Push
    <3> QED
      BY <1>0, <3>1, <3>2 DEF Aged
  <2>2. \A f \in Files : /\ origin[f] <= origin'[f] /\ origin'[f] <= latest
                         /\ origin'[f] \in Int /\ origin'[f] >= -1
    BY <1>0, <2>1 DEF Aged
  <2>3. Aged(r)'
    BY <1>1, <1>8, <2>2 DEF Push
  <2> QED
    BY <2>2, <2>3
<1> QED
  BY <1>0, <1>2, <1>3, <1>4, <1>5, <1>6, <1>7, <1>8 DEF RunStep, Checkout, Convert, Pull, Commit

\* As long as nothing is withdrawn, no file of a run or of main gets older than
\* it was.
LEMMA AgeStep ==
  ASSUME UpdateTypeOK, UpdateTypeOK', AgeInv, [UpdateNext]_updateVars
  PROVE  AgeInv' /\ (withdrawn = 0 => \A f \in Files : origin[f] <= origin'[f])
<1>0. /\ latest \in Nat /\ issued \in Nat /\ withdrawn \in Nat
      /\ \A f \in Files : origin[f] \in Int
  BY TreeFacts DEF UpdateTypeOK
<1>1. ASSUME UNCHANGED <<origin, runVars>>, withdrawn = 0 => latest' >= latest,
             withdrawn' = 0 => withdrawn = 0,
             withdrawn' = 0 /\ latest = issued => latest' = issued'
      PROVE  AgeInv' /\ (withdrawn = 0 => \A f \in Files : origin[f] <= origin'[f])
  <2>1. \A r \in Runs : /\ version[r] \in Nat
                        /\ \A f \in Files : tree[r][f] \in Int /\ base[r][f] \in Int
    BY TreeFacts DEF UpdateTypeOK
  <2>2. latest' \in Nat
    BY TreeFacts DEF UpdateTypeOK
  <2>3. ASSUME withdrawn = 0, NEW r \in Runs PROVE Aged(r)'
    BY <1>0, <1>1, <2>1, <2>2, <2>3 DEF AgeInv, Aged, runVars
  <2> QED
    BY <1>0, <1>1, <2>2, <2>3 DEF AgeInv
<1>2. CASE CompleteBuild
  <2>1. withdrawn = 0 => latest = issued
    BY DEF AgeInv
  <2> QED
    BY <1>0, <1>1, <1>2, <2>1 DEF CompleteBuild
<1>3. CASE \E v \in Versions : Withdraw(v)
  <2>1. withdrawn' = withdrawn + 1 /\ UNCHANGED <<origin, runVars>>
    BY <1>3 DEF Withdraw
  <2> QED
    BY <1>0, <2>1 DEF AgeInv
<1>4. CASE \E v \in Versions : CompleteAgain(v)
  <2>1. latest < issued /\ withdrawn' = withdrawn /\ UNCHANGED <<origin, runVars>>
    BY <1>0, <1>4, TreeFacts DEF CompleteAgain
  <2>2. withdrawn # 0
    BY <1>0, <2>1 DEF AgeInv
  <2> QED
    BY <2>1, <2>2 DEF AgeInv
<1>5. ASSUME NEW r \in Runs, RunStep(r)
      PROVE  AgeInv' /\ (withdrawn = 0 => \A f \in Files : origin[f] <= origin'[f])
  <2>1. UNCHANGED ciVars
    BY <1>5, RunFrame
  <2> SUFFICES ASSUME withdrawn = 0
               PROVE  AgeInv' /\ \A f \in Files : origin[f] <= origin'[f]
    BY <2>1 DEF AgeInv, ciVars
  <2>2. Aged(r)' /\ \A f \in Files : origin[f] <= origin'[f] /\ origin'[f] <= latest
    BY <1>5, AgeRun
  <2>3. \A s \in Runs \ {r} : Aged(s)'
    <3> TAKE s \in Runs \ {r}
    <3>1. Aged(s) /\ origin' \in Trees /\ latest' = latest
      BY <2>1 DEF AgeInv, UpdateTypeOK, ciVars
    <3> QED
      BY <1>5, <2>2, <3>1, AgedOther
  <2> QED
    BY <2>1, <2>2, <2>3 DEF AgeInv, ciVars
<1>6. CASE UNCHANGED updateVars
  BY <1>0, <1>1, <1>6 DEF updateVars, ciVars
<1> QED
  BY <1>2, <1>3, <1>4, <1>5, <1>6 DEF UpdateNext

-----------------------------------------------------------------------------
(* One version *)

\* What was copied from every archive over something older holds its version.
LEMMA CopiedHolds ==
  ASSUME NEW v \in Versions, NEW t \in Trees, NEW b \in Trees, Filed(b),
         \A f \in Files : b[f] <= v,
         \A f \in Files : t[f] = IF f \in FilesOf[v] THEN v ELSE b[f]
  PROVE  Holds(t, v)
<1> SUFFICES ASSUME NEW f \in Files, f \notin FilesOf[v] PROVE b[f] < v
  BY DEF Holds
<1>1. b[f] # v
  BY TreeFacts DEF Filed
<1>2. b[f] \in Int /\ v \in Int /\ b[f] <= v
  BY TreeFacts
<1> QED
  BY <1>1, <1>2

\* Where each file of a merge is the newer one of two trees that hold versions,
\* it holds the newer version.
LEMMA MergedHolds ==
  ASSUME NEW v \in Versions, NEW w \in Versions, NEW s \in Trees, NEW t \in Trees,
         NEW m \in Trees, Holds(s, v), Holds(t, w),
         \A f \in Files : (m[f] = s[f] /\ t[f] <= s[f]) \/ (m[f] = t[f] /\ s[f] <= t[f])
  PROVE  Uniform(m)
<1>1. v \in Int /\ w \in Int /\ \A f \in Files : s[f] \in Int /\ t[f] \in Int
  BY TreeFacts
<1>2. \A f \in Files : s[f] <= v /\ t[f] <= w
  BY <1>1 DEF Holds
<1>3. CASE v >= w
  <2>1. Holds(m, v)
    <3> SUFFICES ASSUME NEW f \in Files
                 PROVE  IF f \in FilesOf[v] THEN m[f] = v ELSE m[f] < v
      BY DEF Holds
    <3>1. CASE f \in FilesOf[v]
      BY <1>1, <1>2, <1>3, <3>1 DEF Holds
    <3>2. CASE f \notin FilesOf[v]
      <4>1. s[f] < v /\ t[f] <= w /\ (w = v => t[f] < v)
        BY <1>2, <3>2 DEF Holds
      <4> QED
        BY <1>1, <1>3, <3>2, <4>1
    <3> QED
      BY <3>1, <3>2
  <2> QED
    BY <2>1 DEF Uniform
<1>4. CASE w > v
  <2>1. Holds(m, w)
    <3> SUFFICES ASSUME NEW f \in Files
                 PROVE  IF f \in FilesOf[w] THEN m[f] = w ELSE m[f] < w
      BY DEF Holds
    <3>1. CASE f \in FilesOf[w]
      BY <1>1, <1>2, <1>4, <3>1 DEF Holds
    <3>2. CASE f \notin FilesOf[w]
      <4>1. t[f] < w /\ s[f] <= v
        BY <1>2, <3>2 DEF Holds
      <4> QED
        BY <1>1, <1>4, <3>2, <4>1
    <3> QED
      BY <3>1, <3>2
  <2> QED
    BY <2>1 DEF Uniform
<1> QED
  BY <1>1, <1>3, <1>4

\* A run that was not left behind by a missing artifact holds a version.
LEMMA WholeRun ==
  ASSUME UpdateTypeOK, UpdateTypeOK', PlaceInv, FiledInv, AgeInv, WholeInv,
         NEW r \in Runs, RunStep(r), broken' = 0, withdrawn = 0
  PROVE  broken = 0 /\ Whole(r)' /\ Uniform(origin')
<1>0. /\ Place(r) /\ next[r] \in Nat /\ level[r] \in Int /\ level[r] <= 1 /\ broken \in Nat
      /\ NBuilds \in Nat /\ ArchiveOf \in [Files -> Builds] /\ version[r] \in Versions
  BY UpdateDppAssumption DEF PlaceInv, UpdateTypeOK
<1>1. broken = 0
  <2>1. broken' = broken \/ broken' = broken + 1
    <3>1. ASSUME NEW unzips \in BOOLEAN, Process(r, unzips)
          PROVE  broken' = broken \/ broken' = broken + 1
      BY <3>1, ProcessBreaks
    <3> QED
      BY <3>1 DEF RunStep, Checkout, Download, Convert, Pull, Commit, Push
  <2> QED
    BY <1>0, <2>1
<1>2. Whole(r) /\ Uniform(origin)
  BY <1>1 DEF WholeInv
<1>3. ASSUME Over(r) PROVE Whole(r)'
  BY <1>3, OverEffect DEF Whole
<1>4. CASE Checkout(r)
  <2>1. /\ pc'[r] = "download" /\ origin' = origin
        /\ tree'[r] = origin /\ base'[r] = origin
    BY <1>4 DEF Checkout, UpdateTypeOK
  <2> QED
    BY <1>1, <1>2, <2>1 DEF Whole
<1>5. ASSUME NEW got \in SUBSET Builds, Download(r, got)
      PROVE  Whole(r)' /\ origin' = origin
  <2>1. CASE 1 \in got
    <3>1. /\ pc[r] = "download" /\ pc'[r] = "process" /\ UNCHANGED <<next, tree, base, origin>>
      BY <1>5, <2>1 DEF Download, UpdateTypeOK
    <3>2. next[r] = 1 /\ \A f \in Files : ~(ArchiveOf[f] < next[r])
      BY <1>0, <3>1 DEF Place, Builds
    <3> QED
      BY <1>2, <3>1, <3>2 DEF Whole
  <2>2. CASE 1 \notin got
    BY <1>3, <1>5, <2>2 DEF Download
  <2> QED
    BY <2>1, <2>2
<1>6. ASSUME NEW unzips \in BOOLEAN, Process(r, unzips)
      PROVE  Whole(r)' /\ origin' = origin
  <2>1. /\ pc' = pc /\ next'[r] = next[r] + 1 /\ level'[r] = Leave(r)
        /\ version' = version /\ base' = base /\ pc[r] = "process" /\ origin' = origin
    BY <1>6, ProcessEffect
  <2>2. unzips
    BY <1>0, <1>1, <1>6, ProcessBreaks
  <2>3. ASSUME level'[r] = 1, NEW f \in Files
        PROVE  tree'[r][f] = IF ArchiveOf[f] < next'[r] /\ f \in FilesOf[version[r]]
                               THEN version[r] ELSE base[r][f]
    <3>1. InPlace(r) /\ level[r] = 1
      BY <1>0, <2>1, <2>3 DEF Leave, InPlace
    <3>2. tree'[r][f] = IF ArchiveOf[f] = next[r] /\ f \in FilesOf[version[r]]
                          THEN version[r] ELSE tree[r][f]
      <4>1. tree'[r] = Copied(tree[r], next[r], version[r])
        BY <1>6, <2>2, <3>1, ProcessEffect, Zenon
      <4>2. Copied(tree[r], next[r], version[r])[f] =
              IF ArchiveOf[f] = next[r] /\ f \in FilesOf[version[r]]
                THEN version[r] ELSE tree[r][f]
        BY CopiedFile
      <4> QED
        BY <4>1, <4>2
    <3>3. tree[r][f] = IF ArchiveOf[f] < next[r] /\ f \in FilesOf[version[r]]
                         THEN version[r] ELSE base[r][f]
      BY <1>2, <2>1, <3>1 DEF Whole
    <3>4. ArchiveOf[f] < next'[r] <=> ArchiveOf[f] < next[r] \/ ArchiveOf[f] = next[r]
      BY <1>0, <2>1 DEF Builds
    <3> QED
      BY <3>2, <3>3, <3>4
  <2> QED
    BY <2>1, <2>3 DEF Whole
<1>7. CASE Convert(r)
  <2>1. CASE level[r] - 1 = 0
    <3>1. /\ pc[r] = "process" /\ pc'[r] = "pull" /\ next[r] = NBuilds + 1
          /\ UNCHANGED <<version, tree, base, origin>>
      BY <1>7, <2>1 DEF Convert, UpdateTypeOK
    <3>2. \A f \in Files : ArchiveOf[f] < next[r]
      BY <1>0, <3>1 DEF Builds
    <3>3. \A f \in Files : tree[r][f] = IF f \in FilesOf[version[r]] THEN version[r] ELSE base[r][f]
      BY <1>0, <1>2, <2>1, <3>1, <3>2 DEF Whole
    <3>4. \A f \in Files : base[r][f] <= version[r]
      BY <3>1 DEF AgeInv, Aged
    <3>5. tree[r] \in Trees /\ base[r] \in Trees /\ Filed(base[r])
      BY DEF UpdateTypeOK, FiledInv
    <3>6. Holds(tree[r], version[r])
      BY <1>0, <3>3, <3>4, <3>5, CopiedHolds
    <3> QED
      BY <1>1, <1>2, <3>1, <3>6 DEF Whole, Holds
  <2>2. CASE level[r] - 1 # 0
    BY <1>1, <1>2, <1>3, <1>7, <2>2 DEF Convert
  <2> QED
    BY <2>1, <2>2
<1>8. CASE Pull(r)
  <2>1. pc[r] = "pull" /\ pc'[r] = "commit" /\ origin' = origin
    BY <1>8 DEF Pull, UpdateTypeOK
  <2>2. Holds(tree[r], version[r])
    BY <1>2, <2>1 DEF Whole
  <2>3. Uniform(tree'[r])
    <3>1. CASE Merged(r)
      <4>1. PICK w \in Versions : Holds(origin, w)
        BY <1>2 DEF Uniform
      <4>2. \A f \in Files : base[r][f] <= tree[r][f] /\ base[r][f] <= origin[f]
        BY DEF AgeInv, Aged
      <4>3. \A f \in Files : \/ tree'[r][f] = tree[r][f] /\ origin[f] <= tree[r][f]
                             \/ tree'[r][f] = origin[f] /\ tree[r][f] <= origin[f]
        BY <3>1, <4>2 DEF Merged
      <4>4. tree[r] \in Trees /\ origin \in Trees /\ tree'[r] \in Trees
        BY DEF UpdateTypeOK
      <4> QED
        BY <1>0, <2>2, <4>1, <4>3, <4>4, MergedHolds
    <3>2. CASE tree'[r] = tree[r]
      BY <1>0, <2>2, <3>2 DEF Uniform
    <3> QED
      BY <1>8, <3>1, <3>2, PullEffect
  <2> QED
    BY <1>1, <1>2, <2>1, <2>3 DEF Whole
<1>9. CASE Commit(r)
  <2>1. /\ pc[r] = "commit" /\ pc'[r] = "push" /\ UNCHANGED <<tree, base, origin>>
    BY <1>9 DEF Commit, UpdateTypeOK
  <2> QED
    BY <1>1, <1>2, <2>1 DEF Whole
<1>10. CASE Push(r)
  <2>1. pc[r] = "push" /\ (origin' = origin \/ origin' = tree[r])
    BY <1>10, Zenon DEF Push
  <2>2. Uniform(tree[r])
    BY <1>2, <2>1 DEF Whole
  <2>3. Whole(r)'
    BY <1>3, <1>10 DEF Push
  <2> QED
    BY <1>1, <1>2, <2>1, <2>2, <2>3
<1> QED
  BY <1>1, <1>2, <1>4, <1>5, <1>6, <1>7, <1>8, <1>9, <1>10 DEF RunStep

\* As long as every archive is whole and nothing is withdrawn, every step leaves
\* everything of one version that has to be.
LEMMA WholeStep ==
  ASSUME UpdateTypeOK, UpdateTypeOK', PlaceInv, FiledInv, AgeInv, WholeInv,
         [UpdateNext]_updateVars
  PROVE  WholeInv'
<1> SUFFICES ASSUME broken' = 0, withdrawn' = 0
             PROVE  Uniform(origin') /\ \A r \in Runs : Whole(r)'
  BY DEF WholeInv, Uniform, Holds
<1>1. CASE UNCHANGED <<origin, runVars, broken, withdrawn>>
  BY <1>1 DEF WholeInv, Whole, Uniform, Holds, runVars
<1>2. ASSUME NEW r \in Runs, RunStep(r)
      PROVE  Uniform(origin') /\ \A s \in Runs : Whole(s)'
  <2>0. withdrawn = 0
    BY <1>2, RunFrame DEF ciVars
  <2>1. broken = 0 /\ Whole(r)' /\ Uniform(origin')
    BY <1>2, <2>0, WholeRun
  <2>2. \A s \in Runs \ {r} : Whole(s)'
    BY <1>2, <2>0, <2>1, RunFrame DEF WholeInv, Whole, Uniform, Holds, OthersKept
  <2> QED
    BY <2>1, <2>2
<1>3. CASE UNCHANGED updateVars
  BY <1>1, <1>3 DEF updateVars, ciVars
<1>4. CASE \E v \in Versions : Withdraw(v)
  <2>1. withdrawn \in Nat /\ withdrawn' = withdrawn + 1
    BY <1>4 DEF Withdraw, UpdateTypeOK
  <2> QED
    BY <2>1
<1> QED
  BY <1>1, <1>2, <1>3, <1>4 DEF UpdateNext, CompleteBuild, CompleteAgain

-----------------------------------------------------------------------------
(* Theorems *)

\* At first main is of version 0 and no run has anything.
LEMMA UpdateInvInit == UpdateInit => UpdateInv
<1> SUFFICES ASSUME UpdateInit PROVE UpdateInv
  OBVIOUS
<1>1. /\ \A f \in Files : origin[f] = IF f \in FilesOf[0] THEN 0 ELSE -1
      /\ \A r \in Runs, f \in Files : tree[r][f] = -1 /\ base[r][f] = -1
  BY DEF UpdateInit, NoTree, Absent
<1>0. /\ latest = 0 /\ issued = 0
      /\ \A r \in Runs : /\ pc[r] = "idle" /\ next[r] = 1 /\ level[r] = 0
                        /\ version[r] = 0
  BY DEF UpdateInit
<1>2. PlaceInv
  <2> SUFFICES ASSUME NEW r \in Runs PROVE Place(r)
    BY Zenon DEF PlaceInv
  <2>1. pc[r] = "idle" /\ next[r] = 1 /\ level[r] = 0
    BY <1>0
  <2> QED
    BY <2>1, Zenon DEF Place
<1>3. FiledInv
  BY <1>1 DEF FiledInv, Filed, Absent
<1>4. AgeInv
  <2>1. \A f \in Files : origin[f] <= 0 /\ -1 <= origin[f]
    BY <1>1
  <2>2. ASSUME NEW r \in Runs PROVE Aged(r)
    BY <1>0, <1>1, <2>1 DEF Aged
  <2> QED
    BY <1>0, <2>1, <2>2 DEF AgeInv
<1>5. WholeInv
  <2>1. Uniform(origin)
    BY <1>1, TreeFacts DEF Uniform, Holds
  <2> QED
    BY <2>1 DEF UpdateInit, WholeInv, Whole
<1> QED
  BY <1>2, <1>3, <1>4, <1>5, TypeInit DEF UpdateInv

\* Every step keeps the invariant, and takes no file of main back while nothing
\* is withdrawn.
LEMMA UpdateInvStep ==
  UpdateInv /\ [UpdateNext]_updateVars =>
    UpdateInv' /\ (withdrawn = 0 => \A f \in Files : origin'[f] >= origin[f])
<1> SUFFICES ASSUME UpdateInv, [UpdateNext]_updateVars
             PROVE  UpdateInv' /\ (withdrawn = 0 => \A f \in Files : origin'[f] >= origin[f])
  OBVIOUS
<1>1. UpdateTypeOK'
  <2>1. CASE CompleteBuild \/ \E v \in Versions : Withdraw(v) \/ CompleteAgain(v)
    <3>1. /\ latest' \in Versions /\ issued' \in Versions /\ latest' <= issued'
          /\ withdrawn' \in 0 .. MaxWithdrawn
      BY <2>1, UpdateDppAssumption
      DEF UpdateInv, UpdateTypeOK, CompleteBuild, Withdraw, CompleteAgain, Versions
    <3>2. UNCHANGED <<origin, runVars, broken>>
      BY <2>1 DEF CompleteBuild, Withdraw, CompleteAgain
    <3> QED
      BY <3>1, <3>2 DEF UpdateInv, UpdateTypeOK, runVars
  <2>2. ASSUME NEW r \in Runs, RunStep(r) PROVE UpdateTypeOK'
    BY <2>2, TypeRun DEF UpdateInv, PlaceInv
  <2>3. CASE UNCHANGED updateVars
    BY <2>3 DEF UpdateInv, UpdateTypeOK, updateVars, ciVars, runVars
  <2> QED
    BY <2>1, <2>2, <2>3 DEF UpdateNext
<1>2. PlaceInv'
  <2>1. ASSUME UNCHANGED runVars PROVE PlaceInv'
    BY <2>1 DEF UpdateInv, PlaceInv, Place, runVars
  <2>2. ASSUME NEW r \in Runs, RunStep(r) PROVE PlaceInv'
    <3>1. Place(r)'
      BY <2>2, PlaceRun DEF UpdateInv, PlaceInv
    <3>2. \A s \in Runs \ {r} : Place(s)'
      BY <2>2, RunFrame DEF UpdateInv, PlaceInv, Place, OthersKept
    <3> QED
      BY <3>1, <3>2 DEF PlaceInv
  <2> QED
    BY <2>1, <2>2 DEF UpdateNext, CompleteBuild, Withdraw, CompleteAgain, updateVars
<1>3. FiledInv'
  BY FiledStep DEF UpdateInv
<1>4. AgeInv' /\ (withdrawn = 0 => \A f \in Files : origin[f] <= origin'[f])
  BY <1>1, AgeStep DEF UpdateInv
<1>5. WholeInv'
  BY <1>1, WholeStep DEF UpdateInv
<1>6. \A f \in Files : origin[f] \in Int /\ origin'[f] \in Int
  BY <1>1, TreeFacts DEF UpdateInv, UpdateTypeOK
<1> QED
  BY <1>1, <1>2, <1>3, <1>4, <1>5, <1>6 DEF UpdateInv

\* The invariant, type correctness included, holds of every number of runs,
\* whatever files the versions have.
THEOREM UpdateInvariance == UpdateSpec => []UpdateInv
  BY UpdateInvInit, UpdateInvStep, PTL DEF UpdateSpec

\* However many artifacts are missing and however runs overlap, main holds one
\* CI build, beside what older ones left, as long as every archive was whole and
\* no CI build was withdrawn.
THEOREM OneBuild == UpdateSpec => []OriginUniform
<1>1. UpdateInv => OriginUniform
  BY DEF UpdateInv, WholeInv, OriginUniform, Uniform
<1> QED
  BY UpdateInvariance, <1>1, PTL

\* No push puts an older file in the place of a newer one, as long as no CI build
\* is withdrawn.
THEOREM OnlyNewer == UpdateSpec => NeverOlder
<1>1. UpdateInv /\ [UpdateNext]_updateVars =>
        [withdrawn = 0 => \A f \in Files : origin'[f] >= origin[f]]_updateVars
  BY UpdateInvStep
<1> QED
  BY UpdateInvariance, <1>1, PTL DEF UpdateSpec, NeverOlder

-----------------------------------------------------------------------------
(* The bot *)

UnderWay(d) == rpc[d] \in {"exchange", "write", "decide"}

\* One handler at a time; a handler that is to register finds nothing sent.
FirstRegisters ==
  /\ \A d, e \in Readies : UnderWay(d) /\ UnderWay(e) => d = e
  /\ \A d \in Readies :
       /\ rpc[d] \in {"write", "decide"} /\ RunOnce(d) => requests = {}
       /\ rpc[d] = "decide" => called
  /\ requests # {} => called
  /\ \A d, e \in requests : d = e

TurnInv == ~atOnce => FirstRegisters

\* Only a ping gets as far as sending a reply.
PingsReply == \A i \in Interactions :
                ipc[i] \in {"replying", "resumed"} => name[i] = "ping"

BotInv == BotTypeOK /\ PingsReply /\ TurnInv

\* Before the first READY nothing is sent.
LEMMA BotInvInit == BotInit => BotInv
<1> SUFFICES ASSUME BotInit PROVE BotInv
  OBVIOUS
<1>1. BotTypeOK
  BY DEF BotInit, BotTypeOK
<1>2. FirstRegisters
  BY DEF BotInit, FirstRegisters, UnderWay
<1>3. PingsReply
  BY DEF BotInit, PingsReply
<1> QED
  BY <1>1, <1>2, <1>3 DEF BotInv, TurnInv

\* The steps of on_ready keep the types, and register once in turn.
LEMMA ReadyKeeps ==
  ASSUME BotInv, NEW d \in Readies, Ready(d) \/ ReadyStep(d)
  PROVE  BotInv'
<1>0. BotTypeOK /\ PingsReply /\ (~atOnce => FirstRegisters)
  BY DEF BotInv, TurnInv
<1>1. atOnce' = atOnce
  BY Zenon DEF Ready, ReadyStep, ReadCalled, WriteCalled, Register
<1>2. UNCHANGED slashVars
  BY Zenon DEF Ready, ReadyStep, ReadCalled, WriteCalled, Register
<1>3. PingsReply'
  BY <1>0, <1>2 DEF slashVars, PingsReply
<1> SUFFICES BotTypeOK' /\ (~atOnce => FirstRegisters')
  BY <1>1, <1>3 DEF BotInv, TurnInv
<1> USE DEF BotTypeOK, UnderWay, slashVars, RunOnce
<1>4. CASE Ready(d)
  <2>1. /\ rpc[d] = "none" /\ rpc' = [rpc EXCEPT ![d] = "exchange"]
        /\ UNCHANGED <<called, seen, requests, registered, name, ipc, replies, atOnce>>
    BY <1>4, Zenon DEF Ready
  <2>2. ~atOnce => \A e \in Readies : ~UnderWay(e)
    <3>1. ~atOnce => \A e \in Readies : rpc[e] \in {"none", "done"}
      BY <1>4, Zenon DEF Ready
    <3> QED
      BY <3>1
  <2>3. BotTypeOK'
    BY <1>0, <2>1
  <2>4. ASSUME ~atOnce PROVE FirstRegisters'
    BY <1>0, <2>1, <2>2, <2>4 DEF FirstRegisters
  <2> QED
    BY <2>3, <2>4
<1>5. CASE ReadCalled(d)
  <2>1. /\ rpc[d] = "exchange" /\ rpc' = [rpc EXCEPT ![d] = "write"]
        /\ seen' = [seen EXCEPT ![d] = called]
        /\ UNCHANGED <<called, requests, registered, name, ipc, replies, atOnce>>
    BY <1>5, Zenon DEF ReadCalled
  <2>2. BotTypeOK'
    BY <1>0, <2>1
  <2>3. ASSUME ~atOnce PROVE FirstRegisters'
    BY <1>0, <2>1, <2>3 DEF FirstRegisters
  <2> QED
    BY <2>2, <2>3
<1>6. CASE WriteCalled(d)
  <2>1. /\ rpc[d] = "write" /\ rpc' = [rpc EXCEPT ![d] = "decide"] /\ called' = TRUE
        /\ UNCHANGED <<seen, requests, registered, name, ipc, replies, atOnce>>
    BY <1>6, Zenon DEF WriteCalled, Written
  <2>2. BotTypeOK'
    BY <1>0, <2>1
  <2>3. ASSUME ~atOnce PROVE FirstRegisters'
    BY <1>0, <2>1, <2>3 DEF FirstRegisters
  <2> QED
    BY <2>2, <2>3
<1>7. CASE Register(d)
  <2>1. /\ rpc[d] = "decide" /\ rpc' = [rpc EXCEPT ![d] = "done"]
        /\ UNCHANGED <<called, seen, registered, name, ipc, replies, atOnce>>
    BY <1>7, Zenon DEF Register
  <2>2. (RunOnce(d) /\ requests' = requests \cup {d}) \/ (~RunOnce(d) /\ requests' = requests)
    BY <1>7, Zenon DEF Register
  <2>3. BotTypeOK'
    BY <1>0, <2>1, <2>2
  <2>4. ASSUME ~atOnce PROVE FirstRegisters'
    BY <1>0, <2>1, <2>2, <2>4 DEF FirstRegisters
  <2> QED
    BY <2>3, <2>4
<1> QED
  BY <1>4, <1>5, <1>6, <1>7 DEF ReadyStep

\* Slash commands have nothing to do with it, and replies are to pings.
LEMMA SlashKeeps ==
  ASSUME BotInv, NEW i \in Interactions, Enter(i) \/ SlashStep(i)
  PROVE  BotInv'
<1>1. UNCHANGED <<readyVars, name, atOnce>>
  BY Zenon DEF Enter, SlashStep, Handle, ReplyDone, EndHandler
<1>2. BotTypeOK' /\ PingsReply'
  <2> USE DEF BotInv, BotTypeOK, PingsReply, readyVars
  <2>1. CASE Enter(i)
    BY <2>1 DEF Enter
  <2>2. CASE Handle(i)
    BY <2>2 DEF Handle, Answers
  <2>3. CASE ReplyDone(i)
    <3>1. PICK ok \in BOOLEAN : replies' = IF ok THEN replies \cup {i} ELSE replies
      BY <2>3, Zenon DEF ReplyDone
    <3>2. replies' \subseteq replies \cup {i}
      BY <3>1
    <3>3. ipc' = [ipc EXCEPT ![i] = "resumed"] /\ ipc[i] = "replying"
      BY <2>3, Zenon DEF ReplyDone
    <3> QED
      BY <1>1, <3>2, <3>3
  <2>4. CASE EndHandler(i)
    BY <2>4 DEF EndHandler
  <2> QED
    BY <2>1, <2>2, <2>3, <2>4 DEF SlashStep
<1>3. TurnInv'
  BY <1>1, Zenon DEF BotInv, TurnInv, FirstRegisters, UnderWay, RunOnce, readyVars
<1> QED
  BY <1>2, <1>3 DEF BotInv

\* Every step keeps the invariant.
LEMMA BotInvStep == BotInv /\ [BotNext]_botVars => BotInv'
<1> SUFFICES ASSUME BotInv, [BotNext]_botVars PROVE BotInv'
  OBVIOUS
<1>1. CASE Accepted
  <2>1. registered' = TRUE /\ UNCHANGED <<called, rpc, seen, requests, name, ipc, replies, atOnce>>
    BY <1>1, Zenon DEF Accepted, slashVars
  <2>2. BotTypeOK' /\ PingsReply'
    BY <2>1 DEF BotInv, BotTypeOK, PingsReply
  <2>3. TurnInv'
    BY <2>1, Zenon DEF BotInv, TurnInv, FirstRegisters, UnderWay, RunOnce
  <2> QED
    BY <2>2, <2>3 DEF BotInv
<1>2. CASE UNCHANGED botVars
  <2>1. UNCHANGED <<called, rpc, seen, requests, registered, name, ipc, replies, atOnce>>
    BY <1>2, Zenon DEF botVars, readyVars, slashVars
  <2>2. BotTypeOK' /\ PingsReply'
    BY <2>1 DEF BotInv, BotTypeOK, PingsReply
  <2>3. TurnInv'
    BY <2>1, Zenon DEF BotInv, TurnInv, FirstRegisters, UnderWay, RunOnce
  <2> QED
    BY <2>2, <2>3 DEF BotInv
<1> QED
  BY <1>1, <1>2, ReadyKeeps, SlashKeeps DEF BotNext

\* The invariant, type correctness included, holds of any number of events.
THEOREM BotInvariance == BotSpec => []BotInv
  BY BotInvInit, BotInvStep, PTL DEF BotSpec

\* What a handler has seen of run_once's flag stays true, none gets past it
\* without raising it, and the first to raise it is going to register.
FlagInv ==
  /\ \A d \in Readies : seen[d] \/ rpc[d] \in {"decide", "done"} => called
  /\ called => requests # {} \/ \E d \in Readies : rpc[d] = "decide" /\ ~seen[d]

\* No step of a handler takes away the one that is to register.
LEMMA FlagStep == BotTypeOK /\ FlagInv /\ [BotNext]_botVars => FlagInv'
<1> SUFFICES ASSUME BotTypeOK, FlagInv, [BotNext]_botVars PROVE FlagInv'
  OBVIOUS
<1> USE DEF BotTypeOK, FlagInv
<1>1. ASSUME NEW d \in Readies, Ready(d) \/ ReadCalled(d) PROVE FlagInv'
  BY <1>1 DEF Ready, ReadCalled, slashVars
<1>2. ASSUME NEW d \in Readies, WriteCalled(d) PROVE FlagInv'
  <2>1. /\ rpc[d] = "write" /\ rpc' = [rpc EXCEPT ![d] = "decide"] /\ called' = TRUE
        /\ UNCHANGED <<seen, requests>>
    BY <1>2, Zenon DEF WriteCalled, Written
  <2>2. CASE seen[d]
    BY <2>1, <2>2
  <2>3. CASE ~seen[d]
    <3>1. rpc'[d] = "decide" /\ ~seen'[d]
      BY <2>1, <2>3
    <3> QED
      BY <2>1, <3>1
  <2> QED
    BY <2>2, <2>3
<1>3. ASSUME NEW d \in Readies, Register(d) PROVE FlagInv'
  <2>1. /\ rpc[d] = "decide" /\ rpc' = [rpc EXCEPT ![d] = "done"]
        /\ UNCHANGED <<called, seen>>
    BY <1>3, Zenon DEF Register
  <2>2. requests' = IF ~seen[d] THEN requests \cup {d} ELSE requests
    BY <1>3, Zenon DEF Register, RunOnce
  <2> QED
    BY <2>1, <2>2
<1>4. CASE Accepted \/ (\E i \in Interactions : Enter(i) \/ SlashStep(i)) \/ UNCHANGED botVars
  <2>1. UNCHANGED <<called, rpc, seen, requests>>
    BY <1>4, Zenon DEF Accepted, Enter, SlashStep, Handle, ReplyDone, EndHandler, readyVars, botVars
  <2> QED
    BY <2>1
<1> QED
  BY <1>1, <1>2, <1>3, <1>4 DEF BotNext, ReadyStep

\* At once or in turn, however the handlers' reads and writes interleave, the
\* commands are sent by the time none of them is under way.
THEOREM SentAtRest == BotSpec => []RegisteredAtRest
<1>1. BotInit => FlagInv
  BY DEF BotInit, FlagInv
<1>2. BotInv => BotTypeOK
  BY DEF BotInv
<1>3. FlagInv => RegisteredAtRest
  BY DEF FlagInv, RegisteredAtRest
<1> QED
  BY BotInvariance, FlagStep, <1>1, <1>2, <1>3, PTL DEF BotSpec

\* Where READY events come in turn, however often the bot reconnects, the
\* commands are sent once.
THEOREM OnceInTurn == BotSpec => []RegisteredOnceInTurn
<1>1. BotInv => RegisteredOnceInTurn
  <2> SUFFICES ASSUME BotInv, ~atOnce PROVE Cardinality(requests) <= 1
    BY DEF RegisteredOnceInTurn, RegisteredOnce
  <2>1. \A d, e \in requests : d = e
    BY DEF BotInv, TurnInv, FirstRegisters
  <2>2. CASE requests = {}
    BY <2>2, FS_EmptySet
  <2>3. CASE requests # {}
    <3>1. PICK d \in requests : TRUE
      BY <2>3
    <3>2. requests = {d}
      BY <2>1, <3>1
    <3> QED
      BY <3>2, FS_Singleton
  <2> QED
    BY <2>2, <2>3
<1> QED
  BY BotInvariance, <1>1, PTL

-----------------------------------------------------------------------------
(* The mixers: sums *)

\* The order of the naturals, as a relation.
Below == {ss \in Nat \X Nat : ss[1] < ss[2]}

\* A set of naturals has a least element.
LEMMA LeastExists ==
  ASSUME NEW S, S \subseteq Nat, S # {}
  PROVE  \E x \in S : \A y \in S : x <= y
<1>1. IsWellFoundedOn(Below, Nat)
  <2>1. OpToRel(<, Nat) = Below
    BY DEF OpToRel, Below
  <2> QED
    BY <2>1, NatLessThanWellFounded
<1>2. PICK x \in S : \A y \in S : ~ (<<y, x>> \in Below)
  BY <1>1, WFMin, Zenon
<1>3. ASSUME NEW y \in S, y < x PROVE FALSE
  <2>1. <<y, x>> \in Nat \X Nat /\ <<y, x>>[1] = y /\ <<y, x>>[2] = x
    OBVIOUS
  <2> QED
    BY <1>2, <1>3, <2>1 DEF Below
<1> QED
  BY <1>3

\* The voice that MapThenSumSet takes out of a set first.
Pick(T) == CHOOSE v \in T : TRUE

\* f gives the sum, over each set of voices, of what they say in lane x.
Adds(d, x, f) ==
  f = [T \in SUBSET Voices |->
        IF T = {} THEN 0 ELSE d[Pick(T)][x] + f[T \ {Pick(T)}]]

\* What the voices say in lane x can be added.
Samples(d, x) == \A v \in Voices : d[v][x] \in Int

\* A set without the voice that is taken out of it has one voice less.
LEMMA Smaller ==
  ASSUME NEW T \in SUBSET Voices, T # {}
  PROVE  /\ Pick(T) \in T /\ T \ {Pick(T)} \in SUBSET Voices
         /\ IsFiniteSet(T) /\ Cardinality(T) \in Nat \ {0}
         /\ IsFiniteSet(T \ {Pick(T)})
         /\ Cardinality(T \ {Pick(T)}) = Cardinality(T) - 1
<1>1. Pick(T) \in T
  BY DEF Pick
<1>2. IsFiniteSet(T)
  BY MixerAssumption, FS_Subset
<1>3. Cardinality(T) \in Nat /\ Cardinality(T) # 0
  BY <1>2, FS_CardinalityType, FS_EmptySet
<1>4. IsFiniteSet(T \ {Pick(T)}) /\ Cardinality(T \ {Pick(T)}) = Cardinality(T) - 1
  BY <1>1, <1>2, FS_RemoveElement
<1> QED
  BY <1>1, <1>2, <1>3, <1>4

\* f gives the sum over each set of at most n voices.
Upto(n, d, x, f) ==
  /\ f \in [SUBSET Voices -> Int]
  /\ \A T \in SUBSET Voices : Cardinality(T) <= n =>
       f[T] = IF T = {} THEN 0 ELSE d[Pick(T)][x] + f[T \ {Pick(T)}]

\* There is a function that gives the sums: where none does so for the sets of
\* at most n voices, n being least, one for n - 1 can be extended.
LEMMA SumExists ==
  ASSUME NEW d, NEW x, Samples(d, x) PROVE \E f : Adds(d, x, f)
<1>1. \A n \in Nat : \E f : Upto(n, d, x, f)
  <2> DEFINE Missing == {n \in Nat : ~ \E f : Upto(n, d, x, f)}
  <2> SUFFICES ASSUME Missing # {} PROVE FALSE
    OBVIOUS
  <2>1. PICK n \in Missing : \A m \in Missing : n <= m
    BY LeastExists
  <2>2. CASE n = 0
    <3> DEFINE f == [T \in SUBSET Voices |-> 0]
    <3>1. ASSUME NEW T \in SUBSET Voices, Cardinality(T) <= 0 PROVE T = {}
      <4> SUFFICES ASSUME T # {} PROVE FALSE
        OBVIOUS
      <4>1. Cardinality(T) \in Nat \ {0}
        BY Smaller
      <4> QED
        BY <3>1, <4>1
    <3>2. Upto(0, d, x, f)
      BY <3>1 DEF Upto
    <3> QED
      BY <2>1, <2>2, <3>2
  <2>3. CASE n # 0
    <3>1. n - 1 \in Nat /\ n - 1 \notin Missing
      BY <2>1, <2>3
    <3>2. PICK f : Upto(n - 1, d, x, f)
      BY <3>1
    <3> DEFINE g == [T \in SUBSET Voices |->
                      IF Cardinality(T) = n /\ T # {} THEN d[Pick(T)][x] + f[T \ {Pick(T)}] ELSE f[T]]
    <3>3. g \in [SUBSET Voices -> Int]
      <4> SUFFICES ASSUME NEW T \in SUBSET Voices PROVE g[T] \in Int
        OBVIOUS
      <4>1. f \in [SUBSET Voices -> Int]
        BY <3>2 DEF Upto
      <4>2. CASE T = {}
        BY <4>1, <4>2
      <4>3. CASE T # {}
        <5>1. Pick(T) \in Voices /\ T \ {Pick(T)} \in SUBSET Voices
          BY <4>3, Smaller
        <5>2. d[Pick(T)][x] \in Int /\ f[T \ {Pick(T)}] \in Int
          BY <4>1, <5>1 DEF Samples
        <5> QED
          BY <4>1, <5>2
      <4> QED
        BY <4>2, <4>3
    <3>4. ASSUME NEW T \in SUBSET Voices, Cardinality(T) <= n
          PROVE  g[T] = IF T = {} THEN 0 ELSE d[Pick(T)][x] + g[T \ {Pick(T)}]
      <4>1. CASE T = {}
        <5>1. Cardinality(T) <= n - 1
          BY <2>3, <3>1, <4>1, FS_EmptySet
        <5> QED
          BY <3>2, <4>1, <5>1 DEF Upto
      <4>2. CASE T # {}
        <5>1. /\ T \ {Pick(T)} \in SUBSET Voices /\ Cardinality(T) \in Nat
              /\ Cardinality(T \ {Pick(T)}) = Cardinality(T) - 1
          BY <4>2, Smaller
        <5>2. Cardinality(T \ {Pick(T)}) # n
          BY <2>1, <3>4, <5>1
        <5>3. g[T \ {Pick(T)}] = f[T \ {Pick(T)}]
          BY <5>1, <5>2
        <5>4. CASE Cardinality(T) = n
          BY <4>2, <5>3, <5>4
        <5>5. CASE Cardinality(T) # n
          <6>1. Cardinality(T) <= n - 1
            BY <2>1, <3>4, <5>1, <5>5
          <6>2. f[T] = d[Pick(T)][x] + f[T \ {Pick(T)}]
            BY <3>2, <4>2, <6>1 DEF Upto
          <6> QED
            BY <4>2, <5>3, <5>5, <6>2
        <5> QED
          BY <5>4, <5>5
      <4> QED
        BY <4>1, <4>2
    <3>5. Upto(n, d, x, g)
      BY <3>3, <3>4 DEF Upto
    <3> QED
      BY <2>1, <3>5
  <2> QED
    BY <2>2, <2>3
<1>2. Cardinality(Voices) \in Nat /\ \A T \in SUBSET Voices : Cardinality(T) <= Cardinality(Voices)
  BY MixerAssumption, FS_CardinalityType, FS_Subset
<1>3. PICK f : Upto(Cardinality(Voices), d, x, f)
  BY <1>1, <1>2
<1>4. Adds(d, x, f)
  BY <1>2, <1>3 DEF Upto, Adds
<1> QED
  BY <1>4

\* The sum of what the voices of T say in lane x.
Total(d, x, T) == (CHOOSE f : Adds(d, x, f))[T]

\* A sum is that of one voice and the rest.
LEMMA SumUnfolds ==
  ASSUME NEW d, NEW x, Samples(d, x)
  PROVE  /\ Total(d, x, {}) = 0
         /\ \A T \in SUBSET Voices : T # {} =>
              Total(d, x, T) = d[Pick(T)][x] + Total(d, x, T \ {Pick(T)})
<1> DEFINE f == CHOOSE f : Adds(d, x, f)
<1>1. Adds(d, x, f)
  BY SumExists
<1>2. \A T : Total(d, x, T) = f[T]
  BY DEF Total
<1> HIDE DEF f
<1>3. \A T \in SUBSET Voices :
        f[T] = IF T = {} THEN 0 ELSE d[Pick(T)][x] + f[T \ {Pick(T)}]
  BY <1>1 DEF Adds
<1> QED
  BY <1>2, <1>3

\* Sums of integers are integers, by the least number of voices of which one
\* is not.
LEMMA SumType ==
  ASSUME NEW d, NEW x, Samples(d, x), NEW T \in SUBSET Voices
  PROVE  Total(d, x, T) \in Int
<1> DEFINE Bad == {n \in Nat : \E S \in SUBSET Voices : Cardinality(S) = n /\ Total(d, x, S) \notin Int}
<1>1. Bad = {}
  <2> SUFFICES ASSUME Bad # {} PROVE FALSE
    OBVIOUS
  <2>1. PICK n \in Bad : \A m \in Bad : n <= m
    BY LeastExists
  <2>2. PICK S \in SUBSET Voices : Cardinality(S) = n /\ Total(d, x, S) \notin Int
    BY <2>1
  <2>3. S # {}
    BY <2>2, SumUnfolds
  <2>4. /\ Pick(S) \in S /\ S \ {Pick(S)} \in SUBSET Voices
        /\ n \in Nat \ {0} /\ Cardinality(S \ {Pick(S)}) = n - 1
    BY <2>2, <2>3, Smaller
  <2>5. n - 1 \notin Bad /\ n - 1 \in Nat
    BY <2>1, <2>4
  <2>6. Total(d, x, S \ {Pick(S)}) \in Int
    BY <2>4, <2>5
  <2>7. d[Pick(S)][x] \in Int
    BY <2>4 DEF Samples
  <2> QED
    BY <2>2, <2>3, <2>6, <2>7, SumUnfolds
<1>2. IsFiniteSet(T) /\ Cardinality(T) \in Nat
  BY MixerAssumption, FS_Subset, FS_CardinalityType
<1> QED
  BY <1>1, <1>2

\* The voices may be added in any order: in the smallest set where adding w last
\* gives another sum, the voice that is taken out first can be put back last.
LEMMA SumAdds ==
  ASSUME NEW d, NEW x, Samples(d, x), NEW T \in SUBSET Voices, NEW v \in Voices \ T
  PROVE  Total(d, x, T \cup {v}) = Total(d, x, T) + d[v][x]
<1> DEFINE Add(S, w) == Total(d, x, S \cup {w}) = Total(d, x, S) + d[w][x]
           Bad == {n \in Nat : \E S \in SUBSET Voices, w \in Voices :
                                 w \notin S /\ Cardinality(S) = n /\ ~Add(S, w)}
<1>1. Bad = {}
  <2> SUFFICES ASSUME Bad # {} PROVE FALSE
    OBVIOUS
  <2>1. PICK n \in Bad : \A m \in Bad : n <= m
    BY LeastExists
  <2>2. PICK S \in SUBSET Voices, w \in Voices : w \notin S /\ Cardinality(S) = n /\ ~Add(S, w)
    BY <2>1
  <2> HIDE DEF Bad
  <2> DEFINE U == S \cup {w}
             c == Pick(U)
  <2>3. /\ c \in U /\ U \in SUBSET Voices
        /\ Total(d, x, U) = d[c][x] + Total(d, x, U \ {c})
    <3>1. U \in SUBSET Voices /\ U # {}
      BY <2>2
    <3> HIDE DEF U
    <3> QED
      BY <3>1, Smaller, SumUnfolds
  <2>4. ~(Total(d, x, U) = Total(d, x, S) + d[w][x])
    BY <2>2
  <2> HIDE DEF c
  <2>5. d[c][x] \in Int /\ d[w][x] \in Int
    BY <2>2, <2>3 DEF Samples
  <2>6. CASE c = w
    <3>1. U \ {c} = S
      BY <2>2, <2>6
    <3>2. Total(d, x, S) \in Int
      BY <2>2, SumType
    <3>3. Total(d, x, U) = d[w][x] + Total(d, x, S)
      BY <2>3, <2>6, <3>1, Zenon
    <3> HIDE DEF U
    <3> QED
      BY <2>4, <2>5, <3>2, <3>3
  <2>7. CASE c # w
    <3> DEFINE R == S \ {c}
    <3>1. c \in S /\ R \in SUBSET Voices /\ R \cup {c} = S /\ U \ {c} = R \cup {w}
          /\ w \notin R /\ c \notin R /\ c \in Voices
      BY <2>2, <2>3, <2>7
    <3>2. n \in Nat \ {0} /\ Cardinality(R) = n - 1
      <4>1. IsFiniteSet(S) /\ Cardinality(S) \in Nat
        BY <2>2, MixerAssumption, FS_Subset, FS_CardinalityType
      <4>2. Cardinality(S) # 0
        BY <3>1, <4>1, FS_EmptySet
      <4>3. Cardinality(R) = Cardinality(S) - 1
        BY <3>1, <4>1, FS_RemoveElement
      <4> QED
        BY <2>2, <4>1, <4>2, <4>3
    <3>3. n - 1 \in Nat /\ n - 1 \notin Bad
      BY <2>1, <3>2
    <3>4. Add(R, w) /\ Add(R, c)
      BY <2>2, <3>1, <3>2, <3>3 DEF Bad
    <3>5. Total(d, x, R) \in Int
      BY <3>1, SumType
    <3>6. Total(d, x, S) = Total(d, x, R) + d[c][x]
      BY <3>1, <3>4
    <3>7. Total(d, x, U \ {c}) = Total(d, x, R) + d[w][x]
      BY <3>1, <3>4
    <3> HIDE DEF U, R
    <3> QED
      BY <2>3, <2>4, <2>5, <3>5, <3>6, <3>7
  <2> QED
    BY <2>6, <2>7
<1>2. IsFiniteSet(T) /\ Cardinality(T) \in Nat
  BY MixerAssumption, FS_Subset, FS_CardinalityType
<1> QED
  BY <1>1, <1>2

\* The sum that the promise speaks of.
LEMMA SumOfVoices ==
  ASSUME NEW d, NEW x, Samples(d, x)
  PROVE  MapThenSumSet(LAMBDA v : d[v][x], Voices) = Total(d, x, Voices)
  BY DEF MapThenSumSet, MapThenFoldSet, Total, Adds, Pick

-----------------------------------------------------------------------------
(* The mixers: samples *)

\* A multiple of u within 0 .. u - 1 is 0.
LEMMA Factor ==
  ASSUME NEW a \in Int, NEW u \in Nat \ {0}, a * u < u, 0 <= a * u
  PROVE  a = 0
<1>1. CASE a >= 1
  <2>1. a * u >= u
    <3>1. (a - 1) * u >= 0
      BY <1>1
    <3>2. (a - 1) * u = a * u - u
      OBVIOUS
    <3> QED
      BY <3>1, <3>2
  <2> QED
    BY <2>1
<1>2. CASE a <= -1
  <2>1. (-a) * u >= 1
    BY <1>2
  <2>2. (-a) * u = -(a * u)
    OBVIOUS
  <2> QED
    BY <2>1, <2>2
<1> QED
  BY <1>1, <1>2

\* All instruction sets clip alike.
LEMMA ClippedAlike ==
  ASSUME isa \in ISAs, NEW p \in Int
  PROVE  /\ Highest \in Nat /\ Lowest \in Int /\ Lowest < 0
         /\ Clipped(p) = IF p > Highest THEN Highest ELSE IF p < Lowest THEN Lowest ELSE p
<1>1. Highest \in Nat
  BY MixerAssumption DEF Highest
<1>2. Lowest \in Int /\ Lowest < 0
  <2>1. (Max16 + 1) * Unit \in Nat \ {0}
    BY MixerAssumption
  <2>2. Lowest = -((Max16 + 1) * Unit)
    BY MixerAssumption DEF Lowest, Min16
  <2> QED
    BY <2>1, <2>2
<1> HIDE DEF Highest, Lowest
<1>3. CASE isa = "fallback"
  BY <1>1, <1>2, <1>3 DEF Clipped
<1>4. CASE isa \in {"avx", "avx2"}
  BY <1>1, <1>2, <1>4 DEF Clipped, Least, Greatest
<1>5. CASE isa = "neon"
  BY <1>1, <1>2, <1>5 DEF Clipped, Least, Greatest
<1> QED
  BY <1>1, <1>2, <1>3, <1>4, <1>5 DEF ISAs

\* The conversion to int16_t rounds towards zero.
LEMMA TruncatedError ==
  ASSUME NEW p \in Int
  PROVE  /\ Truncated(p) \in Int
         /\ p >= 0 => 0 <= p - Truncated(p) * Unit /\ p - Truncated(p) * Unit < Unit
         /\ p < 0 => p - Truncated(p) * Unit <= 0 /\ -Unit < p - Truncated(p) * Unit
<1>1. Unit \in Nat \ {0}
  BY MixerAssumption
<1>2. ASSUME NEW q \in Nat
      PROVE  q \div Unit \in Int /\ 0 <= q - (q \div Unit) * Unit /\ q - (q \div Unit) * Unit < Unit
  BY <1>1
<1>3. CASE p >= 0
  BY <1>1, <1>2, <1>3 DEF Truncated
<1>4. CASE p < 0
  <2> DEFINE q == (-p) \div Unit
  <2>1. q \in Int /\ 0 <= -p - q * Unit /\ -p - q * Unit < Unit
    BY <1>2, <1>4
  <2>2. Truncated(p) = -q
    BY <1>4 DEF Truncated
  <2> HIDE DEF q
  <2>3. (-q) * Unit = -(q * Unit)
    BY <1>1, <2>1
  <2>4. q * Unit \in Int
    BY <1>1, <2>1
  <2> QED
    BY <1>1, <1>4, <2>1, <2>2, <2>3, <2>4
<1> QED
  BY <1>3, <1>4

\* A whole number of steps is converted to that number.
LEMMA TruncatedExact == ASSUME NEW a \in Int PROVE Truncated(a * Unit) = a
<1>1. Unit \in Nat \ {0}
  BY MixerAssumption
<1> DEFINE p == a * Unit
           t == Truncated(p)
<1>2. p \in Int
  BY <1>1
<1>3. /\ t \in Int
      /\ p >= 0 => 0 <= p - t * Unit /\ p - t * Unit < Unit
      /\ p < 0 => p - t * Unit <= 0 /\ -Unit < p - t * Unit
  BY <1>2, TruncatedError
<1> HIDE DEF t
<1>4. p - t * Unit = (a - t) * Unit /\ -(p - t * Unit) = (t - a) * Unit
  BY <1>1, <1>3
<1> HIDE DEF p
<1>5. ASSUME p >= 0 PROVE t = a
  <2>1. a - t \in Int /\ 0 <= (a - t) * Unit /\ (a - t) * Unit < Unit
    BY <1>3, <1>4, <1>5
  <2>2. a - t = 0
    BY <1>1, <2>1, Factor
  <2> QED
    BY <1>3, <2>2
<1>6. ASSUME p < 0 PROVE t = a
  <2>1. t - a \in Int /\ 0 <= (t - a) * Unit /\ (t - a) * Unit < Unit
    <3>1. t * Unit \in Int
      BY <1>1, <1>3
    <3> QED
      BY <1>1, <1>2, <1>3, <1>4, <1>6, <3>1
  <2>2. t - a = 0
    BY <1>1, <2>1, Factor
  <2> QED
    BY <1>3, <2>2
<1> QED
  BY <1>2, <1>5, <1>6 DEF p, t

\* Rounding towards zero keeps the order.
LEMMA TruncatedMonotone ==
  ASSUME NEW p \in Int, NEW q \in Int, p <= q
  PROVE  Truncated(p) <= Truncated(q)
<1> DEFINE a == Truncated(p)
           b == Truncated(q)
<1>1. Unit \in Nat \ {0}
  BY MixerAssumption
<1>2. /\ a \in Int
      /\ p >= 0 => 0 <= p - a * Unit /\ p - a * Unit < Unit
      /\ p < 0 => p - a * Unit <= 0 /\ -Unit < p - a * Unit
  BY TruncatedError
<1>3. /\ b \in Int
      /\ q >= 0 => 0 <= q - b * Unit /\ q - b * Unit < Unit
      /\ q < 0 => q - b * Unit <= 0 /\ -Unit < q - b * Unit
  BY TruncatedError
<1> SUFFICES ASSUME a >= b + 1 PROVE FALSE
  BY <1>2, <1>3
<1> HIDE DEF a, b
<1>4. a * Unit \in Int /\ b * Unit \in Int /\ a * Unit - b * Unit >= Unit
  <2>1. (a - b - 1) * Unit >= 0
    BY <1>1, <1>2, <1>3
  <2>2. (a - b - 1) * Unit = a * Unit - b * Unit - Unit
    BY <1>1, <1>2, <1>3
  <2> QED
    BY <1>1, <1>2, <1>3, <2>1, <2>2
<1>5. CASE p >= 0 \/ q < 0
  BY <1>1, <1>2, <1>3, <1>4, <1>5
<1>6. CASE p < 0 /\ q >= 0
  <2>1. a <= 0
    <3> SUFFICES ASSUME a >= 1 PROVE FALSE
      BY <1>2
    <3>1. (a - 1) * Unit >= 0 /\ (a - 1) * Unit = a * Unit - Unit
      BY <1>1, <1>2
    <3> QED
      BY <1>1, <1>2, <1>4, <1>6, <3>1
  <2>2. b >= 0
    <3> SUFFICES ASSUME b <= -1 PROVE FALSE
      BY <1>3
    <3>1. (-1 - b) * Unit >= 0 /\ (-1 - b) * Unit = -Unit - b * Unit
      BY <1>1, <1>3
    <3> QED
      BY <1>1, <1>3, <1>4, <1>6, <3>1
  <2> QED
    BY <1>2, <1>3, <2>1, <2>2
<1> QED
  BY <1>5, <1>6

-----------------------------------------------------------------------------
(* The mixers: rounding *)

\* Every number has a float that is nearest to it.
LEMMA RoundedNearest ==
  ASSUME NEW p \in Int
  PROVE  /\ Rounded(p) \in Floats /\ Rounded(p) \in Int
         /\ \A g \in Floats : Distance(Rounded(p), p) <= Distance(g, p)
<1>1. Floats \subseteq Int /\ Max16 \in Nat /\ Min16 \in Int /\ 0 \in Min16 .. Max16
  BY MixerAssumption DEF Min16
<1>2. \A g \in Floats : Distance(g, p) \in Nat
  BY <1>1 DEF Distance
<1>3. Floats # {}
  BY <1>1, MixerAssumption
<1> DEFINE S == {Distance(g, p) : g \in Floats}
<1>4. S \subseteq Nat /\ S # {}
  BY <1>2, <1>3
<1>5. PICK d \in S : \A e \in S : d <= e
  <2> HIDE DEF S
  <2> QED
    BY <1>4, LeastExists
<1>6. PICK f \in Floats : d = Distance(f, p)
  OBVIOUS
<1>7. \A g \in Floats : Distance(f, p) <= Distance(g, p)
  BY <1>5, <1>6
<1> QED
  BY <1>1, <1>7, Zenon DEF Rounded

\* Rounding never goes past a float.
LEMMA RoundedBounds ==
  ASSUME NEW p \in Int, NEW g \in Floats
  PROVE  /\ p >= g => Rounded(p) >= g
         /\ p <= g => Rounded(p) <= g
<1>1. g \in Int /\ Rounded(p) \in Int /\ Distance(Rounded(p), p) <= Distance(g, p)
  BY RoundedNearest, MixerAssumption
<1> DEFINE r == Rounded(p)
<1> HIDE DEF r
<1>2. r \in Int /\ Distance(r, p) <= Distance(g, p)
  BY <1>1 DEF r
<1>3. (p >= g => r >= g) /\ (p <= g => r <= g)
  BY <1>1, <1>2 DEF Distance
<1> QED
  BY <1>3 DEF r

\* Rounding keeps the order.
LEMMA RoundedMonotone ==
  ASSUME NEW p \in Int, NEW q \in Int, p <= q
  PROVE  Rounded(p) <= Rounded(q)
<1> DEFINE r == Rounded(p)
           t == Rounded(q)
<1>1. /\ r \in Int /\ t \in Int
      /\ Distance(r, p) <= Distance(t, p) /\ Distance(t, q) <= Distance(r, q)
  BY RoundedNearest
<1>2. p = q => r = t
  OBVIOUS
<1> HIDE DEF r, t
<1>3. r <= t
  BY <1>1, <1>2 DEF Distance
<1> QED
  BY <1>3 DEF r, t

\* A number between two neighbouring whole ones becomes one of them, and a whole
\* one stays what it is.
LEMMA RoundedWhole ==
  ASSUME NEW p \in Int, NEW k \in Min16 .. Max16 - 1,
         k * Unit <= p, p <= (k + 1) * Unit
  PROVE  /\ k * Unit <= Rounded(p) /\ Rounded(p) <= (k + 1) * Unit
         /\ p = k * Unit => Rounded(p) = k * Unit
         /\ p = (k + 1) * Unit => Rounded(p) = (k + 1) * Unit
<1>1. k * Unit \in Floats /\ (k + 1) * Unit \in Floats
  <2>1. k \in Min16 .. Max16 /\ k + 1 \in Min16 .. Max16
    BY MixerAssumption DEF Min16
  <2> QED
    BY <2>1, MixerAssumption
<1>2. k * Unit \in Int /\ (k + 1) * Unit \in Int /\ Rounded(p) \in Int
  BY <1>1, RoundedNearest, MixerAssumption
<1>3. k * Unit <= Rounded(p) /\ Rounded(p) <= (k + 1) * Unit
  BY <1>1, <1>2, RoundedBounds
<1>4. p = k * Unit => Rounded(p) <= k * Unit
  BY <1>1, <1>2, RoundedBounds
<1>5. p = (k + 1) * Unit => Rounded(p) >= (k + 1) * Unit
  BY <1>1, <1>2, RoundedBounds
<1> QED
  BY <1>2, <1>3, <1>4, <1>5

\* Every number within the limits lies between two neighbouring whole ones, and
\* is converted to the lower one from 0 on, to the higher one below 0.
LEMMA WholeAround ==
  ASSUME NEW p \in Int, Lowest <= p, p < Highest
  PROVE  \E k \in Min16 .. Max16 - 1 :
           k * Unit <= p /\ p < (k + 1) * Unit
<1>1. Unit \in Nat \ {0} /\ Max16 \in Nat /\ Min16 \in Int
  BY MixerAssumption DEF Min16
<1> DEFINE k == p \div Unit
<1>2. k \in Int /\ k * Unit <= p /\ p < k * Unit + Unit
  BY <1>1
<1> HIDE DEF k
<1>3. (k + 1) * Unit = k * Unit + Unit /\ k * Unit \in Int
  BY <1>1, <1>2
<1>4. k >= Min16
  <2> SUFFICES ASSUME k + 1 <= Min16 PROVE FALSE
    BY <1>1, <1>2
  <2>1. (Min16 - (k + 1)) * Unit >= 0
    BY <1>1, <1>2
  <2>2. (Min16 - (k + 1)) * Unit = Min16 * Unit - (k + 1) * Unit /\ Min16 * Unit \in Int
    BY <1>1, <1>2
  <2>3. Lowest = Min16 * Unit
    BY DEF Lowest
  <2>4. (k + 1) * Unit <= Lowest
    BY <1>1, <1>2, <1>3, <2>1, <2>2, <2>3
  <2> HIDE DEF Lowest
  <2>5. Lowest \in Int /\ (k + 1) * Unit \in Int /\ p < (k + 1) * Unit
    BY <1>1, <1>2, <1>3, <2>2, <2>3
  <2> QED
    BY <2>4, <2>5
<1>5. k <= Max16 - 1
  <2> SUFFICES ASSUME k >= Max16 PROVE FALSE
    BY <1>1, <1>2
  <2>1. (k - Max16) * Unit >= 0
    BY <1>1, <1>2
  <2>2. (k - Max16) * Unit = k * Unit - Max16 * Unit /\ Max16 * Unit \in Int
    BY <1>1, <1>2
  <2> QED
    BY <1>2, <1>3, <2>1, <2>2 DEF Highest
<1> QED
  BY <1>1, <1>2, <1>3, <1>4, <1>5

\* What lies between two neighbouring whole numbers is converted to one of them,
\* and a whole one to itself.
LEMMA TruncatedWhole ==
  ASSUME NEW r \in Int, NEW k \in Int, k * Unit <= r, r <= (k + 1) * Unit
  PROVE  /\ Truncated(r) = k \/ Truncated(r) = k + 1
         /\ r = k * Unit => Truncated(r) = k
         /\ r = (k + 1) * Unit => Truncated(r) = k + 1
<1>1. Truncated(k * Unit) = k /\ Truncated((k + 1) * Unit) = k + 1
  BY TruncatedExact
<1>2. k * Unit \in Int /\ (k + 1) * Unit \in Int /\ Truncated(r) \in Int
  BY MixerAssumption, TruncatedError
<1>3. k <= Truncated(r) /\ Truncated(r) <= k + 1
  BY <1>1, <1>2, TruncatedMonotone
<1> QED
  BY <1>1, <1>2, <1>3

\* A sample that is neither above nor below the limits is off by less than one
\* and keeps its sign; any other is the limit.
LEMMA MixedSample ==
  ASSUME isa \in ISAs, NEW p \in Int
  PROVE  LET q     == Truncated(Clipped(Rounded(p)))
             error == p - q * Unit
         IN  /\ q \in Min16 .. Max16
             /\ \/ q * p >= 0 /\ error \in -(Unit - 1) .. Unit - 1
                \/ q = Max16 /\ error > 0
                \/ q = Min16 /\ error < 0
<1> DEFINE r == Rounded(p)
           q == Truncated(Clipped(r))
           error == p - q * Unit
<1>1. Unit \in Nat \ {0} /\ Max16 \in Nat /\ Min16 \in Int /\ Min16 < 0 /\ Min16 <= Max16
  BY MixerAssumption DEF Min16
<1>2. /\ Truncated(Highest) = Max16 /\ Truncated(Lowest) = Min16
      /\ Highest \in Nat /\ Lowest \in Int /\ Lowest < 0
      /\ Highest \in Floats /\ Lowest \in Floats
  <2>1. Truncated(Highest) = Max16 /\ Truncated(Lowest) = Min16
    BY <1>1, TruncatedExact DEF Highest, Lowest
  <2>2. Max16 \in Min16 .. Max16 /\ Min16 \in Min16 .. Max16
    BY <1>1
  <2>3. Highest \in Floats /\ Lowest \in Floats
    BY <2>2, MixerAssumption DEF Highest, Lowest
  <2>4. Highest \in Nat /\ Lowest \in Int /\ Lowest < 0
    BY <1>1, ClippedAlike
  <2> QED
    BY <2>1, <2>3, <2>4
<1>3. r \in Int /\ Clipped(r) = IF r > Highest THEN Highest ELSE IF r < Lowest THEN Lowest ELSE r
  BY RoundedNearest, ClippedAlike
<1>4. CASE p >= Highest
  <2>1. r >= Highest
    BY <1>2, <1>4, RoundedBounds
  <2>2. Clipped(r) = Highest
    BY <1>2, <1>3, <2>1
  <2>3. q = Max16
    BY <1>2, <2>2
  <2>4. q * Unit = Highest
    BY <2>3 DEF Highest
  <2> HIDE DEF q
  <2>5. q * p >= 0
    BY <1>1, <1>2, <1>4, <2>3
  <2>6. error > 0 \/ error = 0
    BY <1>2, <1>4, <2>4
  <2> QED
    BY <1>1, <2>3, <2>5, <2>6 DEF q
<1>5. CASE p < Lowest
  <2>1. r <= Lowest
    BY <1>2, <1>5, RoundedBounds
  <2>2. Clipped(r) = Lowest
    BY <1>2, <1>3, <2>1
  <2>3. q = Min16
    BY <1>2, <2>2
  <2>4. q * Unit = Lowest
    BY <2>3 DEF Lowest
  <2>5. error < 0
    BY <1>2, <1>5, <2>4
  <2> QED
    BY <1>1, <2>3, <2>5
<1>6. CASE Lowest <= p /\ p < Highest
  <2>1. PICK k \in Min16 .. Max16 - 1 : k * Unit <= p /\ p < (k + 1) * Unit
    BY <1>6, WholeAround
  <2>2. k \in Int /\ k * Unit \in Int /\ (k + 1) * Unit = k * Unit + Unit
    BY <1>1, <2>1
  <2>3. k * Unit <= r /\ r <= (k + 1) * Unit /\ (p = k * Unit => r = k * Unit)
    BY <1>1, <2>1, <2>2, RoundedWhole
  <2>4. Lowest <= r /\ r <= Highest
    BY <1>2, <1>6, RoundedBounds
  <2>5. Clipped(r) = r
    BY <1>2, <1>3, <2>4
  <2>6. (q = k \/ q = k + 1) /\ (p = k * Unit => q = k)
    BY <1>3, <2>2, <2>3, <2>5, TruncatedWhole
  <2>7. q \in Min16 .. Max16 /\ q \in Int
    BY <1>1, <2>1, <2>6
  <2> HIDE DEF q
  <2>8. error \in -(Unit - 1) .. Unit - 1
    <3>1. CASE q = k
      BY <1>1, <2>1, <2>2, <3>1
    <3>2. CASE q = k + 1 /\ p # k * Unit
      BY <1>1, <2>1, <2>2, <3>2
    <3> QED
      BY <2>6, <3>1, <3>2
  <2>9. q * p >= 0
    <3>1. CASE p >= 0
      <4>1. k >= 0
        <5> SUFFICES ASSUME k + 1 <= 0 PROVE FALSE
          BY <2>2
        <5>1. (-(k + 1)) * Unit >= 0 /\ (-(k + 1)) * Unit = -((k + 1) * Unit)
          BY <1>1, <2>2
        <5>2. (k + 1) * Unit \in Int /\ (k + 1) * Unit <= 0
          BY <1>1, <2>2, <5>1
        <5> QED
          BY <2>1, <3>1, <5>2
      <4>2. q \in Nat
        BY <2>2, <2>6, <4>1
      <4> QED
        BY <3>1, <4>2
    <3>2. CASE p < 0
      <4>1. k + 1 <= 0
        <5> SUFFICES ASSUME k >= 0 PROVE FALSE
          BY <2>2
        <5>1. k * Unit >= 0
          BY <1>1, <2>2
        <5> QED
          BY <2>1, <2>2, <3>2, <5>1
      <4>2. q <= 0 /\ (-q) * (-p) >= 0 /\ (-q) * (-p) = q * p
        BY <2>2, <2>6, <2>7, <3>2, <4>1
      <4> QED
        BY <4>2
    <3> QED
      BY <3>1, <3>2
  <2> QED
    BY <2>7, <2>8, <2>9 DEF q
<1> QED
  BY <1>2, <1>4, <1>5, <1>6

-----------------------------------------------------------------------------
(* The mixers *)

\* The sums are exact in whatever order the voices came, and the mix is made of
\* all of them.
MixerInv ==
  /\ MixerTypeOK
  /\ \A x \in Lanes : up_sampled_vector[x] = Total(decoded_data, x, combined)
  /\ data_out # NoSamples =>
       /\ combined = Voices
       /\ data_out = [x \in Lanes |-> Truncated(Clipped(Amplified(x)))]

\* No register is wider than what a voice says.
LEMMA LanesInRegister ==
  ASSUME isa \in ISAs
  PROVE  Lanes \subseteq 0 .. 7 /\ \A x \in Lanes : RampStep(x) \in Int
<1>1. Width \in {2, 4, 8}
  BY DEF ISAs, Width
<1> QED
  BY <1>1 DEF Lanes, RampStep

\* The samples of every lane can be added.
LEMMA SamplesAreInts ==
  ASSUME isa \in ISAs, decoded_data \in [Voices -> Patterns], NEW x \in Lanes
  PROVE  Samples(decoded_data, x)
<1>1. x \in 0 .. 7
  BY LanesInRegister
<1>2. Min16 .. Max16 \subseteq Int
  OBVIOUS
<1> QED
  BY <1>1, <1>2, MixerAssumption DEF Samples

\* The gain of every lane is a number.
LEMMA GainIsInt ==
  ASSUME MixerTypeOK, NEW x \in Lanes
  PROVE  /\ Gain(x) \in Int /\ current_gain \in Int
         /\ increment * RampStep(x) \in Int /\ Rounded(increment * RampStep(x)) \in Int
<1>1. current_gain \in Int /\ increment \in Int
  BY MixerAssumption DEF MixerTypeOK
<1>2. RampStep(x) \in Int
  BY LanesInRegister DEF MixerTypeOK
<1>3. increment * RampStep(x) \in Int
  BY <1>1, <1>2
<1>4. Rounded(increment * RampStep(x)) \in Int
  BY <1>3, RoundedNearest
<1>5. (current_gain + IF fused THEN increment * RampStep(x)
                       ELSE Rounded(increment * RampStep(x))) \in Int
  BY <1>1, <1>3, <1>4
<1> QED
  BY <1>1, <1>3, <1>4, <1>5, RoundedNearest DEF Gain

\* Before any voice is added, the sums are 0.
LEMMA MixerInvInit == MixerInit => MixerInv
<1> SUFFICES ASSUME MixerInit PROVE MixerInv
  OBVIOUS
<1>1. MixerTypeOK
  BY DEF MixerInit, MixerTypeOK
<1>2. ASSUME NEW x \in Lanes PROVE up_sampled_vector[x] = Total(decoded_data, x, combined)
  <2>1. up_sampled_vector[x] = 0 /\ combined = {}
    BY <1>2 DEF MixerInit
  <2>2. Samples(decoded_data, x)
    BY <1>2, SamplesAreInts DEF MixerInit
  <2> QED
    BY <2>1, <2>2, SumUnfolds
<1> QED
  BY <1>1, <1>2 DEF MixerInv, MixerInit

\* What a lane comes to depends on the sums, the ramp and the build alone.
LEMMA MixKept ==
  ASSUME UNCHANGED <<isa, fused, up_sampled_vector, current_gain, increment>>
  PROVE  \A x : (Truncated(Clipped(Amplified(x))))' = Truncated(Clipped(Amplified(x)))
<1> SUFFICES ASSUME NEW x
             PROVE  (Truncated(Clipped(Amplified(x))))' = Truncated(Clipped(Amplified(x)))
  OBVIOUS
<1>1. Gain(x)' = Gain(x)
  BY DEF Gain, RampStep, Width, Rounded, Distance
<1>2. Amplified(x)' = Amplified(x)
  BY <1>1 DEF Amplified, Rounded, Distance
<1>3. isa' = isa
  OBVIOUS
<1>4. Clipped(Amplified(x))' = Clipped(Amplified(x))
  BY <1>2, <1>3, Zenon DEF Clipped, Highest, Lowest, Least, Greatest
<1> QED
  BY <1>4, Zenon DEF Truncated

\* Adding a voice keeps the sums exact, and the mix is made once.
LEMMA MixerInvStep == MixerInv /\ [MixerNext]_mixerVars => MixerInv'
<1> SUFFICES ASSUME MixerInv, [MixerNext]_mixerVars PROVE MixerInv'
  OBVIOUS
<1>0. MixerTypeOK
  BY DEF MixerInv
<1>1. isa' = isa /\ decoded_data' = decoded_data
  BY DEF MixerNext, CollectSingleRegister, CombineSamples, mixerVars
<1>2. Lanes' = Lanes
  BY <1>1 DEF Lanes, Width
<1>3. CASE CollectSingleRegister
  <2>1. /\ combined = Voices /\ data_out' = [x \in Lanes |-> Truncated(Clipped(Amplified(x)))]
        /\ UNCHANGED <<isa, fused, decoded_data, combined, up_sampled_vector, current_gain,
                       increment>>
    BY <1>3 DEF CollectSingleRegister
  <2>2. ASSUME NEW x \in Lanes PROVE Truncated(Clipped(Amplified(x))) \in Min16 .. Max16
    <3>1. up_sampled_vector[x] * Gain(x) \in Int
      BY <1>0, GainIsInt DEF MixerTypeOK
    <3> QED
      BY <1>0, <3>1, MixedSample DEF MixerTypeOK, Amplified
  <2>3. MixerTypeOK'
    BY <1>0, <1>2, <2>1, <2>2 DEF MixerTypeOK
  <2>4. \A x : (Truncated(Clipped(Amplified(x))))' = Truncated(Clipped(Amplified(x)))
    BY <2>1, MixKept
  <2> QED
    BY <1>2, <2>1, <2>3, <2>4 DEF MixerInv
<1>4. ASSUME NEW v \in Voices, CombineSamples(v) PROVE MixerInv'
  <2>1. /\ data_out = NoSamples /\ v \in Voices \ combined
        /\ up_sampled_vector' = [x \in Lanes |-> up_sampled_vector[x] + decoded_data[v][x]]
        /\ combined' = combined \cup {v}
        /\ UNCHANGED <<isa, fused, decoded_data, current_gain, increment, data_out>>
    BY <1>4 DEF CombineSamples, Combined
  <2>2. \A x \in Lanes : Samples(decoded_data, x)
    BY <1>0, SamplesAreInts DEF MixerTypeOK
  <2>3. MixerTypeOK'
    <3>1. up_sampled_vector' \in [Lanes -> Int]
      BY <1>0, <2>1, <2>2 DEF MixerTypeOK, Samples
    <3> QED
      BY <1>0, <1>2, <2>1, <3>1 DEF MixerTypeOK
  <2>4. ASSUME NEW x \in Lanes
        PROVE  up_sampled_vector'[x] = Total(decoded_data, x, combined')
    <3>1. Total(decoded_data, x, combined \cup {v}) = Total(decoded_data, x, combined) + decoded_data[v][x]
      BY <1>0, <2>1, <2>2, SumAdds DEF MixerTypeOK
    <3> QED
      BY <2>1, <3>1 DEF MixerInv
  <2> QED
    BY <1>1, <1>2, <2>1, <2>3, <2>4 DEF MixerInv
<1>5. CASE UNCHANGED mixerVars
  <2>1. UNCHANGED <<isa, fused, decoded_data, combined, up_sampled_vector, current_gain,
                    increment, data_out>>
    BY <1>5 DEF mixerVars
  <2>2. MixerTypeOK'
    BY <1>0, <1>2, <2>1 DEF MixerTypeOK
  <2>3. \A x : (Truncated(Clipped(Amplified(x))))' = Truncated(Clipped(Amplified(x)))
    BY <2>1, MixKept
  <2> QED
    BY <1>2, <2>1, <2>2, <2>3 DEF MixerInv
<1> QED
  BY <1>3, <1>4, <1>5 DEF MixerNext

\* The invariant, type correctness included, holds of any number of voices, for
\* every width of the samples, gain and instruction set.
THEOREM MixerInvariance == MixerSpec => []MixerInv
  BY MixerInvInit, MixerInvStep, PTL DEF MixerSpec

\* Whatever the order of the voices and the instruction set, each sample of the
\* mix is off by less than one from the sum of all voices with the gain of its
\* lane, or is the limit.
THEOREM MixIsSum == MixerSpec => []MixedThenClipped
<1>1. MixerInv => MixedThenClipped
  <2> SUFFICES ASSUME MixerInv, data_out # NoSamples, NEW x \in Lanes
               PROVE  LET sum   == MapThenSumSet(LAMBDA v : decoded_data[v][x], Voices)
                          exact == sum * Gain(x)
                          error == exact - data_out[x] * Unit
                      IN  \/ data_out[x] * exact >= 0 /\ error \in -(Unit - 1) .. Unit - 1
                          \/ data_out[x] = Max16 /\ error > 0
                          \/ data_out[x] = Min16 /\ error < 0
    BY DEF MixedThenClipped
  <2>1. MixerTypeOK
    BY DEF MixerInv
  <2>2. Samples(decoded_data, x)
    BY <2>1, SamplesAreInts DEF MixerTypeOK
  <2>3. MapThenSumSet(LAMBDA v : decoded_data[v][x], Voices) = up_sampled_vector[x]
    <3>1. up_sampled_vector[x] = Total(decoded_data, x, Voices)
      BY DEF MixerInv
    <3> QED
      BY <2>2, <3>1, SumOfVoices
  <2> DEFINE p == up_sampled_vector[x] * Gain(x)
             q == data_out[x]
  <2>4. p \in Int
    BY <2>1, GainIsInt DEF MixerTypeOK
  <2>5. q = Truncated(Clipped(Rounded(p)))
    BY DEF MixerInv, Amplified
  <2>6. \/ q * p >= 0 /\ p - q * Unit \in -(Unit - 1) .. Unit - 1
        \/ q = Max16 /\ p - q * Unit > 0
        \/ q = Min16 /\ p - q * Unit < 0
    BY <2>1, <2>4, <2>5, MixedSample DEF MixerTypeOK
  <2> QED
    BY <2>3, <2>6
<1> QED
  BY MixerInvariance, <1>1, PTL

-----------------------------------------------------------------------------
(* The mixers: ramps *)

\* The whole way from a scaled sum to 16 bits keeps the order.
LEMMA MixedMonotone ==
  ASSUME isa \in ISAs, NEW p \in Int, NEW q \in Int, p <= q
  PROVE  Truncated(Clipped(p)) <= Truncated(Clipped(q))
<1>1. Clipped(p) \in Int /\ Clipped(q) \in Int /\ Clipped(p) <= Clipped(q)
  <2>1. Highest \in Int /\ Lowest \in Int /\ Lowest <= Highest
    BY ClippedAlike
  <2>2. /\ Clipped(p) = IF p > Highest THEN Highest ELSE IF p < Lowest THEN Lowest ELSE p
        /\ Clipped(q) = IF q > Highest THEN Highest ELSE IF q < Lowest THEN Lowest ELSE q
    BY ClippedAlike
  <2> HIDE DEF Highest, Lowest
  <2> QED
    BY <2>1, <2>2
<1> QED
  BY <1>1, TruncatedMonotone

\* Where registers are filled upwards, a later lane has no less of the gain.
LEMMA GainRises ==
  ASSUME MixerTypeOK, isa \notin {"avx", "avx2"}, increment > 0,
         NEW x \in Lanes, NEW y \in Lanes, x < y
  PROVE  Gain(x) <= Gain(y)
<1>1. /\ current_gain \in Int /\ increment \in Int /\ x \in Int /\ y \in Int
      /\ increment * x \in Int /\ increment * y \in Int
      /\ RampStep(x) = x /\ RampStep(y) = y
  BY MixerAssumption, LanesInRegister DEF MixerTypeOK, RampStep
<1>2. increment * x <= increment * y
  <2>1. increment * (y - x) >= 0
    BY <1>1
  <2>2. increment * (y - x) = increment * y - increment * x
    BY <1>1
  <2> QED
    BY <1>1, <2>1, <2>2
<1>3. /\ Rounded(increment * x) \in Int /\ Rounded(increment * y) \in Int
      /\ Rounded(increment * x) <= Rounded(increment * y)
  BY <1>1, <1>2, RoundedNearest, RoundedMonotone
<1> DEFINE a == current_gain + IF fused THEN increment * x ELSE Rounded(increment * x)
           b == current_gain + IF fused THEN increment * y ELSE Rounded(increment * y)
<1>4. a \in Int /\ b \in Int /\ a <= b
  <2>1. CASE fused
    BY <1>1, <1>2, <2>1
  <2>2. CASE ~fused
    BY <1>1, <1>3, <2>2
  <2> QED
    BY <2>1, <2>2
<1>5. Gain(x) = Rounded(a) /\ Gain(y) = Rounded(b)
  BY <1>1 DEF Gain
<1> HIDE DEF a, b
<1> QED
  BY <1>4, <1>5, RoundedMonotone

\* And a sample above 0 is amplified no less there.
LEMMA AmplifiedRises ==
  ASSUME MixerTypeOK, isa \notin {"avx", "avx2"}, increment > 0,
         NEW x \in Lanes, NEW y \in Lanes, x < y,
         0 < up_sampled_vector[x], up_sampled_vector[x] = up_sampled_vector[y]
  PROVE  Amplified(x) \in Int /\ Amplified(y) \in Int /\ Amplified(x) <= Amplified(y)
<1> DEFINE u == up_sampled_vector[x]
           g == Gain(x)
           h == Gain(y)
<1>1. u \in Int /\ u > 0 /\ g \in Int /\ h \in Int /\ g <= h
  BY GainIsInt, GainRises DEF MixerTypeOK
<1>2. Amplified(x) = Rounded(u * g) /\ Amplified(y) = Rounded(u * h)
  BY DEF Amplified
<1> HIDE DEF u, g, h
<1>3. u * (h - g) >= 0 /\ u * (h - g) = u * h - u * g /\ u * g \in Int /\ u * h \in Int
  BY <1>1
<1>4. u * g <= u * h
  BY <1>3
<1> QED
  BY <1>2, <1>3, <1>4, RoundedNearest, RoundedMonotone

\* With the instruction sets that fill registers upwards, a rising gain makes
\* equal samples no quieter: of the four, the ramp fails only with avx.h, avx2.h.
THEOREM RampRises == MixerSpec => []RampGoesOneWayElsewhere
<1>1. MixerInv => RampGoesOneWayElsewhere
  <2> SUFFICES ASSUME MixerInv, isa \notin {"avx", "avx2"}, data_out # NoSamples, increment > 0,
                      NEW x \in Lanes, NEW y \in Lanes, x < y,
                      0 < up_sampled_vector[x], up_sampled_vector[x] = up_sampled_vector[y]
               PROVE  data_out[x] <= data_out[y]
    BY DEF RampGoesOneWayElsewhere, RampGoesOneWay
  <2>1. MixerTypeOK /\ isa \in ISAs
    BY DEF MixerInv, MixerTypeOK
  <2>2. Amplified(x) \in Int /\ Amplified(y) \in Int /\ Amplified(x) <= Amplified(y)
    BY <2>1, AmplifiedRises
  <2>3. /\ data_out[x] = Truncated(Clipped(Amplified(x)))
        /\ data_out[y] = Truncated(Clipped(Amplified(y)))
    BY DEF MixerInv
  <2> QED
    BY <2>1, <2>2, <2>3, MixedMonotone
<1> QED
  BY MixerInvariance, <1>1, PTL
=============================================================================
