------------------------------ MODULE UpdateDpp ------------------------------
(***************************************************************************)
(* updatedpp.sh: the job that brings the library's headers and binaries in *)
(* MyBot/dependencies up to the latest CI build.  GitHub runs it on a cron *)
(* (update.yml), each run on a checkout of its own; runs may overlap.      *)
(*                                                                         *)
(* A tree gives the version each file has, or that it is not there.  Each  *)
(* file comes with the archive of one build; the headers come with that of *)
(* build 1.  The files of a version are not always those of the one before *)
(* it, and cp never removes one.  The script goes on after most failures,  *)
(* so that the directory it is in matters: level 0 is the checkout, 1 is   *)
(* temp, -1 the checkout's parent.                                         *)
(***************************************************************************)
EXTENDS Integers

CONSTANTS
  Runs,        \* runs that may overlap, each followed by others for ever
  NBuilds,     \* the number of builds: x64 and x86, release and debug
  Files,       \* the files of all versions
  ArchiveOf,   \* the build whose archive a file comes in
  FilesOf,     \* the files that each version has
  MaxVersion,  \* bound on the CI builds that complete
  MaxWithdrawn,\* bound on the times that the newest of them is withdrawn
  MaxBroken    \* bound on the archives that cannot be unzipped

Builds   == 1 .. NBuilds
Versions == 0 .. MaxVersion

ASSUME UpdateDppAssumption ==
  /\ NBuilds \in Nat \ {0} /\ MaxVersion \in Nat \ {0}
  /\ MaxWithdrawn \in Nat /\ MaxBroken \in Nat
  /\ ArchiveOf \in [Files -> Builds]
  /\ FilesOf \in [Versions -> SUBSET Files]

Absent == -1
Trees  == [Files -> {Absent} \cup Versions]
NoTree == [f \in Files |-> Absent]

VARIABLES
  latest,    \* the newest CI build that is completed now
  issued,    \* how many have ever completed
  withdrawn, \* history: how often the newest one was withdrawn
  origin,    \* the tree of main at GitHub
  pc,        \* where each run is
  level,     \* the directory it is in
  version,   \* the CI build it downloaded
  dirs,      \* the artifacts it got
  next,      \* the build it processes next
  tree,      \* its working tree
  base,      \* the tree of the commit of main it is based on
  ahead,     \* it has a commit of its own
  behind,    \* main has moved since
  broken     \* history: how many archives could not be unzipped

ciVars     == <<latest, issued, withdrawn>>
runVars    == <<pc, level, version, dirs, next, tree, base, ahead, behind>>
updateVars == <<ciVars, origin, runVars, broken>>

UpdateTypeOK ==
  /\ latest \in Versions /\ issued \in Versions /\ latest <= issued
  /\ withdrawn \in 0 .. MaxWithdrawn
  /\ origin \in Trees
  /\ pc \in [Runs -> {"idle", "download", "process", "pull", "commit", "push"}]
  /\ level \in [Runs -> 1 - NBuilds .. 1]
  /\ version \in [Runs -> Versions]
  /\ dirs \in [Runs -> SUBSET Builds]
  /\ next \in [Runs -> 1 .. NBuilds + 1]
  /\ tree \in [Runs -> Trees] /\ base \in [Runs -> Trees]
  /\ ahead \in [Runs -> BOOLEAN] /\ behind \in [Runs -> BOOLEAN]
  /\ broken \in 0 .. MaxBroken

UpdateInit ==
  /\ latest = 0 /\ issued = 0 /\ withdrawn = 0
  /\ origin = [f \in Files |-> IF f \in FilesOf[0] THEN 0 ELSE Absent]
  /\ pc = [r \in Runs |-> "idle"]
  /\ level = [r \in Runs |-> 0]
  /\ version = [r \in Runs |-> 0]
  /\ dirs = [r \in Runs |-> {}]
  /\ next = [r \in Runs |-> 1]
  /\ tree = [r \in Runs |-> NoTree]
  /\ base = [r \in Runs |-> NoTree]
  /\ ahead = [r \in Runs |-> FALSE]
  /\ behind = [r \in Runs |-> FALSE]
  /\ broken = 0

\* The run is over, and with it everything on its machine.
Over(r) ==
  /\ pc' = [pc EXCEPT ![r] = "idle"]
  /\ level' = [level EXCEPT ![r] = 0]
  /\ version' = [version EXCEPT ![r] = 0]
  /\ dirs' = [dirs EXCEPT ![r] = {}]
  /\ next' = [next EXCEPT ![r] = 1]
  /\ tree' = [tree EXCEPT ![r] = NoTree]
  /\ base' = [base EXCEPT ![r] = NoTree]
  /\ ahead' = [ahead EXCEPT ![r] = FALSE]

-----------------------------------------------------------------------------
(* The world around the script *)

CompleteBuild ==
  /\ issued < MaxVersion
  /\ issued' = issued + 1
  /\ latest' = issued + 1
  /\ UNCHANGED <<withdrawn, origin, runVars, broken>>

\* The newest CI runs are deleted, or run again: they are not completed now,
\* and an older one is the first of the list.
Withdraw(v) ==
  /\ v < latest /\ withdrawn < MaxWithdrawn
  /\ latest' = v
  /\ withdrawn' = withdrawn + 1
  /\ UNCHANGED <<issued, origin, runVars, broken>>

\* A CI run that was run again completes again.
CompleteAgain(v) ==
  /\ latest < v /\ v <= issued
  /\ latest' = v
  /\ UNCHANGED <<issued, withdrawn, origin, runVars, broken>>

\* The cron starts a run, which checks the repository out.
Checkout(r) ==
  /\ pc[r] = "idle"
  /\ pc' = [pc EXCEPT ![r] = "download"]
  /\ tree' = [tree EXCEPT ![r] = origin]
  /\ base' = [base EXCEPT ![r] = origin]
  /\ behind' = [behind EXCEPT ![r] = FALSE]
  /\ UNCHANGED <<ciVars, origin, level, version, dirs, next, ahead, broken>>

-----------------------------------------------------------------------------
(* The script *)

\* mkdir temp; cd temp; gh run download: some artifacts may be missing.
Download(r, got) ==
  /\ pc[r] = "download"
  /\ IF 1 \in got
       THEN /\ pc' = [pc EXCEPT ![r] = "process"]
            /\ level' = [level EXCEPT ![r] = 1]
            /\ version' = [version EXCEPT ![r] = latest]
            /\ dirs' = [dirs EXCEPT ![r] = got]
            /\ UNCHANGED <<next, tree, base, ahead>>
       ELSE Over(r)    \* "temporary failure": exit 0
  /\ UNCHANGED <<ciVars, origin, behind, broken>>

\* cd "./libdpp - Windows ..." succeeds.
InPlace(r) == level[r] = 1 /\ next[r] \in dirs[r]

\* Mutant of Leave: the directory is only left if it was entered.
LeaveEntered(r) == level[r]

\* cd .., which undoes the cd before, or goes up if that failed.
Leave(r) == IF InPlace(r) THEN level[r] ELSE level[r] - 1

\* cp -rv: the files of the archive are added or overwritten; what this version
\* does not have stays as an older one left it.
Copied(t, b, v) ==
  [f \in Files |-> IF ArchiveOf[f] = b /\ f \in FilesOf[v] THEN v ELSE t[f]]

\* cd && unzip, cp, cd ..: when the archive cannot be unzipped, or the directory
\* is not there, the copies find no files and the script goes on.
Process(r, unzips) ==
  /\ pc[r] = "process" /\ next[r] <= NBuilds
  /\ unzips \/ (InPlace(r) /\ broken < MaxBroken)
  /\ tree' = IF InPlace(r) /\ unzips
               THEN [tree EXCEPT ![r] = Copied(@, next[r], version[r])] ELSE tree
  /\ broken' = IF unzips THEN broken ELSE broken + 1
  /\ level' = [level EXCEPT ![r] = Leave(r)]
  /\ next' = [next EXCEPT ![r] = @ + 1]
  /\ UNCHANGED <<ciVars, origin, pc, version, dirs, base, ahead, behind>>

\* cd .. || exit; cd MyBot/dependencies/include/dpp-10.1/dpp || exit; back up;
\* rm -rf temp; git checkout main.
Convert(r) ==
  /\ pc[r] = "process" /\ next[r] = NBuilds + 1
  /\ IF level[r] - 1 = 0
       THEN /\ pc' = [pc EXCEPT ![r] = "pull"]
            /\ level' = [level EXCEPT ![r] = 0]
            /\ UNCHANGED <<version, dirs, next, tree, base, ahead>>
       ELSE Over(r)
  /\ UNCHANGED <<ciVars, origin, behind, broken>>

Differ(s, t) == {f \in Files : s[f] # t[f]}

\* git pull: it refuses to overwrite a file that was changed here, and the
\* script goes on.
Pull(r) ==
  /\ pc[r] = "pull"
  /\ pc' = [pc EXCEPT ![r] = "commit"]
  /\ LET mine == Differ(tree[r], base[r])  theirs == Differ(origin, base[r]) IN
     IF mine \cap theirs = {}
       THEN /\ tree' = [tree EXCEPT ![r] = [f \in Files |-> IF f \in theirs THEN origin[f] ELSE @[f]]]
            /\ base' = [base EXCEPT ![r] = origin]
            /\ behind' = [behind EXCEPT ![r] = FALSE]
       ELSE UNCHANGED <<tree, base, behind>>
  /\ UNCHANGED <<ciVars, origin, level, version, dirs, next, ahead, broken>>

\* Mutant of Staged: git add -A is given a path that holds nothing new.
StagedNothing(r) == {}

\* git add -A MyBot/dependencies.
Staged(r) == Differ(tree[r], base[r])

\* git commit, which fails if nothing is staged.
Commit(r) ==
  /\ pc[r] = "commit"
  /\ pc' = [pc EXCEPT ![r] = "push"]
  /\ ahead' = [ahead EXCEPT ![r] = Staged(r) # {}]
  /\ UNCHANGED <<ciVars, origin, level, version, dirs, next, tree,
                 base, behind, broken>>

\* Mutant of FastForward: git push --force.
ForcedPush(r) == TRUE

FastForward(r) == ~behind[r]

\* git push, which is rejected if main has moved.
Push(r) ==
  /\ pc[r] = "push"
  /\ IF ahead[r] /\ FastForward(r)
       THEN /\ origin' = tree[r]
            /\ behind' = [s \in Runs |-> s # r]
       ELSE UNCHANGED <<origin, behind>>
  /\ Over(r)
  /\ UNCHANGED <<ciVars, broken>>

RunStep(r) ==
  \/ Checkout(r)
  \/ \E got \in SUBSET Builds : Download(r, got)
  \/ \E b \in BOOLEAN : Process(r, b)
  \/ Convert(r) \/ Pull(r) \/ Commit(r) \/ Push(r)

UpdateNext ==
  \/ CompleteBuild
  \/ \E v \in Versions : Withdraw(v) \/ CompleteAgain(v)
  \/ \E r \in Runs : RunStep(r)

\* The cron goes on and runs go on; now and then one gets all artifacts.
UpdateFairness ==
  /\ \A r \in Runs : WF_updateVars(RunStep(r))
  /\ SF_updateVars(\E r \in Runs : Download(r, Builds))

UpdateSpec == UpdateInit /\ [][UpdateNext]_updateVars
UpdateFairSpec == UpdateSpec /\ UpdateFairness

-----------------------------------------------------------------------------
(* What the repository gets *)

\* A tree holds version v: every file that v has is v's, and what else lies
\* there is older and left over.
Holds(t, v) == \A f \in Files : IF f \in FilesOf[v] THEN t[f] = v ELSE t[f] < v

\* main holds headers and binaries of one CI build, whatever artifacts were
\* missing and however runs overlapped, as long as every archive was whole and
\* no CI build was withdrawn.  It may hold more: cp never removes what older
\* builds left (sslclient.h beside sslconnection.h, in the repository).
OriginUniform == broken = 0 /\ withdrawn = 0 => \E v \in Versions : Holds(origin, v)

\* As long as no CI build is withdrawn, no run puts an older file in the place
\* of a newer one, or takes one away: however late a run is that fetched an
\* older build.
NeverOlder ==
  [][ withdrawn = 0 => \A f \in Files : origin'[f] >= origin[f] ]_updateVars

\* A CI build that stays the newest completed one ends up on main for good,
\* even if that is a step back.
CatchesUp ==
  \A v \in Versions :
    <>[](latest = v) => <>[](\A f \in FilesOf[v] : origin[f] = v)
=============================================================================
