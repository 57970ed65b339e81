---------------------------- MODULE MCUpdateDpp -----------------------------
(* Two runs at a time, and two builds.  Each version has one file from      *)
(* every build; the last has a header that replaces one the others have.    *)
EXTENDS UpdateDpp

CONSTANTS old_h, new_h, lib1, lib2

MCFiles == {old_h, new_h, lib1, lib2}

MCArchiveOf ==
  [f \in MCFiles |-> IF f = lib2 THEN 2 ELSE 1]

MCFilesOf ==
  [v \in Versions |-> MCFiles \ (IF v = MaxVersion THEN {old_h} ELSE {new_h})]
=============================================================================
