------------------------------- MODULE MCCache -------------------------------
(* Three objects, two of which share an id, and two threads.                *)
EXTENDS Cache

CONSTANTS o1, o2, o3, i1, i2

MCObjects == {o1, o2, o3}
MCIds     == {i1, i2}
MCIdOf    == [o \in MCObjects |-> IF o = o3 THEN i2 ELSE i1]
=============================================================================
