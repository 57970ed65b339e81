---------------------------- MODULE MCAudioMixer ----------------------------
(* Samples of 3 bits, floats of 4, gains in parts of 1/16, and three voices, *)
(* each of them high, low, rising or alternating: two of them exceed the 3   *)
(* bits, three can come back into them. Products and ramps need more than 4  *)
(* bits: -7 * 9 / 16 is above -4 and rounds to -4. Floats end at 120, where  *)
(* everything has long been clipped.                                         *)
EXTENDS AudioMixer

MCPatterns ==
  {[x \in 0 .. 7 |-> 3], [x \in 0 .. 7 |-> -4], [x \in 0 .. 7 |-> x - 4],
   [x \in 0 .. 7 |-> IF x % 2 = 0 THEN 1 ELSE -2]}

MCFloats == UNION {{s * e : s \in -15 .. 15} : e \in {1, 2, 4, 8}}

MCIncrements == {-1, 0, 5}
=============================================================================
