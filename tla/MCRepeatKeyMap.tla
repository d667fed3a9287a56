---------------------------- MODULE MCRepeatKeyMap ----------------------------
(***************************************************************************)
(* RepeatKeyMap on small instances: two keys, two values, an array that    *)
(* starts with 4 slots instead of 8 and so doubles at lengths 2 and 5.     *)
(***************************************************************************)
EXTENDS RepeatKeyMap

CONSTANTS k1, k2, v1, v2

\* Occurrences and positions before the first, at it, inside, at the end of and
\* past an array of 4 slots.
MCIndices == {-1, 0, 1, 2, 5}

\* Two arguments of putAll: an empty map and one with two entries, both with
\* the slots of a map that was never resized.
MCSources ==
  {[i \in 0 .. 3 |-> None],
   [i \in 0 .. 3 |-> CASE i = 0 -> Entry(k1, v1) [] i = 1 -> Entry(k2, v1) [] OTHER -> None]}

==============================================================================
