----------------------------- MODULE MCStyleFiles -----------------------------
(***************************************************************************)
(* StyleFiles with two JVMs that have different versions of the library,   *)
(* and two files, one of which has another length in the second version.   *)
(***************************************************************************)
EXTENDS StyleFiles

CONSTANTS j1, j2, v1, v2

MCVersion == [j \in {j1, j2} |-> IF j = j1 THEN v1 ELSE v2]

MCSize == [v \in {v1, v2} |-> IF v = v1 THEN <<1, 1>> ELSE <<1, 3>>]
==============================================================================
