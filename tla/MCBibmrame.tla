------------------------------ MODULE MCBibmrame ------------------------------
(***************************************************************************)
(* Bibmrame with two threads, whose documents differ in size, and pipes    *)
(* that hold less than the child prints.                                   *)
(***************************************************************************)
EXTENDS Bibmrame

CONSTANTS t1, t2

MCParts == [c \in {t1, t2} |-> IF c = t1 THEN 1 ELSE 2]
==============================================================================
