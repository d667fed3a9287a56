------------------------------ MODULE MCMarcCodec ------------------------------
(***************************************************************************)
(* MarcCodec with three kinds of text: "?", as wide in GBK as in UTF-8;    *)
(* hanzi, 3 bytes in UTF-8 and 2 in GBK; hangul, 3 bytes in UTF-8 and      *)
(* unknown to GBK, which makes it "?".                                     *)
(***************************************************************************)
EXTENDS MarcCodec

AllBodies == {"hanzi", "hangul", "?"}
TwoBodies == {"hanzi", "?"}

Utf8Width == [b \in AllBodies |-> IF b = "?" THEN 1 ELSE 3]
GbkWidth  == [b \in AllBodies |-> IF b = "hanzi" THEN 2 ELSE 1]

TwoUtf8 == [b \in TwoBodies |-> Utf8Width[b]]
TwoGbk  == [b \in TwoBodies |-> GbkWidth[b]]
==============================================================================
