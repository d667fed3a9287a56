------------------------------- MODULE Field039 -------------------------------
(***************************************************************************)
(* MarcUtil.build039: the edit history that a record carries in its field  *)
(* 039.  Subfields y and z hold date and user of the creation, a and b of  *)
(* the last update, and pairs c and d those of the updates before it,      *)
(* newest first.  Every edit builds a new list of subfields from the old   *)
(* one; how many pairs it copies depends on the number of subfields.       *)
(*                                                                         *)
(* An edit is a date and a user.  Two calls never share a date here, so    *)
(* that history tells them apart.                                          *)
(***************************************************************************)
EXTENDS Integers, Sequences, FiniteSets

CONSTANTS
  Users,
  None,      \* null: what get returns when there is no such subfield
  MaxEdits   \* bound on the length of the history: a record that is read has up to 5

ASSUME UserAssumption == None \notin Users /\ None \notin Nat /\ Users # {}
ASSUME EditAssumption == MaxEdits \in Nat /\ MaxEdits >= 5

VARIABLES
  fields,    \* the 039 fields of the record, each a list of subfields
  history,   \* the edits made so far, the creation first
  ret,       \* what the last build039 returned: creation and update
  saved      \* what became of the last toMarcString: "none", "ok" or "throws"

vars == <<fields, history, ret, saved>>

Subfield(k, v) == [key |-> k, value |-> v]

\* RepeatKeyMap.get(key, n): the value of the n-th subfield k, from 0.
Get(s, k, n) ==
  LET found == {p \in DOMAIN s : /\ s[p].key = k
                                 /\ Cardinality({q \in 1 .. p-1 : s[q].key = k}) = n}
  IN  IF found = {} THEN None ELSE s[CHOOSE p \in found : TRUE].value

------------------------------------------------------------------------------
\* A slip: not leaving out y and z.
SizeOfAll(child) == Len(child) \div 2

\* (child.size() - 2) / 2: the number of pairs besides y and z, truncated.
Size(child) ==
  LET n == Len(child) IN IF n = 0 THEN -1 ELSE IF n = 1 THEN 0 ELSE (n - 2) \div 2

\* Slips: keeping the pair that was former already; and copying a c with the d
\* of the pair before it.
FormerKept(child) == <<Subfield("c", Get(child, "c", 0)), Subfield("d", Get(child, "d", 0))>>

CopiedSkewed(child, n) == <<Subfield("c", Get(child, "c", n)), Subfield("d", Get(child, "d", n-1))>>

\* The former update, now the first c and d; and the n-th c and d copied.
Former(child) == <<Subfield("c", Get(child, "a", 0)), Subfield("d", Get(child, "b", 0))>>
Copied(child, n) == <<Subfield("c", Get(child, "c", n)), Subfield("d", Get(child, "d", n))>>

\* A slip: a history that is too long keeps only the former update.
ChainCut(child) ==
  LET n == Size(child) IN
  IF n = 0 THEN << >>
  ELSE IF n = 2 THEN Former(child) \o (IF Get(child, "c", 0) # None THEN Copied(child, 0) ELSE << >>)
  ELSE IF n = 3 THEN Former(child) \o Copied(child, 1) \o Copied(child, 2)
  ELSE Former(child)

Chain(child) ==
  LET n == Size(child) IN
  IF n = 0 THEN << >>
  ELSE IF n = 1 THEN Former(child)
  ELSE IF n = 2 THEN Former(child) \o (IF Get(child, "c", 0) # None THEN Copied(child, 0) ELSE << >>)
  ELSE IF n = 3 THEN Former(child) \o Copied(child, 1) \o Copied(child, 2)
  ELSE Former(child) \o Copied(child, 1) \o Copied(child, 2) \o Copied(child, 3)

\* A slip: writing the current edit to y and z.
CreationNow(child, e) == e

Creation(child, e) ==
  [date |-> IF Get(child, "y", 0) = None THEN e.date ELSE Get(child, "y", 0),
   user |-> IF Get(child, "z", 0) = None THEN e.user ELSE Get(child, "z", 0)]

Created(e) == <<Subfield("y", e.date), Subfield("z", e.user)>>

Updated(child, e) ==
  <<Subfield("a", e.date), Subfield("b", e.user)>> \o Chain(child) \o Created(Creation(child, e))

------------------------------------------------------------------------------
\* The field 039 as other programs write it after the edits h: complete, the
\* former updates newest first.
Complete(h) ==
  LET n == Len(h)
      former == [p \in 1 .. 2 * (n-2) |->
                   LET e == h[n-1 - (p-1) \div 2]
                   IN  IF p % 2 = 1 THEN Subfield("c", e.date) ELSE Subfield("d", e.user)]
  IN  IF n = 1 THEN Created(h[1])
      ELSE <<Subfield("a", h[n].date), Subfield("b", h[n].user)>> \o former \o Created(h[1])

\* A record without the field, or one read from elsewhere with one or two of
\* them and up to four updates behind it.
Init ==
  /\ \E u \in Users, n \in 0 .. 5, copies \in 1 .. 2 :
       /\ history = [i \in 1 .. n |-> [date |-> i, user |-> u]]
       /\ fields = IF n = 0 THEN << >> ELSE [i \in 1 .. copies |-> Complete(history)]
  /\ ret = None /\ saved = "none"

\* A slip: replace alone, which adds nothing where the field is missing.
Build039ReplaceOnly(u) ==
  LET e == [date |-> Len(history) + 1, user |-> u]
  IN  /\ Len(history) < MaxEdits
      /\ history' = Append(history, e)
      /\ fields' = [i \in DOMAIN fields |-> Updated(fields[1], e)]
      /\ ret' = [create |-> IF fields = << >> THEN e ELSE Creation(fields[1], e), update |-> e]
      /\ saved' = "none"

\* build039, with the current date or one passed in.  replace gives every 039
\* field the new list.
Build039(u) ==
  LET e == [date |-> Len(history) + 1, user |-> u]
  IN  /\ Len(history) < MaxEdits
      /\ history' = Append(history, e)
      /\ IF fields = << >>
           THEN /\ fields' = <<Created(e)>>
                /\ ret' = [create |-> e, update |-> e]
           ELSE /\ fields' = [i \in DOMAIN fields |-> Updated(fields[1], e)]
                /\ ret' = [create |-> Creation(fields[1], e), update |-> e]
      /\ saved' = "none"

HasNull(s) == \E p \in DOMAIN s : s[p].value = None

\* toMarcString: v.getBytes throws if the value of a subfield is null.
Save ==
  /\ saved = "none"
  /\ saved' = IF \E i \in DOMAIN fields : HasNull(fields[i]) THEN "throws" ELSE "ok"
  /\ UNCHANGED <<fields, history, ret>>

Next == (\E u \in Users : Build039(u)) \/ Save

Spec == Init /\ [][Next]_vars

------------------------------------------------------------------------------
\* Properties.

Last(h) == h[Len(h)]

\* The shape of the state.
TypeOK ==
  /\ history \in Seq([date : Nat, user : Users]) /\ Len(history) <= MaxEdits
  /\ fields \in Seq(Seq([key : {"a", "b", "c", "d", "y", "z"}, value : Nat \cup Users \cup {None}]))
  /\ (fields = << >>) <=> (history = << >>)
  /\ saved \in {"none", "ok", "throws"}
  /\ ret # None => ret.create \in [date : Nat, user : Users] /\ ret.update = Last(history)

\* However often a record is edited, y and z tell its creation, and build039
\* reports it.
CreatorKept ==
  \A i \in DOMAIN fields :
    /\ [date |-> Get(fields[i], "y", 0), user |-> Get(fields[i], "z", 0)] = history[1]
    /\ ret # None => ret.create = history[1]

\* The two newest updates are always where a reader looks for them: the last in
\* a and b, the one before in the first c and d.
NewestFirst ==
  \A i \in DOMAIN fields :
    LET n == Len(history) IN
    /\ n >= 2 => [date |-> Get(fields[i], "a", 0), user |-> Get(fields[i], "b", 0)] = history[n]
    /\ n >= 3 => [date |-> Get(fields[i], "c", 0), user |-> Get(fields[i], "d", 0)] = history[n-1]

\* Dates and users never get mixed up: the n-th c and the n-th d come from one
\* update, or both are missing.
PairsMatch ==
  \A i \in DOMAIN fields, n \in 0 .. 4 :
    LET c == Get(fields[i], "c", n)
        d == Get(fields[i], "d", n)
    IN  (c = None /\ d = None) \/ \E j \in DOMAIN history : history[j] = [date |-> c, user |-> d]

\* A field with up to three updates is complete, and writing the record works.
CompleteThroughThreeUpdates ==
  Len(history) \in 1 .. 4 => /\ \A i \in DOMAIN fields : fields[i] = Complete(history)
                             /\ saved # "throws"

\* Once an edit has left a null in the chain no later edit removes it.
BrokenStaysBroken ==
  [][\A i \in DOMAIN fields : HasNull(fields[i]) => HasNull(fields'[i])]_vars

\* MarcUtil.java:1017, "builds the field 039", and :817, "converts the record to
\* a MARC string": what the one has built the other can write.
BuiltFieldCanBeWritten == saved # "throws"
==============================================================================
