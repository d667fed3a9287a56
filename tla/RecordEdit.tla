------------------------------ MODULE RecordEdit ------------------------------
(***************************************************************************)
(* Editing records: addfiled, replace, replace with an index, build039,    *)
(* deleteSubfiled and flush008 of MarcUtil.                                *)
(*                                                                         *)
(* Fields are objects that a program may put into several records, and     *)
(* the subfields of a field are an object again: replace gives the fields  *)
(* with the argument's tag the very map that the argument has, so that     *)
(* from then on they share it.  What a change to one of them reaches       *)
(* depends on all the calls before it.                                     *)
(*                                                                         *)
(* Of control fields there is the 008, of which only the width of what     *)
(* stands in front of position 6 on counts.                                *)
(***************************************************************************)
EXTENDS Integers, Sequences, FiniteSets, FiniteSetsExt, SequencesExt

CONSTANTS
  Records,
  With008,     \* those that have a field 008
  Tags, T039,
  Contents,    \* what a map of subfields may hold
  Wrong,       \* an argument that is no field
  Nil,         \* an object that does not exist yet
  Positions,   \* the indices that callers pass
  MaxArguments,\* bound: arguments of one call
  MaxFields,   \* bound: field objects
  MaxLength,   \* bound: data fields of a record
  MaxHead      \* bound: characters in front of the rest of an 008

ASSUME RecordAssumption == With008 \subseteq Records /\ Nil \notin Records
ASSUME TagAssumption   == T039 \in Tags /\ Nil \notin [tag : Tags, map : Nat]
ASSUME WrongAssumption == Wrong \notin 1 .. MaxFields
ASSUME BoundAssumption == {MaxArguments, MaxFields, MaxLength, MaxHead} \subseteq Nat

Fields == 1 .. MaxFields
Maps   == 1 .. MaxFields + 1

VARIABLES
  field,    \* the field objects: tag and map of subfields
  content,  \* what the maps hold
  data,     \* the data fields of each record
  head,     \* the characters in front of what follows the date in each 008
  caller    \* the record of the last call, or Nil: the program itself

vars == <<field, content, data, head, caller>>

Init ==
  /\ field = [f \in Fields |-> Nil]
  /\ content \in {[m \in Maps |-> c] : c \in Contents}
  /\ data = [r \in Records |-> << >>]
  /\ head = [r \in With008 |-> 6]
  /\ caller = Nil

Created == {f \in Fields : field[f] # Nil}

\* The next object and the next map to be allocated.
FreshField == Min(Fields \ Created)
FreshMap   == Min(Maps \ {field[f].map : f \in Created})

Having(r, t) == {f \in ToSet(data[r]) : field[f].tag = t}

------------------------------------------------------------------------------
\* The program makes a field of its own, or changes the subfields of one.
NewField(t, c) ==
  /\ Created # Fields
  /\ field' = [field EXCEPT ![FreshField] = [tag |-> t, map |-> FreshMap]]
  /\ content' = [content EXCEPT ![FreshMap] = c]
  /\ UNCHANGED <<data, head>>

ChangeSubfields(f, c) ==
  /\ content' = [content EXCEPT ![field[f].map] = c]
  /\ UNCHANGED <<field, data, head>>

------------------------------------------------------------------------------
\* addfiled and replace take any number of arguments and throw at the first that
\* is no field, when those before it have been dealt with.
Arguments == UNION {[1 .. n -> Created \cup {Wrong}] : n \in 1 .. MaxArguments}

Accepted(args) ==
  LET wrong == {i \in DOMAIN args : args[i] = Wrong}
  IN  IF wrong = {} THEN args ELSE SubSeq(args, 1, Min(wrong) - 1)

\* A slip: adding an argument before its class is known.
AddFiledUnseen(r, args) ==
  /\ Len(data[r]) + Len(args) <= MaxLength
  /\ data' = [data EXCEPT ![r] = @ \o args]
  /\ UNCHANGED <<field, content, head>>

AddFiled(r, args) ==
  /\ Len(data[r]) + Len(args) <= MaxLength
  /\ data' = [data EXCEPT ![r] = @ \o Accepted(args)]
  /\ UNCHANGED <<field, content, head>>

\* A slip: replacing whatever the tag.
GivenMapToAll(fs, r, a) ==
  [f \in Fields |-> IF f \in ToSet(data[r]) THEN [fs[f] EXCEPT !.map = fs[a].map] ELSE fs[f]]

\* The fields fs when those of the record r with the tag of a have got its map.
GivenMap(fs, r, a) ==
  [f \in Fields |-> IF f \in ToSet(data[r]) /\ fs[f].tag = fs[a].tag
                      THEN [fs[f] EXCEPT !.map = fs[a].map] ELSE fs[f]]

\* The same for one argument after the other.
GivenMaps(fs, r, as) ==
  LET after[n \in 0 .. Len(as)] == IF n = 0 THEN fs ELSE GivenMap(after[n-1], r, as[n])
  IN  after[Len(as)]

Replace(r, args) ==
  /\ field' = GivenMaps(field, r, Accepted(args))
  /\ UNCHANGED <<content, data, head>>

\* replace with an index counts the fields with the tag from 1, and takes what
\* is no index for 1.
ReplaceNth(r, a, n) ==
  LET index == IF n <= 0 THEN 1 ELSE n
      matches(p) == Cardinality({q \in 1 .. p : field[data[r][q]].tag = field[a].tag})
      nth == {data[r][p] : p \in {p \in DOMAIN data[r] : /\ field[data[r][p]].tag = field[a].tag
                                                          /\ matches(p) = index}}
  IN  /\ field' = [f \in Fields |-> IF f \in nth THEN [field[f] EXCEPT !.map = field[a].map]
                                                 ELSE field[f]]
      /\ UNCHANGED <<content, data, head>>

\* A slip: writing the new history into the map that the field has.
Build039InPlace(r, c) ==
  /\ Having(r, T039) # {}
  /\ content' = [m \in Maps |-> IF \E f \in Having(r, T039) : field[f].map = m THEN c ELSE content[m]]
  /\ UNCHANGED <<field, data, head>>

\* build039: a new map for all the 039 fields, or a new field.
Build039(r, c) ==
  /\ content' = [content EXCEPT ![FreshMap] = c]
  /\ \/ /\ Having(r, T039) # {}
        /\ field' = [f \in Fields |-> IF f \in Having(r, T039)
                                        THEN [field[f] EXCEPT !.map = FreshMap] ELSE field[f]]
        /\ UNCHANGED data
     \/ /\ Having(r, T039) = {}
        /\ Created # Fields /\ Len(data[r]) < MaxLength
        /\ field' = [field EXCEPT ![FreshField] = [tag |-> T039, map |-> FreshMap]]
        /\ data' = [data EXCEPT ![r] = Append(@, FreshField)]
  /\ UNCHANGED head

\* A slip: not stepping back after a removal, so that the next field is skipped.
RoundSkipping(t, i, tags) ==
  IF i > Len(t) THEN <<t, i>>
  ELSE IF field[t[i]].tag \in tags THEN <<RemoveAt(t, i), i+1>>
  ELSE <<t, i+1>>

\* A round of the loop of deleteSubfiled at index i of the list t: it removes from
\* the list it walks along, and stays where it is when it has.
DeletionRound(t, i, tags) ==
  IF i > Len(t) THEN <<t, i>>
  ELSE IF field[t[i]].tag \in tags THEN <<RemoveAt(t, i), i>>
  ELSE <<t, i+1>>

Deleted(s, tags) ==
  LET loop[n \in 0 .. Len(s)] ==
        IF n = 0 THEN <<s, 1>> ELSE DeletionRound(loop[n-1][1], loop[n-1][2], tags)
  IN  loop[Len(s)][1]

DeleteSubfiled(r, tags) ==
  /\ data' = [data EXCEPT ![r] = Deleted(@, tags)]
  /\ UNCHANGED <<field, content, head>>

------------------------------------------------------------------------------
\* A slip: one D in the pattern, which a day below 10 does not fill.
DateWidthShort(digits) == 4 + digits

\* A date as "YYMMDD" prints it.  DD is the day of the year, in as many digits as
\* it has, at least two.
DateWidth(digits) == 4 + (IF digits < 2 THEN 2 ELSE digits)

\* flush008 puts the date of today in the place of the first 6 characters, if
\* there is an 008.
Flush008(r) ==
  /\ r \in With008
  /\ \E digits \in 1 .. 3 :
       /\ head[r] - 6 + DateWidth(digits) <= MaxHead
       /\ head' = [head EXCEPT ![r] = @ - 6 + DateWidth(digits)]
  /\ UNCHANGED <<field, content, data>>

\* replace with an 008 that the program has made.
Replace008(r) ==
  /\ r \in With008
  /\ head' = [head EXCEPT ![r] = 6]
  /\ UNCHANGED <<field, content, data>>

------------------------------------------------------------------------------
Call(r) ==
  \/ \E args \in Arguments : AddFiled(r, args) \/ Replace(r, args)
  \/ \E a \in Created, n \in Positions : ReplaceNth(r, a, n)
  \/ \E c \in Contents : Build039(r, c)
  \/ \E tags \in SUBSET Tags \ {{}} : DeleteSubfiled(r, tags)
  \/ Flush008(r) \/ Replace008(r)

Program == \E c \in Contents : \/ \E t \in Tags : NewField(t, c)
                               \/ \E f \in Created : ChangeSubfields(f, c)

Next == \/ Program /\ caller' = Nil
        \/ \E r \in Records : Call(r) /\ caller' = r

Spec == Init /\ [][Next]_vars

------------------------------------------------------------------------------
\* Properties.

\* The shape of the state.
TypeOK ==
  /\ field \in [Fields -> [tag : Tags, map : Maps] \cup {Nil}]
  /\ content \in [Maps -> Contents]
  /\ \A r \in Records : ToSet(data[r]) \subseteq Created /\ Len(data[r]) <= MaxLength
  /\ head \in [With008 -> Nat] /\ caller \in Records \cup {Nil}

\* Whatever has been replaced by what: fields that share their subfields have the
\* same tag.  A change to one field shows in fields with its tag only.
SharedWithinTag ==
  \A f, g \in Created : field[f].map = field[g].map => field[f].tag = field[g].tag

\* What a record says: the tags and subfields of its fields.
View(r) == [i \in DOMAIN data[r] |-> <<field[data[r][i]].tag, content[field[data[r][i]].map]>>]

\* A call on one record changes what another one says only if they have a field
\* object in common.  Maps in common, which replace may have left, do not matter:
\* no call writes to a map that exists.
OthersUnchanged ==
  [][\A r, q \in Records :
       (caller' = r /\ r # q /\ ToSet(data[r]) \cap ToSet(data[q]) = {}) => View(q)' = View(q)]_vars

\* After build039 the history of the record is its own, whatever it shared before:
\* changing it changes no field that is not the record's.
HistoryIsOwn ==
  [][\A r \in Records :
       (caller' = r /\ \E c \in Contents : Build039(r, c)) =>
         \A f \in Having(r, T039)', g \in Created' \ ToSet(data'[r]) : field'[f].map # field'[g].map]_vars

\* deleteSubfiled leaves no field with one of the tags, neighbours included, and
\* all the others in their order: each one stands where the number of those that
\* stay up to it says, and nothing else is left.
DeletesExactly ==
  [][\A r \in Records, tags \in SUBSET Tags \ {{}} :
       (caller' = r /\ DeleteSubfiled(r, tags)) =>
         LET stay(n) == {i \in 1 .. n : field[data[r][i]].tag \notin tags}
         IN  /\ Len(data'[r]) = Cardinality(stay(Len(data[r])))
             /\ \A i \in stay(Len(data[r])) : data'[r][Cardinality(stay(i))] = data[r][i]]_vars

\* However often the date is refreshed, what follows it in the 008 is never cut.
RestSurvives == \A r \in With008 : head[r] >= 6

\* MarcUtil.java:1109, "refreshes the field 008": a refreshed 008 has the other
\* elements where analysis008 reads them, from position 6 on.
RestStaysInPlace == \A r \in With008 : head[r] = 6
==============================================================================
