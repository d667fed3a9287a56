--------------------------- MODULE OrderedMultimap ---------------------------
(***************************************************************************)
(* What RepeatKeyMap promises to its callers: a list of key/value entries  *)
(* in which a key may occur several times.  Entries keep the order of      *)
(* insertion, an insertion or a removal addresses one occurrence of a key, *)
(* and every other entry stays where it is relative to its neighbours.     *)
(*                                                                         *)
(* The module says nothing of arrays, capacities or copying: RepeatKeyMap  *)
(* implements it (RepeatKeyMap!ImplementsMultimap).                        *)
(*                                                                         *)
(* call names the last call and the occurrence it addressed, ret is what   *)
(* the call returned (None is Java's null, Throws an exception).           *)
(***************************************************************************)
EXTENDS Integers, Sequences, FiniteSets, SequencesExt

CONSTANTS Keys, Values, Indices, None, Throws

VARIABLES list, call, ret

mmvars == <<list, call, ret>>

Entry(k, v) == [key |-> k, value |-> v]

Call(op, k, n) == [op |-> op, key |-> k, index |-> n]

\* How many entries of s before position p have key k.
Rank(s, k, p) == Cardinality({q \in 1 .. p-1 : s[q].key = k})

\* The position of the entry with key k that n entries with key k precede:
\* a set with one element, or none when there are at most n such entries.
Occurrence(s, k, n) == {p \in 1 .. Len(s) : s[p].key = k /\ Rank(s, k, p) = n}

\* A call that finds no entry to work on changes nothing.
Miss(r) == list' = list /\ ret' = r

MMInit == list = << >> /\ call = Call("new", None, 0) /\ ret = None

Put(k, v) ==
  /\ call' = Call("put", k, 0)
  /\ list' = Append(list, Entry(k, v)) /\ ret' = v

PutAfter(k, v, n) ==
  /\ call' = Call("putAfter", k, n)
  /\ \/ \E p \in Occurrence(list, k, n) :
           list' = InsertAt(list, p+1, Entry(k, v)) /\ ret' = v
     \/ Occurrence(list, k, n) = {} /\ Miss(None)

PutBefor(k, v, n) ==
  /\ call' = Call("putBefor", k, n)
  /\ \/ \E p \in Occurrence(list, k, n) :
           list' = InsertAt(list, p, Entry(k, v)) /\ ret' = v
     \/ Occurrence(list, k, n) = {} /\ Miss(None)

\* Positions count from 0; a position that no entry has, the end included,
\* inserts nothing.
PutToIndex(k, v, i) ==
  /\ call' = Call("putToIndex", None, i)
  /\ \/ i \in 0 .. Len(list)-1 /\ list' = InsertAt(list, i+1, Entry(k, v)) /\ ret' = v
     \/ i \notin 0 .. Len(list)-1 /\ Miss(None)

\* Unlike the other calls, remove counts the occurrences of a key from 1.
RemoveNth(k, n) ==
  /\ call' = Call("remove", k, n)
  /\ \/ \E p \in Occurrence(list, k, n-1) :
           list' = RemoveAt(list, p) /\ ret' = list[p].value
     \/ Occurrence(list, k, n-1) = {} /\ Miss(None)

RemoveIndex(i) ==
  /\ call' = Call("removeIndex", None, i)
  /\ LET p == IF i <= 0 THEN 1 ELSE i+1
     IN  \/ p \in 1 .. Len(list) /\ list' = RemoveAt(list, p) /\ ret' = list[p].value
         \/ p \notin 1 .. Len(list) /\ \E r \in {None, Throws} : Miss(r)

RemoveLastValue ==
  /\ call' = Call("removeLastValue", None, 0)
  /\ \/ list # << >> /\ list' = RemoveAt(list, Len(list)) /\ ret' = list[Len(list)].value
     \/ list = << >> /\ Miss(None)

Get(k, n) ==
  /\ call' = Call("get", k, n)
  /\ \/ \E p \in Occurrence(list, k, n) : Miss(list[p].value)
     \/ Occurrence(list, k, n) = {} /\ Miss(None)

Replace(k, v, n) ==
  /\ call' = Call("replace", k, n)
  /\ ret' = v
  /\ \/ \E p \in Occurrence(list, k, n) : list' = [list EXCEPT ![p] = Entry(k, v)]
     \/ Occurrence(list, k, n) = {} /\ list' = list

\* putAll appends entry by entry; it ends when the next call starts.
PutAll == call' = Call("putAll", None, Len(list)) /\ Miss(None)

PutAllNext ==
  /\ call.op = "putAll"
  /\ \E k \in Keys, v \in Values : list' = Append(list, Entry(k, v))
  /\ UNCHANGED <<call, ret>>

MMNext ==
  \/ \E k \in Keys, v \in Values :
       \/ Put(k, v)
       \/ \E n \in Indices : PutAfter(k, v, n) \/ PutBefor(k, v, n)
                           \/ PutToIndex(k, v, n) \/ Replace(k, v, n)
  \/ \E n \in Indices : RemoveIndex(n) \/ \E k \in Keys : RemoveNth(k, n) \/ Get(k, n)
  \/ RemoveLastValue \/ PutAll \/ PutAllNext

MMSpec == MMInit /\ [][MMNext]_mmvars
==============================================================================
