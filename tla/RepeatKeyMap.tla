----------------------------- MODULE RepeatKeyMap -----------------------------
(***************************************************************************)
(* RepeatKeyMap.java: the list of key/value entries in which a MARC record *)
(* keeps its subfields, stored in an array that doubles when it fills.     *)
(*                                                                         *)
(* Nearly every operation allocates a fresh array, makes it the map's      *)
(* (nodes = new Node[n]) and only then copies the old one into it.  The    *)
(* copy stops half-way when it meets an entry it cannot compare: one whose *)
(* key is null, or a hole left by an earlier call that stopped.  putAll is *)
(* a loop over the array that its argument had when the loop started; when *)
(* the argument is the map itself, every iteration writes what a later one *)
(* reads, until a resize takes the array away from the map.                *)
(***************************************************************************)
EXTENDS Integers, Sequences, FiniteSets, FiniteSetsExt

CONSTANTS
  Keys,            \* the keys callers use; NullKey among them or not
  Values,
  NullKey,         \* Java's null as a key
  None,            \* an empty slot, and Java's null as a result
  Throws,          \* the call ends with a NullPointerException
  DEFAULT_LENGTH,  \* 8 in the code
  Indices,         \* occurrence numbers and positions that callers pass
  Sources,         \* arrays of other maps, the arguments of putAll
  MaxLength,       \* bound: no insertion starts that would make the map longer
  MaxUnion         \* bound: nor a putAll that would make it longer than this

ASSUME SizeAssumption  == DEFAULT_LENGTH \in Nat /\ DEFAULT_LENGTH > 0 /\ DEFAULT_LENGTH % 4 = 0
ASSUME IndexAssumption == Indices \subseteq Int /\ 0 \in Indices
ASSUME MarkAssumption  == None \notin Values /\ Throws \notin Values \cup {None} /\ None \notin Keys

Entry(k, v) == [key |-> k, value |-> v]
Entries == [key : Keys, value : Values]
Slots   == Entries \cup {None}

ASSUME NoneAssumption   == None \notin Entries
ASSUME SourceAssumption ==
  \A s \in Sources : DOMAIN s = 0 .. Cardinality(DOMAIN s) - 1 /\ s \in [DOMAIN s -> Slots]

VARIABLES
  nodes,     \* the array, [0 .. capacity-1 -> Slots]
  capacity,  \* nodes.length
  length,    \* the field of that name
  call,      \* the last call: operation, key and index
  ret,       \* what it returned
  mode,      \* "idle", or what a running putAll iterates over: the array that
             \* this map still uses ("self") or one that it does not ("array")
  source,    \* the array that a putAll in mode "array" iterates over
  next       \* the index at which that iteration stands

array  == <<nodes, capacity, length>>
looping == <<mode, source, next>>
vars   == <<nodes, capacity, length, call, ret, mode, source, next>>

Operations == {"new", "put", "putAfter", "putBefor", "putToIndex", "putAll", "remove",
               "removeIndex", "removeLastValue", "replace", "get"}

Call(op, k, n) == [op |-> op, key |-> k, index |-> n]

Init ==
  /\ nodes = [i \in 0 .. DEFAULT_LENGTH-1 |-> None]
  /\ capacity = DEFAULT_LENGTH
  /\ length = 0
  /\ call = Call("new", None, 0)
  /\ ret = None
  /\ mode = "idle" /\ source = None /\ next = 0

------------------------------------------------------------------------------
\* A slip that the invariants must notice: resizing when the quarter is used up.
FullTooLate == 4 * length = 3 * capacity

\* resize(): called first by everything that inserts, whether or not it then
\* inserts.  length+1 == nodes.length * 0.75f, in integers.
Full == 4 * (length+1) = 3 * capacity

ResizedCapacity == IF Full THEN 2 * capacity ELSE capacity

\* A slip: the loop over the old array ends one entry early.
ResizedShort ==
  IF Full THEN [i \in 0 .. ResizedCapacity-1 |-> IF i < length-1 THEN nodes[i] ELSE None]
          ELSE nodes

Resized ==
  IF Full THEN [i \in 0 .. ResizedCapacity-1 |-> IF i < length THEN nodes[i] ELSE None]
          ELSE nodes

------------------------------------------------------------------------------
\* Searching an array t.  node.key.equals(key) throws at a slot that is empty
\* or whose key is null: a loop over t stops there, or runs to length.
Unreadable(t, i) == t[i] = None \/ t[i].key = NullKey

ReadableBelow(t, i) == \A j \in 0 .. i-1 : ~ Unreadable(t, j)

Stop(t) == {i \in 0 .. length : ReadableBelow(t, i) /\ (i = length \/ Unreadable(t, i))}

\* A slip: counting the entry itself among those in front of it.
RankInclusive(t, k, i) == Cardinality({j \in 0 .. i : t[j].key = k})

Rank(t, k, i) == Cardinality({j \in 0 .. i-1 : t[j].key = k})

\* Where the n-th entry (from 0) with key k is: at most one place.
Occurrence(t, k, n) ==
  {i \in 0 .. length-1 : ReadableBelow(t, i+1) /\ t[i].key = k /\ Rank(t, k, i) = n}

\* Slips: emptying a slot without closing the gap; and not moving up what follows.
WithoutClosing(t, p, end) == [i \in DOMAIN t |-> IF i < end /\ i # p THEN t[i] ELSE None]

InsertedOver(t, p, e) ==
  [i \in DOMAIN t |-> IF i = p THEN e ELSE IF i < length THEN t[i] ELSE None]

\* What a loop that copies t into a new array of the same size has made of it
\* when it has passed the slots before end; the same without the entry at p;
\* and the whole of t with the entry e put at p, the others moved up.
Copied(t, end) == [i \in DOMAIN t |-> IF i < end THEN t[i] ELSE None]

Without(t, p, end) ==
  [i \in DOMAIN t |-> IF i < p THEN t[i] ELSE IF i < end - 1 THEN t[i+1] ELSE None]

Inserted(t, p, e) ==
  [i \in DOMAIN t |-> IF i < p THEN t[i]
                      ELSE IF i = p THEN e
                      ELSE IF i <= length THEN t[i-1] ELSE None]

------------------------------------------------------------------------------
\* The operations.  Each is one call that no other call interrupts: the class
\* is used from one thread.
Begin(op, k, n) == mode = "idle" /\ call' = Call(op, k, n) /\ UNCHANGED looping

AppendEntry(e) ==
  /\ nodes' = [Resized EXCEPT ![length] = e]
  /\ capacity' = ResizedCapacity
  /\ length' = length + 1

Put(k, v) ==
  /\ Begin("put", k, 0)
  /\ AppendEntry(Entry(k, v))
  /\ ret' = v

InsertAtSlot(p, k, v) ==
  /\ nodes' = Inserted(Resized, p, Entry(k, v))
  /\ length' = length + 1
  /\ ret' = v

\* A slip: swallowing the exception of a search that was stopped.
InsertNothingQuietly ==
  /\ \E b \in Stop(Resized) : nodes' = Copied(Resized, IF b < length THEN b+1 ELSE length)
  /\ ret' = None
  /\ length' = length

\* The search ran to the end, or stopped at a slot that it had just copied.
InsertNothing ==
  /\ \E b \in Stop(Resized) :
       /\ nodes' = Copied(Resized, IF b < length THEN b+1 ELSE length)
       /\ ret' = IF b < length THEN Throws ELSE None
  /\ length' = length

PutAfter(k, v, n) ==
  /\ Begin("putAfter", k, n)
  /\ capacity' = ResizedCapacity
  /\ \/ \E i \in Occurrence(Resized, k, n) : InsertAtSlot(i+1, k, v)
     \/ Occurrence(Resized, k, n) = {} /\ InsertNothing

PutBefor(k, v, n) ==
  /\ Begin("putBefor", k, n)
  /\ capacity' = ResizedCapacity
  /\ \/ \E i \in Occurrence(Resized, k, n) : InsertAtSlot(i, k, v)
     \/ Occurrence(Resized, k, n) = {} /\ InsertNothing

\* Compares no key, so nothing stops it.
PutToIndex(k, v, n) ==
  /\ Begin("putToIndex", None, n)
  /\ capacity' = ResizedCapacity
  /\ \/ n \in 0 .. length-1 /\ InsertAtSlot(n, k, v)
     \/ /\ n \notin 0 .. length-1
        /\ nodes' = Copied(Resized, length)
        /\ length' = length
        /\ ret' = None

\* Counts the occurrences of a key from 1.  length is decremented when the
\* entry is met, the copy goes on behind it and may stop there.
RemoveNth(k, n) ==
  /\ Begin("remove", k, n)
  /\ capacity' = capacity
  /\ \E b \in Stop(nodes) :
       \/ \E p \in Occurrence(nodes, k, n-1) :
            /\ nodes' = Without(nodes, p, b)
            /\ length' = length - 1
            /\ ret' = IF b < length THEN Throws ELSE nodes[p].value
       \/ /\ Occurrence(nodes, k, n-1) = {}
          /\ nodes' = Copied(nodes, b)
          /\ length' = length
          /\ ret' = IF b < length THEN Throws ELSE None

\* remove(Object) is remove(key, 0).
RemoveKey(k) == RemoveNth(k, 0)

\* Runs over the whole array; temp1[index].value throws at an empty slot.
RemoveIndex(n) ==
  LET p == IF n <= 0 THEN 0 ELSE n
  IN  /\ Begin("removeIndex", None, n)
      /\ capacity' = capacity
      /\ \/ /\ p < capacity /\ nodes[p] # None
            /\ nodes' = Without(nodes, p, capacity)
            /\ length' = length - 1
            /\ ret' = nodes[p].value
         \/ /\ p < capacity /\ nodes[p] = None
            /\ nodes' = Copied(nodes, p)
            /\ length' = length
            /\ ret' = Throws
         \/ /\ p >= capacity
            /\ nodes' = Copied(nodes, capacity)
            /\ length' = length
            /\ ret' = None

\* Slips: no test for an empty map; and only counting down, as remove does not.
RemoveLastUnchecked ==
  /\ Begin("removeLastValue", None, 0)
  /\ capacity' = capacity /\ length' = length - 1
  /\ nodes' = Copied(nodes, length-1)
  /\ ret' = IF length = 0 THEN None ELSE nodes[length-1].value

RemoveLastInPlace ==
  /\ Begin("removeLastValue", None, 0)
  /\ UNCHANGED <<nodes, capacity>>
  /\ length' = IF length = 0 THEN 0 ELSE length - 1
  /\ ret' = IF length = 0 THEN None ELSE nodes[length-1].value

RemoveLastValue ==
  /\ Begin("removeLastValue", None, 0)
  /\ capacity' = capacity
  /\ nodes' = Copied(nodes, length-1)
  /\ IF length = 0
       THEN length' = 0 /\ ret' = None
       ELSE /\ length' = length - 1
            /\ ret' = IF nodes[length-1] = None THEN Throws ELSE nodes[length-1].value

\* Writes in place and searches on: a slot that stops it may come after.
Replace(k, v, n) ==
  /\ Begin("replace", k, n)
  /\ \/ \E i \in Occurrence(nodes, k, n) : nodes' = [nodes EXCEPT ![i] = Entry(k, v)]
     \/ Occurrence(nodes, k, n) = {} /\ nodes' = nodes
  /\ \E b \in Stop(nodes) : ret' = IF b < length THEN Throws ELSE v
  /\ UNCHANGED <<capacity, length>>

\* get(key, n) returns at the entry it looks for, before any slot behind it.
Get(k, n) ==
  /\ Begin("get", k, n)
  /\ \/ \E i \in Occurrence(nodes, k, n) : ret' = nodes[i].value
     \/ /\ Occurrence(nodes, k, n) = {}
        /\ \E b \in Stop(nodes) : ret' = IF b < length THEN Throws ELSE None
  /\ UNCHANGED array

------------------------------------------------------------------------------
\* putAll(m): m.forEach(put).  for (node : nodes) takes m's array once, skips
\* its empty slots and calls put for the others.  call.index keeps the length
\* at the start.
StartPutAll == mode = "idle" /\ call' = Call("putAll", None, length) /\ ret' = None

PutAll(m) ==
  /\ StartPutAll
  /\ mode' = "array" /\ source' = m /\ next' = 0
  /\ UNCHANGED array

PutAllSelf ==
  /\ StartPutAll
  /\ mode' = "self" /\ source' = None /\ next' = 0
  /\ UNCHANGED array

Feed == IF mode = "self" THEN nodes ELSE source

\* A slip: skipping an empty slot without stepping past it.
PutAllNextStuck ==
  /\ mode # "idle" /\ next \in DOMAIN Feed /\ Feed[next] # None
  /\ next' = next + 1
  /\ AppendEntry(Feed[next])
  /\ IF mode = "self" /\ Full THEN mode' = "array" /\ source' = nodes
                              ELSE UNCHANGED <<mode, source>>
  /\ UNCHANGED <<call, ret>>

\* One iteration.  A put that resizes leaves the old array to the loop.
PutAllNext ==
  /\ mode # "idle" /\ next \in DOMAIN Feed
  /\ next' = next + 1
  /\ \/ Feed[next] = None /\ UNCHANGED <<nodes, capacity, length, mode, source>>
     \/ /\ Feed[next] # None
        /\ AppendEntry(Feed[next])
        /\ IF mode = "self" /\ Full THEN mode' = "array" /\ source' = nodes
                                    ELSE UNCHANGED <<mode, source>>
  /\ UNCHANGED <<call, ret>>

PutAllEnd ==
  /\ mode # "idle" /\ next \notin DOMAIN Feed
  /\ mode' = "idle" /\ source' = None /\ next' = 0
  /\ UNCHANGED <<nodes, capacity, length, call, ret>>

------------------------------------------------------------------------------
\* The bound on length: how long the map can be when the call returns.
Longest(m) == length + Cardinality({i \in DOMAIN m : m[i] # None})

LongestSelf == IF length = 0 THEN 0 ELSE length + (3 * capacity) \div 4 - 1

Insertion ==
  /\ length < MaxLength
  /\ \E k \in Keys, v \in Values :
       \/ Put(k, v)
       \/ \E n \in Indices : PutAfter(k, v, n) \/ PutBefor(k, v, n) \/ PutToIndex(k, v, n)

Removal ==
  \/ \E k \in Keys : RemoveKey(k) \/ \E n \in Indices : RemoveNth(k, n)
  \/ \E n \in Indices : RemoveIndex(n)
  \/ RemoveLastValue

Lookup == \E k \in Keys, n \in Indices : Get(k, n) \/ \E v \in Values : Replace(k, v, n)

Union ==
  \/ \E m \in Sources : Longest(m) <= MaxUnion /\ PutAll(m)
  \/ LongestSelf <= MaxUnion /\ PutAllSelf
  \/ PutAllNext \/ PutAllEnd

Next == Insertion \/ Removal \/ Lookup \/ Union

\* A putAll that has started goes on: nothing blocks the thread that runs it.
Fairness == WF_vars(PutAllNext \/ PutAllEnd)

Spec == Init /\ [][Next]_vars /\ Fairness

------------------------------------------------------------------------------
\* Properties.

\* The shape of the state: an array of capacity slots, a length inside it, and
\* the iteration of a putAll (if any) over an array of slots.
TypeOK ==
  /\ capacity \in Nat /\ capacity > 0 /\ capacity % 4 = 0
  /\ nodes \in [0 .. capacity-1 -> Slots]
  /\ length \in 0 .. capacity-1
  /\ call \in [op : Operations, key : Keys \cup {None}, index : Int]
  /\ ret \in Values \cup {None, Throws}
  /\ mode \in {"idle", "self", "array"} /\ next \in Nat
  /\ mode = "array" => source \in [DOMAIN source -> Slots]

\* resize() tests for one exact length (==): were a call ever to step over it,
\* the array would never grow again and an insertion would overrun it.  After
\* every call at least a quarter of the slots is free, one more than needed.
RoomForInsert == 4 * (length + 1) <= 3 * capacity

\* forEach, and with it putAll, visits the whole array and not its first length
\* slots: an entry left behind length by a removal would come back to life.
NoStaleSlots == \A i \in 0 .. capacity-1 : i >= length => nodes[i] = None

\* No call leaves a hole below length (every loop but forEach dereferences what
\* it finds there), as long as no key is null.
Packed == \A i \in 0 .. length-1 : nodes[i] # None

\* putAll appends the entries of its argument in their order; for m.putAll(m)
\* what it has read is what is still there, through any number of resizes.
Fed == {i \in DOMAIN Feed : i < next /\ Feed[i] # None}

PutAllInOrder ==
  mode # "idle" =>
    /\ length = call.index + Cardinality(Fed)
    /\ \A i \in Fed : nodes[call.index + Cardinality({j \in Fed : j < i})] = Feed[i]

\* Every putAll returns, m.putAll(m) too, although it reads what it writes.
PutAllReturns == mode # "idle" ~> mode = "idle"

\* With null keys a call may lose entries, but not those in front of the first
\* null key or hole: they stay where they are or move by one place together with
\* all behind them, and at most one of them goes, the one removed or replaced.
Filled == Cardinality({i \in 0 .. capacity-1 : nodes[i] # None})

Removals == {"remove", "removeIndex", "removeLastValue"}

KeptBelow(p) == \A i \in 0 .. p-1 : nodes'[i] = nodes[i]

KeptBehind(p, b) ==
  \/ \A i \in p .. b-1 : nodes'[i+1] = nodes[i]
  \/ call'.op = "replace" /\ \A i \in p+1 .. b-1 : nodes'[i] = nodes[i]
  \/ call'.op \in Removals /\ \A i \in p+1 .. b-1 : nodes'[i-1] = nodes[i]

PrefixSurvives ==
  [][\A b \in Stop(nodes) : \E p \in 0 .. b : KeptBelow(p) /\ KeptBehind(p, b)]_vars

\* And a call never loses more than one entry without throwing.
LossIsReported == [][Filled' < Filled - 1 => ret' = Throws]_vars

\* The entries as a list: what callers see of the array.
Multimap ==
  INSTANCE OrderedMultimap WITH list <- [i \in 1 .. length |-> nodes[i-1]]

\* Without null keys the array implements the list of entries.
ImplementsMultimap == Multimap!MMSpec
==============================================================================
