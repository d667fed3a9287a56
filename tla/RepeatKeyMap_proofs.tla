------------------------- MODULE RepeatKeyMap_proofs -------------------------
(***************************************************************************)
(* Theorems about RepeatKeyMap, for every set of keys and values, every    *)
(* initial array length that is a multiple of 4 and every bound: a call    *)
(* inserts inside the array; putAll keeps the order of its argument; a     *)
(* null key can make a call throw half-way through a copy, which bounds    *)
(* what is lost; without null the array implements OrderedMultimap.        *)
(***************************************************************************)
EXTENDS RepeatKeyMap, FiniteSetTheorems, SequenceTheorems, TLAPS

\* The inductive invariant.  RoomForInsert keeps every insertion inside the
\* array, NoStaleSlots keeps length above the entries that removals take away:
\* neither is inductive without the other and the shape of the state.
Inv == TypeOK /\ RoomForInsert /\ NoStaleSlots

\* What holds of an array t of n slots that an insertion is about to use.
Ready(t, n) ==
  /\ n \in Nat /\ n > 0 /\ n % 4 = 0
  /\ t \in [0 .. n-1 -> Slots]
  /\ 4 * (length + 2) <= 3 * n
  /\ \A i \in 0 .. n-1 : i >= length => t[i] = None

\* resize() leaves room for the insertion that follows it, whatever the length.
LEMMA ResizeMakesRoom ==
  ASSUME Inv
  PROVE  /\ Ready(Resized, ResizedCapacity)
         /\ length \in Nat
         /\ \A i \in 0 .. length-1 : i \in 0 .. ResizedCapacity-1 /\ i \in 0 .. capacity-1 /\ Resized[i] = nodes[i]
<1>1. /\ capacity \in Nat /\ capacity > 0 /\ capacity % 4 = 0
      /\ nodes \in [0 .. capacity-1 -> Slots]
      /\ length \in Nat /\ length < capacity
      /\ 4 * (length + 1) <= 3 * capacity
      /\ \A i \in 0 .. capacity-1 : i >= length => nodes[i] = None
  BY DEF Inv, TypeOK, RoomForInsert, NoStaleSlots
<1>2. None \in Slots
  BY DEF Slots
<1>3. CASE Full
  <2>1. ResizedCapacity = 2 * capacity /\ (2 * capacity) % 4 = 0 /\ 4 * (length + 1) = 3 * capacity
    BY <1>1, <1>3 DEF ResizedCapacity, Full
  <2>2. Resized = [i \in 0 .. 2 * capacity - 1 |-> IF i < length THEN nodes[i] ELSE None]
    BY <1>3, <2>1 DEF Resized
  <2>3. Resized \in [0 .. 2 * capacity - 1 -> Slots]
    BY <1>1, <1>2, <2>2
  <2> QED
    BY <1>1, <2>1, <2>2, <2>3, SMTT(30) DEF Ready
<1>4. CASE ~ Full
  <2>1. ResizedCapacity = capacity /\ Resized = nodes
    BY <1>4 DEF ResizedCapacity, Resized
  <2>2. 4 * (length + 2) <= 3 * capacity
    BY <1>1, <1>4 DEF Full
  <2> QED
    BY <1>1, <2>1, <2>2 DEF Ready
<1> QED
  BY <1>3, <1>4

\* Copying into a new array of the same size yields slots, and none behind end.
LEMMA CopiedArray ==
  ASSUME NEW n \in Nat, NEW t \in [0 .. n-1 -> Slots], NEW end \in Int
  PROVE  /\ Copied(t, end) \in [0 .. n-1 -> Slots]
         /\ \A i \in 0 .. n-1 : i >= end => Copied(t, end)[i] = None
  BY DEF Copied, Slots

\* Leaving an entry out shortens the copy by one slot.
LEMMA WithoutArray ==
  ASSUME NEW n \in Nat, NEW t \in [0 .. n-1 -> Slots],
         NEW end \in 0 .. n, NEW p \in 0 .. end-1
  PROVE  /\ Without(t, p, end) \in [0 .. n-1 -> Slots]
         /\ \A i \in 0 .. n-1 : i >= end - 1 => Without(t, p, end)[i] = None
<1>1. \A i \in 0 .. n-1 : i >= p /\ i < end - 1 => t[i+1] \in Slots
  OBVIOUS
<1>2. None \in Slots
  BY DEF Slots
<1> QED
  BY <1>1, <1>2 DEF Without

\* Putting an entry among the first length slots, or behind them, fills at most
\* the slot at length.
LEMMA InsertedArray ==
  ASSUME NEW n, NEW t, Ready(t, n), length \in Nat,
         NEW p \in 0 .. length, NEW e \in Entries
  PROVE  /\ Inserted(t, p, e) \in [0 .. n-1 -> Slots]
         /\ \A i \in 0 .. n-1 : i >= length + 1 => Inserted(t, p, e)[i] = None
<1>1. n \in Nat /\ t \in [0 .. n-1 -> Slots]
  BY DEF Ready
<1>2. \A i \in 0 .. n-1 : i > p => t[i-1] \in Slots
  BY <1>1
<1>3. None \in Slots /\ e \in Slots
  BY DEF Slots
<1> QED
  BY <1>1, <1>2, <1>3 DEF Inserted

\* The parts of the invariant that the array makes up, for the next state.
ArrayInv ==
  /\ capacity \in Nat /\ capacity > 0 /\ capacity % 4 = 0
  /\ nodes \in [0 .. capacity-1 -> Slots]
  /\ length \in 0 .. capacity-1
  /\ RoomForInsert
  /\ NoStaleSlots

LoopInv ==
  /\ mode \in {"idle", "self", "array"} /\ next \in Nat
  /\ mode = "array" => source \in [DOMAIN source -> Slots]

\* An array of the same size with no more entries keeps the invariant.
LEMMA Shrinks ==
  ASSUME Inv, capacity' = capacity, nodes' \in [0 .. capacity-1 -> Slots],
         length' \in 0 .. length,
         \A i \in 0 .. capacity-1 : i >= length' => nodes'[i] = None
  PROVE  ArrayInv'
  BY DEF Inv, TypeOK, ArrayInv, RoomForInsert, NoStaleSlots

\* A resized array with at most one entry more keeps it, too.
LEMMA Grows ==
  ASSUME Inv, capacity' = ResizedCapacity,
         nodes' \in [0 .. ResizedCapacity-1 -> Slots],
         length' \in {length, length + 1},
         \A i \in 0 .. ResizedCapacity-1 : i >= length' => nodes'[i] = None
  PROVE  ArrayInv'
  BY ResizeMakesRoom DEF Ready, ArrayInv, RoomForInsert, NoStaleSlots

\* An empty map satisfies the invariant.
LEMMA InitInv == Init => Inv
<1> SUFFICES ASSUME Init PROVE Inv
  OBVIOUS
<1>1. capacity \in Nat /\ capacity > 0 /\ capacity % 4 = 0 /\ capacity >= 4
  BY SizeAssumption DEF Init
<1>2. nodes \in [0 .. capacity-1 -> Slots] /\ length = 0
  BY <1>1 DEF Init, Slots
<1>3. /\ call \in [op : Operations, key : Keys \cup {None}, index : Int]
      /\ ret \in Values \cup {None, Throws}
  BY DEF Init, Call, Operations
<1>4. RoomForInsert /\ NoStaleSlots
  BY <1>1, <1>2 DEF RoomForInsert, NoStaleSlots, Init
<1> QED
  BY <1>1, <1>2, <1>3, <1>4 DEF Inv, TypeOK, Init

\* Every call that starts is one of the operations, on a key and an index.
LEMMA CallType ==
  ASSUME NEW op \in Operations, NEW k \in Keys \cup {None}, NEW n \in Int,
         LoopInv, Begin(op, k, n)
  PROVE  LoopInv' /\ call' \in [op : Operations, key : Keys \cup {None}, index : Int]
  BY DEF Begin, Call, LoopInv, looping

\* What an occurrence and a stop are, for the steps below.
LEMMA OccurrenceFacts ==
  ASSUME NEW t, NEW k, NEW n, NEW i \in Occurrence(t, k, n), length \in Nat
  PROVE  /\ i \in 0 .. length-1 /\ t[i] # None
         /\ \A b \in Stop(t) : b > i
  BY DEF Occurrence, Stop, ReadableBelow, Unreadable

\* A slot that is not empty holds a value.
LEMMA ValueOf ==
  ASSUME NEW t, NEW i, t[i] \in Slots, t[i] # None
  PROVE  t[i].value \in Values
  BY DEF Slots, Entries

------------------------------------------------------------------------------
\* An insertion at an occurrence keeps the invariant.
LEMMA InsertAtSlotStep ==
  ASSUME Inv, NEW p \in 0 .. length, NEW k \in Keys, NEW v \in Values,
         capacity' = ResizedCapacity, InsertAtSlot(p, k, v)
  PROVE  ArrayInv' /\ ret' \in Values \cup {None, Throws}
<1>1. Entry(k, v) \in Entries
  BY DEF Entry, Entries
<1>2. Ready(Resized, ResizedCapacity) /\ length \in Nat
  BY ResizeMakesRoom
<1>3. /\ nodes' \in [0 .. ResizedCapacity-1 -> Slots]
      /\ \A i \in 0 .. ResizedCapacity-1 : i >= length + 1 => nodes'[i] = None
  BY <1>1, <1>2, InsertedArray DEF InsertAtSlot
<1>4. ArrayInv'
  BY <1>3, Grows DEF InsertAtSlot
<1> QED
  BY <1>4 DEF InsertAtSlot

\* A call of put, putBefor or putToIndex that finds no place keeps the invariant, stopped or not.
LEMMA InsertNothingStep ==
  ASSUME Inv, capacity' = ResizedCapacity, InsertNothing
  PROVE  ArrayInv' /\ ret' \in Values \cup {None, Throws}
<1>1. PICK b \in Stop(Resized) :
        /\ nodes' = Copied(Resized, IF b < length THEN b+1 ELSE length)
        /\ ret' = IF b < length THEN Throws ELSE None
  BY DEF InsertNothing
<1> DEFINE end == IF b < length THEN b+1 ELSE length
<1>2. Ready(Resized, ResizedCapacity) /\ length \in Nat /\ length' = length
  BY ResizeMakesRoom DEF InsertNothing
<1>3. end \in 0 .. length
  BY <1>2 DEF Stop
<1>4. /\ nodes' \in [0 .. ResizedCapacity-1 -> Slots]
      /\ \A i \in 0 .. ResizedCapacity-1 : i >= end => nodes'[i] = None
  BY <1>1, <1>2, <1>3, CopiedArray DEF Ready
<1>5. \A i \in 0 .. ResizedCapacity-1 : i >= length' => nodes'[i] = None
  BY <1>2, <1>3, <1>4 DEF Ready
<1>6. ArrayInv'
  BY <1>2, <1>4, <1>5, Grows
<1> QED
  BY <1>1, <1>6

\* put appends within the array.
LEMMA AppendStep ==
  ASSUME Inv, NEW e \in Entries, AppendEntry(e)
  PROVE  ArrayInv'
<1>1. Ready(Resized, ResizedCapacity) /\ length \in Nat
  BY ResizeMakesRoom
<1>2. e \in Slots
  BY DEF Slots
<1>3. /\ nodes' \in [0 .. ResizedCapacity-1 -> Slots]
      /\ \A i \in 0 .. ResizedCapacity-1 : i >= length + 1 => nodes'[i] = None
  BY <1>1, <1>2 DEF AppendEntry, Ready
<1> QED
  BY <1>3, Grows DEF AppendEntry

\* Whatever inserts keeps the invariant.
LEMMA InsertionStep == Inv /\ Insertion => Inv'
<1> SUFFICES ASSUME Inv, NEW k \in Keys, NEW v \in Values, NEW n \in Indices,
                    \/ Put(k, v)
                    \/ PutAfter(k, v, n) \/ PutBefor(k, v, n) \/ PutToIndex(k, v, n)
             PROVE  Inv'
  BY IndexAssumption DEF Insertion
<1>1. LoopInv /\ length \in Nat /\ n \in Int
  BY IndexAssumption DEF Inv, TypeOK, LoopInv
<1>2. ArrayInv' /\ ret' \in Values \cup {None, Throws}
  <2>1. CASE Put(k, v)
    <3>1. Entry(k, v) \in Entries
      BY DEF Entry, Entries
    <3> QED
      BY <2>1, <3>1, AppendStep DEF Put
  <2>2. CASE PutAfter(k, v, n)
    <3>1. CASE \E i \in Occurrence(Resized, k, n) : InsertAtSlot(i+1, k, v)
      <4>1. PICK i \in Occurrence(Resized, k, n) : InsertAtSlot(i+1, k, v)
        BY <3>1
      <4>2. i+1 \in 0 .. length
        BY <1>1 DEF Occurrence
      <4> QED
        BY <2>2, <4>1, <4>2, InsertAtSlotStep DEF PutAfter
    <3> QED
      BY <2>2, <3>1, InsertNothingStep DEF PutAfter
  <2>3. CASE PutBefor(k, v, n)
    <3>1. CASE \E i \in Occurrence(Resized, k, n) : InsertAtSlot(i, k, v)
      <4>1. PICK i \in Occurrence(Resized, k, n) : InsertAtSlot(i, k, v)
        BY <3>1
      <4>2. i \in 0 .. length
        BY <1>1 DEF Occurrence
      <4> QED
        BY <2>3, <4>1, <4>2, InsertAtSlotStep DEF PutBefor
    <3> QED
      BY <2>3, <3>1, InsertNothingStep DEF PutBefor
  <2>4. CASE PutToIndex(k, v, n)
    <3>1. CASE n \in 0 .. length-1 /\ InsertAtSlot(n, k, v)
      BY <1>1, <2>4, <3>1, InsertAtSlotStep DEF PutToIndex
    <3>2. CASE /\ n \notin 0 .. length-1
               /\ nodes' = Copied(Resized, length) /\ length' = length /\ ret' = None
      <4>1. Ready(Resized, ResizedCapacity) /\ capacity' = ResizedCapacity
        BY <2>4, ResizeMakesRoom DEF PutToIndex
      <4>2. /\ nodes' \in [0 .. ResizedCapacity-1 -> Slots]
            /\ \A i \in 0 .. ResizedCapacity-1 : i >= length' => nodes'[i] = None
        BY <1>1, <3>2, <4>1, CopiedArray DEF Ready
      <4> QED
        BY <3>2, <4>1, <4>2, Grows
    <3> QED
      BY <2>4, <3>1, <3>2 DEF PutToIndex
  <2> QED
    BY <2>1, <2>2, <2>3, <2>4
<1>3. \E op \in Operations, key \in Keys \cup {None}, index \in Int : Begin(op, key, index)
  BY <1>1 DEF Put, PutAfter, PutBefor, PutToIndex, Operations
<1>4. LoopInv' /\ call' \in [op : Operations, key : Keys \cup {None}, index : Int]
  BY <1>1, <1>3, CallType
<1> QED
  BY <1>2, <1>4 DEF Inv, TypeOK, ArrayInv, LoopInv, RoomForInsert, NoStaleSlots

------------------------------------------------------------------------------
\* remove(key, index) keeps it, also when a null key stops the copy.
LEMMA RemoveNthStep ==
  ASSUME Inv, NEW k \in Keys, NEW n \in Int, RemoveNth(k, n)
  PROVE  ArrayInv' /\ ret' \in Values \cup {None, Throws}
<1>1. /\ capacity \in Nat /\ capacity' = capacity
      /\ nodes \in [0 .. capacity-1 -> Slots]
      /\ length \in Nat /\ length < capacity
  BY DEF RemoveNth, Inv, TypeOK
<1>2. PICK b \in Stop(nodes) :
       \/ \E p \in Occurrence(nodes, k, n-1) :
            /\ nodes' = Without(nodes, p, b)
            /\ length' = length - 1
            /\ ret' = IF b < length THEN Throws ELSE nodes[p].value
       \/ /\ nodes' = Copied(nodes, b)
          /\ length' = length
          /\ ret' = IF b < length THEN Throws ELSE None
  BY DEF RemoveNth
<1>3. b \in 0 .. length
  BY DEF Stop
<1>4. ASSUME NEW p \in Occurrence(nodes, k, n-1),
             nodes' = Without(nodes, p, b), length' = length - 1,
             ret' = IF b < length THEN Throws ELSE nodes[p].value
      PROVE  ArrayInv' /\ ret' \in Values \cup {None, Throws}
  <2>1. p \in 0 .. b-1 /\ p < length /\ nodes[p] # None
    BY <1>1, <1>3, OccurrenceFacts
  <2>2. /\ nodes' \in [0 .. capacity-1 -> Slots]
        /\ \A i \in 0 .. capacity-1 : i >= b - 1 => nodes'[i] = None
    BY <1>1, <1>3, <1>4, <2>1, WithoutArray
  <2>3. ArrayInv'
    BY <1>1, <1>3, <1>4, <2>1, <2>2, Shrinks
  <2>4. nodes[p].value \in Values
    BY <1>1, <2>1, ValueOf
  <2> QED
    BY <1>4, <2>3, <2>4
<1>5. ASSUME nodes' = Copied(nodes, b), length' = length,
             ret' = IF b < length THEN Throws ELSE None
      PROVE  ArrayInv' /\ ret' \in Values \cup {None, Throws}
  <2>1. /\ nodes' \in [0 .. capacity-1 -> Slots]
        /\ \A i \in 0 .. capacity-1 : i >= b => nodes'[i] = None
    BY <1>1, <1>3, <1>5, CopiedArray
  <2>2. ArrayInv'
    BY <1>1, <1>3, <1>5, <2>1, Shrinks
  <2> QED
    BY <1>5, <2>2
<1> QED
  BY <1>2, <1>4, <1>5

\* remove(index) keeps it, inside the entries, behind them and past the array.
LEMMA RemoveIndexStep ==
  ASSUME Inv, NEW n \in Int, RemoveIndex(n)
  PROVE  ArrayInv' /\ ret' \in Values \cup {None, Throws}
<1> DEFINE p == IF n <= 0 THEN 0 ELSE n
<1>1. /\ capacity \in Nat /\ capacity' = capacity
      /\ nodes \in [0 .. capacity-1 -> Slots]
      /\ length \in Nat /\ length < capacity
      /\ \A i \in 0 .. capacity-1 : i >= length => nodes[i] = None
      /\ p \in Nat
  BY DEF RemoveIndex, Inv, TypeOK, NoStaleSlots
<1>2. CASE p < capacity /\ nodes[p] # None
  <2>1. nodes' = Without(nodes, p, capacity) /\ length' = length - 1 /\ ret' = nodes[p].value
    BY <1>1, <1>2 DEF RemoveIndex
  <2>2. p < length
    BY <1>1, <1>2
  <2>3. nodes' \in [0 .. capacity-1 -> Slots]
    BY <1>1, <1>2, <2>1, WithoutArray
  <2>4. \A i \in 0 .. capacity-1 : i >= length - 1 => nodes'[i] = None
    BY <1>1, <2>1, <2>2 DEF Without
  <2>5. nodes[p].value \in Values
    BY <1>1, <1>2, ValueOf
  <2> QED
    BY <1>1, <2>1, <2>2, <2>3, <2>4, <2>5, Shrinks
<1>3. CASE ~(p < capacity /\ nodes[p] # None)
  <2>1. PICK end \in {p, capacity} :
          nodes' = Copied(nodes, end) /\ length' = length /\ ret' \in {None, Throws}
    BY <1>1, <1>3 DEF RemoveIndex
  <2>2. nodes' \in [0 .. capacity-1 -> Slots]
    BY <1>1, <2>1, CopiedArray
  <2>3. \A i \in 0 .. capacity-1 : i >= length => nodes'[i] = None
    BY <1>1, <2>1 DEF Copied
  <2> QED
    BY <1>1, <2>1, <2>2, <2>3, Shrinks
<1> QED
  BY <1>2, <1>3

\* removeLastValue keeps it, in an empty map too.
LEMMA RemoveLastValueStep ==
  ASSUME Inv, RemoveLastValue
  PROVE  ArrayInv' /\ ret' \in Values \cup {None, Throws}
<1>1. /\ capacity \in Nat /\ capacity' = capacity
      /\ nodes \in [0 .. capacity-1 -> Slots]
      /\ length \in Nat /\ length < capacity
      /\ nodes' = Copied(nodes, length-1)
  BY DEF RemoveLastValue, Inv, TypeOK
<1>2. /\ nodes' \in [0 .. capacity-1 -> Slots]
      /\ \A i \in 0 .. capacity-1 : i >= length-1 => nodes'[i] = None
  BY <1>1, CopiedArray
<1>3. CASE length = 0
  BY <1>1, <1>2, <1>3, Shrinks DEF RemoveLastValue
<1>4. CASE length # 0
  <2>1. length-1 \in 0 .. capacity-1 /\ length' = length - 1
    BY <1>1, <1>4 DEF RemoveLastValue
  <2>2. ret' \in Values \cup {None, Throws}
    BY <1>1, <1>4, <2>1, ValueOf DEF RemoveLastValue
  <2> QED
    BY <1>1, <1>2, <1>4, <2>1, <2>2, Shrinks
<1> QED
  BY <1>3, <1>4

\* Whatever removes keeps the invariant.
LEMMA RemovalStep == Inv /\ Removal => Inv'
<1> SUFFICES ASSUME Inv, NEW k \in Keys \cup {None}, NEW n \in Int,
                    \/ k \in Keys /\ RemoveNth(k, n)
                    \/ RemoveIndex(n)
                    \/ RemoveLastValue
             PROVE  Inv'
  BY IndexAssumption DEF Removal, RemoveKey
<1>1. LoopInv
  BY DEF Inv, TypeOK, LoopInv
<1>2. ArrayInv' /\ ret' \in Values \cup {None, Throws}
  BY RemoveNthStep, RemoveIndexStep, RemoveLastValueStep
<1>3. \E op \in Operations, key \in Keys \cup {None}, index \in Int : Begin(op, key, index)
  BY DEF RemoveNth, RemoveIndex, RemoveLastValue, Operations
<1>4. LoopInv' /\ call' \in [op : Operations, key : Keys \cup {None}, index : Int]
  BY <1>1, <1>3, CallType
<1> QED
  BY <1>2, <1>4 DEF Inv, TypeOK, ArrayInv, LoopInv, RoomForInsert, NoStaleSlots

------------------------------------------------------------------------------
\* get and replace keep the invariant.
LEMMA LookupStep == Inv /\ Lookup => Inv'
<1> SUFFICES ASSUME Inv, NEW k \in Keys, NEW n \in Int, NEW v,
                    Get(k, n) \/ (v \in Values /\ Replace(k, v, n))
             PROVE  Inv'
  BY IndexAssumption DEF Lookup
<1>1. /\ LoopInv
      /\ capacity \in Nat /\ nodes \in [0 .. capacity-1 -> Slots]
      /\ length \in Nat /\ length < capacity
      /\ \A i \in 0 .. capacity-1 : i >= length => nodes[i] = None
  BY DEF Inv, TypeOK, LoopInv, NoStaleSlots
<1>2. capacity' = capacity /\ length' = length
  BY DEF Get, Replace, array
<1>3. \A i \in Occurrence(nodes, k, n) : i \in 0 .. length-1 /\ nodes[i].value \in Values
  BY <1>1, OccurrenceFacts, ValueOf
<1>4. ret' \in Values \cup {None, Throws}
  BY <1>3 DEF Get, Replace
<1>5. /\ nodes' \in [0 .. capacity-1 -> Slots]
      /\ \A i \in 0 .. capacity-1 : i >= length => nodes'[i] = None
  <2>1. CASE nodes' = nodes
    BY <1>1, <2>1
  <2>2. ASSUME v \in Values, NEW p \in Occurrence(nodes, k, n),
               nodes' = [nodes EXCEPT ![p] = Entry(k, v)]
        PROVE  /\ nodes' \in [0 .. capacity-1 -> Slots]
               /\ \A i \in 0 .. capacity-1 : i >= length => nodes'[i] = None
    <3>1. Entry(k, v) \in Slots
      BY <2>2 DEF Entry, Entries, Slots
    <3> QED
      BY <1>1, <1>3, <2>2, <3>1
  <2> QED
    BY <2>1, <2>2 DEF Get, Replace, array
<1>6. ArrayInv'
  BY <1>1, <1>2, <1>5, Shrinks
<1>7. \E op \in Operations, key \in Keys \cup {None}, index \in Int : Begin(op, key, index)
  BY DEF Get, Replace, Operations
<1>8. LoopInv' /\ call' \in [op : Operations, key : Keys \cup {None}, index : Int]
  BY <1>1, <1>7, CallType
<1> QED
  BY <1>4, <1>6, <1>8 DEF Inv, TypeOK, ArrayInv, LoopInv, RoomForInsert, NoStaleSlots

\* putAll starts without touching the array.
LEMMA StartPutAllStep ==
  ASSUME Inv, NEW m, (m \in Sources /\ PutAll(m)) \/ PutAllSelf
  PROVE  Inv'
<1>1. StartPutAll /\ UNCHANGED array
  BY DEF PutAll, PutAllSelf
<1>2. call' \in [op : Operations, key : Keys \cup {None}, index : Int] /\ ret' = None
  BY <1>1 DEF StartPutAll, Call, Operations, Inv, TypeOK
<1>3. LoopInv'
  BY SourceAssumption DEF PutAll, PutAllSelf, LoopInv
<1> QED
  BY <1>1, <1>2, <1>3 DEF array, Inv, TypeOK, LoopInv, RoomForInsert, NoStaleSlots

\* One iteration of putAll keeps the invariant, over the map's own array too.
LEMMA PutAllNextStep == Inv /\ PutAllNext => Inv'
<1> SUFFICES ASSUME Inv, PutAllNext PROVE Inv'
  OBVIOUS
<1>1. Feed[next] \in Slots /\ nodes \in [DOMAIN nodes -> Slots]
  BY DEF PutAllNext, Feed, Inv, TypeOK
<1>2. next' \in Nat /\ UNCHANGED <<call, ret>>
  BY DEF PutAllNext, Inv, TypeOK
<1>3. CASE Feed[next] = None
  BY <1>2, <1>3 DEF PutAllNext, Inv, TypeOK, RoomForInsert, NoStaleSlots
<1>4. CASE Feed[next] # None
  <2>1. AppendEntry(Feed[next]) /\ Feed[next] \in Entries
    BY <1>1, <1>4 DEF PutAllNext, Slots
  <2>2. ArrayInv'
    BY <2>1, AppendStep
  <2>3. LoopInv'
    BY <1>1, <1>2, <1>4 DEF PutAllNext, Inv, TypeOK, LoopInv
  <2> QED
    BY <1>2, <2>2, <2>3 DEF Inv, TypeOK, ArrayInv, LoopInv, RoomForInsert, NoStaleSlots
<1> QED
  BY <1>3, <1>4

\* Every step of putAll keeps the invariant.
LEMMA UnionStep == Inv /\ Union => Inv'
<1>1. Inv /\ PutAllEnd => Inv'
  BY DEF PutAllEnd, Inv, TypeOK, RoomForInsert, NoStaleSlots
<1> QED
  BY <1>1, StartPutAllStep, PutAllNextStep DEF Union

------------------------------------------------------------------------------
\* Every reachable state has the shape TypeOK states and satisfies the two
\* invariants it takes to keep that shape, whatever keys (null among them or
\* not), values, positions and arguments of putAll the callers use.
THEOREM InvHolds == Spec => []Inv
<1>1. Init => Inv
  BY InitInv
<1>2. Inv /\ [Next]_vars => Inv'
  <2>1. Inv /\ UNCHANGED vars => Inv'
    BY DEF vars, Inv, TypeOK, RoomForInsert, NoStaleSlots
  <2> QED
    BY <2>1, InsertionStep, RemovalStep, LookupStep, UnionStep DEF Next
<1> QED
  BY <1>1, <1>2, PTL DEF Spec

\* The state keeps its shape (RepeatKeyMap.java: nodes, length).
THEOREM TypeCorrect == Spec => []TypeOK
<1>1. Inv => TypeOK
  BY DEF Inv
<1> QED
  BY <1>1, InvHolds, PTL

\* resize() never misses the one length at which it doubles the array, so no
\* insertion overruns it.
THEOREM AlwaysRoom == Spec => []RoomForInsert
<1>1. Inv => RoomForInsert
  BY DEF Inv
<1> QED
  BY <1>1, InvHolds, PTL

\* No call leaves an entry behind length, where forEach and putAll would find it.
THEOREM NothingStale == Spec => []NoStaleSlots
<1>1. Inv => NoStaleSlots
  BY DEF Inv
<1> QED
  BY <1>1, InvHolds, PTL

------------------------------------------------------------------------------
\* Maps without null keys have no holes.
LEMMA StopsAtEnd ==
  ASSUME NullKey \notin Keys, length \in Nat, NEW t,
         \A i \in 0 .. length-1 : t[i] \in Entries
  PROVE  \A b \in Stop(t) : b = length
<1>1. \A i \in 0 .. length-1 : ~ Unreadable(t, i)
  BY NoneAssumption DEF Unreadable, Entries
<1> QED
  BY <1>1 DEF Stop

\* In a map without holes no entry below length is None, after resize() neither.
LEMMA PackedEntries ==
  ASSUME Inv, Packed
  PROVE  /\ \A i \in 0 .. length-1 : nodes[i] \in Entries
         /\ \A i \in 0 .. length-1 : Resized[i] \in Entries
         /\ \A i \in 0 .. length-1 : i \in DOMAIN Resized
         /\ length \in DOMAIN Resized /\ length \in Nat
<1>1. \A i \in 0 .. length-1 : nodes[i] \in Slots /\ nodes[i] # None
  BY DEF Packed, Inv, TypeOK
<1>2. \A i \in 0 .. length-1 : nodes[i] \in Entries
  BY <1>1 DEF Slots
<1> QED
  BY <1>2, ResizeMakesRoom DEF Ready

\* Moving the entries up to insert one opens no hole.
LEMMA PackedInsertAtSlot ==
  ASSUME Inv, Packed, NEW p \in 0 .. length, NEW k \in Keys, NEW v \in Values,
         InsertAtSlot(p, k, v)
  PROVE  Packed'
<1>1. Entry(k, v) # None
  BY NoneAssumption DEF Entry, Entries
<1>2. Ready(Resized, ResizedCapacity) /\ length \in Nat
  BY ResizeMakesRoom
<1>3. \A i \in 0 .. length-1 : Resized[i] # None
  BY PackedEntries, NoneAssumption
<1>4. \A i \in 0 .. length : Inserted(Resized, p, Entry(k, v))[i] # None
  BY <1>1, <1>2, <1>3 DEF Ready, Inserted
<1> QED
  BY <1>2, <1>4 DEF InsertAtSlot, Packed

\* Nor does copying them all.
LEMMA PackedInsertNothing ==
  ASSUME NullKey \notin Keys, Inv, Packed, InsertNothing
  PROVE  Packed'
<1>1. \A b \in Stop(Resized) : b = length
  BY PackedEntries, StopsAtEnd
<1>2. nodes' = Copied(Resized, length) /\ length' = length
  BY <1>1, PackedEntries DEF InsertNothing
<1> QED
  BY <1>2, PackedEntries, NoneAssumption DEF Copied, Packed

\* Nor does appending an entry.
LEMMA PackedAppend ==
  ASSUME Inv, Packed, NEW e \in Entries, AppendEntry(e)
  PROVE  Packed'
<1>1. e # None
  BY NoneAssumption
<1>2. Ready(Resized, ResizedCapacity)
  BY ResizeMakesRoom
<1> QED
  BY <1>1, <1>2, PackedEntries, NoneAssumption DEF AppendEntry, Packed, Ready

\* Whatever inserts leaves no hole.
LEMMA PackedInsertion ==
  ASSUME NullKey \notin Keys, Inv, Packed, Insertion
  PROVE  Packed'
<1> SUFFICES ASSUME NEW k \in Keys, NEW v \in Values, NEW n \in Indices,
                    \/ Put(k, v)
                    \/ PutAfter(k, v, n) \/ PutBefor(k, v, n) \/ PutToIndex(k, v, n)
             PROVE  Packed'
  BY IndexAssumption DEF Insertion
<1>1. length \in Nat /\ Entry(k, v) \in Entries
  BY DEF Inv, TypeOK, Entry, Entries
<1>2. CASE Put(k, v)
  BY <1>1, <1>2, PackedAppend DEF Put
<1>3. CASE PutAfter(k, v, n)
  <2>1. ASSUME NEW i \in Occurrence(Resized, k, n), InsertAtSlot(i+1, k, v)
        PROVE  Packed'
    BY <1>1, <2>1, PackedInsertAtSlot DEF Occurrence
  <2> QED
    BY <1>3, <2>1, PackedInsertNothing DEF PutAfter
<1>4. CASE PutBefor(k, v, n)
  <2>1. ASSUME NEW i \in Occurrence(Resized, k, n), InsertAtSlot(i, k, v)
        PROVE  Packed'
    BY <1>1, <2>1, PackedInsertAtSlot DEF Occurrence
  <2> QED
    BY <1>4, <2>1, PackedInsertNothing DEF PutBefor
<1>5. CASE PutToIndex(k, v, n)
  <2>1. CASE n \in 0 .. length-1 /\ InsertAtSlot(n, k, v)
    BY <1>1, <2>1, PackedInsertAtSlot
  <2>2. CASE nodes' = Copied(Resized, length) /\ length' = length
    BY <2>2, PackedEntries, NoneAssumption DEF Copied, Packed
  <2> QED
    BY <1>5, <2>1, <2>2 DEF PutToIndex
<1> QED
  BY <1>2, <1>3, <1>4, <1>5

\* Whatever removes closes the gap.
LEMMA PackedRemoval ==
  ASSUME NullKey \notin Keys, Inv, Packed, Removal
  PROVE  Packed'
<1>1. /\ capacity \in Nat /\ nodes \in [0 .. capacity-1 -> Slots]
      /\ length \in Nat /\ length < capacity
      /\ \A i \in 0 .. length-1 : nodes[i] # None
      /\ \A i \in 0 .. capacity-1 : i >= length => nodes[i] = None
  BY DEF Inv, TypeOK, NoStaleSlots, Packed
<1>2. \A b \in Stop(nodes) : b = length
  BY PackedEntries, StopsAtEnd
<1>3. ASSUME NEW k \in Keys, NEW n \in Int, RemoveNth(k, n)
      PROVE  Packed'
  <2>1. CASE nodes' = Copied(nodes, length) /\ length' = length
    BY <1>1, <2>1 DEF Copied, Packed
  <2>2. ASSUME NEW p \in Occurrence(nodes, k, n-1),
               nodes' = Without(nodes, p, length), length' = length - 1
        PROVE  Packed'
    <3>1. p \in 0 .. length-1
      BY DEF Occurrence
    <3> QED
      BY <1>1, <2>2, <3>1 DEF Without, Packed
  <2> QED
    BY <1>2, <1>3, <2>1, <2>2 DEF RemoveNth
<1>4. ASSUME NEW n \in Int, RemoveIndex(n)
      PROVE  Packed'
  <2> DEFINE p == IF n <= 0 THEN 0 ELSE n
  <2>1. p \in Nat
    OBVIOUS
  <2>2. CASE nodes' = Without(nodes, p, capacity) /\ length' = length - 1
    BY <1>1, <2>1, <2>2 DEF Without, Packed
  <2>3. CASE nodes' = Copied(nodes, p) /\ length' = length /\ p < capacity /\ nodes[p] = None
    BY <1>1, <2>1, <2>3 DEF Copied, Packed
  <2>4. CASE nodes' = Copied(nodes, capacity) /\ length' = length
    BY <1>1, <2>4 DEF Copied, Packed
  <2> QED
    BY <1>4, <2>2, <2>3, <2>4 DEF RemoveIndex
<1>5. CASE RemoveLastValue
  BY <1>1, <1>5 DEF RemoveLastValue, Copied, Packed
<1> QED
  BY <1>3, <1>4, <1>5, IndexAssumption DEF Removal, RemoveKey

\* get and replace leave no hole.
LEMMA PackedLookup ==
  ASSUME Inv, Packed, Lookup
  PROVE  Packed'
<1>1. nodes \in [0 .. capacity-1 -> Slots] /\ length \in Nat /\ length < capacity
  BY DEF Inv, TypeOK
<1>2. CASE UNCHANGED array
  BY <1>2 DEF array, Packed
<1>3. ASSUME NEW k \in Keys, NEW v \in Values, NEW n \in Indices, Replace(k, v, n)
      PROVE  Packed'
  <2>1. Entry(k, v) # None
    BY NoneAssumption DEF Entry, Entries
  <2>2. length' = length /\ (nodes' = nodes \/ \E i : nodes' = [nodes EXCEPT ![i] = Entry(k, v)])
    BY <1>3 DEF Replace
  <2>3. \A i, j : j \in 0 .. length-1 => [nodes EXCEPT ![i] = Entry(k, v)][j] # None
    BY <1>1, <2>1 DEF Packed
  <2> QED
    BY <2>2, <2>3 DEF Packed
<1> QED
  BY <1>2, <1>3 DEF Lookup, Get

\* putAll skips the holes of its argument.
LEMMA PackedUnion ==
  ASSUME Inv, Packed, Union
  PROVE  Packed'
<1>1. CASE UNCHANGED array
  BY <1>1 DEF array, Packed
<1>2. CASE PutAllNext
  <2>1. Feed[next] \in Slots
    BY <1>2 DEF PutAllNext, Feed, Inv, TypeOK
  <2>2. CASE Feed[next] # None
    BY <1>2, <2>1, <2>2, PackedAppend DEF PutAllNext, Slots
  <2>3. CASE Feed[next] = None
    BY <1>1, <1>2, <2>3 DEF PutAllNext, array
  <2> QED
    BY <2>2, <2>3
<1> QED
  BY <1>1, <1>2 DEF Union, PutAll, PutAllSelf, PutAllEnd, array

\* As long as no key is null, no call leaves a hole among the first length
\* slots (RepeatKeyMap.java: the copying loops of put, putBefor and remove).
THEOREM NoHoles ==
  ASSUME NullKey \notin Keys
  PROVE  Spec => []Packed
<1>1. Init => Packed
  BY DEF Init, Packed
<1>2. Inv /\ Packed /\ [Next]_vars => Packed'
  <2>1. Packed /\ UNCHANGED vars => Packed'
    BY DEF vars, Packed
  <2> QED
    BY <2>1, PackedInsertion, PackedRemoval, PackedLookup, PackedUnion DEF Next
<1> QED
  BY <1>1, <1>2, InvHolds, PTL DEF Spec

------------------------------------------------------------------------------
\* putAll keeps the order of its argument, also when the argument is the
\* map itself: for every set of keys, null among them or not, every array
\* that is given to it and every number of resizes on the way.

\* The array a putAll goes through is indexed by numbers, and so is the list at
\* its start.
Numbered ==
  /\ mode = "array" => DOMAIN source \subseteq Nat
  /\ mode # "idle" => call.index \in Nat

OrderInv == Inv /\ Numbered /\ PutAllInOrder

\* The entries read so far are finitely many, all in front of the next slot.
LEMMA FedFacts ==
  ASSUME OrderInv, mode # "idle"
  PROVE  /\ DOMAIN Feed \subseteq Nat /\ next \in Nat
         /\ IsFiniteSet(Fed) /\ Fed \subseteq 0 .. next-1 /\ Fed \subseteq DOMAIN Feed
         /\ Cardinality(Fed) \in Nat
<1>1. DOMAIN Feed \subseteq Nat /\ next \in Nat
  BY DEF OrderInv, Inv, TypeOK, Numbered, Feed
<1>2. Fed \subseteq 0 .. next-1 /\ Fed \subseteq DOMAIN Feed
  BY <1>1 DEF Fed
<1>3. IsFiniteSet(Fed)
  <2>1. IsFiniteSet(0 .. next-1)
    BY <1>1, FS_Interval
  <2> QED
    BY <1>2, <2>1, FS_Subset
<1> QED
  BY <1>1, <1>2, <1>3, FS_CardinalityType

\* What stood in front of an entry is finite and no more than all of it.
LEMMA RankBelow ==
  ASSUME NEW F, IsFiniteSet(F), F \subseteq Nat, NEW i \in F
  PROVE  /\ Cardinality({j \in F : j < i}) \in Nat
         /\ Cardinality({j \in F : j < i}) < Cardinality(F)
<1> DEFINE G == {j \in F : j < i}
<1>1. G \subseteq F /\ i \notin G
  OBVIOUS
<1>2. IsFiniteSet(G) /\ Cardinality(G) <= Cardinality(F) /\ (Cardinality(G) = Cardinality(F) => G = F)
  BY <1>1, FS_Subset
<1>3. Cardinality(G) \in Nat /\ Cardinality(F) \in Nat
  BY <1>2, FS_CardinalityType
<1> QED
  BY <1>1, <1>2, <1>3

\* An iteration that skips an empty slot leaves all of it as it is.
LEMMA SkipKeepsOrder ==
  ASSUME OrderInv, PutAllNext, Feed[next] = None
  PROVE  PutAllInOrder'
<1>1. UNCHANGED <<nodes, length, mode, source, call>> /\ next' = next + 1 /\ mode # "idle"
  BY DEF PutAllNext
<1>2. Feed' = Feed
  BY <1>1 DEF Feed
<1>3. next \in Nat /\ DOMAIN Feed \subseteq Nat
  BY <1>1, FedFacts
<1>4. Fed' = Fed
  BY <1>1, <1>2, <1>3 DEF Fed
<1> QED
  BY <1>1, <1>2, <1>4 DEF OrderInv, PutAllInOrder

\* An iteration that reads an entry appends it behind those read before, and
\* neither the append nor a resize changes what has been read.
LEMMA AppendKeepsOrder ==
  ASSUME OrderInv, PutAllNext, Feed[next] # None
  PROVE  PutAllInOrder'
<1> DEFINE e == Feed[next]
           rank(i) == Cardinality({j \in Fed : j < i})
<1>1. /\ mode # "idle" /\ next \in DOMAIN Feed /\ next' = next + 1
      /\ AppendEntry(e) /\ UNCHANGED <<call, ret>>
      /\ IF mode = "self" /\ Full THEN mode' = "array" /\ source' = nodes
                                  ELSE UNCHANGED <<mode, source>>
  BY DEF PutAllNext
<1>2. /\ DOMAIN Feed \subseteq Nat /\ next \in Nat
      /\ IsFiniteSet(Fed) /\ Fed \subseteq 0 .. next-1 /\ Fed \subseteq DOMAIN Feed
      /\ Cardinality(Fed) \in Nat
  BY <1>1, FedFacts
<1>3. /\ length = call.index + Cardinality(Fed)
      /\ \A i \in Fed : nodes[call.index + rank(i)] = Feed[i]
      /\ call.index \in Nat /\ length \in Nat /\ length' = length + 1
  BY <1>1 DEF OrderInv, Numbered, PutAllInOrder, Inv, TypeOK, AppendEntry
<1>4. /\ length \in DOMAIN Resized
      /\ \A i \in 0 .. length-1 : i \in DOMAIN Resized /\ Resized[i] = nodes[i]
  BY <1>3, ResizeMakesRoom, SMTT(30) DEF OrderInv, Ready
<1>5. nodes'[length] = e /\ \A i \in 0 .. length-1 : nodes'[i] = nodes[i]
  BY <1>1, <1>3, <1>4 DEF AppendEntry
<1>6. DOMAIN Feed' = DOMAIN Feed /\ \A i \in DOMAIN Feed : i < next + 1 => Feed'[i] = Feed[i]
  <2>1. CASE mode = "array"
    BY <1>1, <2>1 DEF Feed
  <2>2. CASE mode = "self" /\ Full
    BY <1>1, <2>2 DEF Feed
  <2>3. CASE mode = "self" /\ ~ Full
    <3>1. Feed = nodes /\ Feed' = nodes' /\ nodes' = [nodes EXCEPT ![length] = e]
      BY <1>1, <2>3 DEF Feed, AppendEntry, Resized
    <3>2. next < length
      BY <1>1, <1>2, <1>3, <3>1 DEF OrderInv, Inv, TypeOK, NoStaleSlots
    <3> QED
      BY <1>2, <1>3, <3>1, <3>2
  <2> QED
    BY <1>1, <2>1, <2>2, <2>3 DEF OrderInv, Inv, TypeOK
<1>7. Fed' = Fed \cup {next}
  BY <1>1, <1>2, <1>6 DEF Fed
<1>8. Cardinality(Fed') = Cardinality(Fed) + 1
  <2>1. next \notin Fed
    BY <1>2
  <2> QED
    BY <1>2, <1>7, <2>1, FS_AddElement
<1>9. \A i \in Fed' : nodes'[call.index + Cardinality({j \in Fed' : j < i})] = Feed'[i]
  <2> TAKE i \in Fed'
  <2>1. CASE i \in Fed
    <3>1. {j \in Fed' : j < i} = {j \in Fed : j < i}
      BY <1>2, <1>7, <2>1
    <3>2. rank(i) \in Nat /\ rank(i) < Cardinality(Fed)
      <4>1. Fed \subseteq Nat
        BY <1>2
      <4> QED
        BY <1>2, <2>1, <4>1, RankBelow
    <3>3. nodes'[call.index + rank(i)] = Feed'[i]
      <4>1. call.index + rank(i) \in 0 .. length-1
        BY <1>2, <1>3, <3>2
      <4>2. Feed'[i] = Feed[i]
        BY <1>2, <1>6, <2>1
      <4> QED
        BY <1>3, <1>5, <2>1, <4>1, <4>2
    <3> QED
      BY <3>1, <3>3
  <2>2. CASE i = next
    <3>1. {j \in Fed' : j < i} = Fed
      BY <1>2, <1>7, <2>2
    <3> QED
      BY <1>2, <1>3, <1>5, <1>6, <1>1, <2>2, <3>1
  <2> QED
    BY <1>7, <2>1, <2>2
<1> QED
  BY <1>1, <1>2, <1>3, <1>8, <1>9 DEF PutAllInOrder

------------------------------------------------------------------------------
\* A putAll starts with nothing read, over an array whose slots are numbered.
LEMMA StartKeepsOrder ==
  ASSUME OrderInv, NEW m, (m \in Sources /\ PutAll(m)) \/ PutAllSelf
  PROVE  Numbered' /\ PutAllInOrder'
<1>1. next' = 0 /\ length' = length /\ call'.index = length /\ length \in Nat
  BY DEF PutAll, PutAllSelf, StartPutAll, Call, array, OrderInv, Inv, TypeOK
<1>2. \A s \in Sources : DOMAIN s \subseteq Nat
  <2> TAKE s \in Sources
  <2>1. DOMAIN s = 0 .. Cardinality(DOMAIN s) - 1
    BY SourceAssumption
  <2>2. ASSUME NEW last PROVE 0 .. last \subseteq Nat
    OBVIOUS
  <2>3. 0 .. Cardinality(DOMAIN s) - 1 \subseteq Nat
    BY <2>2
  <2> QED
    BY <2>1, <2>3
<1>3. Fed' = {}
  <2>1. DOMAIN Feed' \subseteq Nat
    <3>1. DOMAIN nodes \subseteq Nat
      BY DEF OrderInv, Inv, TypeOK
    <3>2. Feed' \in {m, nodes} /\ (Feed' = nodes \/ m \in Sources)
      BY DEF PutAll, PutAllSelf, StartPutAll, Feed, array
    <3> QED
      BY <1>2, <3>1, <3>2
  <2> QED
    BY <1>1, <2>1 DEF Fed
<1>4. Cardinality(Fed') = 0
  BY <1>3, FS_EmptySet
<1>5. mode' = "array" => DOMAIN source' \subseteq Nat
  BY <1>2 DEF PutAll, PutAllSelf
<1> QED
  BY <1>1, <1>3, <1>4, <1>5 DEF Numbered, PutAllInOrder

\* The array that a resize leaves to the loop is numbered, too.
LEMMA NextKeepsNumbered ==
  ASSUME OrderInv, PutAllNext
  PROVE  Numbered'
BY DEF PutAllNext, Numbered, OrderInv, Inv, TypeOK

\* Every step keeps the order.
LEMMA OrderStep ==
  ASSUME OrderInv, [Next]_vars
  PROVE  Numbered' /\ PutAllInOrder'
<1>1. CASE mode' = "idle"
  BY <1>1 DEF Numbered, PutAllInOrder
<1>2. CASE \E op, k, n : Begin(op, k, n)
  BY <1>1, <1>2 DEF Begin, looping
<1>3. CASE \E m : (m \in Sources /\ PutAll(m)) \/ PutAllSelf
  BY <1>3, StartKeepsOrder
<1>4. CASE PutAllNext
  BY <1>4, NextKeepsNumbered, SkipKeepsOrder, AppendKeepsOrder
<1>5. CASE UNCHANGED vars
  BY <1>5 DEF vars, OrderInv, Numbered, PutAllInOrder, Fed, Feed
<1> QED
  BY <1>1, <1>2, <1>3, <1>4, <1>5
     DEF Next, Insertion, Removal, Lookup, Union, Put, PutAfter, PutBefor, PutToIndex,
         RemoveKey, RemoveNth, RemoveIndex, RemoveLastValue, Get, Replace, PutAllEnd

\* putAll (RepeatKeyMap.java: forEach over this.nodes, put for each entry) has at
\* every moment appended exactly the entries it has read, in their order, even
\* when it reads the map it writes to and resize() replaces the array under it.
THEOREM PutAllKeepsOrder == Spec => []PutAllInOrder
<1>1. Init => Numbered /\ PutAllInOrder
  BY DEF Init, Numbered, PutAllInOrder
<1>2. Inv /\ Numbered /\ PutAllInOrder /\ [Next]_vars => Numbered' /\ PutAllInOrder'
  BY OrderStep DEF OrderInv
<1> QED
  BY <1>1, <1>2, InvHolds, PTL DEF Spec

------------------------------------------------------------------------------
\* What a null key can do to a map: a call that meets it may throw half-way
\* through its copy and lose what stood behind, but of the entries in front of
\* it only the one removed or replaced, and never more than one entry at all
\* without throwing.  For every set of keys, values, positions and bounds.

\* The slots of an array of n slots that are not empty.
Held(t, n) == {i \in 0 .. n-1 : t[i] # None}

\* What a step can do to the array.  low is 0 or the place where a search
\* stops: no copy ends before it.
Kept == UNCHANGED <<nodes, capacity>>

Appended == \E e \in Entries : AppendEntry(e)

InsertedOne ==
  /\ capacity' = ResizedCapacity
  /\ \E p \in 0 .. length, k \in Keys, v \in Values : InsertAtSlot(p, k, v)

CopiedAll(low) ==
  /\ capacity' = ResizedCapacity
  /\ \E end \in Int : /\ end >= low /\ nodes' = Copied(Resized, end)
                      /\ end < length => ret' = Throws

LeftOut(low) ==
  /\ capacity' = capacity /\ call'.op \in Removals
  /\ \E end \in 0 .. capacity : \E p \in 0 .. end-1 :
       /\ end >= low /\ nodes' = Without(nodes, p, end)
       /\ end < length => ret' = Throws

CutOff(low) ==
  /\ capacity' = capacity /\ call'.op \in Removals
  /\ \E end \in Int : /\ end >= low - 1 /\ nodes' = Copied(nodes, end)
                      /\ end < length - 1 => ret' = Throws

Overwritten ==
  /\ capacity' = capacity /\ call'.op = "replace"
  /\ \E i \in 0 .. length-1, e \in Entries : nodes' = [nodes EXCEPT ![i] = e]

Effect(low) ==
  Kept \/ Appended \/ InsertedOne \/ CopiedAll(low) \/ LeftOut(low) \/ CutOff(low) \/ Overwritten

\* The array before and after resize() in one place.
LEMMA ArrayFacts ==
  ASSUME Inv
  PROVE  /\ capacity \in Nat /\ nodes \in [0 .. capacity-1 -> Slots]
         /\ length \in Nat /\ length < capacity
         /\ \A i \in 0 .. capacity-1 : i >= length => nodes[i] = None
         /\ ResizedCapacity \in Nat /\ Resized \in [0 .. ResizedCapacity-1 -> Slots]
         /\ length + 1 < ResizedCapacity
         /\ \A i \in 0 .. length-1 : Resized[i] = nodes[i]
BY ResizeMakesRoom, SMTT(30) DEF Inv, TypeOK, NoStaleSlots, Ready

\* Every search of a map, resized or not, stops at the same slot.
LEMMA OneStop ==
  ASSUME Inv, NEW b \in Stop(nodes), NEW c \in Stop(nodes) \cup Stop(Resized)
  PROVE  b <= c /\ b \in 0 .. length /\ c \in 0 .. length
<1>1. b \in 0 .. length /\ c \in 0 .. length /\ length \in Nat
  BY ArrayFacts DEF Stop
<1>2. \A j \in 0 .. b-1 : ~ Unreadable(nodes, j) /\ ~ Unreadable(Resized, j)
  BY <1>1, ArrayFacts DEF Stop, ReadableBelow, Unreadable
<1>3. c = length \/ Unreadable(nodes, c) \/ Unreadable(Resized, c)
  BY DEF Stop
<1> QED
  BY <1>1, <1>2, <1>3

\* An insertion that finds no place copies at least up to the stop.
LEMMA InsertNothingEffect ==
  ASSUME Inv, NEW low \in 0 .. length, low = 0 \/ low \in Stop(nodes),
         capacity' = ResizedCapacity, InsertNothing
  PROVE  CopiedAll(low)
<1>1. PICK b \in Stop(Resized) :
        /\ nodes' = Copied(Resized, IF b < length THEN b+1 ELSE length)
        /\ ret' = IF b < length THEN Throws ELSE None
  BY DEF InsertNothing
<1>2. b \in 0 .. length /\ low <= b /\ length \in Nat
  BY OneStop, ArrayFacts DEF Stop
<1>3. PICK end \in Int : end = IF b < length THEN b+1 ELSE length
  BY <1>2
<1> QED
  BY <1>1, <1>2, <1>3 DEF CopiedAll

\* What put, putAfter, putBefor and putToIndex do.
LEMMA InsertionEffect ==
  ASSUME Inv, NEW low \in 0 .. length, low = 0 \/ low \in Stop(nodes), Insertion
  PROVE  Effect(low)
<1> SUFFICES ASSUME NEW k \in Keys, NEW v \in Values, NEW n \in Indices,
                    \/ Put(k, v)
                    \/ PutAfter(k, v, n) \/ PutBefor(k, v, n) \/ PutToIndex(k, v, n)
             PROVE  Effect(low)
  BY IndexAssumption DEF Insertion
<1>1. length \in Nat /\ Entry(k, v) \in Entries
  BY ArrayFacts DEF Entry, Entries
<1>2. CASE Put(k, v)
  BY <1>1, <1>2 DEF Put, Appended, Effect
<1>3. CASE PutAfter(k, v, n)
  <2>1. ASSUME NEW i \in Occurrence(Resized, k, n), InsertAtSlot(i+1, k, v)
        PROVE  InsertedOne
    BY <1>1, <1>3, <2>1 DEF Occurrence, InsertedOne, PutAfter
  <2> QED
    BY <1>3, <2>1, InsertNothingEffect DEF PutAfter, Effect
<1>4. CASE PutBefor(k, v, n)
  <2>1. ASSUME NEW i \in Occurrence(Resized, k, n), InsertAtSlot(i, k, v)
        PROVE  InsertedOne
    BY <1>1, <1>4, <2>1 DEF Occurrence, InsertedOne, PutBefor
  <2> QED
    BY <1>4, <2>1, InsertNothingEffect DEF PutBefor, Effect
<1>5. CASE PutToIndex(k, v, n)
  <2>1. CASE n \in 0 .. length-1 /\ InsertAtSlot(n, k, v)
    BY <1>1, <1>5, <2>1 DEF PutToIndex, InsertedOne, Effect
  <2>2. CASE nodes' = Copied(Resized, length)
    BY <1>1, <1>5, <2>2 DEF PutToIndex, CopiedAll, Effect
  <2> QED
    BY <1>5, <2>1, <2>2 DEF PutToIndex
<1> QED
  BY <1>2, <1>3, <1>4, <1>5

\* What the four removals do, stopped or not.
LEMMA RemovalEffect ==
  ASSUME Inv, NEW low \in 0 .. length, low = 0 \/ low \in Stop(nodes), Removal
  PROVE  Effect(low)
<1>1. /\ length \in Nat /\ capacity \in Nat /\ length < capacity
      /\ \A i \in 0 .. capacity-1 : i >= length => nodes[i] = None
  BY ArrayFacts
<1>2. ASSUME NEW k \in Keys, NEW n \in Int, RemoveNth(k, n)
      PROVE  Effect(low)
  <2>1. PICK b \in Stop(nodes) :
       \/ \E p \in Occurrence(nodes, k, n-1) :
            nodes' = Without(nodes, p, b) /\ ret' = IF b < length THEN Throws ELSE nodes[p].value
       \/ nodes' = Copied(nodes, b) /\ ret' = IF b < length THEN Throws ELSE None
    BY <1>2 DEF RemoveNth
  <2>2. b \in 0 .. length /\ low <= b /\ capacity' = capacity /\ call'.op \in Removals
    BY <1>2, OneStop DEF Stop, RemoveNth, Begin, Call, Removals
  <2>3. \A p \in Occurrence(nodes, k, n-1) : p \in 0 .. b-1
    BY <1>1, <2>1, <2>2, OccurrenceFacts
  <2> QED
    BY <1>1, <2>1, <2>2, <2>3 DEF LeftOut, CutOff, Effect
<1>3. ASSUME NEW n \in Int, RemoveIndex(n)
      PROVE  Effect(low)
  <2> DEFINE p == IF n <= 0 THEN 0 ELSE n
  <2>1. p \in Nat /\ capacity' = capacity /\ call'.op \in Removals
    BY <1>3 DEF RemoveIndex, Begin, Call, Removals
  <2>2. CASE p < capacity /\ nodes' = Without(nodes, p, capacity)
    BY <1>1, <2>1, <2>2 DEF LeftOut, Effect
  <2>3. CASE p < capacity /\ nodes[p] = None /\ nodes' = Copied(nodes, p) /\ ret' = Throws
    <3>1. low <= p
      BY <1>1, <2>1, <2>3 DEF Stop, ReadableBelow, Unreadable
    <3> QED
      BY <1>1, <2>1, <2>3, <3>1 DEF CutOff, Effect
  <2>4. CASE nodes' = Copied(nodes, capacity)
    BY <1>1, <2>1, <2>4 DEF CutOff, Effect
  <2> QED
    BY <1>3, <2>2, <2>3, <2>4 DEF RemoveIndex
<1>4. CASE RemoveLastValue
  <2>1. call'.op \in Removals
    BY <1>4 DEF RemoveLastValue, Begin, Call, Removals
  <2> QED
    BY <1>1, <1>4, <2>1 DEF RemoveLastValue, CutOff, Effect
<1> QED
  BY <1>2, <1>3, <1>4, IndexAssumption DEF Removal, RemoveKey

\* What get, replace and putAll do.
LEMMA OtherEffect ==
  ASSUME Inv, NEW low, Lookup \/ Union \/ UNCHANGED vars
  PROVE  Effect(low)
<1>1. CASE UNCHANGED array \/ UNCHANGED vars
  BY <1>1 DEF array, vars, Kept, Effect
<1>2. ASSUME NEW k \in Keys, NEW v \in Values, NEW n \in Indices, Replace(k, v, n)
      PROVE  Effect(low)
  <2>1. Entry(k, v) \in Entries /\ capacity' = capacity /\ call'.op = "replace"
    BY <1>2 DEF Entry, Entries, Replace, Begin, Call
  <2>2. \A i \in Occurrence(nodes, k, n) : i \in 0 .. length-1
    BY DEF Occurrence
  <2> QED
    BY <1>2, <2>1, <2>2 DEF Replace, Overwritten, Kept, Effect
<1>3. CASE PutAllNext
  <2>1. Feed[next] \in Slots
    BY <1>3 DEF PutAllNext, Feed, Inv, TypeOK
  <2> QED
    BY <1>3, <2>1 DEF PutAllNext, Slots, Appended, Kept, Effect
<1> QED
  BY <1>1, <1>2, <1>3 DEF Lookup, Get, Union, PutAll, PutAllSelf, PutAllEnd, array

\* Every step is one of these effects.
LEMMA StepEffect ==
  ASSUME Inv, NEW low \in 0 .. length, low = 0 \/ low \in Stop(nodes), [Next]_vars
  PROVE  Effect(low)
BY InsertionEffect, RemovalEffect, OtherEffect DEF Next

------------------------------------------------------------------------------
\* What stands in front of a place b after a step: all of it but at most one
\* entry, each where it was or one place further.
FrontKept(b) == \E p \in 0 .. b : KeptBelow(p) /\ KeptBehind(p, b)

\* An insertion moves up what stands behind it, in front of the stop or not.
LEMMA InsertionKeepsFront ==
  ASSUME Inv, NEW b \in 0 .. length, InsertedOne
  PROVE  FrontKept(b)
<1>1. /\ length \in Nat /\ length + 1 < ResizedCapacity /\ ResizedCapacity \in Nat
      /\ Resized \in [0 .. ResizedCapacity-1 -> Slots]
      /\ \A i \in 0 .. length-1 : Resized[i] = nodes[i]
  BY ArrayFacts
<1>2. PICK q \in 0 .. length, e \in Entries : nodes' = Inserted(Resized, q, e)
  BY DEF InsertedOne, InsertAtSlot, Entry, Entries
<1>3. \A i \in 0 .. length-1 : i < q => nodes'[i] = nodes[i]
  BY <1>1, <1>2 DEF Inserted
<1>4. \A i \in 0 .. length-1 : i >= q => nodes'[i+1] = nodes[i]
  BY <1>1, <1>2 DEF Inserted
<1>5. CASE q <= b
  <2>1. KeptBelow(q)
    BY <1>1, <1>3, <1>5 DEF KeptBelow
  <2>2. KeptBehind(q, b)
    BY <1>1, <1>4 DEF KeptBehind
  <2> QED
    BY <1>1, <1>5, <2>1, <2>2 DEF FrontKept
<1>6. CASE q > b
  <2>1. KeptBelow(b) /\ KeptBehind(b, b)
    BY <1>1, <1>3, <1>6 DEF KeptBelow, KeptBehind
  <2> QED
    BY <1>1, <2>1 DEF FrontKept
<1> QED
  BY <1>1, <1>5, <1>6

\* A removal moves down what stands behind it.
LEMMA RemovalKeepsFront ==
  ASSUME Inv, NEW b \in 0 .. length, LeftOut(b)
  PROVE  FrontKept(b)
<1>1. /\ capacity \in Nat /\ nodes \in [0 .. capacity-1 -> Slots]
      /\ length \in Nat /\ length < capacity
  BY ArrayFacts
<1>2. PICK end \in 0 .. capacity : \E p \in 0 .. end-1 : end >= b /\ nodes' = Without(nodes, p, end)
  BY DEF LeftOut
<1>3. PICK q \in 0 .. end-1 : nodes' = Without(nodes, q, end)
  BY <1>2
<1>4. end \in Int /\ q \in Int /\ b <= end /\ q >= 0 /\ b \in Nat
  BY <1>1, <1>2, <1>3
<1>5. \A i \in 0 .. b-1 : i < q => nodes'[i] = nodes[i]
  BY <1>1, <1>3, <1>4 DEF Without
<1>6. \A i \in 0 .. b-1 : i > q => nodes'[i-1] = nodes[i]
  BY <1>1, <1>3, <1>4 DEF Without
<1>7. CASE q <= b
  <2>1. KeptBelow(q)
    BY <1>4, <1>5, <1>7 DEF KeptBelow
  <2>2. KeptBehind(q, b)
    BY <1>4, <1>6 DEF KeptBehind, LeftOut
  <2> QED
    BY <1>4, <1>7, <2>1, <2>2 DEF FrontKept
<1>8. CASE q > b
  <2>1. KeptBelow(b) /\ KeptBehind(b, b)
    BY <1>4, <1>5, <1>8 DEF KeptBelow, KeptBehind
  <2> QED
    BY <1>4, <2>1 DEF FrontKept
<1> QED
  BY <1>4, <1>7, <1>8

\* Whatever a step does, the entries in front of the stop are kept.
LEMMA PrefixStays ==
  ASSUME Inv, NEW b \in Stop(nodes), Effect(b)
  PROVE  FrontKept(b)
<1>1. /\ capacity \in Nat /\ nodes \in [0 .. capacity-1 -> Slots]
      /\ length \in Nat /\ length < capacity
      /\ ResizedCapacity \in Nat /\ Resized \in [0 .. ResizedCapacity-1 -> Slots]
      /\ length + 1 < ResizedCapacity
      /\ \A i \in 0 .. length-1 : Resized[i] = nodes[i]
  BY ArrayFacts
<1>2. b \in 0 .. length
  BY <1>1 DEF Stop
<1>3. ASSUME \A i \in 0 .. b-1 : nodes'[i] = nodes[i]
      PROVE  FrontKept(b)
  <2>1. KeptBelow(b) /\ KeptBehind(b, b)
    BY <1>1, <1>2, <1>3 DEF KeptBelow, KeptBehind
  <2> QED
    BY <1>1, <1>2, <2>1 DEF FrontKept
<1>4. CASE Kept
  BY <1>3, <1>4 DEF Kept
<1>5. CASE Appended
  <2>1. PICK e \in Entries : AppendEntry(e)
    BY <1>5 DEF Appended
  <2>2. \A i \in 0 .. b-1 : nodes'[i] = nodes[i]
    BY <1>1, <1>2, <2>1 DEF AppendEntry
  <2> QED
    BY <1>3, <2>2
<1>6. CASE InsertedOne
  BY <1>2, <1>6, InsertionKeepsFront
<1>7. CASE CopiedAll(b)
  <2>1. \A i \in 0 .. b-1 : nodes'[i] = nodes[i]
    BY <1>1, <1>2, <1>7 DEF CopiedAll, Copied
  <2> QED
    BY <1>3, <2>1
<1>8. CASE LeftOut(b)
  BY <1>2, <1>8, RemovalKeepsFront
<1>9. CASE CutOff(b)
  <2>1. PICK p \in 0 .. b : p = IF b = 0 THEN 0 ELSE b-1
    BY <1>1, <1>2
  <2>2. \A i \in 0 .. b-2 : nodes'[i] = nodes[i]
    BY <1>1, <1>2, <1>9 DEF CutOff, Copied
  <2>3. KeptBelow(p) /\ KeptBehind(p, b)
    BY <1>1, <1>2, <1>9, <2>1, <2>2 DEF KeptBelow, KeptBehind, CutOff
  <2> QED
    BY <2>3 DEF FrontKept
<1>10. CASE Overwritten
  <2>1. PICK i \in 0 .. length-1, e \in Entries : nodes' = [nodes EXCEPT ![i] = e]
    BY <1>10 DEF Overwritten
  <2>2. \A j \in 0 .. length-1 : j # i => nodes'[j] = nodes[j]
    BY <1>1, <2>1
  <2>3. CASE i < b
    <3>1. KeptBelow(i) /\ KeptBehind(i, b)
      BY <1>1, <1>2, <1>10, <2>2, <2>3 DEF KeptBelow, KeptBehind, Overwritten
    <3> QED
      BY <1>1, <1>2, <2>3, <3>1 DEF FrontKept
  <2>4. CASE i >= b
    BY <1>1, <1>2, <1>3, <2>2, <2>4
  <2> QED
    BY <1>1, <1>2, <2>3, <2>4
<1> QED
  BY <1>4, <1>5, <1>6, <1>7, <1>8, <1>9, <1>10 DEF Effect

\* Whatever null keys a map holds, a call keeps the entries in front of the
\* first null key or hole (RepeatKeyMap.java: the copying loops): all stay in
\* their order, moved by one place at most, but the one removed or replaced.
THEOREM PrefixKept == Spec => PrefixSurvives
<1>1. ASSUME Inv, [Next]_vars, NEW b \in Stop(nodes)
      PROVE  \E p \in 0 .. b : KeptBelow(p) /\ KeptBehind(p, b)
  <2>1. b \in 0 .. length
    BY DEF Stop
  <2> QED
    BY <1>1, <2>1, StepEffect, PrefixStays DEF FrontKept
<1>2. Inv /\ [Next]_vars =>
        [\A b \in Stop(nodes) : \E p \in 0 .. b : KeptBelow(p) /\ KeptBehind(p, b)]_vars
  BY <1>1
<1> QED
  BY <1>2, InvHolds, PTL DEF Spec, PrefixSurvives

------------------------------------------------------------------------------
\* How many slots are filled is a number.
LEMMA HeldNumber ==
  ASSUME NEW t, NEW n \in Nat
  PROVE  Cardinality(Held(t, n)) \in Nat
<1>1. Held(t, n) \subseteq 0 .. n-1
  BY DEF Held
<1>2. IsFiniteSet(0 .. n-1)
  BY FS_Interval
<1>3. IsFiniteSet(Held(t, n))
  BY <1>1, <1>2, FS_Subset
<1> QED
  BY <1>3, FS_CardinalityType

\* The invariant, a step at a time.
LEMMA NextInv == Inv /\ [Next]_vars => Inv'
<1>1. Inv /\ UNCHANGED vars => Inv'
  BY DEF vars, Inv, TypeOK, RoomForInsert, NoStaleSlots
<1> QED
  BY <1>1, InsertionStep, RemovalStep, LookupStep, UnionStep DEF Next

\* If all filled slots but at most one have a place in the new array, at most
\* one entry is lost.
LEMMA AtMostOneLost ==
  ASSUME Inv, capacity' \in Nat, NEW p,
         NEW f \in Injection(Held(nodes, capacity) \ {p}, Held(nodes', capacity'))
  PROVE  Filled' >= Filled - 1
<1> DEFINE F == Held(nodes, capacity)
           G == Held(nodes', capacity')
<1>1. IsFiniteSet(F) /\ IsFiniteSet(G)
  <2>1. F \subseteq 0 .. capacity-1 /\ G \subseteq 0 .. capacity'-1
    BY DEF Held
  <2>2. IsFiniteSet(0 .. capacity-1) /\ IsFiniteSet(0 .. capacity'-1)
    <3>1. 0 \in Int /\ capacity-1 \in Int /\ capacity'-1 \in Int
      BY ArrayFacts
    <3> QED
      BY <3>1, FS_Interval
  <2> QED
    BY <2>1, <2>2, FS_Subset
<1> HIDE DEF F, G
<1>2. Cardinality(F \ {p}) <= Cardinality(G)
  BY <1>1, FS_Injection DEF F, G
<1>3. Cardinality(F) \in Nat /\ Cardinality(G) \in Nat
  BY <1>1, FS_CardinalityType
<1>4. Cardinality(F \ {p}) = IF p \in F THEN Cardinality(F) - 1 ELSE Cardinality(F)
  BY <1>1, FS_RemoveElement
<1>5. Filled = Cardinality(F) /\ Filled' = Cardinality(G)
  BY DEF Filled, F, G, Held
<1> QED
  BY <1>2, <1>3, <1>4, <1>5

\* That is so when the slots behind p move by one, up or down, or stay.
LEMMA MovedKeeps ==
  ASSUME Inv, capacity' \in Nat, NEW p \in Int, NEW d \in {-1, 0, 1},
         \A i \in Held(nodes, capacity) \ {p} :
           (IF i < p THEN i ELSE i+d) \in Held(nodes', capacity')
  PROVE  Filled' >= Filled - 1
<1> DEFINE S == Held(nodes, capacity) \ {p}
           T == Held(nodes', capacity')
           f == [i \in S |-> IF i < p THEN i ELSE i+d]
<1>1. S \subseteq Int /\ p \notin S
  BY DEF Held
<1>2. \A i \in S : (IF i < p THEN i ELSE i+d) \in T
  OBVIOUS
<1> HIDE DEF S, T
<1>3. f \in [S -> T]
  BY <1>2
<1>4. \A i, j \in S : f[i] = f[j] => i = j
  BY <1>1
<1> HIDE DEF f
<1>5. f \in Injection(S, T)
  BY <1>3, <1>4 DEF Injection, IsInjective
<1> QED
  BY <1>5, AtMostOneLost DEF S, T

\* All entries but the one at p (if there is one) stay where they are.
StaysBut(p) ==
  \A i \in 0 .. length-1 : i < p \/ i > p => i \in 0 .. capacity'-1 /\ nodes'[i] = nodes[i]

\* A step that does not throw keeps all entries but at most one.
LEMMA QuietEffect ==
  ASSUME Inv, Effect(0), ret' # Throws
  PROVE  Filled' >= Filled - 1
<1>1. /\ capacity \in Nat /\ nodes \in [0 .. capacity-1 -> Slots]
      /\ length \in Nat /\ length < capacity
      /\ ResizedCapacity \in Nat /\ Resized \in [0 .. ResizedCapacity-1 -> Slots]
      /\ length + 1 < ResizedCapacity
      /\ \A i \in 0 .. length-1 : Resized[i] = nodes[i]
  BY ArrayFacts
<1>2. \A i \in Held(nodes, capacity) :
        i \in 0 .. length-1 /\ i \in Int /\ nodes[i] # None /\ Resized[i] # None
  BY ArrayFacts DEF Held
<1>3. ASSUME capacity' \in Nat, NEW p \in Int, NEW d \in {-1, 0, 1},
             \A i \in 0 .. length-1 : i < p => i \in 0 .. capacity'-1 /\ nodes'[i] = nodes[i],
             \A i \in 0 .. length-1 : i > p => i+d \in 0 .. capacity'-1 /\ nodes'[i+d] = nodes[i]
      PROVE  Filled' >= Filled - 1
  <2>1. ASSUME NEW i \in Held(nodes, capacity) \ {p}
        PROVE  (IF i < p THEN i ELSE i+d) \in Held(nodes', capacity')
    <3>1. i \in 0 .. length-1 /\ nodes[i] # None /\ (i < p \/ i > p)
      BY <1>2, <2>1
    <3>2. CASE i < p
      BY <1>3, <3>1, <3>2 DEF Held
    <3>3. CASE i > p
      BY <1>3, <3>1, <3>3 DEF Held
    <3> QED
      BY <3>1, <3>2, <3>3
  <2> QED
    BY <1>3, <2>1, MovedKeeps
<1>4. ASSUME capacity' \in Nat, NEW p \in Int, StaysBut(p)
      PROVE  Filled' >= Filled - 1
  <2>1. \A i \in 0 .. length-1 : i < p => i \in 0 .. capacity'-1 /\ nodes'[i] = nodes[i]
    BY <1>1, <1>4 DEF StaysBut
  <2>2. ASSUME NEW i \in 0 .. length-1, i > p
        PROVE  i+0 \in 0 .. capacity'-1 /\ nodes'[i+0] = nodes[i]
    <3>1. i+0 = i
      OBVIOUS
    <3> QED
      BY <1>1, <1>4, <2>2, <3>1 DEF StaysBut
  <2>3. 0 \in {-1, 0, 1}
    OBVIOUS
  <2> QED
    BY <1>3, <1>4, <2>1, <2>2, <2>3
<1>5. ASSUME capacity' \in Nat,
             \A i \in 0 .. length-1 : i \in 0 .. capacity'-1 /\ nodes'[i] = nodes[i]
      PROVE  Filled' >= Filled - 1
  <2>1. PICK p \in Int : p = -1
    OBVIOUS
  <2>2. StaysBut(p)
    BY <1>5 DEF StaysBut
  <2> QED
    BY <1>4, <1>5, <2>2
<1>6. CASE Kept
  BY <1>1, <1>5, <1>6 DEF Kept
<1>7. CASE Appended
  <2>1. PICK e \in Entries : AppendEntry(e)
    BY <1>7 DEF Appended
  <2>2. capacity' \in Nat /\ \A i \in 0 .. length-1 : i \in 0 .. capacity'-1 /\ nodes'[i] = nodes[i]
    BY <1>1, <2>1 DEF AppendEntry
  <2> QED
    BY <1>5, <2>2
<1>8. CASE InsertedOne
  <2>1. PICK p \in 0 .. length, e \in Entries :
          capacity' = ResizedCapacity /\ nodes' = Inserted(Resized, p, e)
    BY <1>8 DEF InsertedOne, InsertAtSlot, Entry, Entries
  <2>2. \A i \in 0 .. length-1 : i < p => i \in 0 .. capacity'-1 /\ nodes'[i] = nodes[i]
    BY <1>1, <2>1 DEF Inserted
  <2>3. \A i \in 0 .. length-1 : i > p => i+1 \in 0 .. capacity'-1 /\ nodes'[i+1] = nodes[i]
    BY <1>1, <2>1 DEF Inserted
  <2>4. p \in Int /\ 1 \in {-1, 0, 1} /\ capacity' \in Nat
    BY <1>1, <2>1
  <2> QED
    BY <1>3, <2>2, <2>3, <2>4
<1>9. CASE CopiedAll(0)
  <2>1. PICK end \in Int : nodes' = Copied(Resized, end) /\ end >= length /\ capacity' = ResizedCapacity
    BY <1>1, <1>9 DEF CopiedAll
  <2>2. \A i \in 0 .. length-1 : i \in 0 .. capacity'-1 /\ nodes'[i] = nodes[i]
    BY <1>1, <2>1 DEF Copied
  <2> QED
    BY <1>1, <1>5, <2>1, <2>2
<1>10. CASE LeftOut(0)
  <2>1. PICK end \in 0 .. capacity : \E p \in 0 .. end-1 :
          end >= length /\ nodes' = Without(nodes, p, end) /\ capacity' = capacity
    BY <1>1, <1>10 DEF LeftOut
  <2>2. PICK p \in 0 .. end-1 : nodes' = Without(nodes, p, end)
    BY <2>1
  <2>3. \A i \in 0 .. length-1 : i < p => i \in 0 .. capacity'-1 /\ nodes'[i] = nodes[i]
    BY <1>1, <2>1, <2>2 DEF Without
  <2>4. \A i \in 0 .. length-1 : i > p => i+(-1) \in 0 .. capacity'-1 /\ nodes'[i+(-1)] = nodes[i]
    BY <1>1, <2>1, <2>2 DEF Without
  <2>5. p \in Int /\ -1 \in {-1, 0, 1} /\ capacity' \in Nat
    BY <1>1, <2>1, <2>2
  <2> QED
    BY <1>3, <2>3, <2>4, <2>5
<1>11. CASE CutOff(0)
  <2>1. PICK end \in Int : nodes' = Copied(nodes, end) /\ end >= length - 1 /\ capacity' = capacity
    BY <1>1, <1>11 DEF CutOff
  <2>2. StaysBut(length-1)
    BY <1>1, <2>1 DEF Copied, StaysBut
  <2>3. length-1 \in Int
    BY <1>1
  <2> QED
    BY <1>1, <1>4, <2>1, <2>2, <2>3
<1>12. CASE Overwritten
  <2>1. PICK k \in 0 .. length-1, e \in Entries :
          nodes' = [nodes EXCEPT ![k] = e] /\ capacity' = capacity
    BY <1>12 DEF Overwritten
  <2>2. k \in Int /\ StaysBut(k)
    BY <1>1, <2>1 DEF StaysBut
  <2> QED
    BY <1>1, <1>4, <2>1, <2>2
<1> QED
  BY <1>6, <1>7, <1>8, <1>9, <1>10, <1>11, <1>12 DEF Effect

\* A call that loses more than one entry throws (RepeatKeyMap.java:
\* node.key.equals(key) in every search): no such loss goes unnoticed.
THEOREM LossReported == Spec => LossIsReported
<1>1. ASSUME Inv, [Next]_vars
      PROVE  Filled' < Filled - 1 => ret' = Throws
  <2>1. ASSUME ret' # Throws
        PROVE  Filled' >= Filled - 1
    <3>1. 0 \in 0 .. length
      BY ArrayFacts, <1>1
    <3> QED
      BY <1>1, <2>1, <3>1, StepEffect, QuietEffect
  <2>2. Filled \in Int /\ Filled' \in Int
    <3>1. capacity \in Nat /\ capacity' \in Nat
      BY <1>1, NextInv DEF Inv, TypeOK
    <3> QED
      BY <3>1, HeldNumber DEF Filled, Held
  <2> QED
    BY <2>1, <2>2
<1>2. Inv /\ [Next]_vars => [Filled' < Filled - 1 => ret' = Throws]_vars
  BY <1>1
<1> QED
  BY <1>2, InvHolds, PTL DEF Spec, LossIsReported

------------------------------------------------------------------------------
\* The array of RepeatKeyMap implements the list of OrderedMultimap: every
\* call, seen through the first length slots, does what the list says, and
\* resizing, copying and the iteration of putAll do not show.  For every
\* set of keys without null, every set of values and every bound.

\* What callers see of an array: the list that Multimap is instantiated with.
Listed(t) == [i \in 1 .. length |-> t[i-1]]

List == Listed(nodes)

\* What the steps below use of the invariants.
Sound ==
  /\ Inv /\ Packed
  /\ mode # "idle" => call.op = "putAll"

------------------------------------------------------------------------------
\* The sequence s with e put at position p, and s without that position.
WithEntry(s, p, e) ==
  [i \in 1 .. Len(s)+1 |-> IF i < p THEN s[i] ELSE IF i = p THEN e ELSE s[i-1]]

WithoutEntry(s, p) == [i \in 1 .. Len(s)-1 |-> IF i < p THEN s[i] ELSE s[i+1]]

\* InsertAt puts an entry among the others, which keep their order.
LEMMA InsertAtElements ==
  ASSUME NEW S, NEW s \in Seq(S), NEW e \in S, NEW p \in 1 .. Len(s)+1
  PROVE  Multimap!InsertAt(s, p, e) = WithEntry(s, p, e)
<1> DEFINE front == SubSeq(s, 1, p-1)
           back  == SubSeq(s, p, Len(s))
           r     == [i \in 1 .. Len(s)+1 |-> IF i < p THEN s[i] ELSE IF i = p THEN e ELSE s[i-1]]
           q     == (front \o <<e>>) \o back
<1>1. Len(s) \in Nat /\ p \in Int
  OBVIOUS
<1>2. front \in Seq(S) /\ Len(front) = p - 1 /\ \A i \in 1 .. p-1 : front[i] = s[i]
  BY <1>1
<1>3. back \in Seq(S) /\ Len(back) = Len(s) - p + 1
      /\ \A i \in 1 .. Len(s)-p+1 : back[i] = s[p+i-1]
  BY <1>1
<1>4. <<e>> \in Seq(S) /\ Len(<<e>>) = 1 /\ <<e>>[1] = e
  OBVIOUS
<1> HIDE DEF front, back
<1>5. front \o <<e>> \in Seq(S) /\ Len(front \o <<e>>) = p
      /\ \A i \in 1 .. p : (front \o <<e>>)[i] = IF i < p THEN s[i] ELSE e
  BY <1>1, <1>2, <1>4
<1>6. q \in Seq(S) /\ Len(q) = Len(s) + 1
      /\ \A i \in 1 .. Len(s)+1 : q[i] = IF i <= p THEN (front \o <<e>>)[i] ELSE back[i-p]
  BY <1>1, <1>3, <1>5
<1> HIDE DEF q
<1>7. ASSUME NEW i \in 1 .. Len(s)+1 PROVE q[i] = r[i]
  <2>0. r[i] = IF i < p THEN s[i] ELSE IF i = p THEN e ELSE s[i-1]
    BY <1>1
  <2> HIDE DEF r
  <2>1. CASE i <= p
    <3>1. i \in 1 .. p
      BY <1>1, <2>1
    <3>2. q[i] = IF i < p THEN s[i] ELSE e
      BY <1>5, <1>6, <2>1, <3>1
    <3> QED
      BY <1>1, <2>0, <2>1, <3>2
  <2>2. CASE i > p
    <3>1. i-p \in 1 .. Len(s)-p+1 /\ p+(i-p)-1 = i-1
      BY <1>1, <2>2
    <3>2. q[i] = s[i-1]
      BY <1>1, <1>3, <1>6, <2>2, <3>1
    <3> QED
      BY <1>1, <2>0, <2>2, <3>2
  <2> QED
    BY <1>1, <2>1, <2>2
<1>8. q = r
  <2>1. Len(s)+1 \in Nat /\ DOMAIN q = 1 .. Len(s)+1 /\ q = [i \in 1 .. Len(s)+1 |-> q[i]]
    BY <1>1, <1>6
  <2>2. DOMAIN r = 1 .. Len(s)+1 /\ r = [i \in 1 .. Len(s)+1 |-> r[i]]
    OBVIOUS
  <2> HIDE DEF r
  <2> QED
    BY <1>7, <2>1, <2>2
<1> QED
  BY <1>8 DEF Multimap!InsertAt, WithEntry, front, back, q

\* The same of RemoveAt, which closes the gap.
LEMMA RemoveAtElements ==
  ASSUME NEW S, NEW s \in Seq(S), NEW p \in 1 .. Len(s)
  PROVE  Multimap!RemoveAt(s, p) = WithoutEntry(s, p)
<1> DEFINE front == SubSeq(s, 1, p-1)
           back  == SubSeq(s, p+1, Len(s))
           r     == [i \in 1 .. Len(s)-1 |-> IF i < p THEN s[i] ELSE s[i+1]]
           q     == front \o back
<1>1. Len(s) \in Nat /\ p \in Int
  OBVIOUS
<1>2. front \in Seq(S) /\ Len(front) = p - 1 /\ \A i \in 1 .. p-1 : front[i] = s[i]
  BY <1>1
<1>3. back \in Seq(S) /\ Len(back) = Len(s) - p
      /\ \A i \in 1 .. Len(s)-p : back[i] = s[p+i]
  BY <1>1
<1> HIDE DEF front, back
<1>4. q \in Seq(S) /\ Len(q) = Len(s) - 1
      /\ \A i \in 1 .. Len(s)-1 : q[i] = IF i < p THEN front[i] ELSE back[i-p+1]
  <2>1. /\ q \in Seq(S)
        /\ Len(q) = Len(front) + Len(back)
        /\ \A i \in 1 .. Len(front) + Len(back) :
             q[i] = IF i <= Len(front) THEN front[i] ELSE back[i - Len(front)]
    BY <1>2, <1>3, ConcatProperties
  <2>2. Len(front) + Len(back) = Len(s) - 1
    BY <1>1, <1>2, <1>3
  <2>3. \A i \in 1 .. Len(s) - 1 : (i <= Len(front) <=> i < p) /\ i - Len(front) = i - p + 1
    BY <1>1, <1>2
  <2> HIDE DEF q
  <2> QED
    BY <2>1, <2>2, <2>3
<1>5. \A i \in 1 .. Len(s)-1 : q[i] = r[i]
  BY <1>1, <1>2, <1>3, <1>4
<1>6. q = r
  <2>1. q = [i \in 1 .. Len(q) |-> q[i]]
    BY <1>4, LenProperties
  <2> QED
    BY <1>4, <1>5, <2>1
<1> QED
  BY <1>6 DEF Multimap!RemoveAt, WithoutEntry, front, back

------------------------------------------------------------------------------
\* Ranks in the array, whose indices count from 0, are ranks in the list.
LEMMA RankAgrees ==
  ASSUME length \in Nat, NEW t, NEW k, NEW i \in 0 .. length
  PROVE  Cardinality({q \in 1 .. (i+1)-1 : Listed(t)[q].key = k}) = Rank(t, k, i)
<1> DEFINE A == {j \in 0 .. i-1 : t[j].key = k}
           B == {q \in 1 .. (i+1)-1 : Listed(t)[q].key = k}
           f == [j \in A |-> j+1]
<1>1. A \subseteq 0 .. i-1 /\ IsFiniteSet(A)
  <2>1. IsFiniteSet(0 .. i-1)
    BY FS_Interval
  <2>2. A \subseteq 0 .. i-1
    OBVIOUS
  <2> QED
    BY <2>1, <2>2, FS_Subset
<1>2. \A q \in 1 .. i : Listed(t)[q] = t[q-1]
  BY DEF Listed
<1>3. f \in [A -> B]
  BY <1>1, <1>2
<1>4. \A a, b \in A : f[a] = f[b] => a = b
  BY <1>1
<1>5. \A q \in B : \E a \in A : f[a] = q
  <2> TAKE q \in B
  <2>1. q-1 \in A /\ q \in Int
    BY <1>2
  <2> QED
    BY <2>1
<1> HIDE DEF A, B, f
<1>6. f \in Bijection(A, B)
  BY <1>3, <1>4, <1>5 DEF Bijection, Injection, Surjection, IsInjective
<1>7. Cardinality(B) = Cardinality(A)
  BY <1>1, <1>6, FS_Bijection DEF ExistsBijection
<1> QED
  BY <1>7 DEF Rank, A, B

\* An array t that holds entries below length: the map's own, or the one that
\* resize() has just made of it.
Entered(t) ==
  /\ NullKey \notin Keys /\ length \in Nat
  /\ \A i \in 0 .. length-1 : t[i] \in Entries

\* The list is a sequence of entries.
LEMMA ListedFacts ==
  ASSUME NEW t, Entered(t)
  PROVE  /\ Listed(t) \in Seq(Entries) /\ Len(Listed(t)) = length
         /\ \A i \in 1 .. length : Listed(t)[i] = t[i-1]
<1>1. Listed(t) \in [1 .. length -> Entries]
  BY DEF Listed, Entered
<1> QED
  BY <1>1 DEF Listed, Entered

\* Where the array has an occurrence of a key the list has it one further on.
LEMMA OccurrenceAgrees ==
  ASSUME NEW t, Entered(t), Listed(t) = List, NEW k, NEW n
  PROVE  /\ \A i \in Occurrence(t, k, n) : i+1 \in Multimap!Occurrence(List, k, n)
         /\ Occurrence(t, k, n) = {} => Multimap!Occurrence(List, k, n) = {}
<1>1. /\ length \in Nat /\ Len(List) = length
      /\ \A i \in 1 .. length : List[i] = t[i-1]
  BY ListedFacts DEF Entered
<1>2. \A i \in 0 .. length-1 : ReadableBelow(t, i+1)
  BY NoneAssumption DEF ReadableBelow, Unreadable, Entered, Entries
<1>3. \A i \in 0 .. length-1 :
        Cardinality({q \in 1 .. (i+1)-1 : List[q].key = k}) = Rank(t, k, i)
  BY RankAgrees, <1>1
<1>4. \A i \in 0 .. length-1 :
        i \in Occurrence(t, k, n) <=> i+1 \in Multimap!Occurrence(List, k, n)
  <2> TAKE i \in 0 .. length-1
  <2>1. Multimap!Rank(List, k, i+1) = Rank(t, k, i)
    BY <1>3 DEF Multimap!Rank, Multimap!Cardinality, Cardinality
  <2>2. List[i+1] = t[i] /\ i+1 \in 1 .. Len(List)
    BY <1>1
  <2> QED
    BY <1>2, <2>1, <2>2 DEF Occurrence, Multimap!Occurrence
<1>5. Occurrence(t, k, n) \subseteq 0 .. length-1
  BY DEF Occurrence
<1>6. \A p \in Multimap!Occurrence(List, k, n) : p-1 \in 0 .. length-1 /\ (p-1)+1 = p
  BY <1>1 DEF Multimap!Occurrence
<1>7. \A p \in Multimap!Occurrence(List, k, n) : p-1 \in Occurrence(t, k, n)
  BY <1>4, <1>6
<1> QED
  BY <1>4, <1>5, <1>7

\* The map's array, and what resize() makes of it, hold the same entries.
LEMMA BothEntered ==
  ASSUME NullKey \notin Keys, Sound
  PROVE  /\ Entered(nodes) /\ Entered(Resized)
         /\ Listed(Resized) = List
         /\ length \in Nat /\ Len(List) = length /\ List \in Seq(Entries)
<1>1. Entered(nodes) /\ Entered(Resized)
  BY PackedEntries DEF Entered, Sound
<1>2. \A i \in 1 .. length : Resized[i-1] = nodes[i-1]
  BY <1>1, ResizeMakesRoom DEF Sound, Entered
<1> QED
  BY <1>1, <1>2, ListedFacts DEF Listed, List, Entered

------------------------------------------------------------------------------
\* What the array operations are on the list.

\* Inserting at a slot inserts at the position one further on.
LEMMA InsertedList ==
  ASSUME NullKey \notin Keys, Sound, NEW p \in 0 .. length, NEW k \in Keys, NEW v \in Values,
         InsertAtSlot(p, k, v)
  PROVE  List' = Multimap!InsertAt(List, p+1, Entry(k, v))
<1> DEFINE e == Entry(k, v)
<1>1. e \in Entries
  BY DEF Entry, Entries
<1>2. length \in Nat /\ Len(List) = length /\ List \in Seq(Entries)
  BY BothEntered
<1>3. Multimap!InsertAt(List, p+1, e) =
        [i \in 1 .. length+1 |-> IF i < p+1 THEN List[i] ELSE IF i = p+1 THEN e ELSE List[i-1]]
  <2>1. p+1 \in 1 .. Len(List)+1
    BY <1>2
  <2>2. Multimap!InsertAt(List, p+1, e) = WithEntry(List, p+1, e)
    BY <1>1, <1>2, <2>1, InsertAtElements
  <2> QED
    BY <1>2, <2>2 DEF WithEntry
<1>4. \A i \in 0 .. length : i \in DOMAIN Resized
  BY PackedEntries DEF Sound
<1>5. \A i \in 1 .. length+1 :
        nodes'[i-1] = IF i < p+1 THEN List[i] ELSE IF i = p+1 THEN e ELSE List[i-1]
  <2> TAKE i \in 1 .. length+1
  <2>1. nodes'[i-1] = IF i-1 < p THEN Resized[i-1] ELSE IF i-1 = p THEN e ELSE Resized[i-2]
    BY <1>2, <1>4 DEF InsertAtSlot, Inserted
  <2>2. \A j \in 1 .. length : List[j] = Resized[j-1]
    BY BothEntered, ListedFacts
  <2> QED
    BY <1>2, <2>1, <2>2
<1> QED
  BY <1>2, <1>3, <1>5 DEF List, Listed, InsertAtSlot

\* Leaving a slot out of the copy removes the position one further on.
LEMMA RemovedList ==
  ASSUME NullKey \notin Keys, Sound, NEW p \in 0 .. length-1, NEW end \in length .. capacity,
         nodes' = Without(nodes, p, end), length' = length - 1
  PROVE  List' = Multimap!RemoveAt(List, p+1)
<1>1. length \in Nat /\ Len(List) = length /\ List \in Seq(Entries)
  BY BothEntered
<1>2. Multimap!RemoveAt(List, p+1) =
        [i \in 1 .. length-1 |-> IF i < p+1 THEN List[i] ELSE List[i+1]]
  BY <1>1, RemoveAtElements, SMTT(30) DEF WithoutEntry
<1>3. capacity \in Nat /\ length < capacity /\ DOMAIN nodes = 0 .. capacity-1
  BY DEF Sound, Inv, TypeOK
<1>4. \A i \in 1 .. length-1 : nodes'[i-1] = IF i < p+1 THEN List[i] ELSE List[i+1]
  <2> TAKE i \in 1 .. length-1
  <2>1. nodes'[i-1] = IF i-1 < p THEN nodes[i-1] ELSE nodes[i]
    BY <1>1, <1>3 DEF Without
  <2>2. List[i] = nodes[i-1] /\ List[i+1] = nodes[i]
    BY <1>1 DEF List, Listed
  <2> QED
    BY <1>1, <2>1, <2>2
<1> QED
  BY <1>1, <1>2, <1>4 DEF List, Listed

\* Copying all entries leaves the list as it is.
LEMMA SameList ==
  ASSUME NullKey \notin Keys, Sound, length' = length,
         NEW t \in {nodes, Resized}, NEW end \in Int, end >= length,
         nodes' = t \/ nodes' = Copied(t, end)
  PROVE  List' = List
<1>1. length \in Nat /\ \A i \in 1 .. length : List[i] = t[i-1]
  <2>1. Entered(t) /\ Listed(t) = List /\ length \in Nat
    BY BothEntered DEF List
  <2> QED
    BY <2>1, ListedFacts
<1>2. \A i \in 0 .. length-1 : i \in DOMAIN t
  BY PackedEntries DEF Sound, Inv, TypeOK
<1>3. \A i \in 1 .. length : nodes'[i-1] = t[i-1]
  BY <1>1, <1>2 DEF Copied
<1> QED
  BY <1>1, <1>3 DEF List, Listed

\* put appends.
LEMMA AppendedList ==
  ASSUME NullKey \notin Keys, Sound, NEW e \in Entries, AppendEntry(e)
  PROVE  List' = Append(List, e)
<1>1. length \in Nat /\ Len(List) = length /\ List \in Seq(Entries)
  BY BothEntered
<1>2. \A i \in 0 .. length : i \in DOMAIN Resized
  BY PackedEntries DEF Sound
<1>3. \A i \in 1 .. length+1 : nodes'[i-1] = IF i <= length THEN List[i] ELSE e
  <2> TAKE i \in 1 .. length+1
  <2>1. \A j \in 1 .. length : List[j] = Resized[j-1]
    BY BothEntered, ListedFacts
  <2> QED
    BY <1>1, <1>2, <2>1 DEF AppendEntry
<1>4. Append(List, e) = [i \in 1 .. length+1 |-> IF i <= length THEN List[i] ELSE e]
  <2>1. Append(List, e) \in Seq(Entries) /\ Len(Append(List, e)) = length + 1
    BY <1>1, AppendProperties
  <2>2. \A i \in 1 .. length+1 : Append(List, e)[i] = IF i <= length THEN List[i] ELSE e
    BY <1>1, AppendProperties
  <2>3. Append(List, e) = [i \in 1 .. length+1 |-> Append(List, e)[i]]
    BY <2>1, LenProperties
  <2> QED
    BY <2>2, <2>3
<1> QED
  BY <1>1, <1>3, <1>4 DEF List, Listed, AppendEntry

------------------------------------------------------------------------------
\* Each call, and each iteration of putAll, is a step of the list.
LEMMA PutRefines ==
  ASSUME NullKey \notin Keys, Sound, NEW k \in Keys, NEW v \in Values, Put(k, v)
  PROVE  Multimap!Put(k, v)
<1>1. Entry(k, v) \in Entries
  BY DEF Entry, Entries
<1>2. List' = Append(List, Entry(k, v))
  BY <1>1, AppendedList DEF Put
<1> QED
  BY <1>2 DEF Put, Begin, Call, Entry, Multimap!Put, Multimap!Call, Multimap!Entry, List, Listed

\* A search that finds nothing runs to the end and copies everything.
LEMMA InsertNothingRefines ==
  ASSUME NullKey \notin Keys, Sound, InsertNothing
  PROVE  Multimap!Miss(None)
<1>1. Entered(Resized) /\ length \in Nat
  BY BothEntered
<1>2. \A b \in Stop(Resized) : b = length
  BY <1>1, StopsAtEnd DEF Entered
<1>3. nodes' = Copied(Resized, length) /\ length' = length /\ ret' = None
  BY <1>1, <1>2 DEF InsertNothing
<1>4. List' = List
  BY <1>1, <1>3, SameList
<1> QED
  BY <1>3, <1>4 DEF Multimap!Miss, List, Listed

\* An entry behind an occurrence of its key, or no change.
LEMMA PutAfterRefines ==
  ASSUME NullKey \notin Keys, Sound, NEW k \in Keys, NEW v \in Values, NEW n, PutAfter(k, v, n)
  PROVE  Multimap!PutAfter(k, v, n)
<1>1. Entered(Resized) /\ Listed(Resized) = List /\ length \in Nat
  BY BothEntered
<1>2. call' = Multimap!Call("putAfter", k, n)
  BY DEF PutAfter, Begin, Call, Multimap!Call
<1>3. ASSUME NEW i \in Occurrence(Resized, k, n), InsertAtSlot(i+1, k, v)
      PROVE  Multimap!PutAfter(k, v, n)
  <2>1. i+1 \in 0 .. length
    BY <1>1 DEF Occurrence
  <2>2. List' = Multimap!InsertAt(List, (i+1)+1, Multimap!Entry(k, v)) /\ ret' = v
    BY <1>3, <2>1, InsertedList DEF InsertAtSlot, Entry, Multimap!Entry
  <2>3. i+1 \in Multimap!Occurrence(List, k, n)
    BY <1>1, OccurrenceAgrees
  <2> QED
    BY <1>2, <2>2, <2>3 DEF Multimap!PutAfter, List, Listed
<1>4. ASSUME Occurrence(Resized, k, n) = {}, InsertNothing
      PROVE  Multimap!PutAfter(k, v, n)
  <2>1. Multimap!Occurrence(List, k, n) = {}
    BY <1>1, <1>4, OccurrenceAgrees
  <2> QED
    BY <1>2, <1>4, <2>1, InsertNothingRefines DEF Multimap!PutAfter, List, Listed
<1> QED
  BY <1>3, <1>4 DEF PutAfter

\* An entry in front of one, or no change.
LEMMA PutBeforRefines ==
  ASSUME NullKey \notin Keys, Sound, NEW k \in Keys, NEW v \in Values, NEW n, PutBefor(k, v, n)
  PROVE  Multimap!PutBefor(k, v, n)
<1>1. Entered(Resized) /\ Listed(Resized) = List /\ length \in Nat
  BY BothEntered
<1>2. call' = Multimap!Call("putBefor", k, n)
  BY DEF PutBefor, Begin, Call, Multimap!Call
<1>3. ASSUME NEW i \in Occurrence(Resized, k, n), InsertAtSlot(i, k, v)
      PROVE  Multimap!PutBefor(k, v, n)
  <2>1. i \in 0 .. length
    BY <1>1 DEF Occurrence
  <2>2. List' = Multimap!InsertAt(List, i+1, Multimap!Entry(k, v)) /\ ret' = v
    BY <1>3, <2>1, InsertedList DEF InsertAtSlot, Entry, Multimap!Entry
  <2>3. i+1 \in Multimap!Occurrence(List, k, n)
    BY <1>1, OccurrenceAgrees
  <2> QED
    BY <1>2, <2>2, <2>3 DEF Multimap!PutBefor, List, Listed
<1>4. ASSUME Occurrence(Resized, k, n) = {}, InsertNothing
      PROVE  Multimap!PutBefor(k, v, n)
  <2>1. Multimap!Occurrence(List, k, n) = {}
    BY <1>1, <1>4, OccurrenceAgrees
  <2> QED
    BY <1>2, <1>4, <2>1, InsertNothingRefines DEF Multimap!PutBefor, List, Listed
<1> QED
  BY <1>3, <1>4 DEF PutBefor

\* An entry at a position that some entry has, or no change.
LEMMA PutToIndexRefines ==
  ASSUME NullKey \notin Keys, Sound, NEW k \in Keys, NEW v \in Values, NEW n, PutToIndex(k, v, n)
  PROVE  Multimap!PutToIndex(k, v, n)
<1>1. length \in Nat /\ Len(List) = length
  BY BothEntered
<1>2. call' = Multimap!Call("putToIndex", None, n)
  BY DEF PutToIndex, Begin, Call, Multimap!Call
<1>3. CASE n \in 0 .. length-1 /\ InsertAtSlot(n, k, v)
  <2>1. List' = Multimap!InsertAt(List, n+1, Multimap!Entry(k, v)) /\ ret' = v
    BY <1>1, <1>3, InsertedList DEF InsertAtSlot, Entry, Multimap!Entry
  <2> QED
    BY <1>1, <1>2, <1>3, <2>1 DEF Multimap!PutToIndex, List, Listed
<1>4. CASE n \notin 0 .. length-1 /\ nodes' = Copied(Resized, length) /\ length' = length /\ ret' = None
  <2>1. List' = List
    BY <1>1, <1>4, SameList
  <2> QED
    BY <1>1, <1>2, <1>4, <2>1 DEF Multimap!PutToIndex, Multimap!Miss, List, Listed
<1> QED
  BY <1>3, <1>4 DEF PutToIndex

\* The n-th occurrence goes, the others close up, and its value is returned.
LEMMA RemoveNthRefines ==
  ASSUME NullKey \notin Keys, Sound, NEW k \in Keys, NEW n \in Int, RemoveNth(k, n)
  PROVE  Multimap!RemoveNth(k, n)
<1>1. /\ Entered(nodes) /\ Listed(nodes) = List
      /\ length \in Nat /\ length \in length .. capacity
  BY BothEntered DEF List, Sound, Inv, TypeOK
<1>2. call' = Multimap!Call("remove", k, n)
  BY DEF RemoveNth, Begin, Call, Multimap!Call
<1>3. \A b \in Stop(nodes) : b = length
  BY <1>1, StopsAtEnd DEF Entered
<1>4. ASSUME NEW i \in Occurrence(nodes, k, n-1), nodes' = Without(nodes, i, length),
             length' = length - 1, ret' = nodes[i].value
      PROVE  Multimap!RemoveNth(k, n)
  <2>1. i \in 0 .. length-1
    BY DEF Occurrence
  <2>2. List' = Multimap!RemoveAt(List, i+1)
    BY <1>1, <1>4, <2>1, RemovedList
  <2>3. ret' = List[i+1].value
    BY <1>1, <1>4, <2>1, ListedFacts
  <2>4. i+1 \in Multimap!Occurrence(List, k, n-1)
    BY <1>1, OccurrenceAgrees
  <2> QED
    BY <1>2, <2>2, <2>3, <2>4 DEF Multimap!RemoveNth, List, Listed
<1>5. ASSUME Occurrence(nodes, k, n-1) = {}, nodes' = Copied(nodes, length),
             length' = length, ret' = None
      PROVE  Multimap!RemoveNth(k, n)
  <2>1. Multimap!Occurrence(List, k, n-1) = {}
    BY <1>1, <1>5, OccurrenceAgrees
  <2>2. List' = List
    BY <1>1, <1>5, SameList
  <2> QED
    BY <1>2, <1>5, <2>1, <2>2 DEF Multimap!RemoveNth, Multimap!Miss, List, Listed
<1> QED
  BY <1>1, <1>3, <1>4, <1>5 DEF RemoveNth

\* remove(index) throws behind the last entry and does nothing past the array:
\* the list says only that one of the two happens.
LEMMA RemoveIndexRefines ==
  ASSUME NullKey \notin Keys, Sound, NEW n \in Int, RemoveIndex(n)
  PROVE  Multimap!RemoveIndex(n)
<1> DEFINE p == IF n <= 0 THEN 0 ELSE n
<1>1. /\ length \in Nat /\ capacity \in Nat /\ capacity \in length .. capacity /\ p \in Nat
      /\ Len(List) = length /\ \A i \in 1 .. length : List[i] = nodes[i-1]
      /\ \A i \in 0 .. capacity-1 : i >= length => nodes[i] = None
      /\ \A i \in 0 .. length-1 : nodes[i] # None
  BY BothEntered, ListedFacts DEF List, Sound, Inv, TypeOK, NoStaleSlots, Packed
<1>2. call' = Multimap!Call("removeIndex", None, n)
  BY DEF RemoveIndex, Begin, Call, Multimap!Call
<1>3. (IF n <= 0 THEN 1 ELSE n+1) = p + 1
  OBVIOUS
<1>4. CASE p < length
  <2>1. nodes' = Without(nodes, p, capacity) /\ length' = length - 1 /\ ret' = nodes[p].value
    BY <1>1, <1>4 DEF RemoveIndex
  <2>2. List' = Multimap!RemoveAt(List, p+1)
    BY <1>1, <1>4, <2>1, RemovedList
  <2>3. ret' = List[p+1].value /\ p+1 \in 1 .. Len(List)
    BY <1>1, <1>4, <2>1
  <2> QED
    BY <1>2, <1>3, <2>2, <2>3 DEF Multimap!RemoveIndex, List, Listed
<1>5. CASE p >= length
  <2>1. PICK end \in {p, capacity} :
          nodes' = Copied(nodes, end) /\ length' = length /\ ret' \in {None, Throws}
    BY <1>1, <1>5 DEF RemoveIndex
  <2>2. List' = List
    BY <1>1, <1>5, <2>1, SameList
  <2>3. p+1 \notin 1 .. Len(List)
    BY <1>1, <1>5
  <2> QED
    BY <1>2, <1>3, <2>1, <2>2, <2>3 DEF Multimap!RemoveIndex, Multimap!Miss, List, Listed
<1> QED
  BY <1>1, <1>4, <1>5

\* The last entry goes, if there is one.
LEMMA RemoveLastValueRefines ==
  ASSUME NullKey \notin Keys, Sound, RemoveLastValue
  PROVE  Multimap!RemoveLastValue
<1>1. /\ length \in Nat /\ Len(List) = length /\ length < capacity
      /\ capacity \in Nat /\ nodes \in [0 .. capacity-1 -> Slots]
      /\ \A i \in 1 .. length : List[i] = nodes[i-1]
      /\ \A i \in 0 .. length-1 : nodes[i] # None
      /\ \A i \in 0 .. capacity-1 : i >= length => nodes[i] = None
  BY BothEntered, ListedFacts DEF List, Sound, Inv, TypeOK, Packed, NoStaleSlots
<1>2. call' = Multimap!Call("removeLastValue", None, 0) /\ nodes' = Copied(nodes, length-1)
  BY DEF RemoveLastValue, Begin, Call, Multimap!Call
<1>3. CASE length = 0
  <2>1. List = << >> /\ List' = << >> /\ ret' = None
    BY <1>1, <1>3 DEF RemoveLastValue, List, Listed
  <2> QED
    BY <1>2, <2>1 DEF Multimap!RemoveLastValue, Multimap!Miss, List, Listed
<1>4. CASE length # 0
  <2>1. length' = length - 1 /\ ret' = nodes[length-1].value /\ length-1 \in 0 .. length-1
    BY <1>1, <1>4 DEF RemoveLastValue
  <2>2. nodes' = Without(nodes, length-1, length)
    BY <1>1, <1>2, <1>4 DEF Copied, Without
  <2>3. List' = Multimap!RemoveAt(List, (length-1)+1)
    BY <1>1, <2>1, <2>2, RemovedList
  <2>4. List' = Multimap!RemoveAt(List, Len(List)) /\ List # << >> /\ ret' = List[Len(List)].value
    BY <1>1, <1>4, <2>1, <2>3
  <2> QED
    BY <1>2, <2>4 DEF Multimap!RemoveLastValue, List, Listed
<1> QED
  BY <1>3, <1>4

\* The value of the occurrence is returned, or null, and nothing changes.
LEMMA GetRefines ==
  ASSUME NullKey \notin Keys, Sound, NEW k \in Keys, NEW n, Get(k, n)
  PROVE  Multimap!Get(k, n)
<1>1. Entered(nodes) /\ Listed(nodes) = List /\ length \in Nat
  BY BothEntered DEF List
<1>2. call' = Multimap!Call("get", k, n) /\ List' = List
  BY DEF Get, Begin, Call, Multimap!Call, array, List, Listed
<1>3. \A b \in Stop(nodes) : b = length
  BY <1>1, StopsAtEnd DEF Entered
<1>4. ASSUME NEW i \in Occurrence(nodes, k, n), ret' = nodes[i].value
      PROVE  Multimap!Get(k, n)
  <2>1. ret' = List[i+1].value
    BY <1>1, <1>4, ListedFacts DEF Occurrence
  <2>2. i+1 \in Multimap!Occurrence(List, k, n)
    BY <1>1, OccurrenceAgrees
  <2> QED
    BY <1>2, <2>1, <2>2 DEF Multimap!Get, Multimap!Miss, List, Listed
<1>5. ASSUME Occurrence(nodes, k, n) = {}, ret' = None
      PROVE  Multimap!Get(k, n)
  <2>1. Multimap!Occurrence(List, k, n) = {}
    BY <1>1, <1>5, OccurrenceAgrees
  <2> QED
    BY <1>2, <1>5, <2>1 DEF Multimap!Get, Multimap!Miss, List, Listed
<1> QED
  BY <1>1, <1>3, <1>4, <1>5 DEF Get

\* The occurrence takes the new value where it stands.
LEMMA ReplaceRefines ==
  ASSUME NullKey \notin Keys, Sound, NEW k \in Keys, NEW v \in Values, NEW n, Replace(k, v, n)
  PROVE  Multimap!Replace(k, v, n)
<1>1. /\ Entered(nodes) /\ Listed(nodes) = List /\ length \in Nat
      /\ \A i \in 0 .. length-1 : i \in DOMAIN nodes
  BY BothEntered DEF List, Sound, Inv, TypeOK
<1>2. call' = Multimap!Call("replace", k, n) /\ length' = length
  BY DEF Replace, Begin, Call, Multimap!Call
<1>3. \A b \in Stop(nodes) : b = length
  BY <1>1, StopsAtEnd DEF Entered
<1>4. ret' = v
  BY <1>1, <1>3 DEF Replace
<1>5. ASSUME NEW i \in Occurrence(nodes, k, n), nodes' = [nodes EXCEPT ![i] = Entry(k, v)]
      PROVE  Multimap!Replace(k, v, n)
  <2>1. i \in 0 .. length-1
    BY DEF Occurrence
  <2>2. \A q \in 1 .. length : nodes'[q-1] = IF q = i+1 THEN Entry(k, v) ELSE nodes[q-1]
    BY <1>1, <1>5, <2>1
  <2>3. List' = [q \in 1 .. length |-> IF q = i+1 THEN Entry(k, v) ELSE nodes[q-1]]
    BY <1>2, <2>2 DEF List, Listed
  <2>4. List' = [List EXCEPT ![i+1] = Multimap!Entry(k, v)]
    BY <1>1, <2>1, <2>3 DEF List, Listed, Entry, Multimap!Entry
  <2>5. i+1 \in Multimap!Occurrence(List, k, n)
    BY <1>1, OccurrenceAgrees
  <2> QED
    BY <1>2, <1>4, <2>4, <2>5 DEF Multimap!Replace, List, Listed
<1>6. ASSUME Occurrence(nodes, k, n) = {}, nodes' = nodes
      PROVE  Multimap!Replace(k, v, n)
  <2>1. Multimap!Occurrence(List, k, n) = {}
    BY <1>1, <1>6, OccurrenceAgrees
  <2>2. List' = List
    BY <1>2, <1>6 DEF List, Listed
  <2> QED
    BY <1>2, <1>4, <2>1, <2>2 DEF Multimap!Replace, List, Listed
<1> QED
  BY <1>5, <1>6 DEF Replace

\* putAll starts where the list stands.
LEMMA PutAllRefines ==
  ASSUME NullKey \notin Keys, Sound, StartPutAll, UNCHANGED array
  PROVE  Multimap!PutAll
<1>1. Len(List) = length
  BY BothEntered
<1>2. List' = List /\ ret' = None /\ call' = Multimap!Call("putAll", None, length)
  BY DEF StartPutAll, Call, Multimap!Call, array, List, Listed
<1> QED
  BY <1>1, <1>2 DEF Multimap!PutAll, Multimap!Miss, List, Listed

\* An iteration appends one entry, or skips an empty slot.
LEMMA PutAllNextRefines ==
  ASSUME NullKey \notin Keys, Sound, PutAllNext
  PROVE  Multimap!PutAllNext \/ UNCHANGED Multimap!mmvars
<1>1. Feed[next] \in Slots /\ call.op = "putAll" /\ UNCHANGED <<call, ret>>
  BY DEF PutAllNext, Feed, Sound, Inv, TypeOK
<1>2. CASE Feed[next] = None
  <2>1. List' = List
    BY <1>2 DEF PutAllNext, List, Listed
  <2> QED
    BY <1>1, <2>1 DEF Multimap!mmvars, List, Listed
<1>3. CASE Feed[next] # None
  <2>1. PICK e \in Entries : AppendEntry(e)
    BY <1>1, <1>3 DEF PutAllNext, Slots
  <2>2. List' = Append(List, e)
    BY <2>1, AppendedList
  <2>3. e.key \in Keys /\ e.value \in Values /\ e = Multimap!Entry(e.key, e.value)
    BY <2>1 DEF Entries, Multimap!Entry
  <2> QED
    BY <1>1, <2>2, <2>3 DEF Multimap!PutAllNext, List, Listed
<1> QED
  BY <1>2, <1>3

\* The end of putAll does not show.
LEMMA PutAllEndRefines ==
  ASSUME PutAllEnd
  PROVE  UNCHANGED Multimap!mmvars
BY DEF PutAllEnd, Multimap!mmvars

\* Every step of the array is a step of the list, or none.
LEMMA StepRefines ==
  ASSUME NullKey \notin Keys, Sound, [Next]_vars
  PROVE  [Multimap!MMNext]_(Multimap!mmvars)
<1>1. Indices \subseteq Int /\ 0 \in Indices
  BY IndexAssumption
<1>2. CASE Insertion
  BY <1>2, PutRefines, PutAfterRefines, PutBeforRefines, PutToIndexRefines
     DEF Insertion, Multimap!MMNext
<1>3. CASE Removal
  <2>1. ASSUME NEW k \in Keys, RemoveKey(k)
        PROVE  Multimap!MMNext
    BY <1>1, <2>1, RemoveNthRefines DEF RemoveKey, Multimap!MMNext
  <2>2. ASSUME NEW k \in Keys, NEW n \in Indices, RemoveNth(k, n)
        PROVE  Multimap!MMNext
    BY <1>1, <2>2, RemoveNthRefines DEF Multimap!MMNext
  <2>3. ASSUME NEW n \in Indices, RemoveIndex(n)
        PROVE  Multimap!MMNext
    BY <1>1, <2>3, RemoveIndexRefines DEF Multimap!MMNext
  <2>4. CASE RemoveLastValue
    BY <2>4, RemoveLastValueRefines DEF Multimap!MMNext
  <2> QED
    BY <1>3, <2>1, <2>2, <2>3, <2>4 DEF Removal
<1>4. CASE Lookup
  BY <1>4, GetRefines, ReplaceRefines DEF Lookup, Multimap!MMNext
<1>5. CASE Union
  BY <1>5, PutAllRefines, PutAllNextRefines, PutAllEndRefines
     DEF Union, PutAll, PutAllSelf, Multimap!MMNext
<1>6. CASE UNCHANGED vars
  BY <1>6 DEF vars, Multimap!mmvars
<1> QED
  BY <1>2, <1>3, <1>4, <1>5, <1>6 DEF Next

------------------------------------------------------------------------------
\* While a putAll runs it is the last call.
LEMMA RunningPutAll ==
  ASSUME mode # "idle" => call.op = "putAll", [Next]_vars
  PROVE  (mode # "idle" => call.op = "putAll")'
<1>1. CASE mode' = "idle"
  BY <1>1
<1>2. CASE \E op, k, n : Begin(op, k, n)
  BY <1>2 DEF Begin, looping
<1>3. CASE StartPutAll
  BY <1>3 DEF StartPutAll, Call
<1>4. CASE PutAllNext \/ UNCHANGED vars
  BY <1>4 DEF PutAllNext, vars
<1> QED
  BY <1>1, <1>2, <1>3, <1>4
     DEF Next, Insertion, Removal, Lookup, Union, Put, PutAfter, PutBefor, PutToIndex,
         RemoveKey, RemoveNth, RemoveIndex, RemoveLastValue, Get, Replace,
         PutAll, PutAllSelf, PutAllEnd

\* As long as no key is null, the array that RepeatKeyMap.java keeps, doubles and
\* copies shows its callers a list of entries: every put, putBefor, remove,
\* replace, get and putAll does to the entries and returns what OrderedMultimap
\* says, at every length, through every resize.
THEOREM ArrayImplementsList ==
  ASSUME NullKey \notin Keys
  PROVE  Spec => ImplementsMultimap
<1>1. Init => Multimap!MMInit
  <2> SUFFICES ASSUME Init PROVE Multimap!MMInit
    OBVIOUS
  <2>1. [i \in 1 .. length |-> nodes[i-1]] = << >>
    BY DEF Init
  <2> QED
    BY <2>1 DEF Init, Call, Multimap!MMInit, Multimap!Call
<1>2. Spec => [](mode # "idle" => call.op = "putAll")
  <2>1. Init => (mode # "idle" => call.op = "putAll")
    BY DEF Init
  <2> QED
    BY <2>1, RunningPutAll, PTL DEF Spec
<1>3. Spec => []Sound
  <2>1. Inv /\ Packed /\ (mode # "idle" => call.op = "putAll") => Sound
    BY DEF Sound
  <2> QED
    BY <2>1, <1>2, InvHolds, NoHoles, PTL
<1>4. Sound /\ [Next]_vars => [Multimap!MMNext]_(Multimap!mmvars)
  BY StepRefines
<1> QED
  BY <1>1, <1>3, <1>4, PTL DEF Spec, ImplementsMultimap, Multimap!MMSpec
==============================================================================
