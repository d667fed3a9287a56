--------------------------- MODULE RecordEdit_proofs ---------------------------
(***************************************************************************)
(* Record editing, for every set of records, tags, contents and positions  *)
(* and every number of fields, arguments and calls: fields that share      *)
(* their subfields have one tag, a call leaves the other records alone, a  *)
(* new history is the record's own, deleteSubfiled removes what it should  *)
(* and nothing else, and the 008 is never cut.                             *)
(***************************************************************************)
EXTENDS RecordEdit, DataInduction, FiniteSetTheorems, SequenceTheorems

\* What the steps need to know of a state.  The lists of fields are sequences:
\* TypeOK says only what is in them.
IInv ==
  /\ TypeOK
  /\ data \in [Records -> Seq(Fields)]
  /\ SharedWithinTag
  /\ RestSurvives

Field == [tag : Tags, map : Maps]

------------------------------------------------------------------------------
\* Fresh objects and arguments.

\* Min is the least element.
LEMMA MinFacts ==
  ASSUME NEW T, T \subseteq Nat, T # {}
  PROVE  Min(T) \in T /\ \A k \in T : Min(T) <= k
BY Least DEF Min

\* Nil is no field object, so that the created ones are those with a tag and a map.
LEMMA CreatedFacts ==
  ASSUME TypeOK
  PROVE  \A f \in Fields : /\ f \in Created <=> field[f] \in Field
                           /\ f \in Created => field[f].tag \in Tags /\ field[f].map \in Maps
<1>1. MaxFields \in Nat
  BY BoundAssumption
<1>2. Field \subseteq [tag : Tags, map : Nat]
  BY <1>1 DEF Field, Maps
<1>3. Nil \notin Field
  BY <1>2, TagAssumption
<1>4. field \in [Fields -> Field \cup {Nil}]
  BY DEF TypeOK, Field
<1> QED
  BY <1>3, <1>4 DEF Created, Field

\* Where there is room for another field object, FreshField is a new one.
LEMMA FreshFieldFacts ==
  ASSUME TypeOK, Created # Fields
  PROVE  FreshField \in Fields /\ FreshField \notin Created
<1>1. Fields \ Created \subseteq Nat /\ Fields \ Created # {}
  BY DEF Fields, Created
<1> QED
  BY <1>1, MinFacts DEF FreshField

\* There is one map more than fields, so that one that no field has is left.
LEMMA FreshMapFacts ==
  ASSUME TypeOK
  PROVE  FreshMap \in Maps /\ \A f \in Created : field[f].map # FreshMap
<1> DEFINE used == {field[f].map : f \in Created}
           given == [f \in Created |-> field[f].map]
<1>1. MaxFields \in Nat
  BY BoundAssumption
<1>2. /\ IsFiniteSet(Fields) /\ Cardinality(Fields) = MaxFields
      /\ IsFiniteSet(Maps) /\ Cardinality(Maps) = MaxFields + 1
  BY <1>1, FS_Interval DEF Fields, Maps
<1>3. IsFiniteSet(Created) /\ Cardinality(Created) <= MaxFields
  BY <1>2, FS_Subset DEF Created
<1>4. given \in Surjection(Created, used)
  BY DEF Surjection
<1>5. Cardinality(used) <= Cardinality(Created) /\ Cardinality(Created) \in Nat
      /\ IsFiniteSet(used) /\ Cardinality(used) \in Nat
  BY <1>3, <1>4, FS_Surjection, FS_CardinalityType
<1>6. Maps \ used # {}
  <2>1. SUFFICES ASSUME Maps \subseteq used PROVE FALSE
    OBVIOUS
  <2>2. Cardinality(Maps) <= Cardinality(used)
    BY <1>5, <2>1, FS_Subset
  <2> QED
    BY <1>1, <1>2, <1>3, <1>5, <2>2
<1>7. Maps \ used \subseteq Nat
  BY <1>1 DEF Maps
<1>8. Min(Maps \ used) \in Maps \ used
  BY <1>6, <1>7, MinFacts
<1> QED
  BY <1>8 DEF FreshMap

\* Those of the arguments in front of the first that is no field are fields.
LEMMA AcceptedFacts ==
  ASSUME TypeOK, NEW args \in Arguments
  PROVE  Accepted(args) \in Seq(Created) /\ Len(Accepted(args)) <= Len(args)
         /\ Len(args) \in Nat
<1>1. PICK n \in 1 .. MaxArguments : args \in [1 .. n -> Created \cup {Wrong}]
  BY DEF Arguments
<1>2. n \in Nat /\ DOMAIN args = 1 .. n /\ Len(args) = n
  BY <1>1, BoundAssumption
<1> DEFINE wrong == {i \in DOMAIN args : args[i] = Wrong}
<1>3. CASE wrong = {}
  <2>1. Accepted(args) = args
    BY <1>3 DEF Accepted
  <2>2. args \in [1 .. n -> Created]
    BY <1>1, <1>2, <1>3
  <2> QED
    BY <1>2, <2>1, <2>2
<1>4. CASE wrong # {}
  <2> DEFINE m == Min(wrong)
  <2>1. wrong \subseteq Nat
    BY <1>2
  <2>2. m \in wrong /\ \A k \in wrong : m <= k
    BY <1>4, <2>1, MinFacts
  <2> HIDE DEF m
  <2>3. m \in 1 .. n /\ \A i \in 1 .. m-1 : args[i] \in Created
    BY <1>1, <1>2, <2>2
  <2>4. SubSeq(args, 1, m-1) \in Seq(Created)
        /\ Len(SubSeq(args, 1, m-1)) = IF 1 <= m-1 THEN m-1-1+1 ELSE 0
    BY <1>2, <2>3, SubSeqProperties
  <2>5. Accepted(args) = SubSeq(args, 1, m-1)
    BY <1>4 DEF Accepted, m
  <2> QED
    BY <1>2, <2>3, <2>4, <2>5
<1> QED
  BY <1>3, <1>4

\* The fields of a record are field objects that exist.
LEMMA DataFacts ==
  ASSUME IInv, NEW r \in Records
  PROVE  /\ data[r] \in Seq(Created) /\ data[r] \in Seq(Fields)
         /\ Len(data[r]) \in Nat /\ Len(data[r]) <= MaxLength
         /\ DOMAIN data[r] = 1 .. Len(data[r])
         /\ \A i \in DOMAIN data[r] : data[r][i] \in ToSet(data[r])
         /\ ToSet(data[r]) \subseteq Created
<1>1. data[r] \in Seq(Fields) /\ ToSet(data[r]) \subseteq Created /\ Len(data[r]) <= MaxLength
  BY DEF IInv, TypeOK
<1>2. Len(data[r]) \in Nat /\ DOMAIN data[r] = 1 .. Len(data[r])
  BY <1>1
<1>3. \A i \in DOMAIN data[r] : data[r][i] \in ToSet(data[r])
  BY DEF ToSet
<1>4. data[r] \in Seq(Created)
  BY <1>1, <1>2, <1>3
<1> QED
  BY <1>1, <1>2, <1>3, <1>4

------------------------------------------------------------------------------
\* What replace does with the maps.

\* The fields as a replace in the record r may leave them: only fields of the
\* record have another map, no tag has changed, and maps are shared by fields with
\* one tag.
Regiven(r) ==
  {fs \in [Fields -> Field \cup {Nil}] :
     /\ \A f \in Fields : f \in Created <=> fs[f] # Nil
     /\ \A f \in Created : fs[f].tag = field[f].tag
     /\ \A f, g \in Created : fs[f].map = fs[g].map => fs[f].tag = fs[g].tag
     /\ \A f \in Fields : f \notin ToSet(data[r]) => fs[f] = field[f]}

\* The fields fs when those in S have got the map m.
Repointed(fs, S, m) ==
  [f \in Fields |-> IF f \in S THEN [fs[f] EXCEPT !.map = m] ELSE fs[f]]

\* Giving a map to fields of the record with one tag keeps to that, if only fields
\* with this tag have the map.
LEMMA RepointRegives ==
  ASSUME IInv, NEW r \in Records, NEW fs \in Regiven(r), NEW m \in Maps, NEW t, NEW S,
         \A f \in S : f \in ToSet(data[r]) /\ fs[f].tag = t,
         \A g \in Created : fs[g].map = m => fs[g].tag = t
  PROVE  Repointed(fs, S, m) \in Regiven(r)
<1> DEFINE gs == Repointed(fs, S, m)
<1>1. /\ fs \in [Fields -> Field \cup {Nil}]
      /\ \A f \in Fields : f \in Created <=> fs[f] # Nil
      /\ \A f \in Created : fs[f].tag = field[f].tag
      /\ \A f, g \in Created : fs[f].map = fs[g].map => fs[f].tag = fs[g].tag
      /\ \A f \in Fields : f \notin ToSet(data[r]) => fs[f] = field[f]
  BY DEF Regiven
<1>2. ToSet(data[r]) \subseteq Created /\ Created \subseteq Fields
  BY DataFacts DEF Created
<1>3. Nil \notin Field
  <2>1. Field \subseteq [tag : Tags, map : Nat]
    BY BoundAssumption DEF Field, Maps
  <2> QED
    BY <2>1, TagAssumption
<1>4. \A f \in Created : fs[f] \in Field
  BY <1>1, <1>2
<1>5. ASSUME NEW f \in Fields
      PROVE  /\ f \in S => gs[f] = [tag |-> fs[f].tag, map |-> m] /\ gs[f] \in Field
             /\ f \notin S => gs[f] = fs[f]
  BY <1>2, <1>4, <1>5 DEF Repointed, Field
<1>6. gs \in [Fields -> Field \cup {Nil}] /\ \A f \in Fields : f \in Created <=> gs[f] # Nil
  <2>1. \A f \in Fields : gs[f] \in Field \cup {Nil} /\ (f \in Created <=> gs[f] # Nil)
    BY <1>1, <1>2, <1>3, <1>5
  <2> QED
    BY <2>1 DEF Repointed
<1>7. \A f \in Created : /\ gs[f].tag = fs[f].tag
                         /\ gs[f].map = fs[f].map \/ (gs[f].map = m /\ fs[f].tag = t)
  <2> TAKE f \in Created
  <2>1. f \in Fields
    BY <1>2
  <2>2. CASE f \in S
    <3>1. gs[f] = [tag |-> fs[f].tag, map |-> m]
      BY <1>5, <2>1, <2>2
    <3> QED
      BY <2>2, <3>1
  <2>3. CASE f \notin S
    <3>1. gs[f] = fs[f]
      BY <1>5, <2>1, <2>3
    <3> QED
      BY <3>1
  <2> QED
    BY <2>2, <2>3
<1>8. \A f, g \in Created : gs[f].map = gs[g].map => gs[f].tag = gs[g].tag
  BY <1>1, <1>7
<1>9. \A f \in Fields : f \notin ToSet(data[r]) => gs[f] = field[f]
  BY <1>1, <1>5
<1>10. \A f \in Created : gs[f].tag = field[f].tag
  BY <1>1, <1>7
<1> HIDE DEF gs
<1> QED
  BY <1>6, <1>8, <1>9, <1>10 DEF Regiven, gs

\* The fields as they are.
LEMMA FieldRegiven ==
  ASSUME IInv, NEW r \in Records
  PROVE  field \in Regiven(r)
<1>1. field \in [Fields -> Field \cup {Nil}]
  BY DEF IInv, TypeOK, Field
<1> QED
  BY <1>1 DEF Regiven, IInv, SharedWithinTag, Created

\* One argument of replace: who gets the map of a has its tag, as everybody has who
\* had that map before.
LEMMA GivenMapRegives ==
  ASSUME IInv, NEW r \in Records, NEW fs \in Regiven(r), NEW a \in Created
  PROVE  GivenMap(fs, r, a) \in Regiven(r)
<1> DEFINE S == {f \in ToSet(data[r]) : fs[f].tag = fs[a].tag}
<1>1. GivenMap(fs, r, a) = Repointed(fs, S, fs[a].map)
  BY DEF GivenMap, Repointed
<1>2. /\ fs[a] \in Field
      /\ \A g \in Created : fs[g].map = fs[a].map => fs[g].tag = fs[a].tag
  BY DEF Regiven, Created
<1>3. fs[a].map \in Maps
  BY <1>2 DEF Field
<1> QED
  BY <1>1, <1>2, <1>3, RepointRegives

\* So does any number of them.
LEMMA GivenMapsRegive ==
  ASSUME IInv, NEW r \in Records, NEW as \in Seq(Created)
  PROVE  GivenMaps(field, r, as) \in Regiven(r)
<1> DEFINE N == Len(as)
<1>1. N \in Nat /\ \A n \in 1 .. N : as[n] \in Created
  BY LenProperties, ElementOfSeq
<1> HIDE DEF N
<1> DEFINE F == [n \in 1 .. N |-> [fs \in Regiven(r) |-> GivenMap(fs, r, as[n])]]
<1>2. field \in Regiven(r)
  BY FieldRegiven
<1>3. \A n \in 1 .. N, fs \in Regiven(r) : F[n][fs] = GivenMap(fs, r, as[n]) /\ F[n][fs] \in Regiven(r)
  BY <1>1, GivenMapRegives
<1> HIDE DEF F
<1>4. PICK g : IsRun(g, F, N, Regiven(r), field)
  <2>1. AreSteps(F, N, Regiven(r))
    BY <1>3 DEF AreSteps
  <2> QED
    BY <1>1, <1>2, <2>1, Recursion
<1> DEFINE Is(h) == h = [n \in 0 .. N |-> IF n = 0 THEN field ELSE GivenMap(h[n-1], r, as[n])]
<1>5. Is(g)
  <2>1. \A n \in 0 .. N : g[n] = IF n = 0 THEN field ELSE GivenMap(g[n-1], r, as[n])
    <3> TAKE n \in 0 .. N
    <3>1. CASE n = 0
      BY <1>1, <1>4, <3>1 DEF IsRun
    <3>2. CASE n # 0
      <4>1. n \in 1 .. N /\ n-1 \in 0 .. N
        BY <1>1, <3>2
      <4> QED
        BY <1>3, <1>4, <3>2, <4>1 DEF IsRun
    <3> QED
      BY <3>1, <3>2
  <2> QED
    BY <1>4, <2>1 DEF IsRun
<1> DEFINE after == CHOOSE h : Is(h)
<1>6. Is(after)
  BY <1>5, Zenon
<1> HIDE DEF after
<1>7. \A n \in 0 .. N : after[n] = IF n = 0 THEN field ELSE GivenMap(after[n-1], r, as[n])
  BY <1>6
<1> DEFINE Right == {n \in 0 .. N : after[n] \in Regiven(r)}
<1>8. 0 \in Right
  <2>1. 0 \in 0 .. N
    BY <1>1
  <2>2. after[0] = field
    BY <1>7, <2>1
  <2> QED
    BY <1>2, <2>1, <2>2
<1>9. ASSUME NEW n \in 0 .. N-1, n \in Right PROVE n+1 \in Right
  <2>1. n+1 \in 0 .. N /\ n+1 \in 1 .. N /\ n+1 # 0 /\ (n+1)-1 = n
    BY <1>1
  <2>3. as[n+1] \in Created
    BY <1>1, <2>1
  <2>2. after[n+1] = GivenMap(after[n], r, as[n+1])
    BY <1>7, <2>1
  <2> QED
    BY <1>9, <2>1, <2>2, <2>3, GivenMapRegives
<1> HIDE DEF Right
<1>10. N \in Right
  <2>1. Inductive(Right, N)
    BY <1>8, <1>9 DEF Inductive
  <2> QED
    BY <1>1, <2>1, Induct
<1>11. after[N] \in Regiven(r)
  BY <1>10 DEF Right
<1> QED
  BY <1>11 DEF GivenMaps, after, N

------------------------------------------------------------------------------
\* Every step keeps the invariant.

\* In the initial states there are no fields.
LEMMA InitIInv == Init => IInv
<1> SUFFICES ASSUME Init PROVE IInv
  OBVIOUS
<1>1. Created = {}
  BY DEF Init, Created
<1>2. TypeOK
  <2>1. field \in [Fields -> [tag : Tags, map : Maps] \cup {Nil}]
    BY DEF Init
  <2>2. content \in [Maps -> Contents]
    BY DEF Init
  <2>3. \A r \in Records : data[r] = << >>
    BY DEF Init
  <2>4. \A r \in Records : ToSet(data[r]) \subseteq Created /\ Len(data[r]) <= MaxLength
    BY <2>3, BoundAssumption DEF ToSet
  <2>5. head \in [With008 -> Nat] /\ caller \in Records \cup {Nil}
    BY DEF Init
  <2> QED
    BY <2>1, <2>2, <2>4, <2>5 DEF TypeOK
<1>3. data \in [Records -> Seq(Fields)]
  BY DEF Init
<1>4. RestSurvives
  BY DEF Init, RestSurvives
<1> QED
  BY <1>1, <1>2, <1>3, <1>4 DEF IInv, SharedWithinTag

\* Fields of one record have other maps.
LEMMA RegivenStep ==
  ASSUME IInv, caller' \in Records \cup {Nil}, NEW r \in Records, field' \in Regiven(r),
         content' \in [Maps -> Contents], data' = data, head' = head
  PROVE  IInv'
<1>1. Created' = Created
  BY DEF Regiven, Created
<1>2. field' \in [Fields -> [tag : Tags, map : Maps] \cup {Nil}]
  BY DEF Regiven, Field
<1>3. TypeOK'
  BY <1>1, <1>2 DEF IInv, TypeOK
<1>4. SharedWithinTag'
  BY <1>1 DEF Regiven, SharedWithinTag
<1> QED
  BY <1>3, <1>4 DEF IInv, RestSurvives

\* There is one field object more, with a map of its own, and it may have been put
\* into records.
LEMMA CreationStep ==
  ASSUME IInv, caller' \in Records \cup {Nil}, Created # Fields, NEW t \in Tags,
         field' = [field EXCEPT ![FreshField] = [tag |-> t, map |-> FreshMap]],
         content' \in [Maps -> Contents], head' = head,
         data' \in [Records -> Seq(Fields)],
         \A r \in Records : /\ ToSet(data'[r]) \subseteq Created \cup {FreshField}
                            /\ Len(data'[r]) <= MaxLength
  PROVE  IInv' /\ Created' = Created \cup {FreshField}
<1> DEFINE n == FreshField
           new == [tag |-> t, map |-> FreshMap]
<1>1. n \in Fields /\ n \notin Created /\ Created \subseteq Fields
  BY FreshFieldFacts DEF IInv, Created
<1>2. FreshMap \in Maps /\ \A f \in Created : field[f].map # FreshMap
  BY FreshMapFacts DEF IInv
<1>3. field \in [Fields -> [tag : Tags, map : Maps] \cup {Nil}]
  BY DEF IInv, TypeOK
<1>4. new \in [tag : Tags, map : Maps] /\ new # Nil
  <2>1. Maps \subseteq Nat
    BY BoundAssumption DEF Maps
  <2> QED
    BY <1>2, <2>1, TagAssumption
<1>5. /\ field'[n] = new /\ \A f \in Fields : f # n => field'[f] = field[f]
      /\ field' \in [Fields -> [tag : Tags, map : Maps] \cup {Nil}]
  BY <1>1, <1>3, <1>4
<1>6. Created' = Created \cup {n}
  BY <1>1, <1>4, <1>5 DEF Created
<1>7. TypeOK'
  BY <1>5, <1>6 DEF IInv, TypeOK
<1>8. SharedWithinTag'
  <2> SUFFICES ASSUME NEW f \in Created \cup {n}, NEW g \in Created \cup {n},
                      field'[f].map = field'[g].map
               PROVE  field'[f].tag = field'[g].tag
    BY <1>6 DEF SharedWithinTag
  <2>1. field'[n].map = FreshMap
    BY <1>5
  <2>2. \A h \in Created : h # n /\ field'[h] = field[h]
    BY <1>1, <1>5
  <2>3. CASE f \in Created /\ g \in Created
    BY <2>2, <2>3 DEF IInv, SharedWithinTag
  <2>4. CASE f = n /\ g = n
    BY <2>4
  <2>5. f = n => g = n
    BY <1>2, <2>1, <2>2
  <2>6. g = n => f = n
    BY <1>2, <2>1, <2>2
  <2> QED
    BY <2>3, <2>4, <2>5, <2>6
<1>9. RestSurvives'
  BY DEF IInv, RestSurvives
<1> QED
  BY <1>6, <1>7, <1>8, <1>9 DEF IInv

\* Only one record's list of fields changes.
LEMMA ListStep ==
  ASSUME IInv, caller' \in Records \cup {Nil}, NEW r \in Records, NEW s \in Seq(Created),
         Len(s) <= MaxLength, data' = [data EXCEPT ![r] = s],
         field' = field, content' = content, head' = head
  PROVE  IInv'
<1>1. Created' = Created /\ Created \subseteq Fields
  BY DEF Created
<1>2. s \in Seq(Fields) /\ ToSet(s) \subseteq Created
  BY <1>1 DEF ToSet
<1>3. data' \in [Records -> Seq(Fields)]
  BY <1>2 DEF IInv
<1>4. \A q \in Records : data'[q] = IF q = r THEN s ELSE data[q]
  BY DEF IInv
<1>5. \A q \in Records : ToSet(data'[q]) \subseteq Created /\ Len(data'[q]) <= MaxLength
  BY <1>2, <1>4 DEF IInv, TypeOK
<1>6. TypeOK'
  BY <1>1, <1>5 DEF IInv, TypeOK
<1>7. SharedWithinTag'
  BY <1>1 DEF IInv, SharedWithinTag
<1>8. RestSurvives'
  BY DEF IInv, RestSurvives
<1> QED
  BY <1>3, <1>6, <1>7, <1>8 DEF IInv

------------------------------------------------------------------------------
\* What deleteSubfiled leaves.

\* The positions up to n of fields that stay, and how many they are.
Staying(s, tags, n) == {i \in 1 .. n : field[s[i]].tag \notin tags}

Kept(s, tags, n) == Cardinality(Staying(s, tags, n))

\* Counting them goes up by one with every field that stays.
LEMMA KeptFacts ==
  ASSUME NEW s, NEW tags, NEW n \in Nat
  PROVE  /\ IsFiniteSet(Staying(s, tags, n))
         /\ Kept(s, tags, n) \in 0 .. n
         /\ Kept(s, tags, 0) = 0
         /\ Kept(s, tags, n+1) = Kept(s, tags, n)
                                   + (IF field[s[n+1]].tag \in tags THEN 0 ELSE 1)
         /\ \A j \in Staying(s, tags, n) : j \in 1 .. n /\ Kept(s, tags, j) \in 1 .. Kept(s, tags, n)
<1>1. IsFiniteSet(1 .. n) /\ Cardinality(1 .. n) = n
  BY FS_Interval
<1>2. IsFiniteSet(Staying(s, tags, n)) /\ Kept(s, tags, n) <= n
  BY <1>1, FS_Subset DEF Staying, Kept
<1>3. Kept(s, tags, n) \in 0 .. n
  BY <1>2, FS_CardinalityType DEF Kept
<1>4. Kept(s, tags, 0) = 0
  <2>1. Staying(s, tags, 0) = {}
    BY DEF Staying
  <2> QED
    BY <2>1, FS_EmptySet DEF Kept
<1>7. Kept(s, tags, n+1) = Kept(s, tags, n) + (IF field[s[n+1]].tag \in tags THEN 0 ELSE 1)
  <2>1. CASE field[s[n+1]].tag \in tags
    <3>1. Staying(s, tags, n+1) = Staying(s, tags, n)
      BY <2>1 DEF Staying
    <3>2. Kept(s, tags, n+1) = Kept(s, tags, n)
      BY <3>1 DEF Kept
    <3> QED
      BY <1>3, <2>1, <3>2
  <2>2. CASE field[s[n+1]].tag \notin tags
    <3>1. Staying(s, tags, n+1) = Staying(s, tags, n) \cup {n+1} /\ n+1 \notin Staying(s, tags, n)
      BY <2>2 DEF Staying
    <3>2. Kept(s, tags, n+1) = Kept(s, tags, n) + 1
      BY <1>2, <3>1, FS_AddElement DEF Kept
    <3> QED
      BY <2>2, <3>2
  <2> QED
    BY <2>1, <2>2
<1>8. ASSUME NEW j \in Staying(s, tags, n)
      PROVE  j \in 1 .. n /\ Kept(s, tags, j) \in 1 .. Kept(s, tags, n)
  <2>1. j \in 1 .. n
    BY DEF Staying
  <2>2. Staying(s, tags, j) \subseteq Staying(s, tags, n) /\ j \in Staying(s, tags, j)
    BY <2>1 DEF Staying
  <2>3. IsFiniteSet(Staying(s, tags, j)) /\ Kept(s, tags, j) <= Kept(s, tags, n)
    BY <1>2, <2>2, FS_Subset DEF Kept
  <2>4. Kept(s, tags, j) \in Nat /\ Kept(s, tags, j) # 0
    BY <2>2, <2>3, FS_CardinalityType, FS_EmptySet DEF Kept
  <2> QED
    BY <1>3, <2>1, <2>3, <2>4
<1> QED
  BY <1>2, <1>3, <1>4, <1>7, <1>8

\* RemoveAt closes the gap.
LEMMA RemoveAtFacts ==
  ASSUME NEW S, NEW s \in Seq(S), NEW p \in 1 .. Len(s)
  PROVE  /\ RemoveAt(s, p) \in Seq(S)
         /\ Len(RemoveAt(s, p)) = Len(s) - 1
         /\ \A i \in 1 .. Len(s)-1 : RemoveAt(s, p)[i] = IF i < p THEN s[i] ELSE s[i+1]
<1> DEFINE front == SubSeq(s, 1, p-1)
           back  == SubSeq(s, p+1, Len(s))
<1>1. Len(s) \in Nat /\ p \in Int
  OBVIOUS
<1>2. front \in Seq(S) /\ Len(front) = p - 1 /\ \A i \in 1 .. p-1 : front[i] = s[i]
  BY <1>1
<1>3. back \in Seq(S) /\ Len(back) = Len(s) - p
      /\ \A i \in 1 .. Len(s)-p : back[i] = s[p+i]
  BY <1>1
<1> HIDE DEF front, back
<1>4. /\ front \o back \in Seq(S)
      /\ Len(front \o back) = Len(front) + Len(back)
      /\ \A i \in 1 .. Len(front) + Len(back) :
           (front \o back)[i] = IF i <= Len(front) THEN front[i] ELSE back[i - Len(front)]
  BY <1>2, <1>3, ConcatProperties
<1>5. Len(front) + Len(back) = Len(s) - 1
  BY <1>1, <1>2, <1>3
<1>6. \A i \in 1 .. Len(s)-1 : (front \o back)[i] = IF i < p THEN s[i] ELSE s[i+1]
  <2> TAKE i \in 1 .. Len(s)-1
  <2>1. CASE i < p
    BY <1>1, <1>2, <1>4, <1>5, <2>1
  <2>2. CASE ~ (i < p)
    <3>1. i - (p-1) \in 1 .. Len(s)-p /\ p + (i - (p-1)) = i+1
      BY <1>1, <2>2
    <3>2. (front \o back)[i] = back[i - (p-1)]
      BY <1>1, <1>2, <1>4, <1>5, <2>2
    <3> QED
      BY <1>3, <2>2, <3>1, <3>2
  <2> QED
    BY <2>1, <2>2
<1> QED
  BY <1>4, <1>5, <1>6 DEF RemoveAt, front, back

\* The list t and the index i after n rounds over s: the fields that stay, then those
\* not looked at yet, and i in between.
AfterRounds(s, tags, n, t, i) ==
  /\ t \in Seq(Created)
  /\ Len(t) = Len(s) - n + Kept(s, tags, n)
  /\ i = Kept(s, tags, n) + 1
  /\ \A j \in Staying(s, tags, n) : t[Kept(s, tags, j)] = s[j]
  /\ \A j \in n+1 .. Len(s) : t[Kept(s, tags, n) + j - n] = s[j]

\* A round deals with the next field of s, removed or not.
LEMMA RoundStep ==
  ASSUME NEW s \in Seq(Created), NEW tags, NEW n \in 0 .. Len(s)-1, NEW t, NEW i,
         AfterRounds(s, tags, n, t, i)
  PROVE  AfterRounds(s, tags, n+1, DeletionRound(t, i, tags)[1], DeletionRound(t, i, tags)[2])
<1> DEFINE k == Kept(s, tags, n)
<1>1. n \in Nat /\ Len(s) \in Nat /\ n+1 \in 1 .. Len(s)
  OBVIOUS
<1>2. /\ k \in 0 .. n
      /\ Kept(s, tags, n+1) = k + (IF field[s[n+1]].tag \in tags THEN 0 ELSE 1)
      /\ \A j \in Staying(s, tags, n) : j \in 1 .. n /\ Kept(s, tags, j) \in 1 .. k
  BY <1>1, KeptFacts
<1>3. /\ t \in Seq(Created) /\ Len(t) = Len(s) - n + k /\ i = k + 1
      /\ \A j \in Staying(s, tags, n) : t[Kept(s, tags, j)] = s[j]
      /\ \A j \in n+1 .. Len(s) : t[k + j - n] = s[j]
  BY DEF AfterRounds
<1> HIDE DEF k
<1>4. i \in 1 .. Len(t) /\ t[i] = s[n+1]
  <2>1. k + (n+1) - n = i
    BY <1>1, <1>2, <1>3
  <2> QED
    BY <1>1, <1>2, <1>3, <2>1
<1>5. CASE field[s[n+1]].tag \in tags
  <2> DEFINE u == RemoveAt(t, i)
  <2>1. DeletionRound(t, i, tags) = <<u, i>>
    BY <1>3, <1>4, <1>5 DEF DeletionRound
  <2>2. /\ u \in Seq(Created) /\ Len(u) = Len(t) - 1
        /\ \A j \in 1 .. Len(t)-1 : u[j] = IF j < i THEN t[j] ELSE t[j+1]
    BY <1>3, <1>4, RemoveAtFacts
  <2> HIDE DEF u
  <2>3. Kept(s, tags, n+1) = k
    BY <1>2, <1>5
  <2>4. Staying(s, tags, n+1) = Staying(s, tags, n)
    BY <1>1, <1>5 DEF Staying
  <2>5. \A j \in Staying(s, tags, n) : u[Kept(s, tags, j)] = s[j]
    <3> TAKE j \in Staying(s, tags, n)
    <3>1. Kept(s, tags, j) \in 1 .. k /\ t[Kept(s, tags, j)] = s[j]
      BY <1>2, <1>3
    <3>2. Kept(s, tags, j) \in 1 .. Len(t)-1 /\ Kept(s, tags, j) < i
      BY <1>1, <1>2, <1>3, <3>1
    <3> QED
      BY <2>2, <3>1, <3>2
  <2>6. \A j \in (n+1)+1 .. Len(s) : u[k + j - (n+1)] = s[j]
    <3> TAKE j \in (n+1)+1 .. Len(s)
    <3> DEFINE m == k + j - (n+1)
    <3>1. m \in 1 .. Len(t)-1 /\ ~ (m < i) /\ m+1 = k + j - n
      BY <1>1, <1>2, <1>3
    <3>2. t[k + j - n] = s[j]
      BY <1>1, <1>3
    <3> QED
      BY <2>2, <3>1, <3>2
  <2>7. Len(u) = Len(s) - (n+1) + k
    BY <1>1, <1>2, <1>3, <2>2
  <2>8. AfterRounds(s, tags, n+1, u, i)
    BY <1>3, <2>2, <2>3, <2>4, <2>5, <2>6, <2>7 DEF AfterRounds
  <2> QED
    BY <2>1, <2>8
<1>6. CASE field[s[n+1]].tag \notin tags
  <2>1. DeletionRound(t, i, tags) = <<t, i+1>>
    BY <1>3, <1>4, <1>6 DEF DeletionRound
  <2>2. Kept(s, tags, n+1) = k+1
    BY <1>2, <1>6
  <2>3. Staying(s, tags, n+1) = Staying(s, tags, n) \cup {n+1}
    BY <1>1, <1>6 DEF Staying
  <2>4. \A j \in Staying(s, tags, n+1) : t[Kept(s, tags, j)] = s[j]
    BY <1>3, <1>4, <2>2, <2>3
  <2>5. \A j \in (n+1)+1 .. Len(s) : t[(k+1) + j - (n+1)] = s[j]
    <3> TAKE j \in (n+1)+1 .. Len(s)
    <3>1. (k+1) + j - (n+1) = k + j - n /\ j \in n+1 .. Len(s)
      BY <1>1, <1>2
    <3> QED
      BY <1>3, <3>1
  <2>6. Len(t) = Len(s) - (n+1) + (k+1) /\ i+1 = (k+1)+1
    BY <1>1, <1>2, <1>3
  <2>7. AfterRounds(s, tags, n+1, t, i+1)
    BY <1>3, <2>2, <2>4, <2>5, <2>6 DEF AfterRounds
  <2> QED
    BY <2>1, <2>7
<1> QED
  BY <1>5, <1>6

\* The loop as a whole keeps the fields that stay, in their order.
LEMMA DeletedFacts ==
  ASSUME NEW s \in Seq(Created), NEW tags
  PROVE  /\ Deleted(s, tags) \in Seq(Created)
         /\ Len(Deleted(s, tags)) = Kept(s, tags, Len(s))
         /\ \A i \in Staying(s, tags, Len(s)) : Deleted(s, tags)[Kept(s, tags, i)] = s[i]
<1> DEFINE N == Len(s)
           Pairs == Seq(Created) \X (Nat \ {0})
           round == [p \in Pairs |-> DeletionRound(p[1], p[2], tags)]
           F == [n \in 1 .. N |-> round]
<1>1. N \in Nat
  OBVIOUS
<1>2. <<s, 1>> \in Pairs
  OBVIOUS
<1>3. ASSUME NEW p \in Pairs PROVE DeletionRound(p[1], p[2], tags) \in Pairs
  <2>1. p[1] \in Seq(Created) /\ p[2] \in Nat \ {0} /\ Len(p[1]) \in Nat
    OBVIOUS
  <2>2. CASE p[2] > Len(p[1])
    BY <2>1, <2>2 DEF DeletionRound
  <2>3. CASE ~ (p[2] > Len(p[1])) /\ field[p[1][p[2]]].tag \in tags
    <3>1. p[2] \in 1 .. Len(p[1])
      BY <2>1, <2>3
    <3>2. RemoveAt(p[1], p[2]) \in Seq(Created)
      BY <2>1, <3>1, RemoveAtFacts
    <3> QED
      BY <2>1, <2>3, <3>2 DEF DeletionRound
  <2>4. CASE ~ (p[2] > Len(p[1])) /\ field[p[1][p[2]]].tag \notin tags
    BY <2>1, <2>4 DEF DeletionRound
  <2> QED
    BY <2>2, <2>3, <2>4
<1> HIDE DEF N, Pairs
<1>4. \A n \in 1 .. N, p \in Pairs : F[n][p] = DeletionRound(p[1], p[2], tags)
  OBVIOUS
<1> HIDE DEF round, F
<1>5. PICK g : IsRun(g, F, N, Pairs, <<s, 1>>)
  <2>1. AreSteps(F, N, Pairs)
    BY <1>3, <1>4 DEF AreSteps
  <2> QED
    BY <1>1, <1>2, <2>1, Recursion
<1> DEFINE Is(h) == h = [n \in 0 .. N |-> IF n = 0 THEN <<s, 1>>
                                          ELSE DeletionRound(h[n-1][1], h[n-1][2], tags)]
<1>6. Is(g)
  <2>1. \A n \in 0 .. N : g[n] = IF n = 0 THEN <<s, 1>>
                                 ELSE DeletionRound(g[n-1][1], g[n-1][2], tags)
    <3> TAKE n \in 0 .. N
    <3>1. CASE n = 0
      BY <1>1, <1>5, <3>1 DEF IsRun
    <3>2. CASE n # 0
      <4>1. n \in 1 .. N /\ n-1 \in 0 .. N
        BY <1>1, <3>2
      <4>2. g[n-1] \in Pairs /\ g[n] = F[n][g[n-1]]
        BY <1>5, <4>1 DEF IsRun
      <4> QED
        BY <1>4, <3>2, <4>1, <4>2
    <3> QED
      BY <3>1, <3>2
  <2> QED
    BY <1>5, <2>1 DEF IsRun
<1> DEFINE loop == CHOOSE h : Is(h)
<1>7. Is(loop)
  BY <1>6, Zenon
<1> HIDE DEF loop
<1>8. \A n \in 0 .. N : loop[n] = IF n = 0 THEN <<s, 1>>
                                  ELSE DeletionRound(loop[n-1][1], loop[n-1][2], tags)
  BY <1>7
<1> DEFINE Right == {n \in 0 .. N : AfterRounds(s, tags, n, loop[n][1], loop[n][2])}
<1>9. 0 \in Right
  <2>1. 0 \in 0 .. N
    BY <1>1
  <2>2. loop[0] = <<s, 1>>
    BY <1>8, <2>1
  <2>3. Staying(s, tags, 0) = {}
    BY DEF Staying
  <2>5. Kept(s, tags, 0) = 0
    BY KeptFacts
  <2>4. AfterRounds(s, tags, 0, s, 1)
    BY <2>3, <2>5 DEF AfterRounds
  <2> QED
    BY <2>1, <2>2, <2>4
<1>10. ASSUME NEW n \in 0 .. N-1, n \in Right PROVE n+1 \in Right
  <2>1. n+1 \in 0 .. N /\ n+1 # 0 /\ (n+1)-1 = n
    BY <1>1
  <2>2. loop[n+1] = DeletionRound(loop[n][1], loop[n][2], tags)
    BY <1>8, <2>1
  <2>3. AfterRounds(s, tags, n, loop[n][1], loop[n][2]) /\ n \in 0 .. Len(s)-1
    BY <1>10 DEF N
  <2> QED
    BY <2>1, <2>2, <2>3, RoundStep
<1> HIDE DEF Right
<1>11. N \in Right
  <2>1. Inductive(Right, N)
    BY <1>9, <1>10 DEF Inductive
  <2> QED
    BY <1>1, <2>1, Induct
<1>12. AfterRounds(s, tags, N, loop[N][1], loop[N][2])
  BY <1>11 DEF Right
<1>13. Deleted(s, tags) = loop[N][1]
  BY DEF Deleted, loop, N
<1>14. Kept(s, tags, N) \in 0 .. N
  BY <1>1, KeptFacts
<1> QED
  BY <1>1, <1>12, <1>13, <1>14 DEF AfterRounds, N

------------------------------------------------------------------------------
\* One lemma per operation: it keeps the invariant, and of the fields that are not
\* in the record neither the object nor what its map holds changes.

\* What a call on the record r leaves alone.
OtherFieldsKept(r) ==
  \A f \in Created \ ToSet(data[r]) :
    field'[f] = field[f] /\ content'[field[f].map] = content[field[f].map]

\* The list of another record is not touched.
OtherListsKept(r) == \A q \in Records : q # r => data'[q] = data[q]

CallKept(r) == IInv' /\ OtherFieldsKept(r) /\ OtherListsKept(r)

\* addfiled puts existing fields at the end of the list.
LEMMA AddFiledStep ==
  ASSUME IInv, NEW r \in Records, caller' = r, NEW args \in Arguments, AddFiled(r, args)
  PROVE  CallKept(r)
<1> DEFINE s == data[r] \o Accepted(args)
<1>1. /\ Accepted(args) \in Seq(Created) /\ Len(Accepted(args)) <= Len(args)
      /\ Len(args) \in Nat
  BY AcceptedFacts DEF IInv
<1>2. data[r] \in Seq(Created)
  BY DataFacts
<1>3. s \in Seq(Created) /\ Len(s) = Len(data[r]) + Len(Accepted(args))
  BY <1>1, <1>2, ConcatProperties
<1>4. Len(s) <= MaxLength
  <2>1. Len(data[r]) \in Nat /\ Len(Accepted(args)) \in Nat /\ MaxLength \in Nat
    BY <1>1, <1>2, BoundAssumption
  <2> QED
    BY <1>1, <1>3, <2>1 DEF AddFiled
<1>5. data' = [data EXCEPT ![r] = s] /\ field' = field /\ content' = content /\ head' = head
  BY DEF AddFiled
<1> HIDE DEF s
<1>6. IInv'
  BY <1>3, <1>4, <1>5, ListStep
<1> QED
  BY <1>5, <1>6 DEF CallKept, OtherFieldsKept, OtherListsKept, IInv

\* replace gives maps to fields of the record.
LEMMA ReplaceStep ==
  ASSUME IInv, NEW r \in Records, caller' = r, NEW args \in Arguments, Replace(r, args)
  PROVE  CallKept(r)
<1>1. Accepted(args) \in Seq(Created)
  BY AcceptedFacts DEF IInv
<1>2. field' \in Regiven(r)
  BY <1>1, GivenMapsRegive DEF Replace
<1>3. content' = content /\ data' = data /\ head' = head
  BY DEF Replace
<1>4. IInv'
  BY <1>2, <1>3, RegivenStep DEF IInv, TypeOK
<1>5. \A f \in Created : f \notin ToSet(data[r]) => field'[f] = field[f]
  BY <1>2 DEF Regiven, Created
<1> QED
  BY <1>3, <1>4, <1>5 DEF CallKept, OtherFieldsKept, OtherListsKept

\* So does replace with an index, to the fields in one place.
LEMMA ReplaceNthStep ==
  ASSUME IInv, NEW r \in Records, caller' = r, NEW a \in Created, NEW n, ReplaceNth(r, a, n)
  PROVE  CallKept(r)
<1>1. PICK S : /\ field' = Repointed(field, S, field[a].map)
               /\ \A f \in S : f \in ToSet(data[r]) /\ field[f].tag = field[a].tag
  <2> DEFINE index == IF n <= 0 THEN 1 ELSE n
             matches(p) == Cardinality({q \in 1 .. p : field[data[r][q]].tag = field[a].tag})
             nth == {data[r][p] : p \in {p \in DOMAIN data[r] :
                       /\ field[data[r][p]].tag = field[a].tag
                       /\ matches(p) = index}}
  <2>1. field' = Repointed(field, nth, field[a].map)
    BY DEF ReplaceNth, Repointed
  <2>2. \A f \in nth : f \in ToSet(data[r]) /\ field[f].tag = field[a].tag
    BY DEF ToSet
  <2> HIDE DEF nth
  <2> QED
    BY <2>1, <2>2
<1>2. field[a].map \in Maps
  BY CreatedFacts DEF IInv, Created
<1>3. \A g \in Created : field[g].map = field[a].map => field[g].tag = field[a].tag
  BY DEF IInv, SharedWithinTag
<1>4. field' \in Regiven(r)
  BY <1>1, <1>2, <1>3, FieldRegiven, RepointRegives
<1>5. content' = content /\ data' = data /\ head' = head
  BY DEF ReplaceNth
<1>6. IInv'
  BY <1>4, <1>5, RegivenStep DEF IInv, TypeOK
<1>7. \A f \in Created : f \notin ToSet(data[r]) => field'[f] = field[f]
  BY <1>4 DEF Regiven, Created
<1> QED
  BY <1>5, <1>6, <1>7 DEF CallKept, OtherFieldsKept, OtherListsKept

\* build039 writes a map that no field had, and gives it to all fields 039 of the
\* record or to a new one: fields that are not the record's do not have it.
LEMMA Build039Step ==
  ASSUME IInv, NEW r \in Records, caller' = r, NEW c \in Contents, Build039(r, c)
  PROVE  /\ CallKept(r)
         /\ \A f \in Having(r, T039)' : field'[f].map = FreshMap
         /\ \A g \in Created' \ ToSet(data'[r]) : field'[g].map # FreshMap
<1>1. FreshMap \in Maps /\ \A f \in Created : field[f].map # FreshMap
  BY FreshMapFacts DEF IInv
<1>2. /\ content' = [content EXCEPT ![FreshMap] = c] /\ head' = head
      /\ content' \in [Maps -> Contents]
  BY DEF Build039, IInv, TypeOK
<1>3. \A f \in Created : content'[field[f].map] = content[field[f].map]
  BY <1>1, <1>2 DEF IInv, TypeOK
<1>4. T039 \in Tags
  BY TagAssumption
<1>5. ToSet(data[r]) \subseteq Created
  BY DataFacts
<1>6. CASE /\ Having(r, T039) # {}
           /\ field' = [f \in Fields |-> IF f \in Having(r, T039)
                                           THEN [field[f] EXCEPT !.map = FreshMap] ELSE field[f]]
           /\ data' = data
  <2> DEFINE S == Having(r, T039)
  <2>1. field' = Repointed(field, S, FreshMap)
    BY <1>6 DEF Repointed
  <2>2. \A f \in S : f \in ToSet(data[r]) /\ field[f].tag = T039
    BY DEF Having
  <2>3. \A g \in Created : field[g].map = FreshMap => field[g].tag = T039
    BY <1>1
  <2>4. field' \in Regiven(r)
    BY <1>1, <2>1, <2>2, <2>3, FieldRegiven, RepointRegives
  <2>5. IInv'
    BY <1>2, <1>6, <2>4, RegivenStep
  <2>6. /\ Created' = Created
        /\ \A f \in Created : field'[f].tag = field[f].tag
        /\ \A f \in Created : f \notin ToSet(data[r]) => field'[f] = field[f]
    BY <2>4 DEF Regiven, Created
  <2>7. Having(r, T039)' = S
    BY <1>5, <1>6, <2>6 DEF Having
  <2>8. \A f \in S : field'[f].map = FreshMap
    <3> TAKE f \in S
    <3>1. f \in Fields /\ field[f] \in Field
      BY <1>5, <2>2, CreatedFacts DEF IInv, Created
    <3> QED
      BY <2>1, <3>1 DEF Repointed, Field
  <2>9. \A g \in Created' \ ToSet(data'[r]) : field'[g].map # FreshMap
    BY <1>1, <1>6, <2>6
  <2>10. CallKept(r)
    BY <1>3, <1>6, <2>5, <2>6 DEF CallKept, OtherFieldsKept, OtherListsKept
  <2> QED
    BY <2>7, <2>8, <2>9, <2>10
<1>7. CASE /\ Having(r, T039) = {}
           /\ Created # Fields /\ Len(data[r]) < MaxLength
           /\ field' = [field EXCEPT ![FreshField] = [tag |-> T039, map |-> FreshMap]]
           /\ data' = [data EXCEPT ![r] = Append(@, FreshField)]
  <2> DEFINE n == FreshField
             s == Append(data[r], n)
  <2>1. n \in Fields /\ n \notin Created /\ Created \subseteq Fields
    BY <1>7, FreshFieldFacts DEF IInv, Created
  <2>2. /\ data[r] \in Seq(Fields) /\ Len(data[r]) \in Nat /\ data \in [Records -> Seq(Fields)]
    BY DataFacts DEF IInv
  <2>3. /\ s \in Seq(Fields) /\ Len(s) = Len(data[r]) + 1
        /\ ToSet(s) = ToSet(data[r]) \cup {n}
    <3>1. /\ s \in Seq(Fields) /\ Len(s) = Len(data[r]) + 1
          /\ \A i \in 1 .. Len(data[r]) : s[i] = data[r][i]
          /\ s[Len(data[r]) + 1] = n
      BY <2>1, <2>2, AppendProperties
    <3>2. DOMAIN s = 1 .. Len(data[r]) + 1 /\ DOMAIN data[r] = 1 .. Len(data[r])
      BY <2>2, <3>1
    <3> HIDE DEF s
    <3>3. ToSet(s) = ToSet(data[r]) \cup {n}
      BY <2>2, <3>1, <3>2 DEF ToSet
    <3> QED
      BY <3>1, <3>3
  <2>4. data'[r] = s /\ \A q \in Records : q # r => data'[q] = data[q]
    BY <1>7, <2>2
  <2>5. data' \in [Records -> Seq(Fields)]
    BY <1>7, <2>2, <2>3
  <2> HIDE DEF s
  <2>6. \A q \in Records : /\ ToSet(data'[q]) \subseteq Created \cup {n}
                           /\ Len(data'[q]) <= MaxLength
    <3> TAKE q \in Records
    <3>1. CASE q = r
      <4>1. MaxLength \in Nat
        BY BoundAssumption
      <4>2. Len(data[r]) < MaxLength
        BY <1>7
      <4>3. Len(s) <= MaxLength
        BY <2>2, <2>3, <4>1, <4>2
      <4> QED
        BY <1>5, <2>3, <2>4, <3>1, <4>3
    <3>2. CASE q # r
      BY <2>4, <3>2 DEF IInv, TypeOK
    <3> QED
      BY <3>1, <3>2
  <2>7. IInv' /\ Created' = Created \cup {n}
    BY <1>2, <1>4, <1>7, <2>5, <2>6, CreationStep
  <2>8. field'[n] = [tag |-> T039, map |-> FreshMap] /\ \A f \in Created : field'[f] = field[f]
    BY <1>7, <2>1 DEF IInv, TypeOK
  <2>9. \A f \in Having(r, T039)' : f = n
    BY <1>5, <1>7, <2>3, <2>4, <2>8 DEF Having
  <2>10. \A g \in Created' \ ToSet(data'[r]) : g \in Created
    BY <2>3, <2>4, <2>7
  <2>11. \A g \in Created' \ ToSet(data'[r]) : field'[g].map # FreshMap
    BY <1>1, <2>8, <2>10
  <2>12. CallKept(r)
    BY <1>3, <2>4, <2>7, <2>8 DEF CallKept, OtherFieldsKept, OtherListsKept
  <2> QED
    BY <2>8, <2>9, <2>11, <2>12
<1> QED
  BY <1>6, <1>7 DEF Build039

\* deleteSubfiled leaves fields that were in the list.
LEMMA DeleteStep ==
  ASSUME IInv, NEW r \in Records, caller' = r, NEW tags, DeleteSubfiled(r, tags)
  PROVE  CallKept(r)
<1> DEFINE s == Deleted(data[r], tags)
<1>1. data[r] \in Seq(Created) /\ Len(data[r]) \in Nat /\ Len(data[r]) <= MaxLength
  BY DataFacts
<1>2. s \in Seq(Created) /\ Len(s) = Kept(data[r], tags, Len(data[r]))
  BY <1>1, DeletedFacts
<1>3. Kept(data[r], tags, Len(data[r])) \in 0 .. Len(data[r])
  BY <1>1, KeptFacts
<1>4. data' = [data EXCEPT ![r] = s] /\ field' = field /\ content' = content /\ head' = head
  BY DEF DeleteSubfiled
<1> HIDE DEF s
<1>5. Len(s) <= MaxLength
  BY <1>1, <1>2, <1>3, BoundAssumption
<1>6. IInv'
  BY <1>2, <1>4, <1>5, ListStep
<1> QED
  BY <1>4, <1>6 DEF CallKept, OtherFieldsKept, OtherListsKept, IInv

\* A refreshed 008 is at least as long in front as it was, a new one has six.
LEMMA HeadStep ==
  ASSUME IInv, NEW r \in Records, caller' = r, Flush008(r) \/ Replace008(r)
  PROVE  CallKept(r)
<1>1. field' = field /\ content' = content /\ data' = data /\ Created' = Created
  BY DEF Flush008, Replace008, Created
<1>2. /\ head \in [With008 -> Nat] /\ r \in With008
      /\ \A q \in With008 : head[q] >= 6
  BY DEF IInv, TypeOK, RestSurvives, Flush008, Replace008
<1>3. PICK h \in Nat : h >= 6 /\ head' = [head EXCEPT ![r] = h]
  <2>1. CASE Flush008(r)
    <3>1. PICK digits \in 1 .. 3 : head' = [head EXCEPT ![r] = @ - 6 + DateWidth(digits)]
      BY <2>1 DEF Flush008
    <3>2. DateWidth(digits) \in Nat /\ DateWidth(digits) >= 6
      BY DEF DateWidth
    <3> DEFINE h == head[r] - 6 + DateWidth(digits)
    <3>3. h \in Nat /\ h >= 6 /\ head' = [head EXCEPT ![r] = h]
      BY <1>2, <3>1, <3>2
    <3> HIDE DEF h
    <3> QED
      BY <3>3
  <2>2. CASE Replace008(r)
    <3>1. head' = [head EXCEPT ![r] = 6] /\ 6 \in Nat /\ 6 >= 6
      BY <2>2 DEF Replace008
    <3> QED
      BY <3>1
  <2> QED
    BY <2>1, <2>2
<1>4. head' \in [With008 -> Nat] /\ \A q \in With008 : head'[q] >= 6
  BY <1>2, <1>3
<1>5. IInv'
  BY <1>1, <1>4 DEF IInv, TypeOK, SharedWithinTag, RestSurvives
<1> QED
  BY <1>1, <1>5 DEF CallKept, OtherFieldsKept, OtherListsKept

\* Every call keeps the invariant and what is not in its record.
LEMMA CallStep ==
  ASSUME IInv, NEW r \in Records, caller' = r, Call(r)
  PROVE  CallKept(r)
<1>1. CASE \E args \in Arguments : AddFiled(r, args) \/ Replace(r, args)
  BY <1>1, AddFiledStep, ReplaceStep
<1>2. CASE \E a \in Created, n \in Positions : ReplaceNth(r, a, n)
  BY <1>2, ReplaceNthStep
<1>3. CASE \E c \in Contents : Build039(r, c)
  BY <1>3, Build039Step
<1>4. CASE \E tags \in SUBSET Tags \ {{}} : DeleteSubfiled(r, tags)
  BY <1>4, DeleteStep
<1>5. CASE Flush008(r) \/ Replace008(r)
  BY <1>5, HeadStep
<1> QED
  BY <1>1, <1>2, <1>3, <1>4, <1>5 DEF Call

\* So does the program.
LEMMA ProgramStep ==
  ASSUME IInv, caller' = Nil, Program
  PROVE  IInv'
<1>1. PICK c \in Contents : \/ \E t \in Tags : NewField(t, c)
                            \/ \E f \in Created : ChangeSubfields(f, c)
  BY DEF Program
<1>2. FreshMap \in Maps
  BY FreshMapFacts DEF IInv
<1>3. CASE \E t \in Tags : NewField(t, c)
  <2>1. PICK t \in Tags : NewField(t, c)
    BY <1>3
  <2>2. /\ Created # Fields
        /\ field' = [field EXCEPT ![FreshField] = [tag |-> t, map |-> FreshMap]]
        /\ content' = [content EXCEPT ![FreshMap] = c]
        /\ data' = data /\ head' = head
    BY <2>1 DEF NewField
  <2>3. content' \in [Maps -> Contents]
    BY <2>2 DEF IInv, TypeOK
  <2>4. data' \in [Records -> Seq(Fields)]
    BY <2>2 DEF IInv
  <2>5. \A r \in Records : /\ ToSet(data'[r]) \subseteq Created \cup {FreshField}
                           /\ Len(data'[r]) <= MaxLength
    BY <2>2 DEF IInv, TypeOK
  <2> QED
    BY <2>2, <2>3, <2>4, <2>5, CreationStep
<1>4. CASE \E f \in Created : ChangeSubfields(f, c)
  <2>1. field' = field /\ data' = data /\ head' = head /\ content' \in [Maps -> Contents]
    BY <1>4 DEF ChangeSubfields, IInv, TypeOK
  <2>2. Created' = Created
    BY <2>1 DEF Created
  <2> QED
    BY <2>1, <2>2 DEF IInv, TypeOK, SharedWithinTag, RestSurvives
<1> QED
  BY <1>1, <1>3, <1>4

\* The invariant is inductive.
LEMMA NextIInv == IInv /\ [Next]_vars => IInv'
<1> SUFFICES ASSUME IInv, [Next]_vars PROVE IInv'
  OBVIOUS
<1>1. CASE Program /\ caller' = Nil
  BY <1>1, ProgramStep
<1>2. CASE \E r \in Records : Call(r) /\ caller' = r
  BY <1>2, CallStep DEF CallKept
<1>3. CASE UNCHANGED vars
  <2>1. Created' = Created
    BY <1>3 DEF vars, Created
  <2> QED
    BY <1>3, <2>1 DEF vars, IInv, TypeOK, SharedWithinTag, RestSurvives
<1> QED
  BY <1>1, <1>2, <1>3 DEF Next

------------------------------------------------------------------------------
\* The theorems.

\* The invariant holds in every state.
THEOREM InvHolds == Spec => []IInv
<1> QED
  BY InitIInv, NextIInv, PTL DEF Spec

\* The shape of the state, whatever is edited: lists hold fields that exist.
THEOREM TypeCorrect == Spec => []TypeOK
<1>1. IInv => TypeOK
  BY DEF IInv
<1> QED
  BY <1>1, InvHolds, PTL

\* Fields that share their subfields have one tag (MarcUtil.replace hands maps on).
THEOREM SharingStaysWithinTag == Spec => []SharedWithinTag
<1>1. IInv => SharedWithinTag
  BY DEF IInv
<1> QED
  BY <1>1, InvHolds, PTL

\* flush008 never cuts what follows the date.
THEOREM RestIsNeverCut == Spec => []RestSurvives
<1>1. IInv => RestSurvives
  BY DEF IInv
<1> QED
  BY <1>1, InvHolds, PTL

\* A call on one record does not change what another one says unless they have a
\* field object in common, maps in common or not.
THEOREM CallsLeaveOthersUnchanged == Spec => OthersUnchanged
<1>1. ASSUME IInv, [Next]_vars, NEW r \in Records, NEW q \in Records,
             caller' = r, r # q, ToSet(data[r]) \cap ToSet(data[q]) = {}
      PROVE  View(q)' = View(q) \/ UNCHANGED vars
  <2>1. CASE UNCHANGED vars
    BY <2>1
  <2>2. CASE Next
    <3>1. r # Nil
      BY RecordAssumption
    <3>2. Call(r)
      BY <1>1, <2>2, <3>1 DEF Next
    <3>3. OtherFieldsKept(r) /\ data'[q] = data[q]
      BY <1>1, <3>2, CallStep DEF CallKept, OtherListsKept
    <3>4. \A i \in DOMAIN data[q] : data[q][i] \in Created \ ToSet(data[r])
      BY <1>1, DataFacts
    <3>5. \A i \in DOMAIN data[q] :
            <<field'[data[q][i]].tag, content'[field'[data[q][i]].map]>>
              = <<field[data[q][i]].tag, content[field[data[q][i]].map]>>
      BY <3>3, <3>4 DEF OtherFieldsKept
    <3> QED
      BY <3>3, <3>5 DEF View
  <2> QED
    BY <1>1, <2>1, <2>2
<1>2. IInv /\ [Next]_vars =>
        [\A r, q \in Records :
           (caller' = r /\ r # q /\ ToSet(data[r]) \cap ToSet(data[q]) = {})
             => View(q)' = View(q)]_vars
  BY <1>1
<1> QED
  BY <1>2, InvHolds, PTL DEF Spec, OthersUnchanged

\* The history that build039 writes is in a map that only the record's fields have.
THEOREM NewHistoryIsOwn == Spec => HistoryIsOwn
<1>1. ASSUME IInv, NEW r \in Records, caller' = r, NEW c \in Contents, Build039(r, c),
             NEW f \in Having(r, T039)', NEW g \in Created' \ ToSet(data'[r])
      PROVE  field'[f].map # field'[g].map
  BY <1>1, Build039Step
<1>2. IInv /\ [Next]_vars =>
        [\A r \in Records :
           (caller' = r /\ \E c \in Contents : Build039(r, c)) =>
             \A f \in Having(r, T039)', g \in Created' \ ToSet(data'[r]) :
               field'[f].map # field'[g].map]_vars
  BY <1>1
<1> QED
  BY <1>2, InvHolds, PTL DEF Spec, HistoryIsOwn

\* The loop of deleteSubfiled, which removes from the list it walks along, is a
\* filter.
THEOREM DeletionIsExact == Spec => DeletesExactly
<1>1. ASSUME IInv, NEW r \in Records, NEW tags \in SUBSET Tags \ {{}}, DeleteSubfiled(r, tags)
      PROVE  LET stay(n) == {i \in 1 .. n : field[data[r][i]].tag \notin tags}
             IN  /\ Len(data'[r]) = Cardinality(stay(Len(data[r])))
                 /\ \A i \in stay(Len(data[r])) : data'[r][Cardinality(stay(i))] = data[r][i]
  <2>1. data[r] \in Seq(Created)
    BY <1>1, DataFacts
  <2>2. data'[r] = Deleted(data[r], tags)
    BY <1>1 DEF DeleteSubfiled, IInv
  <2>3. /\ Len(data'[r]) = Kept(data[r], tags, Len(data[r]))
        /\ \A i \in Staying(data[r], tags, Len(data[r])) :
             data'[r][Kept(data[r], tags, i)] = data[r][i]
    BY <2>1, <2>2, DeletedFacts
  <2> QED
    BY <2>3 DEF Kept, Staying
<1>2. IInv /\ [Next]_vars =>
        [\A r \in Records, tags \in SUBSET Tags \ {{}} :
           (caller' = r /\ DeleteSubfiled(r, tags)) =>
             LET stay(n) == {i \in 1 .. n : field[data[r][i]].tag \notin tags}
             IN  /\ Len(data'[r]) = Cardinality(stay(Len(data[r])))
                 /\ \A i \in stay(Len(data[r])) :
                      data'[r][Cardinality(stay(i))] = data[r][i]]_vars
  BY <1>1
<1> QED
  BY <1>2, InvHolds, PTL DEF Spec, DeletesExactly

==============================================================================
