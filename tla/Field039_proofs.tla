---------------------------- MODULE Field039_proofs ----------------------------
(***************************************************************************)
(* Theorems about Field039, for every set of users and any number of       *)
(* edits: what build039 keeps of the history and what it loses.            *)
(***************************************************************************)
EXTENDS Field039, FiniteSetTheorems, SequenceTheorems, TLAPS

SubfieldKeys == {"a", "b", "c", "d", "y", "z"}
SubfieldValues == Nat \cup Users \cup {None}
Subfields == [key : SubfieldKeys, value : SubfieldValues]
EditRecords == [date : Nat, user : Users]

\* A field 039 that has been updated: a and b, m pairs c and d, y and z.
Formed(s, m) ==
  /\ m \in Nat /\ s \in Seq(Subfields) /\ Len(s) = 2*m + 4
  /\ s[1].key = "a" /\ s[2].key = "b" /\ s[2*m+3].key = "y" /\ s[2*m+4].key = "z"
  /\ \A k \in 0 .. m-1 : s[2*k+3].key = "c" /\ s[2*k+4].key = "d"

\* Where the n-th subfield k stands.
Found(s, k, n) ==
  {p \in DOMAIN s : s[p].key = k /\ Cardinality({q \in 1 .. p-1 : s[q].key = k}) = n}

------------------------------------------------------------------------------
\* get returns the value of the one subfield that fits, or null.
LEMMA GetFound ==
  ASSUME NEW s, NEW k, NEW n, NEW p, Found(s, k, n) = {p}
  PROVE  Get(s, k, n) = s[p].value
BY DEF Get, Found

LEMMA GetNone ==
  ASSUME NEW s, NEW k, NEW n, Found(s, k, n) = {}
  PROVE  Get(s, k, n) = None
BY DEF Get, Found

\* A subfield that occurs once is found by its number 0.
LEMMA GetOnly ==
  ASSUME NEW s, NEW k, NEW p \in Nat, p \in DOMAIN s, s[p].key = k,
         \A q \in DOMAIN s : s[q].key = k => q = p,
         \A q \in 1 .. p-1 : q \in DOMAIN s
  PROVE  Get(s, k, 0) = s[p].value
<1>1. {q \in 1 .. p-1 : s[q].key = k} = {}
  OBVIOUS
<1>2. Found(s, k, 0) = {p}
  BY <1>1, FS_EmptySet DEF Found
<1> QED
  BY <1>2, GetFound

\* A subfield that does not occur is not found.
LEMMA GetMissing ==
  ASSUME NEW s, NEW k, NEW n, \A q \in DOMAIN s : s[q].key # k
  PROVE  Get(s, k, n) = None
<1>1. Found(s, k, n) = {}
  BY DEF Found
<1> QED
  BY <1>1, GetNone

\* Every subfield of an updated field is one of those that Formed lists.
LEMMA Positions ==
  ASSUME NEW s, NEW m, Formed(s, m), NEW p \in DOMAIN s
  PROVE  /\ p \in 1 .. 2*m + 4
         /\ \/ p \in {1, 2, 2*m + 3, 2*m + 4}
            \/ \E k \in 0 .. m-1 : p = 2*k + 3 \/ p = 2*k + 4
<1>1. p \in 1 .. 2*m + 4 /\ m \in Nat
  BY DEF Formed
<1>2. CASE p \in 3 .. 2*m + 2
  <2> DEFINE k == (p - 3) \div 2
  <2>1. k \in 0 .. m-1 /\ (p = 2*k + 3 \/ p = 2*k + 4)
    BY <1>1, <1>2
  <2> QED
    BY <1>1, <2>1
<1> QED
  BY <1>1, <1>2

\* The subfields a, b, y and z of an updated field.
LEMMA GetEnds ==
  ASSUME NEW s, NEW m, Formed(s, m)
  PROVE  /\ Get(s, "a", 0) = s[1].value
         /\ Get(s, "b", 0) = s[2].value
         /\ Get(s, "y", 0) = s[2*m + 3].value
         /\ Get(s, "z", 0) = s[2*m + 4].value
<1>1. DOMAIN s = 1 .. 2*m + 4 /\ m \in Nat
  BY DEF Formed
<1>2. \A p \in DOMAIN s :
        /\ s[p].key = "a" => p = 1
        /\ s[p].key = "b" => p = 2
        /\ s[p].key = "y" => p = 2*m + 3
        /\ s[p].key = "z" => p = 2*m + 4
  <2> TAKE p \in DOMAIN s
  <2>1. \/ p = 1 /\ s[p].key = "a"
        \/ p = 2 /\ s[p].key = "b"
        \/ p = 2*m + 3 /\ s[p].key = "y"
        \/ p = 2*m + 4 /\ s[p].key = "z"
        \/ s[p].key \in {"c", "d"}
    <3>1. CASE p \in {1, 2, 2*m + 3, 2*m + 4}
      BY <3>1 DEF Formed
    <3>2. ASSUME NEW k \in 0 .. m-1, p = 2*k + 3 \/ p = 2*k + 4
          PROVE  s[p].key \in {"c", "d"}
      BY <3>2 DEF Formed
    <3> QED
      BY <3>1, <3>2, Positions
  <2> QED
    BY <2>1
<1>3. /\ 1 \in DOMAIN s /\ 2 \in DOMAIN s /\ 2*m + 3 \in DOMAIN s /\ 2*m + 4 \in DOMAIN s
      /\ 2*m + 3 \in Nat /\ 2*m + 4 \in Nat
      /\ \A p \in DOMAIN s : \A q \in 1 .. p-1 : q \in DOMAIN s
  BY <1>1
<1>4. s[1].key = "a" /\ s[2].key = "b" /\ s[2*m+3].key = "y" /\ s[2*m+4].key = "z"
  BY DEF Formed
<1>5. Get(s, "a", 0) = s[1].value
  BY <1>2, <1>3, <1>4, GetOnly
<1>6. Get(s, "b", 0) = s[2].value
  BY <1>2, <1>3, <1>4, GetOnly
<1>7. Get(s, "y", 0) = s[2*m + 3].value
  BY <1>2, <1>3, <1>4, GetOnly
<1>8. Get(s, "z", 0) = s[2*m + 4].value
  BY <1>2, <1>3, <1>4, GetOnly
<1> QED
  BY <1>5, <1>6, <1>7, <1>8

\* The n-th c stands at 2n+3 and the n-th d at 2n+4, as long as there are pairs.
LEMMA GetPairs ==
  ASSUME NEW s, NEW m, Formed(s, m), NEW n \in Nat
  PROVE  /\ Get(s, "c", n) = IF n < m THEN s[2*n + 3].value ELSE None
         /\ Get(s, "d", n) = IF n < m THEN s[2*n + 4].value ELSE None
<1>1. DOMAIN s = 1 .. 2*m + 4 /\ m \in Nat
  BY DEF Formed
<1>2. ASSUME NEW key, NEW off \in Nat, off \in {3, 4}, key = IF off = 3 THEN "c" ELSE "d"
      PROVE  Get(s, key, n) = IF n < m THEN s[2*n + off].value ELSE None
  <2>1. \A k \in 0 .. m-1 : 2*k + off \in DOMAIN s /\ s[2*k + off].key = key
    <3> TAKE k \in 0 .. m-1
    <3>1. s[2*k + 3].key = "c" /\ s[2*k + 4].key = "d"
      BY DEF Formed
    <3>2. CASE off = 3
      BY <1>1, <1>2, <3>1, <3>2
    <3>3. CASE off = 4
      BY <1>1, <1>2, <3>1, <3>3
    <3> QED
      BY <1>2, <3>2, <3>3
  <2>2. ASSUME NEW p \in DOMAIN s, s[p].key = key
        PROVE  \E k \in 0 .. m-1 : p = 2*k + off
    <3>1. p \notin {1, 2, 2*m + 3, 2*m + 4}
      BY <1>2, <2>2 DEF Formed
    <3>2. PICK k \in 0 .. m-1 : p = 2*k + 3 \/ p = 2*k + 4
      BY <3>1, Positions
    <3>3. s[2*k + 3].key = "c" /\ s[2*k + 4].key = "d"
      BY DEF Formed
    <3> QED
      BY <1>2, <2>2, <3>2, <3>3
  <2>3. ASSUME NEW k \in 0 .. m-1
        PROVE  Cardinality({q \in 1 .. (2*k + off) - 1 : s[q].key = key}) = k
    <3> DEFINE Q == {q \in 1 .. (2*k + off) - 1 : s[q].key = key}
               f == [j \in 0 .. k-1 |-> 2*j + off]
    <3>1. ASSUME NEW j \in 0 .. k-1
          PROVE  2*j + off \in Q
      <4>1. j \in 0 .. m-1 /\ 2*j + off \in 1 .. (2*k + off) - 1
        BY <1>1, <1>2
      <4> QED
        BY <2>1, <4>1
    <3>2. ASSUME NEW q \in Q
          PROVE  \E j \in 0 .. k-1 : q = 2*j + off
      <4>1. q \in DOMAIN s /\ s[q].key = key /\ q \in Int /\ q < 2*k + off
        BY <1>1, <1>2
      <4>2. PICK j \in 0 .. m-1 : q = 2*j + off
        BY <2>2, <4>1
      <4> QED
        BY <1>1, <4>1, <4>2
    <3> HIDE DEF Q
    <3>3. f \in [0 .. k-1 -> Q]
      BY <3>1
    <3>4. \A i, j \in 0 .. k-1 : f[i] = f[j] => i = j
      BY <1>2
    <3>5. \A q \in Q : \E j \in 0 .. k-1 : f[j] = q
      BY <3>2
    <3> HIDE DEF f
    <3>6. f \in Bijection(0 .. k-1, Q)
      BY <3>3, <3>4, <3>5 DEF Bijection, Injection, Surjection, IsInjective
    <3>7. IsFiniteSet(0 .. k-1) /\ Cardinality(0 .. k-1) = k
      <4>1. 0 \in Int /\ k-1 \in Int /\ k \in Nat
        BY <1>1
      <4>2. /\ IsFiniteSet(0 .. k-1)
            /\ Cardinality(0 .. k-1) = IF 0 > k-1 THEN 0 ELSE (k-1) - 0 + 1
        BY <4>1, FS_Interval
      <4> QED
        BY <4>1, <4>2
    <3>8. Cardinality(Q) = k
      BY <3>6, <3>7, FS_Bijection DEF ExistsBijection
    <3> QED
      BY <3>8 DEF Q
  <2>4. \A p \in DOMAIN s : s[p].key = key => \E k \in 0 .. m-1 : p = 2*k + off
    BY <2>2
  <2>5. CASE n < m
    <3>1. n \in 0 .. m-1
      BY <1>1, <2>5
    <3>2. 2*n + off \in Found(s, key, n)
      BY <2>1, <2>3, <3>1 DEF Found
    <3>3. ASSUME NEW p \in Found(s, key, n)
          PROVE  p = 2*n + off
      <4>1. PICK k \in 0 .. m-1 : p = 2*k + off
        BY <2>4 DEF Found
      <4>2. Cardinality({q \in 1 .. p-1 : s[q].key = key}) = n
        BY DEF Found
      <4>3. Cardinality({q \in 1 .. p-1 : s[q].key = key}) = k
        BY <2>3, <4>1
      <4> QED
        BY <4>1, <4>2, <4>3
    <3>4. Found(s, key, n) = {2*n + off}
      BY <3>2, <3>3
    <3> QED
      BY <2>5, <3>4, GetFound
  <2>6. CASE ~(n < m)
    <3>1. ASSUME NEW p \in Found(s, key, n)
          PROVE  FALSE
      <4>1. PICK k \in 0 .. m-1 : p = 2*k + off
        BY <2>4 DEF Found
      <4>2. Cardinality({q \in 1 .. p-1 : s[q].key = key}) = n
        BY DEF Found
      <4>3. Cardinality({q \in 1 .. p-1 : s[q].key = key}) = k
        BY <2>3, <4>1
      <4> QED
        BY <1>1, <2>6, <4>2, <4>3
    <3>2. Found(s, key, n) = {}
      BY <3>1
    <3> QED
      BY <2>6, <3>2, GetNone
  <2> QED
    BY <2>5, <2>6
<1>3. Get(s, "c", n) = IF n < m THEN s[2*n + 3].value ELSE None
  BY <1>2
<1>4. Get(s, "d", n) = IF n < m THEN s[2*n + 4].value ELSE None
  BY <1>2
<1> QED
  BY <1>3, <1>4

------------------------------------------------------------------------------
\* How many subfields make up a field, as the thresholds of build039 count them.
LEMMA SizeOf ==
  ASSUME NEW s, NEW m, Formed(s, m)
  PROVE  Size(s) = m + 1
BY DEF Formed, Size

\* Two subfields behind others.
LEMMA Behind ==
  ASSUME NEW S, NEW s \in Seq(S), NEW r \in Seq(S), Len(r) = 2
  PROVE  /\ s \o r \in Seq(S) /\ Len(s \o r) = Len(s) + 2
         /\ \A i \in 1 .. Len(s) : (s \o r)[i] = s[i]
         /\ (s \o r)[Len(s) + 1] = r[1] /\ (s \o r)[Len(s) + 2] = r[2]
<1> DEFINE v == s \o r
<1>1. /\ v \in Seq(S) /\ Len(v) = Len(s) + Len(r)
      /\ \A i \in 1 .. Len(s) + Len(r) : v[i] = IF i <= Len(s) THEN s[i] ELSE r[i - Len(s)]
  BY ConcatProperties
<1>2. Len(s) \in Nat
  OBVIOUS
<1> HIDE DEF v
<1>3. v \in Seq(S) /\ Len(v) = Len(s) + 2 /\ \A i \in 1 .. Len(s) : v[i] = s[i]
  BY <1>1, <1>2
<1>4. v[Len(s) + 1] = r[1] /\ v[Len(s) + 2] = r[2]
  BY <1>1, <1>2
<1> QED
  BY <1>3, <1>4 DEF v

\* Where the elements of a sequence tell that it is such a concatenation.
LEMMA JoinedTo ==
  ASSUME NEW S, NEW s \in Seq(S), NEW r \in Seq(S), NEW t \in Seq(S),
         Len(r) = 2, Len(t) = Len(s) + 2, \A i \in 1 .. Len(s) : t[i] = s[i],
         t[Len(s) + 1] = r[1], t[Len(s) + 2] = r[2]
  PROVE  s \o r = t
<1> DEFINE v == s \o r
<1>1. /\ v \in Seq(S) /\ Len(v) = Len(s) + 2
      /\ \A i \in 1 .. Len(s) : v[i] = s[i]
      /\ v[Len(s) + 1] = r[1] /\ v[Len(s) + 2] = r[2]
  BY Behind
<1>2. Len(s) \in Nat
  OBVIOUS
<1> HIDE DEF v
<1>3. \A i \in 1 .. Len(v) : v[i] = t[i]
  BY <1>1, <1>2, SMTT(30)
<1>4. v = t
  BY <1>1, <1>3, SeqEqual
<1> QED
  BY <1>4 DEF v

\* Two pairs behind each other.
LEMMA TwoPairs ==
  ASSUME NEW a, NEW b, NEW c, NEW d
  PROVE  <<a, b>> \o <<c, d>> = <<a, b, c, d>>
<1> DEFINE S == {a, b, c, d}
           s == <<a, b>>
           r == <<c, d>>
           t == <<a, b, c, d>>
<1>1. s \in Seq(S) /\ Len(s) = 2 /\ r \in Seq(S) /\ Len(r) = 2 /\ t \in Seq(S) /\ Len(t) = 4
  OBVIOUS
<1>2. (\A i \in 1 .. 2 : t[i] = s[i]) /\ t[3] = r[1] /\ t[4] = r[2]
  OBVIOUS
<1> HIDE DEF s, r, t, S
<1>3. /\ Len(t) = Len(s) + 2 /\ \A i \in 1 .. Len(s) : t[i] = s[i]
      /\ t[Len(s) + 1] = r[1] /\ t[Len(s) + 2] = r[2]
  BY <1>1, <1>2
<1>4. s \o r = t
  BY <1>1, <1>3, JoinedTo, Zenon
<1> QED
  BY <1>4 DEF s, r, t

\* Three pairs.
LEMMA ThreePairs ==
  ASSUME NEW a, NEW b, NEW c, NEW d, NEW e, NEW f
  PROVE  <<a, b, c, d>> \o <<e, f>> = <<a, b, c, d, e, f>>
<1> DEFINE S == {a, b, c, d, e, f}
           s == <<a, b, c, d>>
           r == <<e, f>>
           t == <<a, b, c, d, e, f>>
<1>1. s \in Seq(S) /\ Len(s) = 4 /\ r \in Seq(S) /\ Len(r) = 2 /\ t \in Seq(S) /\ Len(t) = 6
  OBVIOUS
<1>2. (\A i \in 1 .. 4 : t[i] = s[i]) /\ t[5] = r[1] /\ t[6] = r[2]
  OBVIOUS
<1> HIDE DEF s, r, t, S
<1>3. /\ Len(t) = Len(s) + 2 /\ \A i \in 1 .. Len(s) : t[i] = s[i]
      /\ t[Len(s) + 1] = r[1] /\ t[Len(s) + 2] = r[2]
  BY <1>1, <1>2
<1>4. s \o r = t
  BY <1>1, <1>3, JoinedTo, Zenon
<1> QED
  BY <1>4 DEF s, r, t

\* Four pairs.
LEMMA FourPairs ==
  ASSUME NEW a, NEW b, NEW c, NEW d, NEW e, NEW f, NEW g, NEW h
  PROVE  <<a, b, c, d, e, f>> \o <<g, h>> = <<a, b, c, d, e, f, g, h>>
<1> DEFINE S == {a, b, c, d, e, f, g, h}
           s == <<a, b, c, d, e, f>>
           r == <<g, h>>
           t == <<a, b, c, d, e, f, g, h>>
<1>1. s \in Seq(S) /\ Len(s) = 6 /\ r \in Seq(S) /\ Len(r) = 2 /\ t \in Seq(S) /\ Len(t) = 8
  OBVIOUS
<1>2. (\A i \in 1 .. 6 : t[i] = s[i]) /\ t[7] = r[1] /\ t[8] = r[2]
  OBVIOUS
<1> HIDE DEF s, r, t, S
<1>3. /\ Len(t) = Len(s) + 2 /\ \A i \in 1 .. Len(s) : t[i] = s[i]
      /\ t[Len(s) + 1] = r[1] /\ t[Len(s) + 2] = r[2]
  BY <1>1, <1>2
<1>4. s \o r = t
  BY <1>1, <1>3, JoinedTo, Zenon
<1> QED
  BY <1>4 DEF s, r, t

\* What an updated field hands on: its a and b become the first pair, the old
\* first pair goes, and where the thresholds expect more pairs than there are,
\* a pair of nulls comes.
LEMMA ChainOf ==
  ASSUME NEW s, NEW m, Formed(s, m), m \in 0 .. 4, m = 1 => s[3].value # None
  PROVE  /\ m = 0 => Chain(s) = <<Subfield("c", s[1].value), Subfield("d", s[2].value)>>
         /\ m = 1 => Chain(s) = <<Subfield("c", s[1].value), Subfield("d", s[2].value),
                                  Subfield("c", s[3].value), Subfield("d", s[4].value)>>
         /\ m = 2 => Chain(s) = <<Subfield("c", s[1].value), Subfield("d", s[2].value),
                                  Subfield("c", s[5].value), Subfield("d", s[6].value),
                                  Subfield("c", None), Subfield("d", None)>>
         /\ m \in 3 .. 4 =>
              Chain(s) = <<Subfield("c", s[1].value), Subfield("d", s[2].value),
                           Subfield("c", s[5].value), Subfield("d", s[6].value),
                           Subfield("c", s[7].value), Subfield("d", s[8].value),
                           Subfield("c", IF m = 3 THEN None ELSE s[9].value),
                           Subfield("d", IF m = 3 THEN None ELSE s[10].value)>>
<1>1. Former(s) = <<Subfield("c", s[1].value), Subfield("d", s[2].value)>>
  BY GetEnds DEF Former
<1>2. \A n \in Nat :
        Copied(s, n) = <<Subfield("c", IF n < m THEN s[2*n + 3].value ELSE None),
                         Subfield("d", IF n < m THEN s[2*n + 4].value ELSE None)>>
  BY GetPairs DEF Copied
<1>3. CASE m = 0
  <2>1. Size(s) = 1 /\ 1 # 0
    BY <1>3, SizeOf
  <2>2. Chain(s) = Former(s)
    BY <2>1 DEF Chain
  <2> QED
    BY <1>1, <1>3, <2>2
<1>4. CASE m = 1
  <2>1. Size(s) = 2 /\ 2 # 0 /\ 2 # 1
    BY <1>4, SizeOf
  <2>2. Get(s, "c", 0) # None
    BY <1>4, GetPairs
  <2>3. Chain(s) = Former(s) \o Copied(s, 0)
    BY <2>1, <2>2 DEF Chain
  <2> DEFINE a == Subfield("c", s[1].value)
             b == Subfield("d", s[2].value)
             c == Subfield("c", s[3].value)
             d == Subfield("d", s[4].value)
  <2>4. Former(s) = <<a, b>> /\ Copied(s, 0) = <<c, d>>
    BY <1>1, <1>2, <1>4
  <2> HIDE DEF a, b, c, d
  <2>5. Chain(s) = <<a, b>> \o <<c, d>>
    BY <2>3, <2>4, Zenon
  <2>6. Chain(s) = <<a, b, c, d>>
    BY <2>5, TwoPairs, Zenon
  <2> QED
    BY <1>4, <2>6 DEF a, b, c, d
<1>5. CASE m = 2
  <2>1. Size(s) = 3 /\ 3 # 0 /\ 3 # 1 /\ 3 # 2
    BY <1>5, SizeOf
  <2>2. Chain(s) = Former(s) \o Copied(s, 1) \o Copied(s, 2)
    BY <2>1 DEF Chain
  <2> DEFINE a == Subfield("c", s[1].value)
             b == Subfield("d", s[2].value)
             c == Subfield("c", s[5].value)
             d == Subfield("d", s[6].value)
             e == Subfield("c", None)
             f == Subfield("d", None)
  <2>3. Former(s) = <<a, b>> /\ Copied(s, 1) = <<c, d>> /\ Copied(s, 2) = <<e, f>>
    BY <1>1, <1>2, <1>5
  <2> HIDE DEF a, b, c, d, e, f
  <2>4. Chain(s) = (<<a, b>> \o <<c, d>>) \o <<e, f>>
    BY <2>2, <2>3, Zenon
  <2>5. <<a, b>> \o <<c, d>> = <<a, b, c, d>>
    BY TwoPairs
  <2>6. <<a, b, c, d>> \o <<e, f>> = <<a, b, c, d, e, f>>
    BY ThreePairs
  <2>7. Chain(s) = <<a, b, c, d, e, f>>
    BY <2>4, <2>5, <2>6, Zenon
  <2> QED
    BY <1>5, <2>7 DEF a, b, c, d, e, f
<1>6. CASE m \in 3 .. 4
  <2>1. Size(s) # 0 /\ Size(s) # 1 /\ Size(s) # 2 /\ Size(s) # 3
    BY <1>6, SizeOf
  <2>2. Chain(s) = Former(s) \o Copied(s, 1) \o Copied(s, 2) \o Copied(s, 3)
    BY <2>1 DEF Chain
  <2> DEFINE a == Subfield("c", s[1].value)
             b == Subfield("d", s[2].value)
             c == Subfield("c", s[5].value)
             d == Subfield("d", s[6].value)
             e == Subfield("c", s[7].value)
             f == Subfield("d", s[8].value)
             g == Subfield("c", IF m = 3 THEN None ELSE s[9].value)
             h == Subfield("d", IF m = 3 THEN None ELSE s[10].value)
  <2>3. /\ Former(s) = <<a, b>> /\ Copied(s, 1) = <<c, d>> /\ Copied(s, 2) = <<e, f>>
        /\ Copied(s, 3) = <<g, h>>
    BY <1>1, <1>2, <1>6
  <2> HIDE DEF a, b, c, d, e, f, g, h
  <2>4. Chain(s) = ((<<a, b>> \o <<c, d>>) \o <<e, f>>) \o <<g, h>>
    BY <2>2, <2>3, Zenon
  <2>5. <<a, b>> \o <<c, d>> = <<a, b, c, d>>
    BY TwoPairs
  <2>6. <<a, b, c, d>> \o <<e, f>> = <<a, b, c, d, e, f>>
    BY ThreePairs
  <2>7. <<a, b, c, d, e, f>> \o <<g, h>> = <<a, b, c, d, e, f, g, h>>
    BY FourPairs
  <2>8. Chain(s) = <<a, b, c, d, e, f, g, h>>
    BY <2>4, <2>5, <2>6, <2>7, Zenon
  <2> QED
    BY <1>6, <2>8 DEF a, b, c, d, e, f, g, h
<1> QED
  BY <1>3, <1>4, <1>5, <1>6

\* The creation hands on nothing.
LEMMA ChainOfCreated ==
  ASSUME NEW e
  PROVE  Chain(Created(e)) = << >>
<1>1. Size(Created(e)) = 0
  BY DEF Size, Created
<1> QED
  BY <1>1 DEF Chain

\* u consists of two subfields in front, c, and two behind.
Wraps(u, front, c, back) ==
  /\ u \in Seq(Subfields) /\ Len(u) = Len(c) + 4
  /\ u[1] = front[1] /\ u[2] = front[2]
  /\ u[Len(c) + 3] = back[1] /\ u[Len(c) + 4] = back[2]
  /\ \A p \in 1 .. Len(c) : u[p + 2] = c[p]

\* Concatenating wraps.
LEMMA Between ==
  ASSUME NEW front \in Seq(Subfields), NEW c \in Seq(Subfields), NEW back \in Seq(Subfields),
         NEW u, Len(front) = 2, Len(back) = 2, u = (front \o c) \o back
  PROVE  Wraps(u, front, c, back)
<1> DEFINE v == front \o c
<1>1. /\ v \in Seq(Subfields) /\ Len(v) = Len(front) + Len(c)
      /\ \A i \in 1 .. Len(front) + Len(c) :
           v[i] = IF i <= Len(front) THEN front[i] ELSE c[i - Len(front)]
  BY ConcatProperties
<1> HIDE DEF v
<1>2. v \in Seq(Subfields) /\ Len(v) = Len(c) + 2 /\ v[1] = front[1] /\ v[2] = front[2]
  BY <1>1
<1>3. \A p \in 1 .. Len(c) : v[p + 2] = c[p]
  <2> TAKE p \in 1 .. Len(c)
  <2>1. p+2 \in 1 .. Len(front) + Len(c) /\ ~(p+2 <= Len(front)) /\ (p+2) - Len(front) = p
    OBVIOUS
  <2> QED
    BY <1>1, <2>1
<1> DEFINE w == v \o back
<1>4. /\ w \in Seq(Subfields) /\ Len(w) = Len(v) + 2
      /\ \A i \in 1 .. Len(v) : w[i] = v[i]
      /\ w[Len(v) + 1] = back[1] /\ w[Len(v) + 2] = back[2]
  BY <1>2, Behind
<1> HIDE DEF w
<1>5. w = u
  BY DEF v, w
<1>6. /\ Len(u) = Len(c) + 4 /\ u[1] = front[1] /\ u[2] = front[2]
      /\ u[Len(c) + 3] = back[1] /\ u[Len(c) + 4] = back[2]
  BY <1>2, <1>4, <1>5
<1>7. \A p \in 1 .. Len(c) : u[p + 2] = c[p]
  <2> TAKE p \in 1 .. Len(c)
  <2>1. p+2 \in 1 .. Len(v)
    BY <1>2
  <2> QED
    BY <1>3, <1>4, <1>5, <2>1
<1> QED
  BY <1>4, <1>5, <1>6, <1>7 DEF Wraps

\* The field after the update e of s, with m pairs: those of the chain, between e
\* and the creation.
UpdatedBy(s, e, m) ==
  /\ Formed(Updated(s, e), m)
  /\ Updated(s, e)[1].value = e.date
  /\ Updated(s, e)[2].value = e.user
  /\ Updated(s, e)[2*m + 3].value = Creation(s, e).date
  /\ Updated(s, e)[2*m + 4].value = Creation(s, e).user
  /\ \A p \in 1 .. 2*m : Updated(s, e)[p + 2] = Chain(s)[p]

\* An update wraps what it hands on in a and b and in y and z.
LEMMA UpdatedFormed ==
  ASSUME NEW s, NEW e \in EditRecords, NEW m \in Nat,
         Chain(s) \in Seq(Subfields), Len(Chain(s)) = 2*m,
         \A k \in 0 .. m-1 : Chain(s)[2*k+1].key = "c" /\ Chain(s)[2*k+2].key = "d",
         Creation(s, e) \in EditRecords
  PROVE  UpdatedBy(s, e, m)
<1> DEFINE front == <<Subfield("a", e.date), Subfield("b", e.user)>>
           back == Created(Creation(s, e))
           u == Updated(s, e)
<1>1. front \in Seq(Subfields) /\ Len(front) = 2
  BY DEF Subfields, SubfieldKeys, SubfieldValues, Subfield, EditRecords
<1>2. back \in Seq(Subfields) /\ Len(back) = 2
  BY DEF Subfields, SubfieldKeys, SubfieldValues, Subfield, EditRecords, Created
<1>3. u = front \o Chain(s) \o back
  BY DEF Updated
<1>4. /\ front[1].key = "a" /\ front[1].value = e.date
      /\ front[2].key = "b" /\ front[2].value = e.user
      /\ back[1].key = "y" /\ back[1].value = Creation(s, e).date
      /\ back[2].key = "z" /\ back[2].value = Creation(s, e).user
  BY DEF Subfield, Created
<1> DEFINE c == Chain(s)
<1>5. c \in Seq(Subfields) /\ Len(c) = 2*m /\ u = (front \o c) \o back
  BY <1>3
<1> HIDE DEF front, back, c, u
<1>6. /\ u \in Seq(Subfields) /\ Len(u) = 2*m + 4
      /\ u[1] = front[1] /\ u[2] = front[2]
      /\ u[2*m + 3] = back[1] /\ u[2*m + 4] = back[2]
      /\ \A p \in 1 .. 2*m : u[p + 2] = c[p]
  <2>1. Wraps(u, front, c, back)
    BY <1>1, <1>2, <1>5, Between
  <2> QED
    BY <1>5, <2>1 DEF Wraps
<1>7. \A k \in 0 .. m-1 : u[2*k + 3].key = "c" /\ u[2*k + 4].key = "d"
  <2> TAKE k \in 0 .. m-1
  <2>1. 2*k+1 \in 1 .. 2*m /\ 2*k+2 \in 1 .. 2*m /\ (2*k+1)+2 = 2*k+3 /\ (2*k+2)+2 = 2*k+4
    OBVIOUS
  <2>2. c[2*k+1].key = "c" /\ c[2*k+2].key = "d"
    BY DEF c
  <2> QED
    BY <1>6, <2>1, <2>2
<1>8. Formed(u, m)
  BY <1>4, <1>6, <1>7 DEF Formed
<1> QED
  BY <1>4, <1>6, <1>8 DEF u, c, UpdatedBy

\* The pairs after an update, from those before.
LEMMA Handed ==
  ASSUME NEW s, NEW m, Formed(s, m), m \in 0 .. 4, m = 1 => s[3].value # None,
         NEW e \in EditRecords, Creation(s, e) \in EditRecords,
         NEW n, n = IF m < 4 THEN m + 1 ELSE 4, NEW u, u = Updated(s, e)
  PROVE  /\ Formed(u, n)
         /\ u[1].value = e.date /\ u[2].value = e.user
         /\ u[2*n + 3].value = Creation(s, e).date /\ u[2*n + 4].value = Creation(s, e).user
         /\ u[3].value = s[1].value /\ u[4].value = s[2].value
         /\ m = 1 => u[5].value = s[3].value /\ u[6].value = s[4].value
         /\ m >= 2 => /\ u[5].value = s[5].value /\ u[6].value = s[6].value
                      /\ u[7].value = (IF m = 2 THEN None ELSE s[7].value)
                      /\ u[8].value = (IF m = 2 THEN None ELSE s[8].value)
         /\ m >= 3 => /\ u[9].value = (IF m = 3 THEN None ELSE s[9].value)
                      /\ u[10].value = (IF m = 3 THEN None ELSE s[10].value)
<1> DEFINE c == Chain(s)
           C(v) == Subfield("c", v)
           D(v) == Subfield("d", v)
<1>1. \A i \in 1 .. 2*m + 4 : C(s[i].value) \in Subfields /\ D(s[i].value) \in Subfields
  <2>1. \A v \in SubfieldValues : C(v) \in Subfields /\ D(v) \in Subfields
    BY DEF Subfield, Subfields, SubfieldKeys
  <2>2. s \in Seq(Subfields) /\ DOMAIN s = 1 .. 2*m + 4
    BY DEF Formed
  <2>3. \A i \in 1 .. 2*m + 4 : s[i] \in Subfields
    BY <2>2
  <2>4. \A i \in 1 .. 2*m + 4 : s[i].value \in SubfieldValues
    BY <2>3 DEF Subfields
  <2> QED
    BY <2>1, <2>4
<1>2. C(None) \in Subfields /\ D(None) \in Subfields
  BY DEF Subfield, Subfields, SubfieldKeys, SubfieldValues
<1>3. \A v : C(v).key = "c" /\ C(v).value = v /\ D(v).key = "d" /\ D(v).value = v
  BY DEF Subfield
<1>4. n \in Nat /\ m \in Nat
  OBVIOUS
<1>5. /\ m = 0 => c = <<C(s[1].value), D(s[2].value)>>
      /\ m = 1 => c = <<C(s[1].value), D(s[2].value), C(s[3].value), D(s[4].value)>>
      /\ m = 2 => c = <<C(s[1].value), D(s[2].value), C(s[5].value), D(s[6].value), C(None), D(None)>>
      /\ m \in 3 .. 4 =>
           c = <<C(s[1].value), D(s[2].value), C(s[5].value), D(s[6].value),
                 C(s[7].value), D(s[8].value), C(IF m = 3 THEN None ELSE s[9].value),
                 D(IF m = 3 THEN None ELSE s[10].value)>>
  BY ChainOf
<1> HIDE DEF c, C, D
<1>6. /\ c \in Seq(Subfields) /\ Len(c) = 2*n
      /\ c[1] = C(s[1].value) /\ c[2] = D(s[2].value)
      /\ m = 1 => c[3] = C(s[3].value) /\ c[4] = D(s[4].value)
      /\ m >= 2 => /\ c[3] = C(s[5].value) /\ c[4] = D(s[6].value)
                   /\ c[5] = C(IF m = 2 THEN None ELSE s[7].value)
                   /\ c[6] = D(IF m = 2 THEN None ELSE s[8].value)
      /\ m >= 3 => /\ c[7] = C(IF m = 3 THEN None ELSE s[9].value)
                   /\ c[8] = D(IF m = 3 THEN None ELSE s[10].value)
  <2>1. CASE m = 0
    <3>1. c = <<C(s[1].value), D(s[2].value)>>
      BY <1>5, <2>1
    <3>2. /\ C(s[1].value) \in Subfields /\ D(s[2].value) \in Subfields
      BY <1>1, <1>2, <2>1
    <3>3. c \in Seq(Subfields) /\ Len(c) = 2
      BY <3>1, <3>2
    <3> QED
      BY <2>1, <3>1, <3>3
  <2>2. CASE m = 1
    <3>1. c = <<C(s[1].value), D(s[2].value), C(s[3].value), D(s[4].value)>>
      BY <1>5, <2>2
    <3>2. /\ C(s[1].value) \in Subfields /\ D(s[2].value) \in Subfields
          /\ C(s[3].value) \in Subfields /\ D(s[4].value) \in Subfields
      BY <1>1, <1>2, <2>2
    <3>3. c \in Seq(Subfields) /\ Len(c) = 4
      BY <3>1, <3>2
    <3> QED
      BY <2>2, <3>1, <3>3
  <2>3. CASE m = 2
    <3>1. c = <<C(s[1].value), D(s[2].value), C(s[5].value), D(s[6].value),
                 C(None), D(None)>>
      BY <1>5, <2>3
    <3>2. /\ C(s[1].value) \in Subfields /\ D(s[2].value) \in Subfields
          /\ C(s[5].value) \in Subfields /\ D(s[6].value) \in Subfields
          /\ C(None) \in Subfields /\ D(None) \in Subfields
      BY <1>1, <1>2, <2>3
    <3>3. c \in Seq(Subfields) /\ Len(c) = 6
      BY <3>1, <3>2
    <3> QED
      BY <2>3, <3>1, <3>3
  <2>4. CASE m = 3
    <3>1. c = <<C(s[1].value), D(s[2].value), C(s[5].value), D(s[6].value),
                 C(s[7].value), D(s[8].value), C(None), D(None)>>
      BY <1>5, <2>4
    <3>2. /\ C(s[1].value) \in Subfields /\ D(s[2].value) \in Subfields
          /\ C(s[5].value) \in Subfields /\ D(s[6].value) \in Subfields
          /\ C(s[7].value) \in Subfields /\ D(s[8].value) \in Subfields
          /\ C(None) \in Subfields /\ D(None) \in Subfields
      BY <1>1, <1>2, <2>4
    <3>3. c \in Seq(Subfields) /\ Len(c) = 8
      BY <3>1, <3>2
    <3> QED
      BY <2>4, <3>1, <3>3
  <2>5. CASE m = 4
    <3>1. c = <<C(s[1].value), D(s[2].value), C(s[5].value), D(s[6].value),
                 C(s[7].value), D(s[8].value), C(s[9].value), D(s[10].value)>>
      BY <1>5, <2>5
    <3>2. /\ C(s[1].value) \in Subfields /\ D(s[2].value) \in Subfields
          /\ C(s[5].value) \in Subfields /\ D(s[6].value) \in Subfields
          /\ C(s[7].value) \in Subfields /\ D(s[8].value) \in Subfields
          /\ C(s[9].value) \in Subfields /\ D(s[10].value) \in Subfields
      BY <1>1, <1>2, <2>5
    <3>3. c \in Seq(Subfields) /\ Len(c) = 8
      BY <3>1, <3>2
    <3> QED
      BY <2>5, <3>1, <3>3
  <2> QED
    BY <2>1, <2>2, <2>3, <2>4, <2>5
<1>7. /\ c[1].key = "c" /\ c[2].key = "d" /\ c[1].value = s[1].value /\ c[2].value = s[2].value
      /\ m = 1 => /\ c[3].key = "c" /\ c[3].value = s[3].value
                  /\ c[4].key = "d" /\ c[4].value = s[4].value
      /\ m >= 2 => /\ c[3].key = "c" /\ c[3].value = s[5].value
                   /\ c[4].key = "d" /\ c[4].value = s[6].value
                   /\ c[5].key = "c" /\ c[5].value = (IF m = 2 THEN None ELSE s[7].value)
                   /\ c[6].key = "d" /\ c[6].value = (IF m = 2 THEN None ELSE s[8].value)
      /\ m >= 3 => /\ c[7].key = "c" /\ c[7].value = (IF m = 3 THEN None ELSE s[9].value)
                   /\ c[8].key = "d" /\ c[8].value = (IF m = 3 THEN None ELSE s[10].value)
  <2>1. c[1].key = "c" /\ c[2].key = "d" /\ c[1].value = s[1].value /\ c[2].value = s[2].value
    BY <1>6 DEF C, D, Subfield
  <2>2. ASSUME m = 1
        PROVE  /\ c[3].key = "c" /\ c[3].value = s[3].value
               /\ c[4].key = "d" /\ c[4].value = s[4].value
    BY <1>6, <2>2 DEF C, D, Subfield
  <2>3. ASSUME m >= 2
        PROVE  /\ c[3].key = "c" /\ c[3].value = s[5].value
               /\ c[4].key = "d" /\ c[4].value = s[6].value
               /\ c[5].key = "c" /\ c[5].value = (IF m = 2 THEN None ELSE s[7].value)
               /\ c[6].key = "d" /\ c[6].value = (IF m = 2 THEN None ELSE s[8].value)
    BY <1>6, <2>3, SMTT(30) DEF C, D, Subfield
  <2>4. ASSUME m >= 3
        PROVE  /\ c[7].key = "c" /\ c[7].value = (IF m = 3 THEN None ELSE s[9].value)
               /\ c[8].key = "d" /\ c[8].value = (IF m = 3 THEN None ELSE s[10].value)
    <3>1. c[7] = C(IF m = 3 THEN None ELSE s[9].value) /\ c[8] = D(IF m = 3 THEN None ELSE s[10].value)
      BY <1>6, <2>4
    <3> QED
      BY <3>1 DEF C, D, Subfield
  <2> QED
    BY <2>1, <2>2, <2>3, <2>4
<1>8. \A k \in 0 .. n-1 : c[2*k+1].key = "c" /\ c[2*k+2].key = "d"
  <2> SUFFICES ASSUME NEW k \in 0 .. n-1
               PROVE  c[2*k+1].key = "c" /\ c[2*k+2].key = "d"
    OBVIOUS
  <2>1. CASE k = 0
    BY <1>7, <2>1
  <2>2. CASE k = 1
    BY <1>7, <2>2
  <2>3. CASE k = 2
    BY <1>7, <2>3
  <2>4. CASE k = 3
    BY <1>7, <2>4
  <2> QED
    BY <2>1, <2>2, <2>3, <2>4
<1>9. /\ Formed(u, n)
      /\ u[1].value = e.date /\ u[2].value = e.user
      /\ u[2*n + 3].value = Creation(s, e).date /\ u[2*n + 4].value = Creation(s, e).user
      /\ \A p \in 1 .. 2*n : u[p + 2] = c[p]
  <2>1. /\ Chain(s) \in Seq(Subfields) /\ Len(Chain(s)) = 2*n
        /\ \A k \in 0 .. n-1 : Chain(s)[2*k+1].key = "c" /\ Chain(s)[2*k+2].key = "d"
    BY <1>6, <1>8, Zenon DEF c
  <2>2. UpdatedBy(s, e, n)
    BY <1>4, <2>1, UpdatedFormed, Zenon
  <2> QED
    BY <2>2, Zenon DEF c, UpdatedBy
<1>10. /\ u[3] = c[1] /\ u[4] = c[2]
       /\ m >= 1 => u[5] = c[3] /\ u[6] = c[4]
       /\ m >= 2 => u[7] = c[5] /\ u[8] = c[6]
       /\ m >= 3 => u[9] = c[7] /\ u[10] = c[8]
  BY <1>4, <1>9
<1> QED
  BY <1>7, <1>9, <1>10

------------------------------------------------------------------------------
\* The invariant: what a field 039 tells after the edits h.

\* How many pairs there are; from six edits on never more than four.
PairsAfter(h) == IF Len(h) < 6 THEN Len(h) - 2 ELSE 4

\* Pair k is one of the edits, or null.
Known(s, h, k) ==
  \/ s[2*k + 3].value = None /\ s[2*k + 4].value = None
  \/ \E j \in DOMAIN h : s[2*k + 3].value = h[j].date /\ s[2*k + 4].value = h[j].user

\* a and b tell the last edit, y and z the first, the first pair the one before
\* the last; of two pairs the other is the one before that.  Of four pairs the
\* last is null.
Kept(s, h) ==
  LET m == PairsAfter(h) IN
  /\ Formed(s, m)
  /\ s[1].value = h[Len(h)].date /\ s[2].value = h[Len(h)].user
  /\ s[2*m + 3].value = h[1].date /\ s[2*m + 4].value = h[1].user
  /\ m >= 1 => s[3].value = h[Len(h)-1].date /\ s[4].value = h[Len(h)-1].user
  /\ m = 2 => s[5].value = h[Len(h)-2].date /\ s[6].value = h[Len(h)-2].user
  /\ \A k \in 0 .. m-1 : Known(s, h, k)
  /\ m = 4 => s[9].value = None

Chronicle(s, h) ==
  /\ h \in Seq(EditRecords) /\ h # << >>
  /\ Len(h) = 1 => s = Created(h[1])
  /\ Len(h) > 1 => Kept(s, h)

Inv ==
  /\ history \in Seq(EditRecords) /\ Len(history) <= MaxEdits
  /\ fields \in Seq(Seq(Subfields)) /\ ((fields = << >>) <=> (history = << >>))
  /\ \A i \in DOMAIN fields : Chronicle(fields[i], history)
  /\ saved \in {"none", "ok", "throws"}
  /\ saved = "throws" => \E i \in DOMAIN fields : HasNull(fields[i])
  /\ ret # None => ret.create \in EditRecords /\ ret.create = history[1] /\ ret.update = Last(history)

------------------------------------------------------------------------------
\* The field that a new record gets.
LEMMA CreatedFacts ==
  ASSUME NEW e \in EditRecords
  PROVE  /\ Created(e) \in Seq(Subfields) /\ ~HasNull(Created(e))
         /\ Get(Created(e), "y", 0) = e.date
         /\ Get(Created(e), "z", 0) = e.user
         /\ \A n \in 0 .. 4 : Get(Created(e), "c", n) = None /\ Get(Created(e), "d", n) = None
<1> DEFINE s == Created(e)
<1>1. /\ s \in Seq(Subfields) /\ DOMAIN s = 1 .. 2
      /\ s[1].key = "y" /\ s[1].value = e.date /\ s[2].key = "z" /\ s[2].value = e.user
  BY DEF Created, Subfield, Subfields, SubfieldKeys, SubfieldValues, EditRecords
<1> HIDE DEF s
<1>2. ~HasNull(s)
  BY <1>1, UserAssumption DEF HasNull, EditRecords
<1>3. /\ 1 \in DOMAIN s /\ 2 \in DOMAIN s
      /\ \A q \in DOMAIN s : (s[q].key = "y" => q = 1) /\ (s[q].key = "z" => q = 2)
      /\ \A p \in DOMAIN s : \A q \in 1 .. p-1 : q \in DOMAIN s
      /\ \A q \in DOMAIN s : s[q].key # "c" /\ s[q].key # "d"
  BY <1>1
<1>4. Get(s, "y", 0) = s[1].value
  BY <1>1, <1>3, GetOnly
<1>5. Get(s, "z", 0) = s[2].value
  BY <1>1, <1>3, GetOnly
<1>6. \A n \in 0 .. 4 : Get(s, "c", n) = None /\ Get(s, "d", n) = None
  BY <1>3, GetMissing
<1> QED
  BY <1>1, <1>2, <1>4, <1>5, <1>6 DEF s

\* A sequence that has something has a first element.
LEMMA NotEmpty ==
  ASSUME NEW S, NEW h \in Seq(S), h # << >>
  PROVE  Len(h) \in Nat /\ Len(h) >= 1 /\ (Len(h) = 1 \/ Len(h) > 1) /\ h[1] \in S
<1>1. Len(h) \in Nat /\ DOMAIN h = 1 .. Len(h) /\ \A i \in 1 .. Len(h) : h[i] \in S
  OBVIOUS
<1>2. Len(h) # 0
  OBVIOUS
<1>3. Len(h) >= 1
  BY <1>1, <1>2
<1>4. 1 \in 1 .. Len(h)
  BY <1>1, <1>3
<1> QED
  BY <1>1, <1>3, <1>4

\* What build039 reads and reports of the creation is the first edit.
LEMMA CreationOf ==
  ASSUME NEW s, NEW h, Chronicle(s, h), NEW e
  PROVE  /\ h[1] \in EditRecords
         /\ Get(s, "y", 0) = h[1].date /\ Get(s, "z", 0) = h[1].user
         /\ Creation(s, e) = h[1]
<1>0. h \in Seq(EditRecords) /\ h # << >>
  BY Zenon DEF Chronicle
<1>1. h[1] \in EditRecords
  BY <1>0, NotEmpty, Zenon
<1>2. Get(s, "y", 0) = h[1].date /\ Get(s, "z", 0) = h[1].user
  <2>1. CASE Len(h) = 1
    BY <1>1, <2>1, CreatedFacts DEF Chronicle
  <2>2. CASE Len(h) > 1
    <3> DEFINE m == PairsAfter(h)
    <3>1. /\ Formed(s, m)
          /\ s[2*m + 3].value = h[1].date /\ s[2*m + 4].value = h[1].user
      BY <2>2 DEF Chronicle, Kept
    <3> HIDE DEF m
    <3>2. Get(s, "y", 0) = s[2*m + 3].value /\ Get(s, "z", 0) = s[2*m + 4].value
      BY <3>1, GetEnds, Zenon
    <3> QED
      BY <3>1, <3>2
  <2>3. Len(h) = 1 \/ Len(h) > 1
    BY <1>0, NotEmpty, Zenon
  <2> QED
    BY <2>1, <2>2, <2>3
<1>3. h[1].date # None /\ h[1].user # None
  BY <1>1, UserAssumption DEF EditRecords
<1>4. h[1] = [date |-> h[1].date, user |-> h[1].user]
  BY <1>1 DEF EditRecords
<1> QED
  BY <1>1, <1>2, <1>3, <1>4 DEF Creation

\* Up to the third update nothing is null.
LEMMA NoNull ==
  ASSUME NEW s, NEW h, Chronicle(s, h), Len(h) <= 4
  PROVE  ~HasNull(s)
<1>1. h \in Seq(EditRecords) /\ Len(h) \in Nat /\ Len(h) >= 1
  BY NotEmpty, Zenon DEF Chronicle
<1>2. \A j \in DOMAIN h : h[j].date # None /\ h[j].user # None
  <2> SUFFICES ASSUME NEW j \in DOMAIN h
               PROVE  h[j].date # None /\ h[j].user # None
    OBVIOUS
  <2>1. h[j] \in EditRecords
    BY <1>1
  <2> QED
    BY <2>1, UserAssumption DEF EditRecords
<1>3. CASE Len(h) = 1
  BY <1>1, <1>3, CreatedFacts DEF Chronicle
<1>4. CASE Len(h) > 1
  <2> DEFINE m == PairsAfter(h)
  <2>1. Kept(s, h) /\ Formed(s, m) /\ m = Len(h) - 2 /\ m \in 0 .. 2
    <3>1. Kept(s, h) /\ Formed(s, m)
      BY <1>4 DEF Chronicle, Kept
    <3>2. m = Len(h) - 2
      BY <1>1 DEF PairsAfter
    <3> HIDE DEF m
    <3> QED
      BY <1>1, <1>4, <3>1, <3>2
  <2>2. /\ s[1].value = h[Len(h)].date /\ s[2].value = h[Len(h)].user
        /\ s[2*m + 3].value = h[1].date /\ s[2*m + 4].value = h[1].user
        /\ m >= 1 => s[3].value = h[Len(h)-1].date /\ s[4].value = h[Len(h)-1].user
        /\ m = 2 => s[5].value = h[Len(h)-2].date /\ s[6].value = h[Len(h)-2].user
    BY <2>1 DEF Kept
  <2> HIDE DEF m
  <2>3. /\ 1 \in DOMAIN h /\ Len(h) \in DOMAIN h /\ Len(h)-1 \in DOMAIN h
        /\ m = 2 => Len(h)-2 \in DOMAIN h
    BY <1>1, <1>4, <2>1
  <2>4. ASSUME NEW p \in DOMAIN s
        PROVE  s[p].value # None
    <3>1. CASE p \in {1, 2, 2*m + 3, 2*m + 4}
      BY <1>2, <2>2, <2>3, <3>1
    <3>2. ASSUME NEW k \in 0 .. m-1, p = 2*k + 3 \/ p = 2*k + 4
          PROVE  s[p].value # None
      <4>1. (k = 0 /\ m >= 1) \/ (k = 1 /\ m = 2)
        BY <2>1
      <4>2. CASE k = 0 /\ m >= 1
        BY <1>2, <2>2, <2>3, <3>2, <4>2
      <4>3. CASE k = 1 /\ m = 2
        BY <1>2, <2>2, <2>3, <3>2, <4>3
      <4> QED
        BY <4>1, <4>2, <4>3
    <3> QED
      BY <2>1, <3>1, <3>2, Positions
  <2> QED
    BY <2>4 DEF HasNull
<1>5. Len(h) = 1 \/ Len(h) > 1
  <2>1. \A k \in Nat : k >= 1 => k = 1 \/ k > 1
    OBVIOUS
  <2> QED
    BY <1>1, <2>1, Zenon
<1> QED
  BY <1>3, <1>4, <1>5

\* An update of a field goes on with its chronicle; from the fourth on it
\* writes a null.
LEMMA UpdateKeeps ==
  ASSUME NEW s, NEW h, Chronicle(s, h), NEW e \in EditRecords
  PROVE  /\ Updated(s, e) \in Seq(Subfields)
         /\ Chronicle(Updated(s, e), Append(h, e))
         /\ Len(h) > 4 => HasNull(Updated(s, e))
<1> DEFINE g == Append(h, e)
           u == Updated(s, e)
           N == Len(h)
<1>1. h \in Seq(EditRecords) /\ N \in Nat /\ N >= 1
  BY DEF Chronicle
<1>2. /\ g \in Seq(EditRecords) /\ Len(g) = N + 1 /\ g # << >>
      /\ g[N+1] = e /\ \A j \in 1 .. N : g[j] = h[j]
  BY <1>1
<1>3. Creation(s, e) = h[1] /\ h[1] \in EditRecords
  BY CreationOf
<1>4. CASE N = 1
  <2>1. s = Created(h[1])
    BY <1>4 DEF Chronicle
  <2>2. Chain(s) = << >>
    BY <2>1, ChainOfCreated
  <2> PICK z \in Nat : z = 0
    OBVIOUS
  <2>3. /\ Chain(s) \in Seq(Subfields) /\ Len(Chain(s)) = 2*z
        /\ \A k \in 0 .. z-1 : Chain(s)[2*k+1].key = "c" /\ Chain(s)[2*k+2].key = "d"
    BY <2>2
  <2>4. /\ Formed(u, z) /\ u[1].value = e.date /\ u[2].value = e.user
        /\ u[2*z + 3].value = h[1].date /\ u[2*z + 4].value = h[1].user
    <3>1. Creation(s, e) \in EditRecords
      BY <1>3
    <3>2. UpdatedBy(s, e, z)
      BY <2>3, <3>1, UpdatedFormed, Zenon
    <3> QED
      BY <1>3, <3>2, Zenon DEF UpdatedBy
  <2>5. PairsAfter(g) = z
    BY <1>2, <1>4 DEF PairsAfter
  <2> HIDE DEF g, u
  <2>6. Kept(u, g)
    BY <1>2, <1>4, <2>4, <2>5 DEF Kept
  <2>7. Chronicle(u, g) /\ u \in Seq(Subfields)
    BY <1>2, <1>4, <2>4, <2>6 DEF Chronicle, Formed
  <2> QED
    BY <1>4, <2>7 DEF g, u
<1>5. CASE N > 1
  <2> DEFINE m == PairsAfter(h)
             n == PairsAfter(g)
  <2>1. Kept(s, h) /\ Formed(s, m)
    BY <1>5 DEF Chronicle, Kept
  <2>2. m = (IF N < 6 THEN N - 2 ELSE 4) /\ n = (IF N + 1 < 6 THEN (N + 1) - 2 ELSE 4)
    BY <1>2 DEF PairsAfter
  <2>3. m \in 0 .. 4 /\ n = (IF m < 4 THEN m + 1 ELSE 4) /\ n \in 1 .. 4
    <3> HIDE DEF m, n, N
    <3> QED
      BY <1>1, <1>5, <2>2
  <2>4. /\ s[1].value = h[N].date /\ s[2].value = h[N].user
        /\ s[2*m + 3].value = h[1].date /\ s[2*m + 4].value = h[1].user
        /\ m >= 1 => s[3].value = h[N-1].date /\ s[4].value = h[N-1].user
        /\ m = 2 => s[5].value = h[N-2].date /\ s[6].value = h[N-2].user
        /\ \A k \in 0 .. m-1 : Known(s, h, k)
        /\ m = 4 => s[9].value = None
    BY <2>1 DEF Kept
  <2> HIDE DEF m, n, g, u
  <2>5. m = 1 => s[3].value # None
    <3>1. m = 1 => h[N-1] \in EditRecords
      BY <1>1, <1>5
    <3> QED
      BY <2>4, <3>1, UserAssumption DEF EditRecords
  <2>6. /\ Formed(u, n)
        /\ u[1].value = e.date /\ u[2].value = e.user
        /\ u[2*n + 3].value = Creation(s, e).date /\ u[2*n + 4].value = Creation(s, e).user
        /\ u[3].value = s[1].value /\ u[4].value = s[2].value
        /\ m = 1 => u[5].value = s[3].value /\ u[6].value = s[4].value
        /\ m >= 2 => /\ u[5].value = s[5].value /\ u[6].value = s[6].value
                     /\ u[7].value = (IF m = 2 THEN None ELSE s[7].value)
                     /\ u[8].value = (IF m = 2 THEN None ELSE s[8].value)
        /\ m >= 3 => /\ u[9].value = (IF m = 3 THEN None ELSE s[9].value)
                     /\ u[10].value = (IF m = 3 THEN None ELSE s[10].value)
    <3>1. u = Updated(s, e) /\ Creation(s, e) \in EditRecords
      BY <1>3 DEF u
    <3> QED
      BY <2>1, <2>3, <2>5, <3>1, Handed
  <2>7. \A k \in 0 .. n-1 : Known(u, g, k)
    <3> SUFFICES ASSUME NEW k \in 0 .. n-1
                 PROVE  Known(u, g, k)
      OBVIOUS
    <3>0. \A i \in 0 .. 4 : Known(s, h, i) =>
            \/ s[2*i + 3].value = None /\ s[2*i + 4].value = None
            \/ \E j \in DOMAIN g : s[2*i + 3].value = g[j].date /\ s[2*i + 4].value = g[j].user
      BY <1>1, <1>2 DEF Known
    <3>1. CASE k = 0
      BY <1>1, <1>2, <2>4, <2>6, <3>1 DEF Known
    <3>2. CASE k = 1
      <4>1. CASE m = 1
        <5>1. u[5].value = h[N-1].date /\ u[6].value = h[N-1].user /\ N-1 \in 1 .. N
          BY <1>1, <1>5, <2>4, <2>6, <4>1
        <5> QED
          BY <1>1, <1>2, <3>2, <5>1 DEF Known
      <4>2. CASE m >= 2
        <5>1. Known(s, h, 1) /\ u[5].value = s[5].value /\ u[6].value = s[6].value
          BY <2>3, <2>4, <2>6, <4>2
        <5> QED
          BY <3>0, <3>2, <5>1 DEF Known
      <4> QED
        BY <2>3, <3>2, <4>1, <4>2
    <3>3. CASE k = 2
      <4>1. CASE m = 2
        BY <2>6, <3>3, <4>1 DEF Known
      <4>2. CASE m >= 3
        <5>1. Known(s, h, 2) /\ u[7].value = s[7].value /\ u[8].value = s[8].value
          BY <2>3, <2>4, <2>6, <4>2
        <5> QED
          BY <3>0, <3>3, <5>1 DEF Known
      <4> QED
        BY <2>3, <3>3, <4>1, <4>2
    <3>4. CASE k = 3
      <4>1. CASE m = 3
        BY <2>6, <3>4, <4>1 DEF Known
      <4>2. CASE m >= 4
        <5>1. Known(s, h, 3) /\ u[9].value = s[9].value /\ u[10].value = s[10].value
          BY <2>3, <2>4, <2>6, <4>2
        <5> QED
          BY <3>0, <3>4, <5>1 DEF Known
      <4> QED
        BY <2>3, <3>4, <4>1, <4>2
    <3> QED
      BY <2>3, <3>1, <3>2, <3>3, <3>4
  <2>8. /\ u[1].value = g[N+1].date /\ u[2].value = g[N+1].user
        /\ u[2*n + 3].value = g[1].date /\ u[2*n + 4].value = g[1].user
        /\ u[3].value = g[N].date /\ u[4].value = g[N].user
    BY <1>1, <1>2, <1>3, <2>4, <2>6
  <2>9. n = 2 => u[5].value = g[N-1].date /\ u[6].value = g[N-1].user
    <3>1. n = 2 => m = 1 /\ g[N-1] = h[N-1]
      BY <1>1, <1>2, <1>5, <2>3
    <3> QED
      BY <2>4, <2>6, <3>1
  <2>10. n = 4 => u[9].value = None
    BY <2>3, <2>4, <2>6
  <2>11. Kept(u, g)
    <3>1. Len(g) - 1 = N /\ Len(g) - 2 = N - 1 /\ PairsAfter(g) = n
      BY <1>1, <1>2 DEF n
    <3> QED
      BY <1>2, <2>6, <2>7, <2>8, <2>9, <2>10, <3>1 DEF Kept
  <2>12. Chronicle(u, g) /\ u \in Seq(Subfields)
    BY <1>1, <1>2, <2>6, <2>11 DEF Chronicle, Formed
  <2>13. N > 4 => HasNull(u)
    <3>1. N > 4 => n = 4 /\ 9 \in DOMAIN u
      BY <1>1, <2>2, <2>6 DEF Formed
    <3> QED
      BY <2>10, <3>1 DEF HasNull
  <2> QED
    BY <2>12, <2>13 DEF g, u
<1>6. N = 1 \/ N > 1
  <2>1. \A k \in Nat : k >= 1 => k = 1 \/ k > 1
    OBVIOUS
  <2> QED
    BY <1>1, <2>1, Zenon
<1> QED
  BY <1>4, <1>5, <1>6

------------------------------------------------------------------------------
\* A complete field: pair k tells the edit k+1 before the last.
LEMMA CompleteFormed ==
  ASSUME NEW h \in Seq(EditRecords), NEW m \in Nat, Len(h) = m + 2
  PROVE  /\ Formed(Complete(h), m)
         /\ Complete(h)[1].value = h[m + 2].date /\ Complete(h)[2].value = h[m + 2].user
         /\ Complete(h)[2*m + 3].value = h[1].date /\ Complete(h)[2*m + 4].value = h[1].user
         /\ \A k \in 0 .. m-1 : /\ Complete(h)[2*k + 3].value = h[(m + 1) - k].date
                                /\ Complete(h)[2*k + 4].value = h[(m + 1) - k].user
<1> DEFINE front == <<Subfield("a", h[Len(h)].date), Subfield("b", h[Len(h)].user)>>
           back == Created(h[1])
           E(p) == h[Len(h)-1 - (p-1) \div 2]
           F(p) == IF p % 2 = 1 THEN Subfield("c", E(p).date) ELSE Subfield("d", E(p).user)
           former == [p \in 1 .. 2 * (Len(h)-2) |-> F(p)]
           u == Complete(h)
<1>1. u = (front \o former) \o back
  BY DEF Complete
<1>2. \A j \in 1 .. m + 2 : h[j] \in EditRecords
  OBVIOUS
<1>3. /\ front \in Seq(Subfields) /\ Len(front) = 2
      /\ front[1].key = "a" /\ front[1].value = h[m + 2].date
      /\ front[2].key = "b" /\ front[2].value = h[m + 2].user
  <2>1. h[m + 2] \in EditRecords
    BY <1>2
  <2> QED
    BY <2>1 DEF Subfield, Subfields, SubfieldKeys, SubfieldValues, EditRecords
<1>4. /\ back \in Seq(Subfields) /\ Len(back) = 2
      /\ back[1].key = "y" /\ back[1].value = h[1].date
      /\ back[2].key = "z" /\ back[2].value = h[1].user
  <2>1. h[1] \in EditRecords
    BY <1>2
  <2> QED
    BY <2>1 DEF Created, Subfield, Subfields, SubfieldKeys, SubfieldValues, EditRecords
<1>5. former \in Seq(Subfields) /\ Len(former) = 2*m
  <2>1. \A p \in 1 .. 2*m : E(p) \in EditRecords
    <3> TAKE p \in 1 .. 2*m
    <3>1. Len(h)-1 - (p-1) \div 2 \in 1 .. m + 2
      OBVIOUS
    <3> QED
      BY <1>2, <3>1
  <2> HIDE DEF E
  <2>2. \A p \in 1 .. 2*m : F(p) \in Subfields
    BY <2>1 DEF Subfield, Subfields, SubfieldKeys, SubfieldValues, EditRecords
  <2> HIDE DEF F
  <2>3. 2 * (Len(h)-2) = 2*m /\ 2*m \in Nat
    OBVIOUS
  <2> QED
    BY <2>2, <2>3
<1>6. \A k \in 0 .. m-1 :
        /\ former[2*k + 1].key = "c" /\ former[2*k + 1].value = h[(m + 1) - k].date
        /\ former[2*k + 2].key = "d" /\ former[2*k + 2].value = h[(m + 1) - k].user
  <2> SUFFICES ASSUME NEW k \in 0 .. m-1
               PROVE  /\ former[2*k + 1].key = "c" /\ former[2*k + 1].value = h[(m + 1) - k].date
                      /\ former[2*k + 2].key = "d" /\ former[2*k + 2].value = h[(m + 1) - k].user
    OBVIOUS
  <2>1. /\ 2*k + 1 \in 1 .. 2 * (Len(h)-2) /\ (2*k + 1) % 2 = 1
        /\ Len(h)-1 - ((2*k + 1) - 1) \div 2 = (m + 1) - k
    OBVIOUS
  <2>2. /\ 2*k + 2 \in 1 .. 2 * (Len(h)-2) /\ (2*k + 2) % 2 # 1
        /\ Len(h)-1 - ((2*k + 2) - 1) \div 2 = (m + 1) - k
    OBVIOUS
  <2>3. F(2*k + 1) = Subfield("c", h[(m + 1) - k].date)
    BY <2>1
  <2>4. F(2*k + 2) = Subfield("d", h[(m + 1) - k].user)
    BY <2>2
  <2> HIDE DEF F
  <2>5. former[2*k + 1] = F(2*k + 1) /\ former[2*k + 2] = F(2*k + 2)
    BY <2>1, <2>2
  <2> HIDE DEF former
  <2> QED
    BY <2>3, <2>4, <2>5 DEF Subfield
<1> HIDE DEF front, back, former, u
<1>7. /\ u \in Seq(Subfields) /\ Len(u) = 2*m + 4
      /\ u[1] = front[1] /\ u[2] = front[2]
      /\ u[2*m + 3] = back[1] /\ u[2*m + 4] = back[2]
      /\ \A p \in 1 .. 2*m : u[p + 2] = former[p]
  <2>1. Wraps(u, front, former, back)
    BY <1>1, <1>3, <1>4, <1>5, Between
  <2> QED
    BY <1>5, <2>1 DEF Wraps
<1>8. \A k \in 0 .. m-1 :
        /\ u[2*k + 3].key = "c" /\ u[2*k + 3].value = h[(m + 1) - k].date
        /\ u[2*k + 4].key = "d" /\ u[2*k + 4].value = h[(m + 1) - k].user
  <2> TAKE k \in 0 .. m-1
  <2>1. 2*k+1 \in 1 .. 2*m /\ 2*k+2 \in 1 .. 2*m /\ (2*k+1)+2 = 2*k+3 /\ (2*k+2)+2 = 2*k+4
    OBVIOUS
  <2> QED
    BY <1>6, <1>7, <2>1
<1>9. Formed(u, m)
  BY <1>3, <1>4, <1>7, <1>8 DEF Formed
<1> QED
  BY <1>3, <1>4, <1>7, <1>8, <1>9 DEF u

\* The chronicle of a record that is read.
LEMMA CompleteChronicle ==
  ASSUME NEW h \in Seq(EditRecords), h # << >>, Len(h) <= 5
  PROVE  Chronicle(Complete(h), h) /\ Complete(h) \in Seq(Subfields)
<1>1. Len(h) \in 1 .. 5
  <2>1. Len(h) \in Nat /\ Len(h) >= 1 /\ Len(h) <= 5
    OBVIOUS
  <2>2. \A n \in Nat : n >= 1 /\ n <= 5 => n \in 1 .. 5
    OBVIOUS
  <2> QED
    BY <2>1, <2>2, Zenon
<1>2. CASE Len(h) = 1
  <2>1. h[1] \in EditRecords /\ Complete(h) = Created(h[1])
    BY <1>2 DEF Complete
  <2> QED
    BY <1>2, <2>1, CreatedFacts DEF Chronicle
<1>3. CASE Len(h) > 1
  <2>1. PICK m \in 0 .. 3 : Len(h) = m + 2
    <3>1. \A n \in 1 .. 5 : n > 1 => \E k \in 0 .. 3 : n = k + 2
      <4> SUFFICES ASSUME NEW n \in 1 .. 5, n > 1
                   PROVE  \E k \in 0 .. 3 : n = k + 2
        OBVIOUS
      <4>1. n - 2 \in 0 .. 3 /\ n = (n - 2) + 2
        OBVIOUS
      <4> QED
        BY <4>1
    <3> QED
      BY <1>1, <1>3, <3>1, Zenon
  <2> DEFINE u == Complete(h)
  <2>2. /\ Formed(u, m)
        /\ u[1].value = h[m + 2].date /\ u[2].value = h[m + 2].user
        /\ u[2*m + 3].value = h[1].date /\ u[2*m + 4].value = h[1].user
        /\ \A k \in 0 .. m-1 : /\ u[2*k + 3].value = h[(m + 1) - k].date
                               /\ u[2*k + 4].value = h[(m + 1) - k].user
    <3>1. m \in Nat
      OBVIOUS
    <3> QED
      BY <2>1, <3>1, CompleteFormed
  <2> HIDE DEF u
  <2>3. PairsAfter(h) = m
    BY <2>1 DEF PairsAfter
  <2>4. \A k \in 0 .. m-1 : Known(u, h, k)
    <3> TAKE k \in 0 .. m-1
    <3>1. (m + 1) - k \in DOMAIN h
      BY <2>1
    <3> QED
      BY <2>2, <3>1 DEF Known
  <2>5. /\ m >= 1 => u[3].value = h[m + 1].date /\ u[4].value = h[m + 1].user
        /\ m = 2 => u[5].value = h[m].date /\ u[6].value = h[m].user
    <3>1. CASE m >= 1
      <4>1. /\ 0 \in 0 .. m-1 /\ 2*0 + 3 = 3 /\ 2*0 + 4 = 4 /\ (m + 1) - 0 = m + 1
            /\ m = 2 => 1 \in 0 .. m-1 /\ 2*1 + 3 = 5 /\ 2*1 + 4 = 6 /\ (m + 1) - 1 = m
        BY <3>1
      <4> QED
        BY <2>2, <4>1
    <3>2. CASE ~(m >= 1)
      BY <3>2
    <3> QED
      BY <3>1, <3>2
  <2>6. Kept(u, h)
    <3>1. Len(h) = m + 2 /\ Len(h) - 1 = m + 1 /\ Len(h) - 2 = m /\ m # 4
      BY <2>1
    <3> QED
      BY <2>2, <2>3, <2>4, <2>5, <3>1 DEF Kept
  <2>7. u \in Seq(Subfields)
    BY <2>2 DEF Formed
  <2>8. Chronicle(u, h)
    <3>1. Len(h) # 1
      BY <2>1
    <3> QED
      BY <2>6, <3>1 DEF Chronicle
  <2> QED
    BY <2>7, <2>8 DEF u
<1> QED
  BY <1>1, <1>2, <1>3, SMTT(30)

\* Up to the third update the chronicle is complete.
LEMMA OnlyComplete ==
  ASSUME NEW s, NEW h, Chronicle(s, h), Len(h) <= 4
  PROVE  s = Complete(h)
<1>1. h \in Seq(EditRecords) /\ h # << >> /\ Len(h) \in 1 .. 4
  <2>1. h \in Seq(EditRecords) /\ h # << >> /\ Len(h) \in Nat /\ Len(h) >= 1 /\ Len(h) <= 4
    BY DEF Chronicle
  <2>2. \A n \in Nat : n >= 1 /\ n <= 4 => n \in 1 .. 4
    OBVIOUS
  <2> QED
    BY <2>1, <2>2, Zenon
<1>2. CASE Len(h) = 1
  BY <1>2 DEF Chronicle, Complete
<1>3. CASE Len(h) > 1
  <2> DEFINE t == Complete(h)
             m == PairsAfter(h)
  <2>1. Kept(s, h) /\ Kept(t, h)
    BY <1>1, <1>3, CompleteChronicle DEF Chronicle
  <2>2. /\ Formed(s, m) /\ Formed(t, m)
        /\ s[1].value = t[1].value /\ s[2].value = t[2].value
        /\ s[2*m + 3].value = t[2*m + 3].value /\ s[2*m + 4].value = t[2*m + 4].value
        /\ m >= 1 => s[3].value = t[3].value /\ s[4].value = t[4].value
        /\ m = 2 => s[5].value = t[5].value /\ s[6].value = t[6].value
    BY <2>1 DEF Kept
  <2>3. m = Len(h) - 2
    BY <1>1 DEF PairsAfter
  <2> HIDE DEF m, t
  <2>4. m \in 0 .. 2
    BY <1>1, <1>3, <2>3
  <2>5. /\ s \in Seq(Subfields) /\ t \in Seq(Subfields) /\ Len(s) = 2*m + 4 /\ Len(t) = 2*m + 4
        /\ \A i \in {1, 2, 2*m + 3, 2*m + 4} : s[i].key = t[i].key
        /\ \A k \in 0 .. m-1 : /\ s[2*k + 3].key = t[2*k + 3].key
                               /\ s[2*k + 4].key = t[2*k + 4].key
    BY <2>2 DEF Formed
  <2>6. ASSUME NEW p \in 1 .. Len(s)
        PROVE  s[p] = t[p]
    <3>1. p \in DOMAIN s /\ s[p] \in Subfields /\ t[p] \in Subfields
      BY <2>5
    <3>2. s[p].key = t[p].key /\ s[p].value = t[p].value
      <4>1. CASE p \in {1, 2, 2*m + 3, 2*m + 4}
        BY <2>2, <2>5, <4>1
      <4>2. ASSUME NEW k \in 0 .. m-1, p = 2*k + 3 \/ p = 2*k + 4
            PROVE  s[p].key = t[p].key /\ s[p].value = t[p].value
        <5>1. (k = 0 /\ m >= 1) \/ (k = 1 /\ m = 2)
          BY <2>4
        <5>2. CASE k = 0 /\ m >= 1
          BY <2>2, <2>5, <4>2, <5>2
        <5>3. CASE k = 1 /\ m = 2
          BY <2>2, <2>5, <4>2, <5>3
        <5> QED
          BY <5>1, <5>2, <5>3
      <4> QED
        BY <2>2, <3>1, <4>1, <4>2, Positions
    <3> QED
      BY <3>1, <3>2 DEF Subfields
  <2>7. s = t
    BY <2>5, <2>6, SeqEqual
  <2> QED
    BY <2>7 DEF t
<1> QED
  BY <1>1, <1>2, <1>3

------------------------------------------------------------------------------
\* The record is new, or read with complete fields.
LEMMA InitInv == Init => Inv
<1> SUFFICES ASSUME Init
             PROVE  Inv
  OBVIOUS
<1>1. PICK v \in Users, n \in 0 .. 5, copies \in 1 .. 2 :
        /\ history = [i \in 1 .. n |-> [date |-> i, user |-> v]]
        /\ fields = IF n = 0 THEN << >> ELSE [i \in 1 .. copies |-> Complete(history)]
  BY DEF Init
<1>2. history \in Seq(EditRecords) /\ Len(history) = n
  BY <1>1 DEF EditRecords
<1>3. n <= MaxEdits
  BY EditAssumption
<1>4. CASE n = 0
  <2>1. fields = << >> /\ history = << >>
    BY <1>1, <1>2, <1>4
  <2> QED
    BY <1>2, <1>3, <2>1 DEF Init, Inv
<1>5. CASE n # 0
  <2>1. history # << >> /\ Len(history) <= 5
    BY <1>2, <1>5
  <2>2. Chronicle(Complete(history), history) /\ Complete(history) \in Seq(Subfields)
    BY <1>2, <2>1, CompleteChronicle
  <2>3. fields = [i \in 1 .. copies |-> Complete(history)]
    BY <1>1, <1>5
  <2>4. fields \in Seq(Seq(Subfields)) /\ fields # << >> /\ DOMAIN fields = 1 .. copies
    BY <2>2, <2>3
  <2>5. \A i \in DOMAIN fields : Chronicle(fields[i], history)
    BY <2>2, <2>3
  <2> QED
    BY <1>2, <1>3, <2>1, <2>4, <2>5 DEF Init, Inv
<1> QED
  BY <1>4, <1>5

\* What an edit does to the fields.
LEMMA EditKeeps ==
  ASSUME Inv, NEW v \in Users, Build039(v)
  PROVE  /\ Inv'
         /\ \A i \in DOMAIN fields : HasNull(fields[i]) => HasNull(fields'[i])
<1> DEFINE e == [date |-> Len(history) + 1, user |-> v]
<1>1. /\ history \in Seq(EditRecords) /\ Len(history) < MaxEdits
      /\ fields \in Seq(Seq(Subfields)) /\ ((fields = << >>) <=> (history = << >>))
      /\ \A i \in DOMAIN fields : Chronicle(fields[i], history)
  BY DEF Inv, Build039
<1>2. e \in EditRecords
  BY <1>1 DEF EditRecords
<1>3. /\ history' = Append(history, e) /\ saved' = "none"
      /\ fields = << >> => fields' = <<Created(e)>> /\ ret' = [create |-> e, update |-> e]
      /\ fields # << >> => /\ fields' = [i \in DOMAIN fields |-> Updated(fields[1], e)]
                          /\ ret' = [create |-> Creation(fields[1], e), update |-> e]
  BY DEF Build039
<1> HIDE DEF e
<1>4. /\ history' \in Seq(EditRecords) /\ Len(history') = Len(history) + 1 /\ history' # << >>
      /\ Len(history') <= MaxEdits /\ Last(history') = e
  <2>1. Append(history, e) \in Seq(EditRecords) /\ Append(history, e) # << >>
        /\ Len(Append(history, e)) = Len(history) + 1
        /\ Append(history, e)[Len(history) + 1] = e
    BY <1>1, <1>2, SMTT(30)
  <2>2. Len(history) + 1 <= MaxEdits
    BY <1>1, EditAssumption
  <2> QED
    BY <1>3, <2>1, <2>2 DEF Last
<1>5. CASE fields = << >>
  <2>1. history = << >> /\ history' = <<e>>
    BY <1>1, <1>2, <1>3, <1>5
  <2>2. fields' = <<Created(e)>> /\ Created(e) \in Seq(Subfields) /\ DOMAIN fields' = 1 .. 1
    BY <1>2, <1>3, <1>5, CreatedFacts
  <2>3. Chronicle(Created(e), history')
    BY <1>4, <2>1 DEF Chronicle
  <2>4. fields' \in Seq(Seq(Subfields)) /\ fields' # << >>
    BY <2>2
  <2>5. \A i \in DOMAIN fields' : Chronicle(fields'[i], history')
    BY <2>2, <2>3
  <2>6. ret'.create = e /\ ret'.update = e /\ history'[1] = e
    BY <1>3, <1>5, <2>1
  <2> QED
    BY <1>2, <1>3, <1>4, <1>5, <2>4, <2>5, <2>6 DEF Inv, Last
<1>6. CASE fields # << >>
  <2>1. 1 \in DOMAIN fields
    BY <1>1, <1>6
  <2>2. Chronicle(fields[1], history) /\ history[1] \in EditRecords
    BY <1>1, <2>1, CreationOf
  <2>3. /\ Updated(fields[1], e) \in Seq(Subfields)
        /\ Chronicle(Updated(fields[1], e), history')
        /\ Len(history) > 4 => HasNull(Updated(fields[1], e))
    BY <1>2, <1>3, <2>2, UpdateKeeps
  <2>4. fields' = [i \in DOMAIN fields |-> Updated(fields[1], e)]
    BY <1>3, <1>6
  <2>5. fields' \in Seq(Seq(Subfields)) /\ fields' # << >> /\ DOMAIN fields' = DOMAIN fields
    <3>1. fields \in Seq(Seq(Subfields)) /\ DOMAIN fields = 1 .. Len(fields) /\ Len(fields) \in Nat
      BY <1>1
    <3>2. fields' \in Seq(Seq(Subfields)) /\ DOMAIN fields' = DOMAIN fields
      BY <2>3, <2>4, <3>1
    <3> QED
      BY <2>1, <3>2
  <2>6. \A i \in DOMAIN fields' : Chronicle(fields'[i], history')
    BY <2>3, <2>4
  <2>7. history'[1] = history[1] /\ Creation(fields[1], e) = history[1]
    BY <1>1, <1>2, <1>3, <1>6, <2>2, CreationOf
  <2>8. ret'.create = history'[1] /\ ret'.update = e /\ ret'.create \in EditRecords
    BY <1>3, <1>6, <2>2, <2>7
  <2>9. Inv'
    BY <1>3, <1>4, <2>5, <2>6, <2>8 DEF Inv, Last
  <2>10. ASSUME NEW i \in DOMAIN fields, HasNull(fields[i])
         PROVE  HasNull(fields'[i])
    <3>1. Len(history) > 4
      <4>1. ~(Len(history) <= 4) /\ Len(history) \in Nat
        BY <1>1, <2>10, NoNull
      <4> QED
        BY <4>1
    <3> QED
      BY <2>3, <2>4, <3>1
  <2> QED
    BY <2>9, <2>10
<1> QED
  BY <1>5, <1>6

------------------------------------------------------------------------------
\* Every step keeps the invariant.
LEMMA NextInv == Inv /\ [Next]_vars => Inv'
<1> SUFFICES ASSUME Inv, [Next]_vars
             PROVE  Inv'
  OBVIOUS
<1>1. ASSUME NEW v \in Users, Build039(v)
      PROVE  Inv'
  BY <1>1, EditKeeps
<1>2. CASE Save
  BY <1>2 DEF Save, Inv
<1>3. CASE UNCHANGED vars
  BY <1>3 DEF vars, Inv
<1> QED
  BY <1>1, <1>2, <1>3 DEF Next

\* The invariant holds throughout.
LEMMA InvHolds == Spec => []Inv
<1> QED
  BY InitInv, NextInv, PTL DEF Spec

\* Type correctness of the model of build039.
THEOREM TypeCorrect == Spec => []TypeOK
<1>1. Inv => TypeOK
  BY DEF Inv, TypeOK, Subfields, SubfieldKeys, SubfieldValues, EditRecords
<1> QED
  BY <1>1, InvHolds, PTL

\* However often a record is edited, y and z tell its creation.
THEOREM CreatorNeverLost == Spec => []CreatorKept
<1>1. Inv => CreatorKept
  <2> SUFFICES ASSUME Inv, NEW i \in DOMAIN fields
               PROVE  /\ [date |-> Get(fields[i], "y", 0), user |-> Get(fields[i], "z", 0)] = history[1]
                      /\ ret # None => ret.create = history[1]
    BY DEF CreatorKept
  <2>1. /\ history[1] \in EditRecords
        /\ Get(fields[i], "y", 0) = history[1].date /\ Get(fields[i], "z", 0) = history[1].user
    BY CreationOf DEF Inv
  <2>2. history[1] = [date |-> history[1].date, user |-> history[1].user]
    BY <2>1 DEF EditRecords
  <2> QED
    BY <2>1, <2>2 DEF Inv
<1> QED
  BY <1>1, InvHolds, PTL

\* The two newest updates are where a reader looks for them.
THEOREM NewestAlwaysFirst == Spec => []NewestFirst
<1>1. Inv => NewestFirst
  <2> SUFFICES ASSUME Inv, NEW i \in DOMAIN fields
               PROVE  LET n == Len(history) IN
                      /\ n >= 2 => [date |-> Get(fields[i], "a", 0), user |-> Get(fields[i], "b", 0)] = history[n]
                      /\ n >= 3 => [date |-> Get(fields[i], "c", 0), user |-> Get(fields[i], "d", 0)] = history[n-1]
    BY DEF NewestFirst
  <2> DEFINE n == Len(history)
             s == fields[i]
             m == PairsAfter(history)
  <2>1. Chronicle(s, history) /\ history \in Seq(EditRecords) /\ n \in Nat
    BY DEF Inv
  <2>2. \A j \in 1 .. n : history[j] \in EditRecords
                        /\ history[j] = [date |-> history[j].date, user |-> history[j].user]
    <3>1. \A r \in EditRecords : r = [date |-> r.date, user |-> r.user]
      BY DEF EditRecords
    <3>2. \A j \in 1 .. n : history[j] \in EditRecords
      BY <2>1
    <3> QED
      BY <3>1, <3>2
  <2>3. ASSUME n >= 2
        PROVE  /\ Formed(s, m) /\ s[1].value = history[n].date /\ s[2].value = history[n].user
               /\ m >= 1 => s[3].value = history[n-1].date /\ s[4].value = history[n-1].user
    BY <2>1, <2>3 DEF Chronicle, Kept
  <2>4. n >= 3 => m >= 1
    BY <2>1 DEF PairsAfter
  <2> HIDE DEF m, s, n
  <2>5. n >= 2 => n \in 1 .. n /\ n-1 \in 1 .. n
    BY <2>1
  <2>6. n >= 2 => [date |-> Get(s, "a", 0), user |-> Get(s, "b", 0)] = history[n]
    BY <2>2, <2>3, <2>5, GetEnds
  <2>7. n >= 3 => [date |-> Get(s, "c", 0), user |-> Get(s, "d", 0)] = history[n-1]
    <3> SUFFICES ASSUME n >= 3
                 PROVE  [date |-> Get(s, "c", 0), user |-> Get(s, "d", 0)] = history[n-1]
      OBVIOUS
    <3>1. n >= 2
      BY <2>1
    <3>2. Formed(s, m) /\ 0 \in Nat /\ 0 < m
      BY <2>3, <2>4, <3>1 DEF Formed
    <3>3. Get(s, "c", 0) = s[2*0 + 3].value /\ Get(s, "d", 0) = s[2*0 + 4].value
      BY <3>2, GetPairs
    <3> QED
      BY <2>2, <2>3, <2>4, <2>5, <3>1, <3>3
  <2> QED
    BY <2>6, <2>7 DEF n, s
<1> QED
  BY <1>1, InvHolds, PTL

\* Dates and users never get mixed up.
THEOREM PairsAlwaysMatch == Spec => []PairsMatch
<1>1. Inv => PairsMatch
  <2> SUFFICES ASSUME Inv, NEW i \in DOMAIN fields, NEW n \in 0 .. 4
               PROVE  LET c == Get(fields[i], "c", n)
                          d == Get(fields[i], "d", n)
                      IN  (c = None /\ d = None) \/ \E j \in DOMAIN history : history[j] = [date |-> c, user |-> d]
    BY DEF PairsMatch
  <2> DEFINE s == fields[i]
  <2>1. Chronicle(s, history) /\ history \in Seq(EditRecords)
    BY DEF Inv
  <2>2. \A j \in DOMAIN history : history[j] = [date |-> history[j].date, user |-> history[j].user]
    <3>1. \A r \in EditRecords : r = [date |-> r.date, user |-> r.user]
      BY DEF EditRecords
    <3>2. \A j \in DOMAIN history : history[j] \in EditRecords
      BY <2>1
    <3> QED
      BY <3>1, <3>2
  <2> HIDE DEF s
  <2>3. CASE Len(history) = 1
    <3>1. s = Created(history[1]) /\ history[1] \in EditRecords
      BY <2>1, <2>3 DEF Chronicle
    <3> QED
      BY <3>1, CreatedFacts DEF s
  <2>4. CASE Len(history) > 1
    <3>1. Formed(s, PairsAfter(history)) /\ \A k \in 0 .. PairsAfter(history) - 1 : Known(s, history, k)
      BY <2>1, <2>4 DEF Chronicle, Kept
    <3> DEFINE m == PairsAfter(history)
    <3>2. m \in Nat /\ n \in Nat
      BY <3>1 DEF Formed
    <3> HIDE DEF m
    <3>3. /\ Get(s, "c", n) = IF n < m THEN s[2*n + 3].value ELSE None
          /\ Get(s, "d", n) = IF n < m THEN s[2*n + 4].value ELSE None
      BY <3>1, <3>2, GetPairs DEF m
    <3>4. CASE n < m
      <4>1. Known(s, history, n)
        BY <3>1, <3>2, <3>4 DEF m
      <4> QED
        BY <2>2, <3>3, <3>4, <4>1 DEF Known, s
    <3>5. CASE ~(n < m)
      BY <3>3, <3>5 DEF s
    <3> QED
      BY <3>4, <3>5
  <2>5. Len(history) = 1 \/ Len(history) > 1
    <3>1. Len(history) \in Nat /\ Len(history) >= 1
      BY <2>1 DEF Chronicle
    <3>2. \A k \in Nat : k >= 1 => k = 1 \/ k > 1
      OBVIOUS
    <3> QED
      BY <3>1, <3>2, Zenon
  <2> QED
    BY <2>3, <2>4, <2>5
<1> QED
  BY <1>1, InvHolds, PTL

\* A field with up to three updates is complete and can be written.
THEOREM ThreeUpdatesComplete == Spec => []CompleteThroughThreeUpdates
<1>1. Inv => CompleteThroughThreeUpdates
  <2> SUFFICES ASSUME Inv, Len(history) \in 1 .. 4
               PROVE  (\A i \in DOMAIN fields : fields[i] = Complete(history)) /\ saved # "throws"
    BY DEF CompleteThroughThreeUpdates
  <2>1. Len(history) <= 4
    <3>1. \A k \in 1 .. 4 : k <= 4
      OBVIOUS
    <3> QED
      BY <3>1, Zenon
  <2>2. \A i \in DOMAIN fields : fields[i] = Complete(history)
    BY <2>1, OnlyComplete DEF Inv
  <2>3. \A i \in DOMAIN fields : ~HasNull(fields[i])
    BY <2>1, NoNull DEF Inv
  <2> QED
    BY <2>2, <2>3 DEF Inv
<1> QED
  BY <1>1, InvHolds, PTL

\* A null in the chain never leaves it again.
THEOREM NullStays == Spec => BrokenStaysBroken
<1> DEFINE Step == \A i \in DOMAIN fields : HasNull(fields[i]) => HasNull(fields'[i])
<1>1. Inv /\ [Next]_vars => [Step]_vars
  <2> SUFFICES ASSUME Inv, [Next]_vars
               PROVE  Step \/ UNCHANGED vars
    OBVIOUS
  <2>1. ASSUME NEW v \in Users, Build039(v)
        PROVE  Step
    BY <2>1, EditKeeps
  <2>2. CASE Save
    BY <2>2 DEF Save
  <2> QED
    BY <2>1, <2>2 DEF Next
<1> QED
  BY <1>1, InvHolds, PTL DEF Spec, BrokenStaysBroken
==============================================================================
