---------------------------- MODULE MarcCodec_proofs ----------------------------
(***************************************************************************)
(* MARC strings, for every set of texts, whatever their widths, for every  *)
(* set of tags, number of fields and of records: a sound record is read    *)
(* back as it was written, whichever writer wrote it and whatever stands   *)
(* around it in the file, only a record that is not sound can make the     *)
(* reader throw, and writing again what was read changes no number.        *)
(***************************************************************************)
EXTENDS MarcCodec, DataInduction, FiniteSetTheorems, SequenceTheorems

------------------------------------------------------------------------------
\* Sums of sizes.

\* SumTo adds up from the front.
LEMMA SumFacts ==
  ASSUME NEW n \in Nat, NEW f, \A k \in 1 .. n : f[k] \in Nat
  PROVE  /\ SumTo(f, 0) = 0
         /\ \A m \in 0 .. n : SumTo(f, m) \in Nat
         /\ \A m \in 1 .. n : SumTo(f, m) = SumTo(f, m-1) + f[m]
<1> DEFINE F == [k \in 1 .. n |-> [x \in Nat |-> x + f[k]]]
<1>1. \A k \in 1 .. n, x \in Nat : F[k][x] = x + f[k] /\ F[k][x] \in Nat
  OBVIOUS
<1> HIDE DEF F
<1>2. PICK g : IsRun(g, F, n, Nat, 0)
  <2>1. AreSteps(F, n, Nat)
    BY <1>1 DEF AreSteps
  <2> QED
    BY <2>1, Recursion
<1>3. /\ g \in [0 .. n -> Nat] /\ g[0] = 0
      /\ \A k \in 1 .. n : g[k] = g[k-1] + f[k]
  <2>1. g \in [0 .. n -> Nat] /\ g[0] = 0 /\ \A k \in 1 .. n : g[k] = F[k][g[k-1]]
    BY <1>2 DEF IsRun
  <2>2. \A k \in 1 .. n : g[k-1] \in Nat
    BY <2>1
  <2> QED
    BY <1>1, <2>1, <2>2
<1>4. ASSUME NEW m \in 0 .. n PROVE SumTo(f, m) = g[m]
  <2> DEFINE Is(h) == h = [k \in 0 .. m |-> IF k = 0 THEN 0 ELSE h[k-1] + f[k]]
             w == [k \in 0 .. m |-> g[k]]
             sum == CHOOSE h : Is(h)
  <2>1. Is(w)
    <3>1. \A k \in 0 .. m : w[k] = IF k = 0 THEN 0 ELSE w[k-1] + f[k]
      <4> TAKE k \in 0 .. m
      <4>1. CASE k = 0
        BY <1>3, <4>1
      <4>2. CASE k # 0
        <5>1. k \in 1 .. n /\ k-1 \in 0 .. m
          BY <4>2
        <5> QED
          BY <1>3, <4>2, <5>1
      <4> QED
        BY <4>1, <4>2
    <3> QED
      BY <3>1
  <2>2. Is(sum)
    BY <2>1, Zenon
  <2> HIDE DEF sum, w
  <2>3. \A k \in 0 .. m : sum[k] = IF k = 0 THEN 0 ELSE sum[k-1] + f[k]
    BY <2>2
  <2> DEFINE Same == {k \in 0 .. m : sum[k] = g[k]}
  <2>4. 0 \in Same
    BY <1>3, <2>3
  <2>5. ASSUME NEW k \in 0 .. m-1, k \in Same PROVE k+1 \in Same
    <3>1. k+1 \in 0 .. m /\ k+1 \in 1 .. n /\ k+1 # 0 /\ (k+1)-1 = k
      OBVIOUS
    <3>2. sum[k+1] = sum[k] + f[k+1] /\ g[k+1] = g[k] + f[k+1]
      BY <1>3, <2>3, <3>1
    <3> QED
      BY <2>5, <3>1, <3>2
  <2> HIDE DEF Same
  <2>6. Inductive(Same, m) /\ m \in Nat
    BY <2>4, <2>5 DEF Inductive
  <2>7. m \in Same
    BY <2>6, Induct
  <2> QED
    BY <2>7 DEF Same, SumTo, sum
<1>5. 0 \in 0 .. n
  OBVIOUS
<1>6. \A m \in 1 .. n : m \in 0 .. n /\ m-1 \in 0 .. n
  OBVIOUS
<1> QED
  BY <1>3, <1>4, <1>5, <1>6

\* Sizes that are the same up to n have the same sum.
LEMMA SumEqual ==
  ASSUME NEW n \in Nat, NEW f, NEW h, \A k \in 1 .. n : f[k] \in Nat /\ h[k] = f[k]
  PROVE  SumTo(f, n) = SumTo(h, n)
<1>1. /\ SumTo(f, 0) = 0
      /\ \A m \in 1 .. n : SumTo(f, m) = SumTo(f, m-1) + f[m]
  BY SumFacts
<1>2. /\ SumTo(h, 0) = 0
      /\ \A m \in 1 .. n : SumTo(h, m) = SumTo(h, m-1) + h[m]
  <2>1. \A k \in 1 .. n : h[k] \in Nat
    OBVIOUS
  <2> QED
    BY <2>1, SumFacts
<1> DEFINE Same == {m \in 0 .. n : SumTo(f, m) = SumTo(h, m)}
<1>3. 0 \in Same
  BY <1>1, <1>2
<1>4. ASSUME NEW m \in 0 .. n-1, m \in Same PROVE m+1 \in Same
  <2>1. m+1 \in 0 .. n /\ m+1 \in 1 .. n /\ (m+1)-1 = m
    OBVIOUS
  <2> QED
    BY <1>1, <1>2, <1>4, <2>1
<1> HIDE DEF Same
<1>5. Inductive(Same, n)
  BY <1>3, <1>4 DEF Inductive
<1>6. n \in Same
  BY <1>5, Induct
<1> QED
  BY <1>6 DEF Same

\* Smaller sizes have the smaller sum, and a strictly smaller one if one of them is.
LEMMA SumLess ==
  ASSUME NEW n \in Nat, NEW f, NEW h,
         \A k \in 1 .. n : f[k] \in Nat /\ h[k] \in Nat /\ f[k] <= h[k]
  PROVE  /\ SumTo(f, n) <= SumTo(h, n)
         /\ (\E k \in 1 .. n : f[k] < h[k]) => SumTo(f, n) < SumTo(h, n)
<1>1. /\ SumTo(f, 0) = 0
      /\ \A m \in 0 .. n : SumTo(f, m) \in Nat
      /\ \A m \in 1 .. n : SumTo(f, m) = SumTo(f, m-1) + f[m]
  BY SumFacts
<1>2. /\ SumTo(h, 0) = 0
      /\ \A m \in 0 .. n : SumTo(h, m) \in Nat
      /\ \A m \in 1 .. n : SumTo(h, m) = SumTo(h, m-1) + h[m]
  BY SumFacts
<1> DEFINE Less == {m \in 0 .. n :
                      /\ SumTo(f, m) <= SumTo(h, m)
                      /\ (\E k \in 1 .. m : f[k] < h[k]) => SumTo(f, m) < SumTo(h, m)}
<1>3. 0 \in Less
  BY <1>1, <1>2
<1>4. ASSUME NEW m \in 0 .. n-1, m \in Less PROVE m+1 \in Less
  <2>1. m+1 \in 0 .. n /\ m+1 \in 1 .. n /\ (m+1)-1 = m /\ m \in 0 .. n
    OBVIOUS
  <2>2. /\ SumTo(f, m+1) = SumTo(f, m) + f[m+1] /\ SumTo(h, m+1) = SumTo(h, m) + h[m+1]
        /\ SumTo(f, m) \in Nat /\ SumTo(h, m) \in Nat
        /\ f[m+1] \in Nat /\ h[m+1] \in Nat /\ f[m+1] <= h[m+1]
    BY <1>1, <1>2, <2>1
  <2>3. SumTo(f, m+1) <= SumTo(h, m+1)
    BY <1>4, <2>2
  <2>4. ASSUME NEW k \in 1 .. m+1, f[k] < h[k] PROVE SumTo(f, m+1) < SumTo(h, m+1)
    <3>1. CASE k \in 1 .. m
      <4>1. SumTo(f, m) < SumTo(h, m)
        BY <1>4, <2>4, <3>1
      <4> QED
        BY <2>2, <4>1
    <3>2. CASE k = m+1
      <4>1. SumTo(f, m) <= SumTo(h, m)
        BY <1>4
      <4> QED
        BY <2>2, <2>4, <3>2, <4>1
    <3> QED
      BY <3>1, <3>2
  <2> QED
    BY <2>1, <2>3, <2>4
<1> HIDE DEF Less
<1>5. Inductive(Less, n)
  BY <1>3, <1>4 DEF Inductive
<1>6. n \in Less
  BY <1>5, Induct
<1> QED
  BY <1>6 DEF Less

\* Offsets grow: no two fields begin at the same byte.
LEMMA SumIncreasing ==
  ASSUME NEW n \in Nat, NEW f, \A k \in 1 .. n : f[k] \in Nat /\ f[k] >= 1,
         NEW i \in 0 .. n, NEW j \in 0 .. n, i < j
  PROVE  SumTo(f, i) < SumTo(f, j)
<1>1. /\ \A m \in 0 .. n : SumTo(f, m) \in Nat
      /\ \A m \in 1 .. n : SumTo(f, m) = SumTo(f, m-1) + f[m]
  BY SumFacts
<1> DEFINE Above == {m \in 0 .. n : i < m => SumTo(f, i) < SumTo(f, m)}
<1>2. 0 \in Above
  OBVIOUS
<1>3. ASSUME NEW m \in 0 .. n-1, m \in Above PROVE m+1 \in Above
  <2>1. m+1 \in 0 .. n /\ m+1 \in 1 .. n /\ (m+1)-1 = m /\ m \in 0 .. n
    OBVIOUS
  <2>2. /\ SumTo(f, m+1) = SumTo(f, m) + f[m+1] /\ f[m+1] \in Nat /\ f[m+1] >= 1
        /\ SumTo(f, m) \in Nat /\ SumTo(f, i) \in Nat
    BY <1>1, <2>1
  <2>3. CASE i < m
    BY <1>3, <2>1, <2>2, <2>3
  <2>4. CASE ~ (i < m)
    <3>1. i < m+1 => i = m
      BY <2>4
    <3> QED
      BY <2>1, <2>2, <3>1
  <2> QED
    BY <2>3, <2>4
<1> HIDE DEF Above
<1>4. Inductive(Above, n)
  BY <1>2, <1>3 DEF Inductive
<1>5. j \in Above
  BY <1>4, Induct
<1> QED
  BY <1>5 DEF Above

------------------------------------------------------------------------------
\* Sorting by tag.

Rank(fs, i) == Cardinality(UpTo(fs, i))

\* Tags are numbers.
LEMMA TagFacts ==
  /\ Tags \subseteq Nat
  /\ \A t \in Tags : t \in DataTags <=> t \notin ControlTags
BY TagAssumption DEF Tags

\* The fields of a list, by position.
LEMMA ListFacts ==
  ASSUME NEW fs \in Seq(Fields)
  PROVE  /\ Len(fs) \in Nat /\ DOMAIN fs = 1 .. Len(fs)
         /\ \A i \in DOMAIN fs : fs[i] \in Fields /\ fs[i].tag \in Tags /\ fs[i].tag \in Nat
                                 /\ fs[i].text \in Texts
<1>1. Len(fs) \in Nat /\ DOMAIN fs = 1 .. Len(fs) /\ \A i \in DOMAIN fs : fs[i] \in Fields
  OBVIOUS
<1> QED
  BY <1>1, TagFacts DEF Fields

\* There are n numbers from 1 to n.
LEMMA FirstNumbers ==
  ASSUME NEW n \in Nat
  PROVE  IsFiniteSet(1 .. n) /\ Cardinality(1 .. n) = n
BY FS_Interval

\* Of two fields the one that stands first among the sorted has the smaller rank.
LEMMA RankOrder ==
  ASSUME NEW fs \in Seq(Fields), NEW i \in DOMAIN fs, NEW j \in DOMAIN fs,
         fs[i].tag < fs[j].tag \/ (fs[i].tag = fs[j].tag /\ i < j)
  PROVE  Rank(fs, i) < Rank(fs, j) /\ Rank(fs, i) \in 1 .. Len(fs) /\ Rank(fs, j) \in 1 .. Len(fs)
<1>1. /\ Len(fs) \in Nat /\ DOMAIN fs = 1 .. Len(fs)
      /\ \A k \in DOMAIN fs : fs[k].tag \in Nat
  BY ListFacts
<1>2. IsFiniteSet(DOMAIN fs) /\ Cardinality(DOMAIN fs) = Len(fs)
  <2>0. Len(fs) \in Nat
    BY <1>1
  <2>1. IsFiniteSet(1 .. Len(fs)) /\ Cardinality(1 .. Len(fs)) = Len(fs)
    BY <2>0, FirstNumbers
  <2> QED
    BY <1>1, <2>1
<1>3. ASSUME NEW k \in DOMAIN fs
      PROVE  /\ IsFiniteSet(UpTo(fs, k)) /\ Rank(fs, k) \in Nat
             /\ Rank(fs, k) <= Len(fs) /\ k \in UpTo(fs, k) /\ Rank(fs, k) # 0
  <2>1. UpTo(fs, k) \subseteq DOMAIN fs
    BY DEF UpTo
  <2>2. k \in UpTo(fs, k)
    BY <1>1 DEF UpTo
  <2>3. IsFiniteSet(UpTo(fs, k)) /\ Rank(fs, k) <= Len(fs)
    BY <1>2, <2>1, FS_Subset DEF Rank
  <2> QED
    BY <2>2, <2>3, FS_CardinalityType, FS_EmptySet DEF Rank
<1>4. UpTo(fs, i) \subseteq UpTo(fs, j)
  BY <1>1 DEF UpTo
<1>5. j \in UpTo(fs, j) /\ j \notin UpTo(fs, i)
  BY <1>1 DEF UpTo
<1>6. Rank(fs, i) <= Rank(fs, j) /\ Rank(fs, i) # Rank(fs, j)
  <2>1. UpTo(fs, i) \in SUBSET UpTo(fs, j) /\ IsFiniteSet(UpTo(fs, j))
    BY <1>3, <1>4
  <2>2. /\ Cardinality(UpTo(fs, i)) <= Cardinality(UpTo(fs, j))
        /\ Cardinality(UpTo(fs, j)) = Cardinality(UpTo(fs, i)) => UpTo(fs, j) = UpTo(fs, i)
    BY <2>1, FS_Subset
  <2> QED
    BY <1>5, <2>2 DEF Rank
<1> QED
  BY <1>1, <1>3, <1>6

\* Ranks are positions.
LEMMA RankRange ==
  ASSUME NEW fs \in Seq(Fields), NEW i \in DOMAIN fs
  PROVE  Rank(fs, i) \in 1 .. Len(fs)
<1>1. /\ Len(fs) \in Nat /\ DOMAIN fs = 1 .. Len(fs) /\ fs[i].tag \in Nat
  BY ListFacts
<1>2. IsFiniteSet(DOMAIN fs) /\ Cardinality(DOMAIN fs) = Len(fs)
  <2>0. Len(fs) \in Nat
    BY <1>1
  <2>1. IsFiniteSet(1 .. Len(fs)) /\ Cardinality(1 .. Len(fs)) = Len(fs)
    BY <2>0, FirstNumbers
  <2> QED
    BY <1>1, <2>1
<1>3. UpTo(fs, i) \subseteq DOMAIN fs /\ i \in UpTo(fs, i)
  BY <1>1 DEF UpTo
<1>4. IsFiniteSet(UpTo(fs, i)) /\ Rank(fs, i) <= Len(fs)
  BY <1>2, <1>3, FS_Subset DEF Rank
<1>5. Rank(fs, i) \in Nat /\ Rank(fs, i) # 0
  BY <1>3, <1>4, FS_CardinalityType, FS_EmptySet DEF Rank
<1> QED
  BY <1>1, <1>4, <1>5

\* Ranks are the positions, each once.
LEMMA RankBijective ==
  ASSUME NEW fs \in Seq(Fields)
  PROVE  /\ \A p \in DOMAIN fs : \E i \in DOMAIN fs : Rank(fs, i) = p
         /\ \A i, j \in DOMAIN fs : Rank(fs, i) = Rank(fs, j) => i = j
<1> DEFINE D == DOMAIN fs
           rank == [i \in D |-> Rank(fs, i)]
<1>1. /\ Len(fs) \in Nat /\ D = 1 .. Len(fs)
      /\ \A i \in D : fs[i].tag \in Nat
  BY ListFacts
<1>2. ASSUME NEW i \in D, NEW j \in D, Rank(fs, i) = Rank(fs, j) PROVE i = j
  <2>1. Rank(fs, i) \in Nat
    BY RankRange
  <2>2. ~ (fs[i].tag < fs[j].tag \/ (fs[i].tag = fs[j].tag /\ i < j))
    <3>1. ~ (Rank(fs, i) < Rank(fs, j))
      BY <1>2, <2>1
    <3> QED
      BY <3>1, RankOrder
  <2>3. ~ (fs[j].tag < fs[i].tag \/ (fs[j].tag = fs[i].tag /\ j < i))
    <3>1. ~ (Rank(fs, j) < Rank(fs, i))
      BY <1>2, <2>1
    <3> QED
      BY <3>1, RankOrder
  <2> QED
    BY <1>1, <2>2, <2>3
<1>3. rank \in Injection(D, D)
  <2>1. \A i \in D : rank[i] \in D
    BY <1>1, RankRange
  <2>2. \A i, j \in D : rank[i] = rank[j] => i = j
    BY <1>2
  <2>3. rank \in [D -> D]
    BY <2>1
  <2> HIDE DEF rank, D
  <2> QED
    BY <2>2, <2>3 DEF Injection, IsInjective
<1>4. IsFiniteSet(D)
  BY <1>1, FS_Interval
<1>5. rank \in Surjection(D, D)
  BY <1>3, <1>4, FS_Injection
<1>6. \A p \in D : \E i \in D : rank[i] = p
  BY <1>5 DEF Surjection
<1> QED
  BY <1>2, <1>6

\* The sorted list has as many fields, in the order of their tags.
LEMMA SortedFacts ==
  ASSUME NEW fs \in Seq(Fields)
  PROVE  /\ SortedByTag(fs) \in Seq(Fields) /\ Len(SortedByTag(fs)) = Len(fs)
         /\ \A p, q \in 1 .. Len(fs) :
              p < q => SortedByTag(fs)[p].tag <= SortedByTag(fs)[q].tag
<1> DEFINE D == DOMAIN fs
           at(p) == CHOOSE i \in D : Rank(fs, i) = p
<1>1. /\ Len(fs) \in Nat /\ D = 1 .. Len(fs)
      /\ \A i \in D : fs[i].tag \in Nat /\ fs[i] \in Fields
  BY ListFacts
<1>2. \A p \in D : at(p) \in D /\ Rank(fs, at(p)) = p
  BY RankBijective
<1>3. SortedByTag(fs) = [p \in D |-> fs[at(p)]]
  BY DEF SortedByTag, Rank
<1> HIDE DEF at
<1>4. [p \in D |-> fs[at(p)]] \in [1 .. Len(fs) -> Fields]
  BY <1>1, <1>2
<1>5. SortedByTag(fs) \in Seq(Fields) /\ Len(SortedByTag(fs)) = Len(fs)
  BY <1>1, <1>3, <1>4
<1>6. ASSUME NEW p \in D, NEW q \in D, p < q PROVE fs[at(p)].tag <= fs[at(q)].tag
  <2>1. at(p) \in D /\ at(q) \in D /\ Rank(fs, at(p)) = p /\ Rank(fs, at(q)) = q
    BY <1>2
  <2>2. ~ (Rank(fs, at(q)) < Rank(fs, at(p)))
    BY <1>1, <1>6, <2>1
  <2>3. ~ (fs[at(q)].tag < fs[at(p)].tag)
    BY <2>1, <2>2, RankOrder
  <2> QED
    BY <1>1, <2>1, <2>3
<1> QED
  BY <1>1, <1>3, <1>5, <1>6

\* What is sorted stays as it is.
LEMMA SortedTwice ==
  ASSUME NEW gs \in Seq(Fields),
         \A p, q \in 1 .. Len(gs) : p < q => gs[p].tag <= gs[q].tag
  PROVE  SortedByTag(gs) = gs
<1> DEFINE D == DOMAIN gs
<1>1. /\ Len(gs) \in Nat /\ D = 1 .. Len(gs)
      /\ \A i \in D : gs[i].tag \in Nat /\ gs[i] \in Fields
  BY ListFacts
<1>2. ASSUME NEW p \in D PROVE Rank(gs, p) = p
  <2>1. UpTo(gs, p) = 1 .. p
    <3>1. \A j \in D : j <= p => gs[j].tag < gs[p].tag \/ (gs[j].tag = gs[p].tag /\ j <= p)
      <4> TAKE j \in D
      <4>1. j < p => gs[j].tag <= gs[p].tag
        BY <1>1
      <4> QED
        BY <1>1, <4>1
    <3>2. \A j \in D : ~ (j <= p) => ~ (gs[j].tag < gs[p].tag \/ (gs[j].tag = gs[p].tag /\ j <= p))
      <4> TAKE j \in D
      <4>1. p < j => gs[p].tag <= gs[j].tag
        BY <1>1
      <4> QED
        BY <1>1, <4>1
    <3>3. \A j \in 1 .. p : j \in D
      BY <1>1
    <3>4. \A j \in D : j <= p => j \in 1 .. p
      BY <1>1
    <3> QED
      BY <1>1, <3>1, <3>2, <3>3, <3>4 DEF UpTo
  <2>2. p \in Int /\ p >= 1
    BY <1>1
  <2> QED
    BY <2>1, <2>2, FS_Interval DEF Rank
<1>3. \A p \in D : (CHOOSE i \in D : Rank(gs, i) = p) = p
  <2> TAKE p \in D
  <2>1. (CHOOSE i \in D : Rank(gs, i) = p) \in D /\ Rank(gs, CHOOSE i \in D : Rank(gs, i) = p) = p
    BY <1>2
  <2> QED
    BY <1>2, <2>1
<1>4. SortedByTag(gs) = [p \in D |-> gs[p]]
  <2>1. SortedByTag(gs) = [p \in D |-> gs[CHOOSE i \in D : Rank(gs, i) = p]]
    BY DEF SortedByTag, Rank
  <2> QED
    BY <1>3, <2>1
<1> QED
  BY <1>1, <1>4

------------------------------------------------------------------------------
\* Sizes and layouts.

Entries == [tag : Tags, len : Nat, start : Nat]

Strings == [surplus : Nat, dir : Seq(Entries), body : Seq(Texts),
            fieldEnd : BOOLEAN, recEnd : BOOLEAN]

\* A text without the blanks at its end.
Unpadded(t) == [t EXCEPT !.pad = 0]

\* Every field takes a byte at least, and in UTF-8 at least as many as in GBK: as many
\* if it is all ASCII, more if not.
LEMMA SizeFacts ==
  ASSUME NEW t \in Texts
  PROVE  /\ \A cs \in Charsets : Size(cs, t) \in Nat /\ Size(cs, t) >= 1
         /\ Size("gbk", t) <= Size("utf8", t)
         /\ NonAscii(t) => Size("gbk", t) < Size("utf8", t)
         /\ ~ NonAscii(t) => Size("gbk", t) = Size("utf8", t)
<1>1. t.body \in Bodies /\ t.pad \in Nat
  BY BoundAssumption DEF Texts
<1>2. /\ Utf8[t.body] \in Nat /\ Gbk[t.body] \in Nat /\ Gbk[t.body] <= Utf8[t.body]
      /\ Size("utf8", t) = 1 + (Utf8[t.body] + t.pad)
      /\ Size("gbk", t) = 1 + (Gbk[t.body] + t.pad)
  BY <1>1, WidthAssumption DEF Size, Width
<1> QED
  BY <1>1, <1>2 DEF Charsets, NonAscii

\* Blanks count one byte each in either charset, and do not change what a text is made of.
LEMMA UnpaddedFacts ==
  ASSUME NEW t \in Texts
  PROVE  /\ Unpadded(t) \in Texts /\ Unpadded(t).pad = 0 /\ Unpadded(t).body = t.body
         /\ NonAscii(Unpadded(t)) <=> NonAscii(t)
         /\ \A cs \in Charsets : Size(cs, t) = Size(cs, Unpadded(t)) + t.pad
         /\ t.pad \in Nat /\ (t.pad = 0 => Unpadded(t) = t)
<1>1. t.body \in Bodies /\ t.pad \in Nat /\ 0 \in 0 .. MaxPad
  BY BoundAssumption DEF Texts
<1>2. /\ Unpadded(t) \in Texts /\ Unpadded(t).pad = 0 /\ Unpadded(t).body = t.body
      /\ (t.pad = 0 => Unpadded(t) = t)
  BY <1>1 DEF Texts, Unpadded
<1>3. Utf8[t.body] \in Nat /\ Gbk[t.body] \in Nat
  BY <1>1, WidthAssumption
<1>4. ASSUME NEW cs \in Charsets PROVE Size(cs, t) = Size(cs, Unpadded(t)) + t.pad
  <2>1. CASE cs = "utf8"
    BY <1>1, <1>2, <1>3, <2>1 DEF Size, Width
  <2>2. CASE cs = "gbk"
    BY <1>1, <1>2, <1>3, <2>2 DEF Size, Width
  <2> QED
    BY <2>1, <2>2 DEF Charsets
<1> QED
  BY <1>1, <1>2, <1>4 DEF NonAscii

\* Decoding leaves a text a text, and what is ASCII or read as UTF-8 as it is.
LEMMA DecodedFacts ==
  ASSUME NEW t \in Texts, NEW cs \in Charsets
  PROVE  /\ Decoded(cs, t) \in Texts /\ Decoded(cs, t) # Garbled
         /\ ~ NonAscii(t) => Decoded(cs, t) = t
         /\ Decoded(cs, Unpadded(t)) = Unpadded(Decoded(cs, t))
<1>1. t.body \in Bodies /\ t.pad \in Nat /\ t.pad \in 0 .. MaxPad
  BY BoundAssumption DEF Texts
<1>2. Decoded(cs, t) \in Texts /\ Decoded(cs, t).pad = t.pad
  BY <1>1, WidthAssumption DEF Decoded, Texts
<1>3. Decoded(cs, t) # Garbled
  <2>1. Garbled.pad = -1
    BY DEF Garbled
  <2> QED
    BY <1>1, <1>2, <2>1
<1>4. ~ NonAscii(t) => Decoded(cs, t) = t
  <2> SUFFICES ASSUME t.body \in Lossy PROVE NonAscii(t)
    BY DEF Decoded
  <2>1. Gbk[t.body] < Utf8[t.body] /\ Gbk[t.body] \in Nat /\ Utf8[t.body] \in Nat
    BY <1>1, LossyAssumption, WidthAssumption
  <2> QED
    BY <2>1 DEF NonAscii
<1>5. Decoded(cs, Unpadded(t)) = Unpadded(Decoded(cs, t))
  <2>1. t = [body |-> t.body, pad |-> t.pad]
    BY DEF Texts
  <2>2. Unpadded(t) = [body |-> t.body, pad |-> 0]
    BY <2>1 DEF Unpadded
  <2>3. CASE cs = "gbk" /\ t.body \in Lossy
    <3>1. Decoded(cs, t) = [body |-> Replaced, pad |-> t.pad]
      BY <2>1, <2>3 DEF Decoded
    <3>2. Decoded(cs, Unpadded(t)) = [body |-> Replaced, pad |-> 0]
      BY <2>2, <2>3 DEF Decoded
    <3> QED
      BY <3>1, <3>2 DEF Unpadded
  <2>4. CASE ~ (cs = "gbk" /\ t.body \in Lossy)
    <3>1. Decoded(cs, t) = t
      BY <2>4 DEF Decoded
    <3>2. Decoded(cs, Unpadded(t)) = Unpadded(t)
      BY <2>2, <2>4 DEF Decoded
    <3> QED
      BY <3>1, <3>2
  <2> QED
    BY <2>3, <2>4
<1> QED
  BY <1>2, <1>3, <1>4, <1>5

\* The sizes of fields when csOf says in which charset each is measured.
Sizes(fs, csOf) == [i \in DOMAIN fs |-> Size(csOf[fs[i].tag], fs[i].text)]

\* Digits that are too many are counted by a number.
LEMMA BeyondFacts ==
  ASSUME NEW n, NEW max
  PROVE  Beyond(n, max) \in Nat
<1> DEFINE D == {d \in 0 .. 5 : n >= (max + 1) * 10^d}
<1>1. IsFiniteSet(0 .. 5)
  <2>1. 0 \in Int /\ 5 \in Int
    OBVIOUS
  <2> QED
    BY <2>1, FS_Interval
<1>2. D \subseteq 0 .. 5
  OBVIOUS
<1> HIDE DEF D
<1>3. Cardinality(D) \in Nat
  BY <1>1, <1>2, FS_Subset, FS_CardinalityType
<1>4. Beyond(n, max) = IF n <= max THEN 0 ELSE Cardinality(D)
  BY DEF Beyond, D
<1> QED
  BY <1>3, <1>4

\* What a writer produces.
LEMMA LayoutFacts ==
  ASSUME NEW fs \in Seq(Fields), NEW csOf \in [Tags -> Charsets]
  PROVE  /\ Layout(fs, csOf) \in Strings
         /\ Len(Layout(fs, csOf).dir) = Len(fs) /\ DOMAIN Layout(fs, csOf).dir = 1 .. Len(fs)
         /\ Len(Layout(fs, csOf).body) = Len(fs) /\ DOMAIN Layout(fs, csOf).body = 1 .. Len(fs)
         /\ \A i \in 1 .. Len(fs) :
              /\ Layout(fs, csOf).body[i] = fs[i].text
              /\ Layout(fs, csOf).dir[i] = [tag   |-> fs[i].tag,
                                            len   |-> Sizes(fs, csOf)[i],
                                            start |-> SumTo(Sizes(fs, csOf), i-1)]
              /\ Sizes(fs, csOf)[i] = Size(csOf[fs[i].tag], fs[i].text)
              /\ Sizes(fs, csOf)[i] \in Nat /\ Sizes(fs, csOf)[i] >= 1
<1> DEFINE n == Len(fs)
           sz == Sizes(fs, csOf)
           dir == [i \in 1 .. n |-> [tag |-> fs[i].tag, len |-> sz[i], start |-> SumTo(sz, i-1)]]
           body == [i \in 1 .. n |-> fs[i].text]
<1>1. /\ n \in Nat /\ DOMAIN fs = 1 .. n
      /\ \A i \in 1 .. n : fs[i].tag \in Tags /\ fs[i].text \in Texts
  BY ListFacts
<1>2. \A i \in 1 .. n : /\ sz[i] = Size(csOf[fs[i].tag], fs[i].text)
                        /\ sz[i] \in Nat /\ sz[i] >= 1
  <2> TAKE i \in 1 .. n
  <2>1. sz[i] = Size(csOf[fs[i].tag], fs[i].text)
    BY <1>1 DEF Sizes
  <2>2. csOf[fs[i].tag] \in Charsets
    BY <1>1
  <2> QED
    BY <1>1, <2>1, <2>2, SizeFacts
<1> DEFINE over == Beyond(Total(fs, dir), MaxTotal)
<1>3. Layout(fs, csOf) = [surplus |-> over, dir |-> dir, body |-> body,
                          fieldEnd |-> FALSE, recEnd |-> TRUE]
  BY <1>1 DEF Layout, Sizes
<1> HIDE DEF over
<1>8. over \in Nat
  BY BeyondFacts DEF over
<1> HIDE DEF sz
<1>4. \A i \in 1 .. n : SumTo(sz, i-1) \in Nat
  <2>1. \A m \in 0 .. n : SumTo(sz, m) \in Nat
    BY <1>1, <1>2, SumFacts
  <2>2. \A i \in 1 .. n : i-1 \in 0 .. n
    BY <1>1
  <2> QED
    BY <2>1, <2>2
<1>5. dir \in Seq(Entries) /\ Len(dir) = n /\ DOMAIN dir = 1 .. n
  <2>1. dir \in [1 .. n -> Entries]
    BY <1>1, <1>2, <1>4 DEF Entries
  <2> QED
    BY <1>1, <2>1
<1>6. body \in Seq(Texts) /\ Len(body) = n /\ DOMAIN body = 1 .. n
  BY <1>1
<1>7. \A i \in 1 .. n : /\ body[i] = fs[i].text
                        /\ dir[i] = [tag |-> fs[i].tag, len |-> sz[i], start |-> SumTo(sz, i-1)]
  OBVIOUS
<1> HIDE DEF dir, body, n
<1> QED
  BY <1>2, <1>3, <1>5, <1>6, <1>7, <1>8 DEF Strings, sz, n

------------------------------------------------------------------------------
\* Records as they are written.

InOrder(fs) == \A p, q \in 1 .. Len(fs) : p < q => fs[p].tag <= fs[q].tag

Writtens == [charSet : Charsets, fields : {fs \in Seq(Fields) : fs # << >> /\ InOrder(fs)}]

\* The charset in which the fields with a tag are measured: toMarcString and
\* Record.toString do not use the record's for control fields (that of toMarcString
\* is UTF-8), other programs, who end the last field, do.
Labels(r, end) == [tag \in Tags |-> IF tag \in DataTags \/ end THEN r.charSet ELSE "utf8"]

\* m is what one of the writers makes of r.
WrittenBy(m, r) ==
  LET l == Layout(r.fields, Labels(r, m.fieldEnd))
  IN  m = IF m.fieldEnd THEN [l EXCEPT !.fieldEnd = TRUE, !.surplus = 0] ELSE l

\* What the reader gets of the string m: the end of the file is trimmed.
IsPiece(p, m, last) ==
  /\ p \in Strings /\ p.surplus = m.surplus /\ p.dir = m.dir /\ Len(p.body) = Len(m.body)
  /\ p.fieldEnd = (m.fieldEnd /\ ~ last)
  /\ \A j \in 1 .. Len(m.body) :
       p.body[j] = IF last /\ j = Len(m.body) THEN Unpadded(m.body[j]) ELSE m.body[j]

\* Sound, of a record of which only its place in the file is known.
SoundAs(m, r, last) ==
  /\ ExtraDigits(m) = 0
  /\ r.charSet = "gbk" /\ ~ m.fieldEnd =>
       \A j \in DOMAIN r.fields : r.fields[j].tag \in ControlTags => ~ NonAscii(r.fields[j].text)
  /\ r.charSet = "utf8" /\ m.fieldEnd /\ HasNonAscii(r) => last
  /\ last /\ HasNonAscii(r) => r.fields[Len(r.fields)].text.pad = 0
  /\ last /\ r.fields[Len(r.fields)].text.pad > 0 => r.fields[Len(r.fields)].tag \in DataTags

\* The fields of a written record and their places in the string.
LEMMA WrittenFacts ==
  ASSUME NEW r \in Writtens, NEW m \in Strings, WrittenBy(m, r)
  PROVE  /\ r.fields \in Seq(Fields) /\ r.charSet \in Charsets
         /\ Len(r.fields) \in Nat /\ Len(r.fields) >= 1 /\ DOMAIN r.fields = 1 .. Len(r.fields)
         /\ Len(m.dir) = Len(r.fields) /\ DOMAIN m.dir = 1 .. Len(r.fields)
         /\ Len(m.body) = Len(r.fields) /\ DOMAIN m.body = 1 .. Len(r.fields)
         /\ \A j \in 1 .. Len(r.fields) :
              LET sz == Sizes(r.fields, Labels(r, m.fieldEnd))
              IN  /\ r.fields[j].tag \in Tags /\ r.fields[j].text \in Texts
                  /\ m.body[j] = r.fields[j].text
                  /\ m.dir[j] = [tag |-> r.fields[j].tag, len |-> sz[j], start |-> SumTo(sz, j-1)]
                  /\ sz[j] = Size(Labels(r, m.fieldEnd)[r.fields[j].tag], r.fields[j].text)
<1> DEFINE cs == Labels(r, m.fieldEnd)
           l == Layout(r.fields, cs)
<1>1. r.fields \in Seq(Fields) /\ r.fields # << >> /\ r.charSet \in Charsets
  BY DEF Writtens
<1>2. cs \in [Tags -> Charsets]
  BY <1>1 DEF Labels, Charsets
<1>3. /\ Len(r.fields) \in Nat /\ DOMAIN r.fields = 1 .. Len(r.fields)
      /\ \A j \in DOMAIN r.fields : r.fields[j].tag \in Tags /\ r.fields[j].text \in Texts
  BY <1>1, ListFacts
<1>4. Len(r.fields) >= 1
  BY <1>1, EmptySeq
<1> HIDE DEF cs
<1>5. /\ l \in Strings
      /\ Len(l.dir) = Len(r.fields) /\ DOMAIN l.dir = 1 .. Len(r.fields)
      /\ Len(l.body) = Len(r.fields) /\ DOMAIN l.body = 1 .. Len(r.fields)
      /\ \A i \in 1 .. Len(r.fields) :
           /\ l.body[i] = r.fields[i].text
           /\ l.dir[i] = [tag   |-> r.fields[i].tag,
                          len   |-> Sizes(r.fields, cs)[i],
                          start |-> SumTo(Sizes(r.fields, cs), i-1)]
           /\ Sizes(r.fields, cs)[i] = Size(cs[r.fields[i].tag], r.fields[i].text)
  BY <1>1, <1>2, LayoutFacts
<1> HIDE DEF l
<1>6. m.dir = l.dir /\ m.body = l.body
  BY <1>5 DEF WrittenBy, l, cs, Strings
<1> QED
  BY <1>1, <1>3, <1>4, <1>5, <1>6 DEF cs

\* The sizes of a sound record are those of its charset: the control fields that
\* Record.toString measures in UTF-8 are as wide in it.
LEMMA SizesAsLabelled ==
  ASSUME NEW r \in Writtens, NEW m \in Strings, WrittenBy(m, r), NEW last, SoundAs(m, r, last),
         NEW j \in 1 .. Len(r.fields)
  PROVE  Sizes(r.fields, Labels(r, m.fieldEnd))[j] = Size(r.charSet, r.fields[j].text)
<1> DEFINE tag == r.fields[j].tag
           t == r.fields[j].text
<1>1. /\ DOMAIN r.fields = 1 .. Len(r.fields) /\ r.charSet \in Charsets
      /\ tag \in Tags /\ t \in Texts
      /\ Sizes(r.fields, Labels(r, m.fieldEnd))[j] = Size(Labels(r, m.fieldEnd)[tag], t)
  BY WrittenFacts
<1>2. CASE tag \in DataTags \/ m.fieldEnd \/ r.charSet = "utf8"
  <2>1. Labels(r, m.fieldEnd)[tag] = r.charSet
    BY <1>1, <1>2 DEF Labels
  <2> QED
    BY <1>1, <2>1
<1>3. CASE tag \notin DataTags /\ ~ m.fieldEnd /\ r.charSet = "gbk"
  <2>1. Labels(r, m.fieldEnd)[tag] = "utf8"
    BY <1>1, <1>3 DEF Labels
  <2>2. ~ NonAscii(t)
    <3>1. tag \in ControlTags
      BY <1>1, <1>3, TagFacts
    <3> QED
      BY <1>1, <1>3, <3>1 DEF SoundAs
  <2>3. Size("gbk", t) = Size("utf8", t)
    BY <1>1, <2>2, SizeFacts
  <2> QED
    BY <1>1, <1>3, <2>1, <2>3
<1> QED
  BY <1>1, <1>2, <1>3 DEF Charsets

\* What is read is in the order and of the sizes of what was written.
LEMMA PieceFacts ==
  ASSUME NEW r \in Writtens, NEW m \in Strings, WrittenBy(m, r), NEW last \in BOOLEAN,
         NEW p, IsPiece(p, m, last)
  PROVE  /\ p.dir = m.dir /\ Len(p.body) = Len(r.fields) /\ DOMAIN p.body = 1 .. Len(r.fields)
         /\ p.fieldEnd = (m.fieldEnd /\ ~ last)
         /\ \A j \in 1 .. Len(r.fields) :
              /\ p.body[j] \in Texts
              /\ p.body[j] = IF last /\ j = Len(r.fields) THEN Unpadded(r.fields[j].text)
                             ELSE r.fields[j].text
<1>1. /\ Len(m.body) = Len(r.fields) /\ Len(r.fields) \in Nat
      /\ \A j \in 1 .. Len(r.fields) : m.body[j] = r.fields[j].text
  BY WrittenFacts
<1>2. p.body \in Seq(Texts) /\ Len(p.body) = Len(r.fields)
  BY <1>1 DEF IsPiece, Strings
<1>3. DOMAIN p.body = 1 .. Len(r.fields) /\ \A j \in 1 .. Len(r.fields) : p.body[j] \in Texts
  BY <1>2
<1> QED
  BY <1>1, <1>2, <1>3 DEF IsPiece

------------------------------------------------------------------------------
\* Reading a sound record.

\* The charset is guessed right, or does not matter because all is ASCII: in UTF-8 the
\* last entry of the directory ends where the string does, in GBK it ends before.
LEMMA DetectedRight ==
  ASSUME NEW r \in Writtens, NEW m \in Strings, WrittenBy(m, r), NEW last \in BOOLEAN,
         SoundAs(m, r, last), NEW p, IsPiece(p, m, last)
  PROVE  \/ Detected(p) = r.charSet
         \/ \A j \in 1 .. Len(r.fields) : ~ NonAscii(r.fields[j].text)
<1> DEFINE n == Len(r.fields)
           sz == Sizes(r.fields, Labels(r, m.fieldEnd))
           u == [j \in DOMAIN p.body |-> Size("utf8", p.body[j])]
           mark == IF p.fieldEnd THEN 1 ELSE 0
<1> SUFFICES ASSUME NEW k \in 1 .. n, NonAscii(r.fields[k].text)
             PROVE  Detected(p) = r.charSet
  OBVIOUS
<1>1. /\ n \in Nat /\ n >= 1 /\ n \in 1 .. n /\ DOMAIN r.fields = 1 .. n
      /\ r.charSet \in Charsets
      /\ \A j \in 1 .. n : r.fields[j].text \in Texts
      /\ m.dir[n] = [tag |-> r.fields[n].tag, len |-> sz[n], start |-> SumTo(sz, n-1)]
  <2>1. n \in Nat /\ n >= 1
    BY WrittenFacts
  <2>2. n \in 1 .. n
    BY <2>1
  <2> QED
    BY <2>1, <2>2, WrittenFacts
<1>2. \A j \in 1 .. n : sz[j] = Size(r.charSet, r.fields[j].text)
  BY SizesAsLabelled
<1>3. HasNonAscii(r)
  BY <1>1 DEF HasNonAscii
<1>4. last => r.fields[n].text.pad = 0
  BY <1>3 DEF SoundAs
<1>5. DOMAIN p.body = 1 .. n /\ Len(p.body) = n /\ p.dir = m.dir
      /\ p.fieldEnd = (m.fieldEnd /\ ~ last)
      /\ \A j \in 1 .. n : p.body[j] = r.fields[j].text
  <2>1. /\ DOMAIN p.body = 1 .. n /\ Len(p.body) = n /\ p.dir = m.dir
        /\ p.fieldEnd = (m.fieldEnd /\ ~ last)
        /\ \A j \in 1 .. n : p.body[j] = IF last /\ j = n THEN Unpadded(r.fields[j].text)
                                         ELSE r.fields[j].text
    BY PieceFacts
  <2>2. last => Unpadded(r.fields[n].text) = r.fields[n].text
    BY <1>1, <1>4, UnpaddedFacts
  <2> QED
    BY <2>1, <2>2
<1>6. \A j \in 1 .. n : u[j] = Size("utf8", r.fields[j].text)
  BY <1>5
<1>7. \A j \in 1 .. n : u[j] \in Nat /\ sz[j] \in Nat /\ sz[j] <= u[j]
  <2> TAKE j \in 1 .. n
  <2>1. r.fields[j].text \in Texts
    BY <1>1
  <2>2. /\ Size("utf8", r.fields[j].text) \in Nat /\ Size("gbk", r.fields[j].text) \in Nat
        /\ Size("gbk", r.fields[j].text) <= Size("utf8", r.fields[j].text)
    BY <2>1, SizeFacts DEF Charsets
  <2>3. u[j] = Size("utf8", r.fields[j].text) /\ sz[j] = Size(r.charSet, r.fields[j].text)
    BY <1>2, <1>6
  <2> HIDE DEF u, sz
  <2> QED
    BY <1>1, <2>2, <2>3 DEF Charsets
<1>8. Detected(p) = IF sz[n] + SumTo(sz, n-1) = SumTo(u, n) + mark THEN "utf8" ELSE "gbk"
  <2>1. Offset("utf8", p.body, n+1) = SumTo(u, (n+1)-1) /\ (n+1)-1 = n
    BY <1>1 DEF Offset
  <2>2. p.dir[n].len = sz[n] /\ p.dir[n].start = SumTo(sz, n-1)
    BY <1>1, <1>5
  <2> QED
    BY <1>5, <2>1, <2>2 DEF Detected
<1> HIDE DEF sz, u, n
<1>9. /\ SumTo(sz, n) = sz[n] + SumTo(sz, n-1)
      /\ SumTo(sz, n) \in Nat /\ SumTo(u, n) \in Nat
  <2>1. /\ \A i \in 0 .. n : SumTo(sz, i) \in Nat
        /\ \A i \in 1 .. n : SumTo(sz, i) = SumTo(sz, i-1) + sz[i]
    BY <1>1, <1>7, SumFacts
  <2>2. \A i \in 0 .. n : SumTo(u, i) \in Nat
    BY <1>1, <1>7, SumFacts
  <2>3. n \in 1 .. n /\ n \in 0 .. n /\ n-1 \in 0 .. n
    BY <1>1
  <2>4. SumTo(sz, n) = SumTo(sz, n-1) + sz[n] /\ SumTo(sz, n-1) \in Nat /\ sz[n] \in Nat
    BY <1>7, <2>1, <2>3
  <2> QED
    BY <2>1, <2>2, <2>3, <2>4
<1>10. CASE r.charSet = "utf8"
  <2>1. ~ p.fieldEnd
    BY <1>3, <1>5, <1>10 DEF SoundAs
  <2>2. SumTo(sz, n) = SumTo(u, n)
    <3>1. \A j \in 1 .. n : sz[j] \in Nat /\ u[j] = sz[j]
      BY <1>2, <1>6, <1>7, <1>10
    <3> QED
      BY <1>1, <3>1, SumEqual
  <2> QED
    BY <1>8, <1>9, <1>10, <2>1, <2>2
<1>11. CASE r.charSet = "gbk"
  <2>1. sz[k] < u[k]
    <3>1. k \in 1 .. n
      BY DEF n
    <3>2. r.fields[k].text \in Texts
      BY <1>1, <3>1
    <3> QED
      BY <1>2, <1>6, <1>11, <3>1, <3>2, SizeFacts
  <2>2. SumTo(sz, n) < SumTo(u, n)
    <3>1. \E j \in 1 .. n : sz[j] < u[j]
      BY <2>1 DEF n
    <3> QED
      BY <1>1, <1>7, <3>1, SumLess
  <2>3. sz[n] + SumTo(sz, n-1) # SumTo(u, n) + mark
    BY <1>9, <2>2
  <2> QED
    BY <1>8, <1>11, <2>3
<1> QED
  BY <1>1, <1>10, <1>11 DEF Charsets

\* Either way the fields are as wide to the reader as the directory says, and decode to
\* the same.
LEMMA ReaderAgrees ==
  ASSUME NEW r \in Writtens, NEW m \in Strings, WrittenBy(m, r), NEW last \in BOOLEAN,
         SoundAs(m, r, last), NEW p, IsPiece(p, m, last), NEW j \in 1 .. Len(r.fields)
  PROVE  /\ Detected(p) \in Charsets
         /\ Sizes(r.fields, Labels(r, m.fieldEnd))[j] = Size(Detected(p), r.fields[j].text)
         /\ Decoded(Detected(p), r.fields[j].text) = Decoded(r.charSet, r.fields[j].text)
<1> DEFINE t == r.fields[j].text
<1>1. t \in Texts /\ r.charSet \in Charsets
  BY WrittenFacts
<1>2. Detected(p) \in Charsets
  BY DEF Detected, Charsets
<1>3. Sizes(r.fields, Labels(r, m.fieldEnd))[j] = Size(r.charSet, t)
  BY SizesAsLabelled
<1>4. CASE Detected(p) = r.charSet
  BY <1>2, <1>3, <1>4
<1>5. CASE ~ NonAscii(t)
  <2>1. Size("gbk", t) = Size("utf8", t)
    BY <1>1, <1>5, SizeFacts
  <2>2. Decoded(Detected(p), t) = t /\ Decoded(r.charSet, t) = t
    BY <1>1, <1>2, <1>5, DecodedFacts
  <2> QED
    BY <1>1, <1>2, <1>3, <2>1, <2>2 DEF Charsets
<1> QED
  BY <1>4, <1>5, DetectedRight

\* A slice of the reader is the field that the entry of the directory is about.  The
\* last one at the end of the file is cut past its end, where its blanks were.
LEMMA SliceRight ==
  ASSUME NEW r \in Writtens, NEW m \in Strings, WrittenBy(m, r), NEW last \in BOOLEAN,
         SoundAs(m, r, last), NEW p, IsPiece(p, m, last), NEW j \in 1 .. Len(r.fields)
  PROVE  Slice(p, Detected(p), p.dir[j]) = Decoded(Detected(p), p.body[j])
<1> DEFINE n == Len(r.fields)
           D == Detected(p)
           sz == Sizes(r.fields, Labels(r, m.fieldEnd))
           v == [i \in DOMAIN p.body |-> Size(D, p.body[i])]
           d == p.dir[j]
           whole == {i \in DOMAIN p.body : d.start = Offset(D, p.body, i)
                                           /\ d.len = Size(D, p.body[i])}
<1>1. /\ n \in Nat /\ n >= 1 /\ DOMAIN r.fields = 1 .. n
      /\ \A i \in 1 .. n : r.fields[i].text \in Texts
      /\ m.dir[j] = [tag |-> r.fields[j].tag, len |-> sz[j], start |-> SumTo(sz, j-1)]
  BY WrittenFacts
<1>2. /\ DOMAIN p.body = 1 .. n /\ Len(p.body) = n /\ p.dir = m.dir
      /\ p.fieldEnd = (m.fieldEnd /\ ~ last)
      /\ \A i \in 1 .. n : /\ p.body[i] \in Texts
                           /\ p.body[i] = IF last /\ i = n THEN Unpadded(r.fields[i].text)
                                          ELSE r.fields[i].text
  BY PieceFacts
<1>3. D \in Charsets /\ \A i \in 1 .. n : sz[i] = Size(D, r.fields[i].text)
  <2>1. 1 \in 1 .. n
    BY <1>1
  <2> QED
    BY <2>1, ReaderAgrees
<1>4. d.tag = r.fields[j].tag /\ d.len = sz[j] /\ d.start = SumTo(sz, j-1)
  BY <1>1, <1>2
<1> HIDE DEF D, sz, n
<1>5. \A i \in 1 .. n : /\ v[i] = Size(D, p.body[i]) /\ v[i] \in Nat /\ v[i] >= 1
                        /\ sz[i] \in Nat /\ sz[i] >= 1
  BY <1>1, <1>2, <1>3, SizeFacts
<1>6. \A i \in 1 .. n : i # n \/ ~ last => p.body[i] = r.fields[i].text /\ v[i] = sz[i]
  BY <1>2, <1>3, <1>5
<1>7. last => /\ sz[n] = v[n] + r.fields[n].text.pad /\ r.fields[n].text.pad \in Nat
              /\ p.body[n] = Unpadded(r.fields[n].text)
  <2>1. n \in 1 .. n
    BY <1>1
  <2>2. last => p.body[n] = Unpadded(r.fields[n].text)
    BY <1>2, <2>1
  <2> QED
    BY <1>1, <1>3, <1>5, <2>1, <2>2, UnpaddedFacts
<1> HIDE DEF v
<1>8. \A i \in 1 .. n : Offset(D, p.body, i) = SumTo(sz, i-1)
  <2> TAKE i \in 1 .. n
  <2>1. Offset(D, p.body, i) = SumTo(v, i-1)
    BY DEF Offset, v
  <2>2. i-1 \in Nat /\ \A k \in 1 .. i-1 : k \in 1 .. n /\ k # n
    BY <1>1
  <2>3. \A k \in 1 .. i-1 : v[k] \in Nat /\ sz[k] = v[k]
    BY <1>5, <1>6, <2>2
  <2>4. SumTo(v, i-1) = SumTo(sz, i-1)
    BY <2>2, <2>3, SumEqual
  <2> QED
    BY <2>1, <2>4
<1>9. \A i \in 1 .. n : SumTo(sz, j-1) = SumTo(sz, i-1) => i = j
  <2> TAKE i \in 1 .. n
  <2>1. j \in 1 .. n
    BY DEF n
  <2>2. i-1 \in 0 .. n /\ j-1 \in 0 .. n
    BY <1>1, <2>1
  <2>3. SumTo(sz, i-1) \in Nat /\ SumTo(sz, j-1) \in Nat
    BY <1>1, <1>5, <2>2, SumFacts
  <2>4. i-1 < j-1 => SumTo(sz, i-1) < SumTo(sz, j-1)
    BY <1>1, <1>5, <2>2, SumIncreasing
  <2>5. j-1 < i-1 => SumTo(sz, j-1) < SumTo(sz, i-1)
    BY <1>1, <1>5, <2>2, SumIncreasing
  <2>6. i < j \/ j < i \/ i = j
    BY <1>1, <2>1
  <2>7. i-1 < j-1 \/ j-1 < i-1 \/ i = j
    BY <1>1, <2>1, <2>6
  <2> QED
    BY <2>3, <2>4, <2>5, <2>7
<1>10. j \in 1 .. n
  BY DEF n
<1>11. whole = {i \in 1 .. n : SumTo(sz, j-1) = SumTo(sz, i-1) /\ sz[j] = v[i]}
  <2>1. \A i \in 1 .. n : Size(D, p.body[i]) = v[i]
    BY <1>5
  <2> HIDE DEF d
  <2> QED
    BY <1>2, <1>4, <1>8, <2>1
<1>12. whole = {i \in {j} : sz[j] = v[j]}
  BY <1>9, <1>10, <1>11
<1> DEFINE pastEnd == /\ d.start = Offset(D, p.body, n) /\ d.len > Size(D, p.body[n])
                      /\ ~ p.fieldEnd /\ d.tag \in DataTags
<1>13. Slice(p, D, d) = IF whole # {} THEN Decoded(D, p.body[CHOOSE i \in whole : TRUE])
                        ELSE IF pastEnd THEN Decoded(D, p.body[n]) ELSE Garbled
  BY <1>2 DEF Slice
<1> HIDE DEF whole
<1>14. CASE sz[j] = v[j]
  <2>1. whole = {j}
    BY <1>12, <1>14
  <2>2. (CHOOSE i \in whole : TRUE) = j
    BY <2>1
  <2>3. whole # {}
    BY <2>1
  <2> QED
    BY <1>13, <2>2, <2>3 DEF D
<1>15. CASE sz[j] # v[j]
  <2>1. whole = {}
    BY <1>12, <1>15
  <2>2. j = n /\ last
    BY <1>6, <1>10, <1>15
  <2>3. r.fields[n].text.pad > 0 /\ sz[n] > v[n]
    BY <1>5, <1>7, <1>10, <1>15, <2>2
  <2>4. r.fields[n].tag \in DataTags
    BY <2>2, <2>3 DEF SoundAs, n
  <2>5. pastEnd
    <3>1. d.start = Offset(D, p.body, n)
      BY <1>4, <1>8, <1>10, <2>2
    <3>2. d.len > Size(D, p.body[n])
      BY <1>4, <1>5, <1>10, <2>2, <2>3
    <3> QED
      BY <1>2, <1>4, <2>2, <2>4, <3>1, <3>2
  <2> HIDE DEF pastEnd
  <2> QED
    BY <1>13, <2>1, <2>2, <2>5 DEF D
<1> QED
  BY <1>14, <1>15

\* What the fields of a sound record are read as, wherever it stands in the file.
ExpectedAs(r, last) ==
  LET n == Len(r.fields)
      decoded == [j \in 1 .. n |-> [r.fields[j] EXCEPT !.text = Decoded(r.charSet, @)]]
  IN  IF last THEN [decoded EXCEPT ![n].text.pad = 0] ELSE decoded

\* Reading a sound record cannot throw, and gives the fields that are expected.
LEMMA ReadingsRight ==
  ASSUME NEW r \in Writtens, NEW m \in Strings, WrittenBy(m, r), NEW last \in BOOLEAN,
         SoundAs(m, r, last), NEW p, IsPiece(p, m, last)
  PROVE  /\ Thrown \notin Readings(p)
         /\ \A got \in Readings(p) : /\ got.charSet = Detected(p)
                                     /\ got.fields = ExpectedAs(r, last)
<1> DEFINE n == Len(r.fields)
           D == Detected(p)
           gf == [i \in DOMAIN p.dir |->
                    [tag |-> p.dir[i].tag, text |-> Slice(p, D, p.dir[i])]]
           g == [charSet |-> D, fields |-> gf]
           cut == {i \in DOMAIN p.dir : g.fields[i].text = Garbled}
<1>1. /\ n \in Nat /\ n >= 1 /\ DOMAIN r.fields = 1 .. n /\ DOMAIN m.dir = 1 .. n
      /\ r.charSet \in Charsets
      /\ \A i \in 1 .. n : r.fields[i].text \in Texts /\ r.fields[i].tag \in Tags
                           /\ m.dir[i].tag = r.fields[i].tag
  <2>1. /\ n \in Nat /\ n >= 1 /\ DOMAIN r.fields = 1 .. n /\ DOMAIN m.dir = 1 .. n
        /\ r.charSet \in Charsets
        /\ \A i \in 1 .. n : r.fields[i].text \in Texts /\ r.fields[i].tag \in Tags
    BY WrittenFacts
  <2>2. ASSUME NEW i \in 1 .. n PROVE m.dir[i].tag = r.fields[i].tag
    <3>1. m.dir[i] = [tag   |-> r.fields[i].tag,
                      len   |-> Sizes(r.fields, Labels(r, m.fieldEnd))[i],
                      start |-> SumTo(Sizes(r.fields, Labels(r, m.fieldEnd)), i-1)]
      BY WrittenFacts
    <3> QED
      BY <3>1
  <2> QED
    BY <2>1, <2>2
<1>2. /\ p.dir = m.dir
      /\ \A i \in 1 .. n : /\ p.body[i] \in Texts
                           /\ p.body[i] = IF last /\ i = n THEN Unpadded(r.fields[i].text)
                                          ELSE r.fields[i].text
  BY PieceFacts
<1>3. D \in Charsets
  BY DEF Detected, Charsets
<1>4. \A i \in 1 .. n : Slice(p, D, p.dir[i]) = Decoded(D, p.body[i])
  BY SliceRight
<1>5. ExtraDigits(p) = 0
  BY DEF ExtraDigits, SoundAs, IsPiece
<1>6. Readings(p) = IF ExtraDigits(p) % 12 # 0 THEN {Thrown}
                    ELSE {g} \cup {t \in {Thrown} : \E i \in cut : p.dir[i].tag \in DataTags}
  BY DEF Readings
<1> HIDE DEF D
<1>7. gf = [i \in 1 .. n |-> [tag |-> r.fields[i].tag, text |-> Decoded(D, p.body[i])]]
  BY <1>1, <1>2, <1>4
<1>8. \A i \in 1 .. n : Decoded(D, p.body[i]) # Garbled
  BY <1>2, <1>3, DecodedFacts
<1>9. cut = {}
  <2>1. DOMAIN p.dir = 1 .. n /\ g.fields = gf
    BY <1>1, <1>2
  <2>2. \A i \in 1 .. n : gf[i].text # Garbled
    <3> HIDE DEF gf
    <3> QED
      BY <1>7, <1>8
  <2> HIDE DEF g, gf
  <2> QED
    BY <2>1, <2>2
<1>10. Readings(p) = {g}
  <2> HIDE DEF cut, g
  <2>1. ~ (0 % 12 # 0)
    OBVIOUS
  <2> QED
    BY <1>5, <1>6, <1>9, <2>1
<1>11. g # Thrown
  <2>1. g.charSet # Thrown.charSet
    BY <1>3 DEF Thrown, Charsets
  <2> QED
    BY <2>1
<1> DEFINE e == [j \in 1 .. n |-> [tag |-> r.fields[j].tag, text |-> Decoded(r.charSet, r.fields[j].text)]]
<1>12. \A i \in 1 .. n :
         Decoded(D, p.body[i]) = IF last /\ i = n THEN Unpadded(e[i].text) ELSE e[i].text
  <2> TAKE i \in 1 .. n
  <2>1. r.fields[i].text \in Texts
    BY <1>1
  <2>2. Decoded(D, r.fields[i].text) = e[i].text
    BY ReaderAgrees DEF D
  <2>3. Decoded(D, Unpadded(r.fields[i].text)) = Unpadded(Decoded(D, r.fields[i].text))
    BY <1>3, <2>1, DecodedFacts
  <2> QED
    BY <1>2, <2>2, <2>3
<1>13. \A j \in 1 .. n : [r.fields[j] EXCEPT !.text = Decoded(r.charSet, @)] = e[j]
  <2> TAKE j \in 1 .. n
  <2>1. r.fields[j] \in Fields
    BY <1>1 DEF Writtens
  <2>2. r.fields[j] = [tag |-> r.fields[j].tag, text |-> r.fields[j].text]
    BY <2>1 DEF Fields
  <2> QED
    BY <2>2
<1>14. ExpectedAs(r, last) = IF last THEN [e EXCEPT ![n].text.pad = 0] ELSE e
  <2>1. [j \in 1 .. n |-> [r.fields[j] EXCEPT !.text = Decoded(r.charSet, @)]] = e
    BY <1>13
  <2> HIDE DEF e
  <2> QED
    BY <2>1 DEF ExpectedAs
<1>15. \A i \in 1 .. n : (IF last THEN [e EXCEPT ![n].text.pad = 0] ELSE e)[i]
                           = [tag |-> r.fields[i].tag, text |-> Decoded(D, p.body[i])]
  BY <1>12 DEF Unpadded
<1>16. gf = ExpectedAs(r, last)
  BY <1>7, <1>14, <1>15
<1> QED
  BY <1>10, <1>11, <1>16 DEF D

------------------------------------------------------------------------------
\* The inductive invariant.

\* What a reader returns of a record: a field may be garbled.
ReadFields == [tag : Tags, text : Texts \cup {Garbled}]
Reads      == [charSet : Charsets, fields : Seq(ReadFields)]

\* The record being edited can be written.
RecordInv == record \in [charSet : Charsets, fields : Seq(Fields)]

\* The file is made of what the writers made of the records, in order.
FileInv ==
  /\ file \in Seq(Strings) /\ written \in Seq(Writtens)
  /\ Len(written) = Len(file) /\ Len(file) <= MaxFile
  /\ \A i \in DOMAIN file : WrittenBy(file[i], written[i])

\* The result of a read is one of the file as it is now.
ResultInv ==
  \/ result = Unread
  \/ /\ result = [status |-> "throws", records |-> << >>]
     /\ \E i \in DOMAIN file : Thrown \in Readings(Pieces[i])
  \/ /\ result.status = "read"
     /\ DOMAIN result.records = DOMAIN file
     /\ \A i \in DOMAIN file : /\ result.records[i] \in Readings(Pieces[i])
                               /\ result.records[i] # Thrown

IInv == RecordInv /\ FileInv /\ ResultInv

\* trim() at the end of the file, as the reader of a single record sees it and as the
\* reader of a file does.
LEMMA TrimmedFacts ==
  ASSUME NEW m \in Strings, Len(m.body) >= 1
  PROVE  /\ IsPiece(Trimmed(m), m, TRUE)
         /\ IsPiece([Trimmed(m) EXCEPT !.recEnd = TRUE], m, TRUE)
         /\ Readings([Trimmed(m) EXCEPT !.recEnd = TRUE]) = Readings(Trimmed(m))
<1> DEFINE n == Len(m.body)
           b == [m.body EXCEPT ![n].pad = 0]
           t == Trimmed(m)
           q == [t EXCEPT !.recEnd = TRUE]
<1>1. /\ n \in Nat /\ DOMAIN m.body = 1 .. n /\ n \in 1 .. n
      /\ \A j \in 1 .. n : m.body[j] \in Texts
      /\ m = [surplus |-> m.surplus, dir |-> m.dir, body |-> m.body,
              fieldEnd |-> m.fieldEnd, recEnd |-> m.recEnd]
      /\ m.surplus \in Nat /\ m.dir \in Seq(Entries) /\ m.body \in Seq(Texts) /\ m.fieldEnd \in BOOLEAN
  BY DEF Strings
<1>2. \A j \in 1 .. n : b[j] = IF j = n THEN Unpadded(m.body[j]) ELSE m.body[j]
  BY <1>1 DEF Unpadded
<1>3. b \in Seq(Texts) /\ Len(b) = n
  <2>1. DOMAIN b = 1 .. n
    BY <1>1
  <2>2. \A j \in 1 .. n : b[j] \in Texts
    <3>1. \A j \in 1 .. n : Unpadded(m.body[j]) \in Texts
      BY <1>1, UnpaddedFacts
    <3> QED
      BY <1>1, <1>2, <3>1
  <2>3. b \in [1 .. n -> Texts]
    <3>1. b = [j \in 1 .. n |-> b[j]]
      BY <1>1
    <3> HIDE DEF b
    <3> QED
      BY <2>2, <3>1
  <2> HIDE DEF b
  <2> QED
    BY <1>1, <2>3
<1> HIDE DEF b
<1>4. t = [m EXCEPT !.recEnd = FALSE, !.fieldEnd = FALSE, !.body = b]
  BY DEF Trimmed, b
<1> HIDE DEF t
<1>5. /\ t \in Strings /\ q \in Strings
      /\ t.surplus = m.surplus /\ t.dir = m.dir /\ t.body = b /\ t.fieldEnd = FALSE
      /\ q.surplus = m.surplus /\ q.dir = m.dir /\ q.body = b /\ q.fieldEnd = FALSE
  BY <1>1, <1>3, <1>4 DEF Strings
<1> HIDE DEF q
<1>6. IsPiece(t, m, TRUE) /\ IsPiece(q, m, TRUE)
  BY <1>2, <1>3, <1>5 DEF IsPiece, n
<1>7. t.surplus = q.surplus /\ t.dir = q.dir /\ t.body = q.body /\ t.fieldEnd = q.fieldEnd
  BY <1>5
<1>8. Readings(t) = Readings(q)
  BY <1>7 DEF Readings, Slice, Detected, ExtraDigits
<1> QED
  BY <1>6, <1>8 DEF t, q

\* What the reader of a file splits it into.
LEMMA PiecesFacts ==
  ASSUME FileInv, NEW i \in DOMAIN file
  PROVE  /\ file[i] \in Strings /\ written[i] \in Writtens /\ WrittenBy(file[i], written[i])
         /\ IsPiece(Pieces[i], file[i], i = Len(file))
         /\ DOMAIN file = 1 .. Len(file) /\ DOMAIN written = DOMAIN file /\ Len(file) \in Nat
<1>1. /\ file[i] \in Strings /\ written[i] \in Writtens /\ WrittenBy(file[i], written[i])
      /\ DOMAIN file = 1 .. Len(file) /\ DOMAIN written = DOMAIN file /\ Len(file) \in Nat
  BY DEF FileInv
<1>2. Len(file[i].body) \in Nat /\ Len(file[i].body) >= 1
  BY <1>1, WrittenFacts
<1>3. CASE i = Len(file)
  <2>1. Pieces[i] = [Trimmed(file[i]) EXCEPT !.recEnd = TRUE]
    BY <1>1, <1>3 DEF Pieces
  <2> QED
    BY <1>1, <1>2, <1>3, <2>1, TrimmedFacts
<1>4. CASE i # Len(file)
  <2>1. Pieces[i] = file[i]
    BY <1>1, <1>4 DEF Pieces
  <2>2. IsPiece(file[i], file[i], FALSE)
    BY <1>1 DEF IsPiece, Strings
  <2> QED
    BY <1>1, <1>4, <2>1, <2>2
<1> QED
  BY <1>1, <1>3, <1>4

\* Whatever is read, sound or not, has the fields that were written, garbled or not.
LEMMA ReadingsType ==
  ASSUME NEW r \in Writtens, NEW m \in Strings, WrittenBy(m, r), NEW last \in BOOLEAN,
         NEW p, IsPiece(p, m, last), NEW got \in Readings(p), got # Thrown
  PROVE  got \in Reads /\ got.charSet = Detected(p)
<1> DEFINE n == Len(r.fields)
           D == Detected(p)
           gf == [i \in DOMAIN p.dir |->
                    [tag |-> p.dir[i].tag, text |-> Slice(p, D, p.dir[i])]]
<1>1. got = [charSet |-> D, fields |-> gf]
  BY DEF Readings
<1>2. D \in Charsets
  BY DEF Detected, Charsets
<1>3. /\ n \in Nat /\ n \in 1 .. n /\ DOMAIN p.dir = 1 .. n /\ DOMAIN p.body = 1 .. n
      /\ Len(p.body) = n /\ \A i \in 1 .. n : p.body[i] \in Texts
  <2>1. n \in Nat /\ n >= 1 /\ DOMAIN m.dir = 1 .. n
    BY WrittenFacts
  <2>2. /\ p.dir = m.dir /\ DOMAIN p.body = 1 .. n /\ Len(p.body) = n
        /\ \A i \in 1 .. n : p.body[i] \in Texts
    BY PieceFacts
  <2>3. n \in 1 .. n
    BY <2>1
  <2> QED
    BY <2>1, <2>2, <2>3
<1>4. \A i \in 1 .. n : p.dir[i].tag \in Tags
  <2>1. p.dir \in Seq(Entries)
    BY DEF IsPiece, Strings
  <2>2. \A i \in 1 .. n : p.dir[i] \in Entries
    BY <1>3, <2>1
  <2> QED
    BY <2>2 DEF Entries
<1>5. \A i \in 1 .. n : Decoded(D, p.body[i]) \in Texts
  BY <1>2, <1>3, DecodedFacts
<1> HIDE DEF D, n
<1>6. \A d : Slice(p, D, d) \in Texts \cup {Garbled}
  <2> TAKE d
  <2> DEFINE whole == {i \in DOMAIN p.body : d.start = Offset(D, p.body, i)
                                             /\ d.len = Size(D, p.body[i])}
             pastEnd == /\ d.start = Offset(D, p.body, n) /\ d.len > Size(D, p.body[n])
                        /\ ~ p.fieldEnd /\ d.tag \in DataTags
  <2>1. Slice(p, D, d) = IF whole # {} THEN Decoded(D, p.body[CHOOSE i \in whole : TRUE])
                         ELSE IF pastEnd THEN Decoded(D, p.body[n]) ELSE Garbled
    BY <1>3 DEF Slice
  <2>2. whole # {} => (CHOOSE i \in whole : TRUE) \in 1 .. n
    <3>1. whole \subseteq 1 .. n
      BY <1>3
    <3> HIDE DEF whole
    <3> QED
      BY <3>1
  <2> HIDE DEF whole, pastEnd
  <2> QED
    BY <1>3, <1>5, <2>1, <2>2
<1>7. gf \in [1 .. n -> ReadFields]
  <2>1. \A i \in 1 .. n : [tag |-> p.dir[i].tag, text |-> Slice(p, D, p.dir[i])] \in ReadFields
    BY <1>4, <1>6 DEF ReadFields
  <2> QED
    BY <1>3, <2>1
<1>8. gf \in Seq(ReadFields)
  <2> HIDE DEF gf
  <2> QED
    BY <1>3, <1>7
<1> HIDE DEF gf
<1> QED
  BY <1>1, <1>2, <1>8 DEF Reads, D

------------------------------------------------------------------------------
\* The steps.

\* A record to be written is sorted by tag.
LEMMA SortedWritten ==
  ASSUME RecordInv, record.fields # << >>, NEW cs \in Charsets
  PROVE  [charSet |-> cs, fields |-> SortedByTag(record.fields)] \in Writtens
<1> DEFINE s == SortedByTag(record.fields)
<1>1. record.fields \in Seq(Fields)
  BY DEF RecordInv
<1>2. s \in Seq(Fields) /\ Len(s) = Len(record.fields) /\ InOrder(s)
  BY <1>1, SortedFacts DEF InOrder
<1>3. s # << >>
  BY <1>1, <1>2, EmptySeq
<1> HIDE DEF s
<1> QED
  BY <1>2, <1>3 DEF Writtens, s

\* The strings of this program end their last field with nothing ...
LEMMA LayoutWritten ==
  ASSUME NEW r \in Writtens
  PROVE  /\ Layout(r.fields, Labels(r, FALSE)) \in Strings
         /\ WrittenBy(Layout(r.fields, Labels(r, FALSE)), r)
<1> DEFINE l == Layout(r.fields, Labels(r, FALSE))
<1>1. r.fields \in Seq(Fields) /\ Labels(r, FALSE) \in [Tags -> Charsets]
  BY DEF Writtens, Labels, Charsets
<1>2. l \in Strings
  BY <1>1, LayoutFacts
<1>3. l.fieldEnd = FALSE
  BY DEF Layout
<1> QED
  BY <1>2, <1>3 DEF WrittenBy

\* ... and those of others with a mark.
LEMMA StandardWritten ==
  ASSUME NEW r \in Writtens
  PROVE  LET e == [Layout(r.fields, Labels(r, TRUE)) EXCEPT !.fieldEnd = TRUE, !.surplus = 0]
         IN  e \in Strings /\ WrittenBy(e, r)
<1> DEFINE l == Layout(r.fields, Labels(r, TRUE))
           e == [l EXCEPT !.fieldEnd = TRUE, !.surplus = 0]
<1>1. r.fields \in Seq(Fields) /\ Labels(r, TRUE) \in [Tags -> Charsets]
  BY DEF Writtens, Labels, Charsets
<1>2. l \in Strings
  BY <1>1, LayoutFacts
<1> HIDE DEF l
<1>3. e \in Strings /\ e.fieldEnd = TRUE
  BY <1>2 DEF Strings
<1>4. e = [l EXCEPT !.fieldEnd = TRUE, !.surplus = 0]
  OBVIOUS
<1> HIDE DEF e
<1>5. WrittenBy(e, r)
  BY <1>3, <1>4 DEF WrittenBy, l
<1> QED
  BY <1>3, <1>5 DEF l, e

\* Writing a string that is made of the record.
LEMMA WriteStep ==
  ASSUME IInv, NEW cs \in Charsets, NEW m \in Strings,
         record.fields # << >> =>
           WrittenBy(m, [charSet |-> cs, fields |-> SortedByTag(record.fields)]),
         Write(m, cs)
  PROVE  IInv'
<1> DEFINE r == [charSet |-> cs, fields |-> SortedByTag(record.fields)]
<1>1. r \in Writtens /\ WrittenBy(m, r)
  BY SortedWritten DEF IInv, Write
<1>2. /\ file' = Append(file, m) /\ written' = Append(written, r)
      /\ record' = NoRecord /\ result' = Unread /\ Len(file) < MaxFile
  BY DEF Write, Editing
<1> HIDE DEF r
<1>3. /\ file \in Seq(Strings) /\ written \in Seq(Writtens) /\ Len(written) = Len(file)
      /\ DOMAIN file = 1 .. Len(file) /\ Len(file) \in Nat
      /\ \A i \in 1 .. Len(file) : WrittenBy(file[i], written[i])
  BY DEF IInv, FileInv
<1>4. RecordInv'
  BY <1>2 DEF RecordInv, NoRecord, Charsets
<1>5. FileInv'
  <2>1. file' \in Seq(Strings) /\ written' \in Seq(Writtens)
    BY <1>1, <1>2, <1>3
  <2>2. Len(file') = Len(file) + 1 /\ Len(written') = Len(file) + 1
    BY <1>2, <1>3
  <2>3. Len(file') <= MaxFile
    BY <1>2, <1>3, <2>2, BoundAssumption
  <2>4. ASSUME NEW i \in 1 .. Len(file) + 1 PROVE WrittenBy(file'[i], written'[i])
    <3>1. CASE i = Len(file) + 1
      <4>1. file'[i] = m /\ written'[i] = r
        BY <1>2, <1>3, <3>1
      <4> QED
        BY <1>1, <4>1
    <3>2. CASE i \in 1 .. Len(file)
      <4>1. file'[i] = file[i] /\ written'[i] = written[i]
        BY <1>2, <1>3, <3>2
      <4> QED
        BY <1>3, <3>2, <4>1
    <3> QED
      BY <1>3, <3>1, <3>2
  <2>5. DOMAIN file' = 1 .. Len(file) + 1
    BY <1>3, <2>1, <2>2
  <2> QED
    BY <2>1, <2>2, <2>3, <2>4, <2>5 DEF FileInv
<1>6. ResultInv'
  BY <1>2 DEF ResultInv
<1> QED
  BY <1>4, <1>5, <1>6 DEF IInv

\* toMarcString.
LEMMA ToMarcStringStep == ASSUME IInv, ToMarcString PROVE IInv'
<1> DEFINE r == [charSet |-> "utf8", fields |-> SortedByTag(record.fields)]
<1>1. record.fields # << >> /\ RecordInv
  BY DEF ToMarcString, Write, IInv
<1>2. "utf8" \in Charsets
  BY DEF Charsets
<1>3. r \in Writtens
  BY <1>1, <1>2, SortedWritten
<1>4. MarcString(record) = Layout(r.fields, Labels(r, FALSE))
  BY DEF MarcString, Labels
<1> HIDE DEF r
<1>5. MarcString(record) \in Strings /\ WrittenBy(MarcString(record), r)
  BY <1>3, <1>4, LayoutWritten
<1>6. Write(MarcString(record), "utf8")
  BY DEF ToMarcString
<1> QED
  BY <1>2, <1>5, <1>6, WriteStep DEF r

\* Record.toString.
LEMMA RecordToStringStep == ASSUME IInv, RecordToString PROVE IInv'
<1> DEFINE r == [charSet |-> record.charSet, fields |-> SortedByTag(record.fields)]
<1>1. record.fields # << >> /\ RecordInv /\ record.charSet \in Charsets
  BY DEF RecordToString, Write, IInv, RecordInv
<1>2. r \in Writtens
  BY <1>1, SortedWritten
<1>3. RecordString(record) = Layout(r.fields, Labels(r, FALSE))
  BY DEF RecordString, Labels
<1> HIDE DEF r
<1>4. RecordString(record) \in Strings /\ WrittenBy(RecordString(record), r)
  BY <1>2, <1>3, LayoutWritten
<1>5. Write(RecordString(record), record.charSet)
  BY DEF RecordToString
<1> QED
  BY <1>1, <1>4, <1>5, WriteStep DEF r

\* Another program writes.
LEMMA ReceiveStep == ASSUME IInv, NEW cs \in Charsets, Receive(cs) PROVE IInv'
<1> DEFINE r == [charSet |-> cs, fields |-> SortedByTag(record.fields)]
<1>1. record.fields # << >> /\ RecordInv
  BY DEF Receive, Write, IInv
<1>2. r \in Writtens
  BY <1>1, SortedWritten
<1>3. StandardString(record.fields, cs)
        = [Layout(r.fields, Labels(r, TRUE)) EXCEPT !.fieldEnd = TRUE, !.surplus = 0]
  BY DEF StandardString, Labels
<1> HIDE DEF r
<1>4. /\ StandardString(record.fields, cs) \in Strings
      /\ WrittenBy(StandardString(record.fields, cs), r)
  BY <1>2, <1>3, StandardWritten
<1>5. Write(StandardString(record.fields, cs), cs)
  BY DEF Receive
<1> QED
  BY <1>4, <1>5, WriteStep DEF r

\* Neither editing nor reading changes what the reader would find in the file.
LEMMA FileKept ==
  ASSUME IInv, UNCHANGED <<file, written>>
  PROVE  FileInv' /\ Pieces' = Pieces
BY DEF IInv, FileInv, Pieces

\* addfiled.
LEMMA AddFieldStep == ASSUME IInv, NEW f \in Fields, AddField(f) PROVE IInv'
<1>1. FileInv' /\ Pieces' = Pieces
  BY FileKept DEF AddField
<1>2. ResultInv'
  BY <1>1 DEF AddField, IInv, ResultInv
<1>3. RecordInv'
  <2>1. record' = [record EXCEPT !.fields = Append(record.fields, f)]
    BY DEF AddField
  <2>2. Append(record.fields, f) \in Seq(Fields)
    BY DEF IInv, RecordInv
  <2> QED
    BY <2>1, <2>2 DEF IInv, RecordInv
<1> QED
  BY <1>1, <1>2, <1>3 DEF IInv

\* replace.
LEMMA ReplaceFieldStep == ASSUME IInv, NEW f \in Fields, ReplaceField(f) PROVE IInv'
<1> DEFINE fs == [i \in DOMAIN record.fields |->
                    IF record.fields[i].tag = f.tag THEN f ELSE record.fields[i]]
<1>1. FileInv' /\ Pieces' = Pieces
  BY FileKept DEF ReplaceField
<1>2. ResultInv'
  BY <1>1 DEF ReplaceField, IInv, ResultInv
<1>3. RecordInv'
  <2>1. record' = [record EXCEPT !.fields = fs]
    BY DEF ReplaceField
  <2>2. /\ Len(record.fields) \in Nat /\ DOMAIN record.fields = 1 .. Len(record.fields)
        /\ \A i \in DOMAIN record.fields : record.fields[i] \in Fields
    BY DEF IInv, RecordInv
  <2>3. fs \in Seq(Fields)
    <3>1. fs \in [1 .. Len(record.fields) -> Fields]
      BY <2>2
    <3> HIDE DEF fs
    <3> QED
      BY <2>2, <3>1
  <2> HIDE DEF fs
  <2> QED
    BY <2>1, <2>3 DEF IInv, RecordInv
<1> QED
  BY <1>1, <1>2, <1>3 DEF IInv

\* The charset of the record.
LEMMA SetCharSetStep == ASSUME IInv, NEW cs \in Charsets, SetCharSet(cs) PROVE IInv'
<1>1. FileInv' /\ Pieces' = Pieces
  BY FileKept DEF SetCharSet
<1>2. ResultInv'
  BY <1>1 DEF SetCharSet, IInv, ResultInv
<1>3. RecordInv'
  BY DEF IInv, RecordInv, SetCharSet
<1> QED
  BY <1>1, <1>2, <1>3 DEF IInv

\* Reading, whichever way the pieces of the file came out.
LEMMA ReadStep ==
  ASSUME IInv, NEW results, DOMAIN results = DOMAIN file,
         \A i \in DOMAIN file : results[i] \in Readings(Pieces[i]), Read(results)
  PROVE  IInv'
<1>1. FileInv' /\ Pieces' = Pieces /\ file' = file
  BY FileKept DEF Read
<1>2. RecordInv'
  BY DEF IInv, RecordInv, Read
<1>3. CASE \E i \in DOMAIN results : results[i] = Thrown
  <2>1. result' = [status |-> "throws", records |-> << >>]
    BY <1>3 DEF Read
  <2>2. \E i \in DOMAIN file : Thrown \in Readings(Pieces[i])
    BY <1>3
  <2>3. ResultInv'
    BY <1>1, <2>1, <2>2 DEF ResultInv
  <2> QED
    BY <1>1, <1>2, <2>3 DEF IInv
<1>4. CASE ~ \E i \in DOMAIN results : results[i] = Thrown
  <2>1. result' = [status |-> "read", records |-> results]
    BY <1>4 DEF Read
  <2>2. result'.status = "read" /\ result'.records = results
    BY <2>1
  <2>3. ResultInv'
    BY <1>1, <1>4, <2>2 DEF ResultInv
  <2> QED
    BY <1>1, <1>2, <2>3 DEF IInv
<1> QED
  BY <1>3, <1>4

\* buildMarcData.
LEMMA BuildMarcDataStep == ASSUME IInv, BuildMarcData PROVE IInv'
<1>1. PICK results : /\ DOMAIN results = DOMAIN file
                     /\ \A i \in DOMAIN file : results[i] \in Readings(Pieces[i])
                     /\ Read(results)
  BY DEF BuildMarcData
<1> QED
  BY <1>1, ReadStep

\* buildMarcDataSingle.
LEMMA BuildMarcDataSingleStep == ASSUME IInv, BuildMarcDataSingle PROVE IInv'
<1>1. Len(file) = 1 /\ FileInv
  BY DEF BuildMarcDataSingle, IInv
<1>2. DOMAIN file = {1}
  BY <1>1 DEF FileInv
<1>3. file[1] \in Strings /\ written[1] \in Writtens /\ WrittenBy(file[1], written[1])
  BY <1>1, <1>2, PiecesFacts
<1>4. Len(file[1].body) >= 1
  BY <1>3, WrittenFacts
<1>5. Pieces[1] = [Trimmed(file[1]) EXCEPT !.recEnd = TRUE]
  BY <1>1, <1>2 DEF Pieces
<1>6. Readings(Trimmed(file[1])) = Readings(Pieces[1])
  BY <1>3, <1>4, <1>5, TrimmedFacts
<1>7. PICK r \in Readings(Trimmed(file[1])) : Read(<<r>>)
  BY DEF BuildMarcDataSingle
<1>8. DOMAIN <<r>> = {1} /\ <<r>>[1] = r
  OBVIOUS
<1> QED
  BY <1>2, <1>6, <1>7, <1>8, ReadStep

\* What was read becomes the record being edited.
LEMMA TakeRecordStep == ASSUME IInv, TakeRecord PROVE IInv'
<1>1. PICK i \in DOMAIN result.records :
        Readable(result.records[i]) /\ record' = result.records[i]
  BY DEF TakeRecord
<1> DEFINE r == result.records[i]
<1>2. /\ DOMAIN result.records = DOMAIN file
      /\ r \in Readings(Pieces[i]) /\ r # Thrown
  <2>1. DOMAIN << >> = {}
    OBVIOUS
  <2>2. result.records # << >>
    BY <1>1, <2>1
  <2>3. result # Unread /\ result # [status |-> "throws", records |-> << >>]
    BY <2>2 DEF Unread
  <2> QED
    BY <1>1, <2>3 DEF IInv, ResultInv
<1>3. r \in Reads
  <2>1. i \in DOMAIN file /\ FileInv
    BY <1>2 DEF IInv
  <2>2. /\ file[i] \in Strings /\ written[i] \in Writtens /\ WrittenBy(file[i], written[i])
        /\ IsPiece(Pieces[i], file[i], i = Len(file))
    BY <2>1, PiecesFacts
  <2>3. (i = Len(file)) \in BOOLEAN
    OBVIOUS
  <2> HIDE DEF r
  <2> QED
    BY <1>2, <2>2, <2>3, ReadingsType
<1>4. r \in [charSet : Charsets, fields : Seq(Fields)]
  <2>1. /\ r.charSet \in Charsets /\ r.fields \in Seq(ReadFields)
        /\ r = [charSet |-> r.charSet, fields |-> r.fields]
    BY <1>3 DEF Reads
  <2>2. \A j \in DOMAIN r.fields : r.fields[j] \in ReadFields /\ r.fields[j].text # Garbled
    BY <1>1, <2>1 DEF Readable
  <2>3. \A j \in DOMAIN r.fields : r.fields[j] \in Fields
    BY <2>2 DEF ReadFields, Fields
  <2>4. r.fields \in Seq(Fields)
    <3>1. /\ Len(r.fields) \in Nat /\ DOMAIN r.fields = 1 .. Len(r.fields)
          /\ r.fields \in [1 .. Len(r.fields) -> ReadFields]
      BY <2>1
    <3>2. r.fields \in [1 .. Len(r.fields) -> Fields]
      BY <2>3, <3>1
    <3> QED
      BY <3>1, <3>2
  <2> QED
    BY <2>1, <2>4
<1>5. RecordInv'
  BY <1>1, <1>4 DEF RecordInv
<1>6. file' = << >> /\ written' = << >> /\ result' = Unread
  BY DEF TakeRecord
<1>7. FileInv'
  BY <1>6, BoundAssumption DEF FileInv
<1>8. ResultInv'
  BY <1>6 DEF ResultInv
<1> QED
  BY <1>5, <1>7, <1>8 DEF IInv

\* The invariant holds, whatever is edited, written and read.
THEOREM InvHolds == Spec => []IInv
<1>1. Init => IInv
  <2> SUFFICES ASSUME Init PROVE IInv
    OBVIOUS
  <2>1. RecordInv
    BY DEF Init, NoRecord, RecordInv, Charsets
  <2>2. FileInv
    BY BoundAssumption DEF Init, FileInv
  <2>3. ResultInv
    BY DEF Init, ResultInv
  <2> QED
    BY <2>1, <2>2, <2>3 DEF IInv
<1>2. IInv /\ [Next]_vars => IInv'
  <2> SUFFICES ASSUME IInv, [Next]_vars PROVE IInv'
    OBVIOUS
  <2>1. CASE \E f \in Fields : AddField(f)
    BY <2>1, AddFieldStep
  <2>2. CASE \E f \in Fields : ReplaceField(f)
    BY <2>2, ReplaceFieldStep
  <2>3. CASE \E cs \in Charsets : SetCharSet(cs)
    BY <2>3, SetCharSetStep
  <2>4. CASE \E cs \in Charsets : Receive(cs)
    BY <2>4, ReceiveStep
  <2>5. CASE ToMarcString
    BY <2>5, ToMarcStringStep
  <2>6. CASE RecordToString
    BY <2>6, RecordToStringStep
  <2>7. CASE BuildMarcData
    BY <2>7, BuildMarcDataStep
  <2>8. CASE BuildMarcDataSingle
    BY <2>8, BuildMarcDataSingleStep
  <2>9. CASE TakeRecord
    BY <2>9, TakeRecordStep
  <2>10. CASE UNCHANGED vars
    <3>1. FileInv' /\ Pieces' = Pieces
      BY <2>10, FileKept DEF vars
    <3>2. RecordInv' /\ ResultInv'
      BY <2>10, <3>1 DEF vars, IInv, RecordInv, ResultInv
    <3> QED
      BY <3>1, <3>2 DEF IInv
  <2> QED
    BY <2>1, <2>2, <2>3, <2>4, <2>5, <2>6, <2>7, <2>8, <2>9, <2>10 DEF Next
<1> QED
  BY <1>1, <1>2, PTL DEF Spec

------------------------------------------------------------------------------
\* What follows from it.

\* The shape of the state: a record has a charset, tags and texts, the file as many
\* records as were written.
THEOREM TypeCorrect == Spec => []TypeOK
<1>1. ASSUME IInv PROVE TypeOK
  <2>1. ASSUME NEW x \in [charSet : Charsets, fields : Seq(Fields)] PROVE RecordOK(x)
    <3>1. \A i \in DOMAIN x.fields : x.fields[i] \in Fields
      OBVIOUS
    <3> QED
      BY <3>1 DEF RecordOK, Fields
  <2>2. ASSUME NEW x \in Reads PROVE RecordOK(x)
    <3>1. x.charSet \in Charsets /\ x.fields \in Seq(ReadFields)
      BY DEF Reads
    <3>2. \A i \in DOMAIN x.fields : x.fields[i] \in ReadFields
      BY <3>1
    <3> QED
      BY <3>1, <3>2 DEF RecordOK, ReadFields
  <2>3. RecordOK(record)
    BY <1>1, <2>1 DEF IInv, RecordInv
  <2>4. Len(file) <= MaxFile /\ Len(written) = Len(file) /\ DOMAIN written = DOMAIN file
    BY <1>1 DEF IInv, FileInv
  <2>5. ASSUME NEW i \in DOMAIN file
        PROVE  RecordOK(written[i]) /\ Len(file[i].dir) = Len(written[i].fields)
    <3>1. file[i] \in Strings /\ written[i] \in Writtens /\ WrittenBy(file[i], written[i])
      BY <1>1, PiecesFacts DEF IInv
    <3>2. written[i] \in [charSet : Charsets, fields : Seq(Fields)]
      BY <3>1 DEF Writtens
    <3> QED
      BY <2>1, <3>1, <3>2, WrittenFacts
  <2>6. /\ result.status \in {"none", "read", "throws"}
        /\ \A i \in DOMAIN result.records : RecordOK(result.records[i])
    <3>1. CASE result = Unread
      BY <3>1 DEF Unread
    <3>2. CASE result = [status |-> "throws", records |-> << >>]
      BY <3>2
    <3>3. CASE /\ result.status = "read"
               /\ DOMAIN result.records = DOMAIN file
               /\ \A i \in DOMAIN file : /\ result.records[i] \in Readings(Pieces[i])
                                         /\ result.records[i] # Thrown
      <4>1. ASSUME NEW i \in DOMAIN file PROVE RecordOK(result.records[i])
        <5>1. /\ file[i] \in Strings /\ written[i] \in Writtens
              /\ WrittenBy(file[i], written[i]) /\ IsPiece(Pieces[i], file[i], i = Len(file))
          BY <1>1, PiecesFacts DEF IInv
        <5>2. (i = Len(file)) \in BOOLEAN
          OBVIOUS
        <5>3. result.records[i] \in Reads
          BY <3>3, <5>1, <5>2, ReadingsType
        <5> QED
          BY <2>2, <5>3
      <4> QED
        BY <3>3, <4>1
    <3> QED
      BY <1>1, <3>1, <3>2, <3>3 DEF IInv, ResultInv
  <2> QED
    BY <2>3, <2>4, <2>5, <2>6 DEF TypeOK
<1> QED
  BY <1>1, InvHolds, PTL

\* Sound, of the i-th record of the file.
LEMMA SoundPiece ==
  ASSUME IInv, NEW i \in DOMAIN file, Sound(i)
  PROVE  /\ SoundAs(file[i], written[i], i = Len(file))
         /\ Thrown \notin Readings(Pieces[i])
         /\ \A got \in Readings(Pieces[i]) : /\ got.charSet = Detected(Pieces[i])
                                             /\ got.fields = Expected(i)
<1>1. /\ file[i] \in Strings /\ written[i] \in Writtens /\ WrittenBy(file[i], written[i])
      /\ IsPiece(Pieces[i], file[i], i = Len(file))
  BY PiecesFacts DEF IInv
<1>2. SoundAs(file[i], written[i], i = Len(file))
  BY DEF Sound, SoundAs
<1>3. (i = Len(file)) \in BOOLEAN
  OBVIOUS
<1>4. /\ Thrown \notin Readings(Pieces[i])
      /\ \A got \in Readings(Pieces[i]) : /\ got.charSet = Detected(Pieces[i])
                                          /\ got.fields = ExpectedAs(written[i], i = Len(file))
  BY <1>1, <1>2, <1>3, ReadingsRight
<1>5. Expected(i) = ExpectedAs(written[i], i = Len(file))
  BY ZenonT(40) DEF Expected, ExpectedAs
<1> QED
  BY <1>2, <1>4, <1>5

\* A sound record is read back as it was written, by whichever writer, among any others.
THEOREM SoundIsReadBack == Spec => []ReadBack
<1>1. ASSUME IInv PROVE ReadBack
  <2> SUFFICES ASSUME result.status = "read", NEW i \in DOMAIN file, Sound(i)
               PROVE  result.records[i].fields = Expected(i)
    BY DEF ReadBack
  <2>1. result.records[i] \in Readings(Pieces[i])
    BY <1>1 DEF IInv, ResultInv, Unread
  <2> QED
    BY <1>1, <2>1, SoundPiece
<1> QED
  BY <1>1, InvHolds, PTL

\* Only a record that is not sound can make the reader of the file throw.
THEOREM SoundNeverThrows == Spec => []ThrowsOnlyIfUnsound
<1>1. ASSUME IInv PROVE ThrowsOnlyIfUnsound
  <2> SUFFICES ASSUME result.status = "throws" PROVE \E i \in DOMAIN file : ~ Sound(i)
    BY DEF ThrowsOnlyIfUnsound
  <2>1. PICK i \in DOMAIN file : Thrown \in Readings(Pieces[i])
    BY <1>1 DEF IInv, ResultInv, Unread
  <2>2. ~ Sound(i)
    BY <1>1, <2>1, SoundPiece
  <2> QED
    BY <2>2
<1> QED
  BY <1>1, InvHolds, PTL

\* Writing again what was read unchanged gives the same directory, although its charset
\* may be another one: then all of it is ASCII.
THEOREM RewritingIsStable == Spec => []RewriteIsStable
<1>1. ASSUME IInv PROVE RewriteIsStable
  <2> SUFFICES ASSUME result.status = "read", NEW i \in DOMAIN file, Sound(i),
                      ~ file[i].fieldEnd, result.records[i].fields = written[i].fields
               PROVE  RecordString(result.records[i]).dir = file[i].dir
    BY DEF RewriteIsStable
  <2> DEFINE m == file[i]
             r == written[i]
             g == result.records[i]
             n == Len(r.fields)
             old == Sizes(r.fields, Labels(r, m.fieldEnd))
             new == Sizes(r.fields, Labels(g, FALSE))
             l == Layout(r.fields, Labels(g, FALSE))
  <2>1. g \in Readings(Pieces[i])
    BY <1>1 DEF IInv, ResultInv, Unread
  <2>2. /\ SoundAs(m, r, i = Len(file)) /\ g.charSet = Detected(Pieces[i])
    BY <1>1, <2>1, SoundPiece
  <2>3. /\ m \in Strings /\ r \in Writtens /\ WrittenBy(m, r)
        /\ IsPiece(Pieces[i], m, i = Len(file))
    BY <1>1, PiecesFacts DEF IInv
  <2>4. /\ n \in Nat /\ r.fields \in Seq(Fields) /\ InOrder(r.fields)
        /\ Len(m.dir) = n /\ DOMAIN m.dir = 1 .. n /\ m.dir \in Seq(Entries)
        /\ \A j \in 1 .. n : r.fields[j].tag \in Tags /\ r.fields[j].text \in Texts
    <3>1. InOrder(r.fields)
      BY <2>3 DEF Writtens
    <3> QED
      BY <2>3, <3>1, WrittenFacts DEF Strings
  <2>5. g.charSet \in Charsets
    BY <2>2 DEF Detected, Charsets
  <2>6. RecordString(g) = l
    <3>1. SortedByTag(g.fields) = r.fields
      BY <2>4, SortedTwice DEF InOrder
    <3> QED
      BY <3>1 DEF RecordString, Labels
  <2>7. Labels(g, FALSE) \in [Tags -> Charsets]
    BY <2>5 DEF Labels, Charsets
  <2> HIDE DEF g
  <2>8. ASSUME NEW j \in 1 .. n PROVE old[j] \in Nat /\ new[j] = old[j]
    <3> DEFINE tag == r.fields[j].tag
               t == r.fields[j].text
    <3>1. tag \in Tags /\ t \in Texts
      BY <2>4
    <3>2. (i = Len(file)) \in BOOLEAN
      OBVIOUS
    <3>3. old[j] = Size(g.charSet, t)
      <4> DEFINE p == Pieces[i]
                 last == i = Len(file)
      <4>1. /\ SoundAs(m, r, last) /\ g.charSet = Detected(p) /\ last \in BOOLEAN
            /\ m \in Strings /\ r \in Writtens /\ WrittenBy(m, r) /\ IsPiece(p, m, last)
        BY <2>2, <2>3, <3>2
      <4> HIDE DEF m, r, p, last
      <4>2. Sizes(r.fields, Labels(r, m.fieldEnd))[j] = Size(Detected(p), r.fields[j].text)
        BY <4>1, ReaderAgrees
      <4> QED
        BY <4>1, <4>2
    <3>4. old[j] = Size(Labels(r, m.fieldEnd)[tag], t)
      BY <2>3, WrittenFacts
    <3>5. new[j] = Size(Labels(g, FALSE)[tag], t)
      BY <2>4, <2>7, LayoutFacts
    <3>6. CASE tag \in DataTags
      <4>1. Labels(g, FALSE)[tag] = g.charSet
        BY <3>1, <3>6 DEF Labels
      <4> QED
        BY <2>5, <3>1, <3>3, <3>5, <4>1, SizeFacts
    <3>7. CASE tag \notin DataTags
      <4>1. Labels(g, FALSE)[tag] = "utf8" /\ Labels(r, m.fieldEnd)[tag] = "utf8"
        BY <3>1, <3>7 DEF Labels
      <4> QED
        BY <2>5, <3>1, <3>3, <3>4, <3>5, <4>1, SizeFacts
    <3> QED
      BY <3>6, <3>7
  <2> HIDE DEF old, new
  <2>9. \A j \in 1 .. n : SumTo(new, j-1) = SumTo(old, j-1)
    <3> TAKE j \in 1 .. n
    <3>1. j-1 \in Nat /\ \A k \in 1 .. j-1 : k \in 1 .. n
      BY <2>4
    <3>2. \A k \in 1 .. j-1 : new[k] \in Nat /\ old[k] = new[k]
      BY <2>8, <3>1
    <3> QED
      BY <3>1, <3>2, SumEqual
  <2>10. /\ l.dir \in Seq(Entries) /\ Len(l.dir) = n
         /\ \A j \in 1 .. n :
              l.dir[j] = [tag |-> r.fields[j].tag, len |-> new[j], start |-> SumTo(new, j-1)]
    BY <2>4, <2>7, LayoutFacts DEF Strings, new
  <2>11. \A j \in 1 .. n :
           m.dir[j] = [tag |-> r.fields[j].tag, len |-> old[j], start |-> SumTo(old, j-1)]
    BY <2>3, WrittenFacts DEF old
  <2>12. \A j \in 1 .. n : l.dir[j] = m.dir[j]
    BY <2>8, <2>9, <2>10, <2>11
  <2> HIDE DEF l, m, n
  <2>13. l.dir = m.dir
    BY <2>4, <2>10, <2>12
  <2> QED
    BY <2>6, <2>13 DEF l, m, g
<1> QED
  BY <1>1, InvHolds, PTL

==============================================================================
