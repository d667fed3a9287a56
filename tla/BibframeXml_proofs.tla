-------------------------- MODULE BibframeXml_proofs --------------------------
(***************************************************************************)
(* BIBFRAME objects, for documents of any length: which of them come back  *)
(* when they are written and read again, that what has come back once      *)
(* comes back always, and that a list is read whole or not at all.         *)
(***************************************************************************)
EXTENDS BibframeXml, DataInduction, SequenceTheorems

------------------------------------------------------------------------------
\* Selecting elements by form.

Selected(S, forms) == {e \in S : e.form \in forms}

\* What Only selects are elements of the list with one of the forms; it goes through the
\* list once.
LEMMA OnlyRun ==
  ASSUME NEW S, NEW es \in Seq(S), NEW forms
  PROVE  \E g \in [0 .. Len(es) -> Seq(Selected(S, forms))] :
           /\ g[0] = << >>
           /\ \A k \in 1 .. Len(es) :
                g[k] = IF es[k].form \in forms THEN Append(g[k-1], es[k]) ELSE g[k-1]
           /\ Only(es, forms) = g[Len(es)]
<1> DEFINE n == Len(es)
           T == Selected(S, forms)
           X == Seq(T)
           F == [k \in 1 .. n |->
                   [x \in X |-> IF es[k].form \in forms THEN Append(x, es[k]) ELSE x]]
<1>1. n \in Nat /\ DOMAIN es = 1 .. n /\ \A k \in 1 .. n : es[k] \in S
  OBVIOUS
<1>2. \A k \in 1 .. n, x \in X :
        /\ F[k][x] = IF es[k].form \in forms THEN Append(x, es[k]) ELSE x
        /\ F[k][x] \in X
  <2> TAKE k \in 1 .. n, x \in X
  <2>1. es[k].form \in forms => es[k] \in T
    BY <1>1 DEF Selected
  <2> HIDE DEF T
  <2>2. es[k].form \in forms => Append(x, es[k]) \in X
    BY <2>1
  <2> QED
    BY <2>2
<1>3. << >> \in X
  OBVIOUS
<1> HIDE DEF F, X
<1>4. PICK g : IsRun(g, F, n, X, << >>)
  <2>1. AreSteps(F, n, X)
    BY <1>2 DEF AreSteps
  <2> QED
    BY <1>1, <1>3, <2>1, Recursion
<1>5. /\ g \in [0 .. n -> X] /\ g[0] = << >>
      /\ \A k \in 1 .. n :
           g[k] = IF es[k].form \in forms THEN Append(g[k-1], es[k]) ELSE g[k-1]
  <2>1. g \in [0 .. n -> X] /\ g[0] = << >> /\ \A k \in 1 .. n : g[k] = F[k][g[k-1]]
    BY <1>4 DEF IsRun
  <2>2. \A k \in 1 .. n : g[k-1] \in X
    BY <1>1, <2>1
  <2> QED
    BY <1>2, <2>1, <2>2
<1>6. Only(es, forms) = g[n]
  <2> DEFINE Is(h) == h = [k \in 0 .. n |-> IF k = 0 THEN << >>
                             ELSE IF es[k].form \in forms THEN Append(h[k-1], es[k]) ELSE h[k-1]]
             kept == CHOOSE h : Is(h)
  <2>1. Is(g)
    <3>1. g = [k \in 0 .. n |-> g[k]]
      BY <1>5
    <3>2. \A k \in 0 .. n : g[k] = IF k = 0 THEN << >>
             ELSE IF es[k].form \in forms THEN Append(g[k-1], es[k]) ELSE g[k-1]
      <4> TAKE k \in 0 .. n
      <4>1. k # 0 => k \in 1 .. n
        BY <1>1
      <4> QED
        BY <1>5, <4>1
    <3> QED
      BY <3>1, <3>2
  <2>2. Is(kept)
    BY <2>1, Zenon
  <2> HIDE DEF kept
  <2>3. \A k \in 0 .. n : kept[k] = IF k = 0 THEN << >>
             ELSE IF es[k].form \in forms THEN Append(kept[k-1], es[k]) ELSE kept[k-1]
    BY <2>2
  <2> DEFINE Same == {k \in 0 .. n : kept[k] = g[k]}
  <2>4. 0 \in Same
    BY <1>1, <1>5, <2>3
  <2>5. ASSUME NEW k \in 0 .. n-1, k \in Same PROVE k+1 \in Same
    <3>1. k+1 \in 0 .. n /\ k+1 \in 1 .. n /\ k+1 # 0 /\ (k+1)-1 = k
      BY <1>1
    <3> QED
      BY <1>5, <2>3, <2>5, <3>1
  <2> HIDE DEF Same
  <2>6. Inductive(Same, n)
    BY <2>4, <2>5 DEF Inductive
  <2>7. n \in Same
    BY <1>1, <2>6, Induct
  <2> QED
    BY <2>7 DEF Same, Only, kept
<1> QED
  BY <1>5, <1>6 DEF X

\* The selected elements are some of the list.
LEMMA OnlyType ==
  ASSUME NEW S, NEW es \in Seq(S), NEW forms
  PROVE  /\ Only(es, forms) \in Seq(S)
         /\ \A i \in DOMAIN Only(es, forms) : Only(es, forms)[i].form \in forms
<1> DEFINE T == Selected(S, forms)
<1>1. PICK g \in [0 .. Len(es) -> Seq(T)] : Only(es, forms) = g[Len(es)]
  BY OnlyRun
<1>2. Len(es) \in 0 .. Len(es)
  OBVIOUS
<1>3. Only(es, forms) \in Seq(T)
  BY <1>1, <1>2
<1>4. \A i \in DOMAIN Only(es, forms) : Only(es, forms)[i] \in T
  <2> HIDE DEF T
  <2> QED
    BY <1>3
<1>5. Only(es, forms) \in Seq(S)
  <2>1. T \subseteq S
    BY DEF Selected
  <2> HIDE DEF T
  <2> QED
    BY <1>3, <2>1
<1> QED
  BY <1>4, <1>5 DEF Selected

\* One element more.
LEMMA OnlyAppend ==
  ASSUME NEW S, NEW es \in Seq(S), NEW x \in S, NEW forms
  PROVE  Only(Append(es, x), forms)
           = IF x.form \in forms THEN Append(Only(es, forms), x) ELSE Only(es, forms)
<1> DEFINE n == Len(es)
           fs == Append(es, x)
<1>1. /\ n \in Nat /\ fs \in Seq(S) /\ Len(fs) = n+1 /\ fs[n+1] = x
      /\ \A k \in 1 .. n : fs[k] = es[k]
  OBVIOUS
<1>2. PICK g : /\ g[0] = << >>
               /\ \A k \in 1 .. n :
                    g[k] = IF es[k].form \in forms THEN Append(g[k-1], es[k]) ELSE g[k-1]
               /\ Only(es, forms) = g[n]
  BY OnlyRun
<1> HIDE DEF fs
<1>3. PICK h : /\ h[0] = << >>
               /\ \A k \in 1 .. n+1 :
                    h[k] = IF fs[k].form \in forms THEN Append(h[k-1], fs[k]) ELSE h[k-1]
               /\ Only(fs, forms) = h[n+1]
  BY <1>1, OnlyRun
<1> HIDE DEF n
<1> DEFINE Same == {k \in 0 .. n : g[k] = h[k]}
<1>4. 0 \in Same
  BY <1>1, <1>2, <1>3
<1>5. ASSUME NEW k \in 0 .. n-1, k \in Same PROVE k+1 \in Same
  <2>1. k+1 \in 0 .. n /\ k+1 \in 1 .. n /\ k+1 \in 1 .. n+1 /\ (k+1)-1 = k
    BY <1>1
  <2>2. fs[k+1] = es[k+1] /\ g[k] = h[k]
    BY <1>1, <1>5, <2>1
  <2> QED
    BY <1>2, <1>3, <2>1, <2>2
<1> HIDE DEF Same
<1>6. Inductive(Same, n)
  BY <1>4, <1>5 DEF Inductive
<1>7. n \in Same
  BY <1>1, <1>6, Induct
<1>8. h[n+1] = IF x.form \in forms THEN Append(h[n], x) ELSE h[n]
  <2>1. n+1 \in 1 .. n+1 /\ (n+1)-1 = n
    BY <1>1
  <2> QED
    BY <1>1, <1>3, <2>1
<1> QED
  BY <1>2, <1>3, <1>7, <1>8 DEF Same, fs

\* If all have the forms, all are selected.
LEMMA OnlyAll ==
  ASSUME NEW S, NEW es \in Seq(S), NEW forms, \A i \in DOMAIN es : es[i].form \in forms
  PROVE  Only(es, forms) = es
<1> DEFINE n == Len(es)
<1>1. n \in Nat /\ DOMAIN es = 1 .. n /\ \A k \in 1 .. n : es[k] \in S
  OBVIOUS
<1>2. PICK g \in [0 .. n -> Seq(S)] :
               /\ g[0] = << >>
               /\ \A k \in 1 .. n : g[k] = Append(g[k-1], es[k])
               /\ Only(es, forms) = g[n]
  <2> DEFINE T == Selected(S, forms)
  <2>1. PICK g \in [0 .. n -> Seq(T)] :
               /\ g[0] = << >>
               /\ \A k \in 1 .. n :
                    g[k] = IF es[k].form \in forms THEN Append(g[k-1], es[k]) ELSE g[k-1]
               /\ Only(es, forms) = g[n]
    BY OnlyRun
  <2>2. T \subseteq S
    BY DEF Selected
  <2> HIDE DEF T
  <2>3. g \in [0 .. n -> Seq(S)]
    BY <2>2
  <2>4. \A k \in 1 .. n : g[k] = Append(g[k-1], es[k])
    BY <1>1, <2>1
  <2> QED
    BY <2>1, <2>3, <2>4
<1> HIDE DEF n
<1> DEFINE Upto == {k \in 0 .. n : Len(g[k]) = k /\ \A i \in 1 .. k : g[k][i] = es[i]}
<1>3. 0 \in Upto
  BY <1>1, <1>2
<1>4. ASSUME NEW k \in 0 .. n-1, k \in Upto PROVE k+1 \in Upto
  <2>1. k+1 \in 0 .. n /\ k+1 \in 1 .. n /\ (k+1)-1 = k /\ k \in 0 .. n /\ k \in Nat
    BY <1>1
  <2>2. g[k+1] = Append(g[k], es[k+1]) /\ g[k] \in Seq(S) /\ es[k+1] \in S
    BY <1>1, <1>2, <2>1
  <2>3. Len(g[k]) = k /\ \A i \in 1 .. k : g[k][i] = es[i]
    BY <1>4
  <2>4. Len(g[k+1]) = k+1
    BY <2>2, <2>3
  <2>5. ASSUME NEW i \in 1 .. k+1 PROVE g[k+1][i] = es[i]
    <3>1. CASE i = k+1
      BY <2>2, <2>3, <3>1
    <3>2. CASE i \in 1 .. k
      BY <2>2, <2>3, <3>2
    <3> QED
      BY <2>1, <3>1, <3>2
  <2> QED
    BY <2>1, <2>4, <2>5
<1> HIDE DEF Upto
<1>5. Inductive(Upto, n)
  BY <1>3, <1>4 DEF Inductive
<1>6. n \in Upto
  BY <1>1, <1>5, Induct
<1>7. g[n] \in Seq(S) /\ Len(g[n]) = n /\ \A i \in 1 .. n : g[n][i] = es[i]
  BY <1>1, <1>2, <1>6 DEF Upto
<1>8. g[n] = es
  BY <1>1, <1>7 DEF n
<1> QED
  BY <1>2, <1>8

\* If none has, none is.
LEMMA OnlyNone ==
  ASSUME NEW S, NEW es \in Seq(S), NEW forms, \A i \in DOMAIN es : es[i].form \notin forms
  PROVE  Only(es, forms) = << >>
<1> DEFINE n == Len(es)
<1>1. n \in Nat /\ DOMAIN es = 1 .. n
  OBVIOUS
<1>2. PICK g : /\ g[0] = << >>
               /\ \A k \in 1 .. n : g[k] = g[k-1]
               /\ Only(es, forms) = g[n]
  BY <1>1, OnlyRun
<1> HIDE DEF n
<1> DEFINE Nothing == {k \in 0 .. n : g[k] = << >>}
<1>3. 0 \in Nothing
  BY <1>1, <1>2
<1>4. ASSUME NEW k \in 0 .. n-1, k \in Nothing PROVE k+1 \in Nothing
  <2>1. k+1 \in 0 .. n /\ k+1 \in 1 .. n /\ (k+1)-1 = k
    BY <1>1
  <2> QED
    BY <1>2, <1>4, <2>1
<1> HIDE DEF Nothing
<1>5. Inductive(Nothing, n)
  BY <1>3, <1>4 DEF Inductive
<1>6. n \in Nothing
  BY <1>1, <1>5, Induct
<1> QED
  BY <1>2, <1>6 DEF Nothing

\* A list of two is the first and then the second.
LEMMA TwoTuple ==
  ASSUME NEW S, NEW a \in S, NEW b \in S
  PROVE  <<a>> \o <<b>> = <<a, b>> /\ Append(<<a>>, b) = <<a, b>>
<1>1. /\ <<a>> \in Seq(S) /\ <<b>> \in Seq(S) /\ <<a, b>> \in Seq(S)
      /\ <<a>>[1] = a /\ <<b>>[1] = b /\ <<a, b>>[1] = a /\ <<a, b>>[2] = b
      /\ Len(<<a>>) = 1 /\ Len(<<b>>) = 1 /\ Len(<<a, b>>) = 2
  OBVIOUS
<1> DEFINE u == <<a>>
           v == <<b>>
           w == <<a, b>>
<1> HIDE DEF u, v, w
<1>2. /\ u \in Seq(S) /\ v \in Seq(S) /\ w \in Seq(S)
      /\ u[1] = a /\ v[1] = b /\ w[1] = a /\ w[2] = b
      /\ Len(u) = 1 /\ Len(v) = 1 /\ Len(w) = 2
  BY <1>1 DEF u, v, w
<1>3. /\ u \o v \in Seq(S) /\ Len(u \o v) = 2
      /\ (u \o v)[1] = u[1] /\ (u \o v)[2] = v[1]
  <2>1. /\ u \o v \in Seq(S) /\ Len(u \o v) = 1 + 1
        /\ \A i \in 1 .. 1 + 1 : (u \o v)[i] = IF i <= 1 THEN u[i] ELSE v[i - 1]
    BY <1>2, ConcatProperties
  <2> QED
    BY <2>1
<1>4. /\ Append(u, b) \in Seq(S) /\ Len(Append(u, b)) = 2
      /\ Append(u, b)[1] = a /\ Append(u, b)[2] = b
  BY <1>2
<1>5. u \o v = w
  BY <1>2, <1>3
<1>6. Append(u, b) = w
  BY <1>2, <1>4
<1> QED
  BY <1>5, <1>6 DEF u, v, w

\* Selecting from a list of one or two elements.
LEMMA OnlyOfFew ==
  ASSUME NEW S, NEW forms, NEW a \in S, NEW b \in S
  PROVE  /\ Only(<< >>, forms) = << >>
         /\ Only(<<a>>, forms) = IF a.form \in forms THEN <<a>> ELSE << >>
         /\ Only(<<a, b>>, forms) = IF b.form \in forms THEN Append(Only(<<a>>, forms), b)
                                    ELSE Only(<<a>>, forms)
<1>1. Only(<< >>, forms) = << >>
  <2>1. << >> \in Seq(S) /\ DOMAIN << >> = {}
    OBVIOUS
  <2> QED
    BY <2>1, OnlyNone, Zenon
<1>2. Only(<<a>>, forms) = IF a.form \in forms THEN <<a>> ELSE << >>
  <2>1. <<a>> \in Seq(S) /\ \A i \in DOMAIN <<a>> : <<a>>[i] = a
    OBVIOUS
  <2>2. CASE a.form \in forms
    BY <2>1, <2>2, OnlyAll
  <2>3. CASE a.form \notin forms
    BY <2>1, <2>3, OnlyNone
  <2> QED
    BY <2>2, <2>3
<1>3. Only(<<a, b>>, forms) = IF b.form \in forms THEN Append(Only(<<a>>, forms), b)
                              ELSE Only(<<a>>, forms)
  <2>1. <<a>> \in Seq(S)
    OBVIOUS
  <2>2. <<a, b>> = Append(<<a>>, b)
    BY TwoTuple
  <2>3. Only(Append(<<a>>, b), forms) = IF b.form \in forms THEN Append(Only(<<a>>, forms), b)
                                        ELSE Only(<<a>>, forms)
    <3> DEFINE es == <<a>>
    <3>1. es \in Seq(S)
      BY <2>1
    <3> HIDE DEF es
    <3>2. Only(Append(es, b), forms) = IF b.form \in forms THEN Append(Only(es, forms), b)
                                       ELSE Only(es, forms)
      BY <3>1, OnlyAppend
    <3> QED
      BY <3>2 DEF es
  <2> QED
    BY <2>2, <2>3, Zenon
<1> QED
  BY <1>1, <1>2, <1>3

\* The first element with a form is one of the list.
LEMMA FirstType ==
  ASSUME NEW S, NEW es \in Seq(S), NEW forms
  PROVE  \/ First(es, forms) = << >>
         \/ \E a \in S : a.form \in forms /\ First(es, forms) = <<a>>
<1> DEFINE o == Only(es, forms)
<1>1. o \in Seq(S) /\ \A i \in DOMAIN o : o[i].form \in forms
  BY OnlyType
<1>2. First(es, forms) = IF o = << >> THEN << >> ELSE <<Head(o)>>
  BY DEF First
<1> HIDE DEF o
<1>3. CASE o = << >>
  BY <1>2, <1>3
<1>4. CASE o # << >>
  <2>1. Head(o) = o[1] /\ 1 \in DOMAIN o /\ o[1] \in S
    BY <1>1, <1>4
  <2> QED
    BY <1>1, <1>2, <1>4, <2>1
<1> QED
  BY <1>3, <1>4

\* The first of a list of one or two elements.
LEMMA FirstOfOne ==
  ASSUME NEW S, NEW forms, NEW a \in S
  PROVE  First(<<a>>, forms) = IF a.form \in forms THEN <<a>> ELSE << >>
<1>1. Only(<<a>>, forms) = IF a.form \in forms THEN <<a>> ELSE << >>
  BY OnlyOfFew
<1>2. <<a>> # << >> /\ Head(<<a>>) = a
  OBVIOUS
<1> QED
  BY <1>1, <1>2 DEF First

\* Of two elements the second counts only when the first has none of the forms.
LEMMA FirstOfTwo ==
  ASSUME NEW S, NEW forms, NEW a \in S, NEW b \in S, a.form \in forms \/ b.form \in forms
  PROVE  First(<<a, b>>, forms) = IF a.form \in forms THEN <<a>> ELSE <<b>>
<1>1. /\ Only(<<a>>, forms) = IF a.form \in forms THEN <<a>> ELSE << >>
      /\ Only(<<a, b>>, forms) = IF b.form \in forms THEN Append(Only(<<a>>, forms), b)
                                 ELSE Only(<<a>>, forms)
  BY OnlyOfFew
<1>2. CASE a.form \in forms
  <2>1. Only(<<a>>, forms) = <<a>>
    BY <1>1, <1>2
  <2>2. Only(<<a, b>>, forms) = <<a>> \/ Only(<<a, b>>, forms) = <<a, b>>
    <3>1. Append(<<a>>, b) = <<a, b>>
      BY TwoTuple
    <3> QED
      BY <1>1, <2>1, <3>1
  <2>3. /\ <<a>> # << >> /\ <<a, b>> # << >>
        /\ Head(<<a>>) = a /\ Head(<<a, b>>) = a
    OBVIOUS
  <2> QED
    BY <1>2, <2>2, <2>3 DEF First
<1>3. CASE a.form \notin forms
  <2>1. Append(<< >>, b) = <<b>> /\ <<b>> # << >> /\ Head(<<b>>) = b
    OBVIOUS
  <2> QED
    BY <1>1, <1>3, <2>1 DEF First
<1> QED
  BY <1>2, <1>3

------------------------------------------------------------------------------
\* The properties inside a hub.

Names == {"Contribution"}

\* What a series is read with: the first contribution, the first title, or both.
SeriesShape(k) ==
  \/ k = << >>
  \/ \E a \in KidType : a.form \in Names \cup TitleForms /\ k = <<a>>
  \/ \E a, b \in KidType : a.form \in Names /\ b.form \in TitleForms /\ k = <<a, b>>

\* What a hub is read with are some of the properties inside it.
LEMMA KidsFacts ==
  ASSUME NEW e \in ElementType
  PROVE  /\ KnownKids(e) \in Seq(KidType)
         /\ e.form = "SeriesHub" => SeriesShape(KnownKids(e))
         /\ e.form = "SubjectHub" => \/ KnownKids(e) = << >>
                                     \/ \E a \in KidType : a.form \in TitleForms /\ KnownKids(e) = <<a>>
         /\ \A i \in DOMAIN KnownKids(e) : KnownKids(e)[i].form \in Names \cup TitleForms
<1>1. e.kids \in Seq(KidType)
  BY DEF ElementType
<1>2. CASE e.form = "SeriesHub"
  <2> DEFINE c == First(e.kids, Names)
             t == First(e.kids, TitleForms)
  <2>1. KnownKids(e) = c \o t
    BY <1>2 DEF KnownKids, Names
  <2>2. c = << >> \/ \E a \in KidType : a.form \in Names /\ c = <<a>>
    BY <1>1, FirstType
  <2>3. t = << >> \/ \E b \in KidType : b.form \in TitleForms /\ t = <<b>>
    BY <1>1, FirstType
  <2> HIDE DEF c, t
  <2>4. SeriesShape(KnownKids(e))
    <3>1. CASE c = << >>
      <4>1. KnownKids(e) = t
        BY <2>1, <2>3, <3>1
      <4> QED
        BY <2>3, <4>1 DEF SeriesShape
    <3>2. ASSUME NEW a \in KidType, a.form \in Names, c = <<a>> PROVE SeriesShape(KnownKids(e))
      <4>1. CASE t = << >>
        <5>1. KnownKids(e) = <<a>>
          BY <2>1, <3>2, <4>1
        <5> QED
          BY <3>2, <5>1 DEF SeriesShape
      <4>2. ASSUME NEW b \in KidType, b.form \in TitleForms, t = <<b>>
            PROVE  SeriesShape(KnownKids(e))
        <5>1. <<a>> \o <<b>> = <<a, b>>
          BY <3>2, <4>2, TwoTuple
        <5>2. KnownKids(e) = <<a, b>>
          BY <2>1, <3>2, <4>2, <5>1
        <5> QED
          BY <3>2, <4>2, <5>2 DEF SeriesShape
      <4> QED
        BY <2>3, <4>1, <4>2
    <3> QED
      BY <2>2, <3>1, <3>2
  <2>5. /\ KnownKids(e) \in Seq(KidType)
        /\ \A i \in DOMAIN KnownKids(e) : KnownKids(e)[i].form \in Names \cup TitleForms
    <3>1. CASE KnownKids(e) = << >>
      BY <3>1
    <3>2. ASSUME NEW a \in KidType, a.form \in Names \cup TitleForms, KnownKids(e) = <<a>>
          PROVE  /\ KnownKids(e) \in Seq(KidType)
                 /\ \A i \in DOMAIN KnownKids(e) : KnownKids(e)[i].form \in Names \cup TitleForms
      BY <3>2
    <3>3. ASSUME NEW a \in KidType, NEW b \in KidType, a.form \in Names, b.form \in TitleForms,
                 KnownKids(e) = <<a, b>>
          PROVE  /\ KnownKids(e) \in Seq(KidType)
                 /\ \A i \in DOMAIN KnownKids(e) : KnownKids(e)[i].form \in Names \cup TitleForms
      BY <3>3
    <3> QED
      BY <2>4, <3>1, <3>2, <3>3 DEF SeriesShape
  <2> QED
    BY <1>2, <2>4, <2>5
<1>3. CASE e.form = "SubjectHub"
  <2>1. KnownKids(e) = First(e.kids, TitleForms)
    BY <1>3 DEF KnownKids
  <2>2. \/ KnownKids(e) = << >>
        \/ \E a \in KidType : a.form \in TitleForms /\ KnownKids(e) = <<a>>
    BY <1>1, <2>1, FirstType
  <2>3. CASE KnownKids(e) = << >>
    BY <1>3, <2>3
  <2>4. ASSUME NEW a \in KidType, a.form \in TitleForms, KnownKids(e) = <<a>>
        PROVE  /\ KnownKids(e) \in Seq(KidType)
               /\ \A i \in DOMAIN KnownKids(e) : KnownKids(e)[i].form \in Names \cup TitleForms
    BY <2>4
  <2> QED
    BY <1>3, <2>2, <2>3, <2>4
<1>4. CASE e.form # "SeriesHub" /\ e.form # "SubjectHub"
  <2>1. KnownKids(e) = Only(e.kids, TitleForms \cup {"Contribution"})
    BY <1>4 DEF KnownKids
  <2> QED
    BY <1>1, <1>4, <2>1, OnlyType DEF Names
<1> QED
  BY <1>2, <1>3, <1>4

\* The shape of a series is what reading leaves as it is.
LEMMA SeriesAgain ==
  ASSUME NEW m, SeriesShape(m)
  PROVE  First(m, Names) \o First(m, TitleForms) = m
<1>1. \A f \in Names : f \notin TitleForms
  BY DEF Names, TitleForms
<1>2. CASE m = << >>
  <2>1. First(<< >>, Names) = << >> /\ First(<< >>, TitleForms) = << >>
    BY OnlyOfFew DEF First
  <2> QED
    BY <1>2, <2>1
<1>3. ASSUME NEW a \in KidType, a.form \in Names \cup TitleForms, m = <<a>>
      PROVE  First(m, Names) \o First(m, TitleForms) = m
  <2>1. /\ First(<<a>>, Names) = IF a.form \in Names THEN <<a>> ELSE << >>
        /\ First(<<a>>, TitleForms) = IF a.form \in TitleForms THEN <<a>> ELSE << >>
    BY FirstOfOne
  <2>2. <<a>> \o << >> = <<a>> /\ << >> \o <<a>> = <<a>>
    <3>1. <<a>> \in Seq(KidType)
      OBVIOUS
    <3> QED
      BY <3>1, ConcatEmptySeq
  <2> QED
    BY <1>1, <1>3, <2>1, <2>2
<1>4. ASSUME NEW a \in KidType, NEW b \in KidType, a.form \in Names, b.form \in TitleForms,
             m = <<a, b>>
      PROVE  First(m, Names) \o First(m, TitleForms) = m
  <2>1. a.form \notin TitleForms
    BY <1>1, <1>4
  <2>2. First(<<a, b>>, Names) = <<a>>
    BY <1>4, FirstOfTwo
  <2>3. First(<<a, b>>, TitleForms) = <<b>>
    <3>1. First(<<a, b>>, TitleForms) = IF a.form \in TitleForms THEN <<a>> ELSE <<b>>
      BY <1>4, FirstOfTwo
    <3> QED
      BY <2>1, <3>1
  <2>4. <<a>> \o <<b>> = <<a, b>>
    BY TwoTuple
  <2> QED
    BY <1>4, <2>2, <2>3, <2>4
<1> QED
  BY <1>2, <1>3, <1>4 DEF SeriesShape

\* Reading again what has been read picks the same.
LEMMA KidsClosed ==
  ASSUME NEW e \in ElementType, NEW x \in ElementType, x.form = e.form,
         Len(x.kids) = Len(KnownKids(e)),
         \A i \in 1 .. Len(x.kids) : x.kids[i].form = KnownKids(e)[i].form
  PROVE  KnownKids(x) = x.kids
<1> DEFINE k == KnownKids(e)
           m == x.kids
<1>1. /\ k \in Seq(KidType) /\ m \in Seq(KidType)
      /\ DOMAIN m = 1 .. Len(m) /\ DOMAIN k = 1 .. Len(m) /\ Len(m) = Len(k) /\ Len(m) \in Nat
      /\ \A i \in 1 .. Len(m) : k[i].form \in Names \cup TitleForms /\ m[i].form = k[i].form
                                /\ m[i] \in KidType
  BY KidsFacts DEF ElementType
<1>2. /\ Len(m) = 1 => m = <<m[1]>>
      /\ Len(m) = 2 => m = <<m[1], m[2]>>
      /\ Len(m) = 0 => m = << >>
  BY <1>1
<1> HIDE DEF k
<1>3. CASE e.form = "SeriesHub"
  <2>1. SeriesShape(k)
    BY <1>3, KidsFacts DEF k
  <2>2. KnownKids(x) = First(m, Names) \o First(m, TitleForms)
    BY <1>3 DEF KnownKids, Names
  <2> HIDE DEF m
  <2>3. SeriesShape(m)
    <3>1. CASE k = << >>
      <4>1. m = << >>
        BY <1>1, <1>2, <3>1
      <4> QED
        BY <4>1 DEF SeriesShape
    <3>2. ASSUME NEW a \in KidType, a.form \in Names \cup TitleForms, k = <<a>>
          PROVE  SeriesShape(m)
      <4>1. Len(m) = 1 /\ m = <<m[1]>> /\ m[1] \in KidType /\ m[1].form = a.form
        BY <1>1, <1>2, <3>2
      <4>2. m[1].form \in Names \cup TitleForms
        BY <3>2, <4>1
      <4> QED
        BY <4>1, <4>2 DEF SeriesShape
    <3>3. ASSUME NEW a \in KidType, NEW b \in KidType, a.form \in Names, b.form \in TitleForms,
                 k = <<a, b>>
          PROVE  SeriesShape(m)
      <4>1. Len(m) = 2
        BY <1>1, <3>3
      <4>2. /\ m = <<m[1], m[2]>> /\ m[1] \in KidType /\ m[2] \in KidType
            /\ m[1].form = k[1].form /\ m[2].form = k[2].form /\ k[1] = a /\ k[2] = b
        BY <1>1, <1>2, <3>3, <4>1
      <4>3. m[1].form \in Names /\ m[2].form \in TitleForms
        BY <3>3, <4>2
      <4> QED
        BY <4>2, <4>3 DEF SeriesShape
    <3> QED
      BY <2>1, <3>1, <3>2, <3>3 DEF SeriesShape
  <2> QED
    BY <2>2, <2>3, SeriesAgain DEF m
<1>4. CASE e.form = "SubjectHub"
  <2>1. k = << >> \/ \E a \in KidType : a.form \in TitleForms /\ k = <<a>>
    BY <1>4, KidsFacts DEF k
  <2>2. KnownKids(x) = First(m, TitleForms)
    BY <1>4 DEF KnownKids
  <2> HIDE DEF m
  <2>3. CASE k = << >>
    <3>1. m = << >>
      BY <1>1, <1>2, <2>3
    <3>2. First(<< >>, TitleForms) = << >>
      BY OnlyOfFew DEF First
    <3> QED
      BY <2>2, <3>1, <3>2 DEF m
  <2>4. ASSUME NEW a \in KidType, a.form \in TitleForms, k = <<a>> PROVE KnownKids(x) = m
    <3>1. m = <<m[1]>> /\ m[1] \in KidType /\ m[1].form = a.form
      BY <1>1, <1>2, <2>4
    <3> DEFINE b == m[1]
    <3>2. m = <<b>> /\ b \in KidType /\ b.form \in TitleForms
      BY <2>4, <3>1
    <3> HIDE DEF b
    <3>3. First(<<b>>, TitleForms) = <<b>>
      BY <3>2, FirstOfOne
    <3> QED
      BY <2>2, <3>2, <3>3
  <2> QED
    BY <2>1, <2>3, <2>4 DEF m
<1>5. CASE e.form # "SeriesHub" /\ e.form # "SubjectHub"
  <2>1. KnownKids(x) = Only(m, TitleForms \cup {"Contribution"})
    BY <1>5 DEF KnownKids
  <2>2. \A i \in DOMAIN m : m[i].form \in TitleForms \cup {"Contribution"}
    BY <1>1 DEF Names
  <2> HIDE DEF m
  <2> QED
    BY <1>1, <2>1, <2>2, OnlyAll DEF m
<1> QED
  BY <1>3, <1>4, <1>5
------------------------------------------------------------------------------
\* Elements that are read as they are.

Allowed(f) == Needs[f] \cup Takes[f]

\* All the parts that are needed, and none that is not looked at.
Fits(e) ==
  /\ e.form \in DOMAIN Needs
  /\ Needs[e.form] \subseteq e.parts /\ e.parts \subseteq Allowed(e.form)

\* The items that reading can build.
ItemType ==
  {o \in ElementType : Fits(o) /\ KnownKids(o) = o.kids /\ \A i \in DOMAIN o.kids : Fits(o.kids[i])}

\* No form has a part that would spoil the reading.
LEMMA NoneSpoils ==
  ASSUME NEW f \in DOMAIN Needs
  PROVE  /\ Allowed(f) \in SUBSET Parts /\ Allowed(f) \cap Spoils = {}
         /\ f \in Forms
<1>1. Allowed(f) \in SUBSET Parts
  BY DEF Allowed, Parts
<1>2. Needs[f] \cap Spoils = {}
  BY DEF Needs, Spoils
<1>3. Takes[f] \cap Spoils = {}
  <2>1. Takes[f] = CASE f = "AdminMetadata" -> {"status", "encodingLevel", "conventions", "local", "dates"}
       [] f = "Isbn"          -> {"status", "qualifier"}
       [] f = "Language"      -> {"part"}
       [] f = "Contribution"  -> {"type", "primary", "otherPrimary"}
       [] f = "Title"         -> {"sortKey", "titleKeys"}
       [] f = "Agent"         -> {"keys"}
       [] f = "ProvisionActivity" -> {"placeAbout", "placeValue"}
       [] f = "SeriesHub"     -> {"seriesMark"}
       [] OTHER               -> {}
    BY DEF Takes
  <2> QED
    BY <2>1 DEF Spoils
<1> QED
  BY <1>1, <1>2, <1>3 DEF Allowed, Forms

\* What stands inside a hub is an element, too.
LEMMA KidsAreElements ==
  ASSUME NEW k \in KidType
  PROVE  k \in ElementType /\ k.form \notin Hubs /\ k.kids = << >>
<1>1. /\ k.form \in TitleForms \cup {"Contribution", "Other"} /\ k.parts \in SUBSET Parts
      /\ k.texts \in Texts /\ k.kids = << >>
      /\ k = [form |-> k.form, parts |-> k.parts, texts |-> k.texts, kids |-> k.kids]
  BY DEF KidType
<1>2. k.form \notin Hubs
  BY <1>1 DEF TitleForms, Hubs
<1>3. k.form \in Forms
  <2>1. TitleForms \subseteq Forms
    BY DEF TitleForms, Forms, Needs, Unreadable
  <2>2. "Contribution" \in Forms /\ "Other" \in Forms
    BY DEF Forms, Needs, Unknown
  <2> QED
    BY <1>1, <2>1, <2>2
<1>4. k.kids \in Seq(KidType)
  BY <1>1
<1> QED
  BY <1>1, <1>2, <1>3, <1>4 DEF ElementType

\* The fields of an element.
LEMMA ElementFields ==
  ASSUME NEW e \in ElementType
  PROVE  /\ e.form \in Forms /\ e.parts \in SUBSET Parts /\ e.texts \in Texts /\ e.kids \in Seq(KidType)
         /\ e = [form |-> e.form, parts |-> e.parts, texts |-> e.texts, kids |-> e.kids]
         /\ e.form \notin Hubs => e.kids = << >>
BY DEF ElementType

\* An element with the same form, texts and kids and other parts.
LEMMA OtherParts ==
  ASSUME NEW e \in ElementType, NEW ps \in SUBSET Parts
  PROVE  /\ [e EXCEPT !.parts = ps] \in ElementType
         /\ [e EXCEPT !.parts = ps].form = e.form
         /\ [e EXCEPT !.parts = ps].parts = ps
         /\ [e EXCEPT !.parts = ps].texts = e.texts
         /\ [e EXCEPT !.parts = ps].kids = e.kids
         /\ ps = e.parts => [e EXCEPT !.parts = ps] = e
BY DEF ElementType

\* An element with other kids.
LEMMA OtherKids ==
  ASSUME NEW e \in ElementType, NEW ks \in Seq(KidType), e.form \notin Hubs => ks = << >>
  PROVE  /\ [e EXCEPT !.kids = ks] \in ElementType
         /\ [e EXCEPT !.kids = ks].form = e.form
         /\ [e EXCEPT !.kids = ks].parts = e.parts
         /\ [e EXCEPT !.kids = ks].texts = e.texts
         /\ [e EXCEPT !.kids = ks].kids = ks
         /\ ks = e.kids => [e EXCEPT !.kids = ks] = e
BY DEF ElementType

\* The item of an element without regard to what is inside.
LEMMA LeafFacts ==
  ASSUME NEW e \in ElementType, e.form \in DOMAIN Needs
  PROVE  /\ LeafItem(e) \in ElementType
         /\ LeafItem(e).form = e.form /\ LeafItem(e).texts = e.texts /\ LeafItem(e).kids = e.kids
         /\ LeafItem(e).parts = e.parts \cap Allowed(e.form)
         /\ LeafReadable(e) => Fits(LeafItem(e))
         /\ Fits(e) => LeafReadable(e) /\ LeafItem(e) = e
<1> DEFINE ps == e.parts \cap Allowed(e.form)
<1>1. ps \in SUBSET Parts /\ Allowed(e.form) \cap Spoils = {}
  BY NoneSpoils
<1>2. LeafItem(e) = [e EXCEPT !.parts = ps]
  BY ElementFields DEF LeafItem, Allowed
<1> HIDE DEF ps
<1>3. /\ LeafItem(e) \in ElementType
      /\ LeafItem(e).form = e.form /\ LeafItem(e).texts = e.texts /\ LeafItem(e).kids = e.kids
      /\ LeafItem(e).parts = ps
      /\ ps = e.parts => LeafItem(e) = e
  BY <1>1, <1>2, OtherParts
<1>4. LeafReadable(e) => Fits(LeafItem(e))
  BY <1>3 DEF ps, LeafReadable, Fits, Allowed
<1>5. Fits(e) => LeafReadable(e) /\ ps = e.parts
  BY <1>1 DEF ps, LeafReadable, Fits
<1> QED
  BY <1>3, <1>4, <1>5 DEF ps

\* The same inside a hub.
LEMMA KidFacts ==
  ASSUME NEW k \in KidType, k.form \in DOMAIN Needs
  PROVE  /\ LeafItem(k) \in KidType /\ LeafItem(k).form = k.form
         /\ LeafReadable(k) => Fits(LeafItem(k))
         /\ Fits(k) => LeafReadable(k) /\ LeafItem(k) = k
<1>1. k \in ElementType /\ k.kids = << >>
  BY KidsAreElements
<1>2. /\ LeafItem(k) \in ElementType /\ LeafItem(k).form = k.form
      /\ LeafItem(k).kids = k.kids
      /\ LeafReadable(k) => Fits(LeafItem(k))
      /\ Fits(k) => LeafReadable(k) /\ LeafItem(k) = k
  BY <1>1, LeafFacts
<1>3. k.form \in TitleForms \cup {"Contribution", "Other"}
  BY DEF KidType
<1>4. LeafItem(k) \in KidType
  BY <1>1, <1>2, <1>3 DEF ElementType, KidType
<1> QED
  BY <1>2, <1>4
\* Only a hub is read with what is inside.
LEMMA NoHubNoKids ==
  ASSUME NEW e \in ElementType, e.form \notin Hubs
  PROVE  KnownKids(e) = << >>
<1>1. e.kids = << >>
  BY ElementFields
<1>2. e.form # "SeriesHub" /\ e.form # "SubjectHub"
  BY DEF Hubs
<1>3. KnownKids(e) = Only(e.kids, TitleForms \cup {"Contribution"})
  BY <1>2 DEF KnownKids
<1>4. Only(<< >>, TitleForms \cup {"Contribution"}) = << >>
  BY OnlyOfFew
<1> QED
  BY <1>1, <1>3, <1>4

\* What is inside an item.
ItemKids(e) == [i \in DOMAIN KnownKids(e) |-> LeafItem(KnownKids(e)[i])]

\* The items of the properties inside.
LEMMA ItemKidsFacts ==
  ASSUME NEW e \in ElementType, Readable(e)
  PROVE  /\ ItemKids(e) \in Seq(KidType) /\ Len(ItemKids(e)) = Len(KnownKids(e))
         /\ e.form \notin Hubs => ItemKids(e) = << >>
         /\ \A i \in 1 .. Len(ItemKids(e)) :
              /\ KnownKids(e)[i] \in KidType
              /\ ItemKids(e)[i] = LeafItem(KnownKids(e)[i])
              /\ ItemKids(e)[i].form = KnownKids(e)[i].form
              /\ Fits(ItemKids(e)[i])
<1> DEFINE k == KnownKids(e)
<1>1. k \in Seq(KidType) /\ Len(k) \in Nat /\ DOMAIN k = 1 .. Len(k)
  BY KidsFacts
<1>2. \A i \in 1 .. Len(k) : k[i] \in KidType /\ LeafReadable(k[i])
  BY <1>1 DEF Readable
<1>3. ItemKids(e) = [i \in 1 .. Len(k) |-> LeafItem(k[i])]
  BY <1>1 DEF ItemKids
<1>4. e.form \notin Hubs => k = << >>
  BY NoHubNoKids
<1> HIDE DEF k
<1>5. ASSUME NEW i \in 1 .. Len(k)
      PROVE  LeafItem(k[i]) \in KidType /\ LeafItem(k[i]).form = k[i].form /\ Fits(LeafItem(k[i]))
  <2>1. k[i] \in KidType /\ LeafReadable(k[i]) /\ k[i].form \in DOMAIN Needs
    BY <1>2 DEF LeafReadable
  <2> QED
    BY <2>1, KidFacts
<1>6. ItemKids(e) \in Seq(KidType) /\ Len(ItemKids(e)) = Len(k)
  BY <1>1, <1>3, <1>5
<1>7. e.form \notin Hubs => ItemKids(e) = << >>
  <2> HAVE e.form \notin Hubs
  <2>1. Len(ItemKids(e)) = 0
    BY <1>4, <1>6
  <2> QED
    BY <1>6, <2>1
<1>8. \A i \in 1 .. Len(k) : ItemKids(e)[i] = LeafItem(k[i])
  BY <1>3
<1> QED
  BY <1>2, <1>5, <1>6, <1>7, <1>8 DEF k

\* Reading makes items, of the same class as the element.
LEMMA ItemFacts ==
  ASSUME NEW e \in ElementType, Readable(e)
  PROVE  /\ Item(e) \in ItemType
         /\ Item(e).form = e.form /\ Item(e).texts = e.texts
         /\ Item(e).parts = e.parts \cap Allowed(e.form)
         /\ Item(e).kids = ItemKids(e)
<1>1. LeafReadable(e) /\ e.form \in DOMAIN Needs
  BY DEF Readable, LeafReadable
<1> DEFINE l == LeafItem(e)
           x == Item(e)
<1>2. /\ l \in ElementType /\ l.form = e.form /\ l.texts = e.texts
      /\ l.parts = e.parts \cap Allowed(e.form) /\ Fits(l)
  BY <1>1, LeafFacts
<1>3. x = [l EXCEPT !.kids = ItemKids(e)]
  BY DEF Item, ItemKids
<1>4. /\ ItemKids(e) \in Seq(KidType) /\ Len(ItemKids(e)) = Len(KnownKids(e))
      /\ e.form \notin Hubs => ItemKids(e) = << >>
      /\ \A i \in 1 .. Len(ItemKids(e)) :
           ItemKids(e)[i].form = KnownKids(e)[i].form /\ Fits(ItemKids(e)[i])
  BY ItemKidsFacts
<1> HIDE DEF l, x
<1>5. /\ x \in ElementType /\ x.form = e.form /\ x.texts = e.texts
      /\ x.parts = l.parts /\ x.kids = ItemKids(e)
  BY <1>2, <1>3, <1>4, OtherKids
<1>6. KnownKids(x) = x.kids
  BY <1>4, <1>5, KidsClosed
<1>7. Fits(x)
  BY <1>2, <1>5 DEF Fits
<1>8. \A i \in DOMAIN x.kids : Fits(x.kids[i])
  BY <1>4, <1>5
<1> QED
  BY <1>2, <1>5, <1>6, <1>7, <1>8 DEF ItemType, x

\* An item read again is the same item.
LEMMA ItemAgain ==
  ASSUME NEW o \in ItemType
  PROVE  /\ o \in ElementType /\ Readable(o) /\ Item(o) = o
<1>1. /\ o \in ElementType /\ Fits(o) /\ KnownKids(o) = o.kids
      /\ \A i \in DOMAIN o.kids : Fits(o.kids[i])
  BY DEF ItemType
<1>2. o.kids \in Seq(KidType) /\ (o.form \notin Hubs => o.kids = << >>)
  BY <1>1, ElementFields
<1>3. ASSUME NEW i \in DOMAIN o.kids
      PROVE  LeafReadable(o.kids[i]) /\ LeafItem(o.kids[i]) = o.kids[i]
  <2>1. o.kids[i] \in KidType /\ Fits(o.kids[i]) /\ o.kids[i].form \in DOMAIN Needs
    BY <1>1, <1>2 DEF Fits
  <2> QED
    BY <2>1, KidFacts
<1>4. LeafReadable(o) /\ LeafItem(o) = o
  BY <1>1, LeafFacts DEF Fits
<1>5. Readable(o)
  BY <1>1, <1>3, <1>4 DEF Readable
<1>6. [i \in DOMAIN o.kids |-> LeafItem(o.kids[i])] = o.kids
  <2>1. [i \in DOMAIN o.kids |-> LeafItem(o.kids[i])] = [i \in DOMAIN o.kids |-> o.kids[i]]
    BY <1>3
  <2>2. [i \in DOMAIN o.kids |-> o.kids[i]] = o.kids
    BY <1>2
  <2> QED
    BY <2>1, <2>2
<1>7. Item(o) = [o EXCEPT !.kids = o.kids]
  BY <1>1, <1>4, <1>6 DEF Item
<1>8. [o EXCEPT !.kids = o.kids] = o
  BY <1>1, <1>2, OtherKids
<1> QED
  BY <1>1, <1>5, <1>7, <1>8

------------------------------------------------------------------------------
\* Writing an element without regard to what is inside.

\* The leaves that are written as they are.
Solid(e, series) ==
  /\ LastingLeaf(e) /\ e.form # "Language"
  /\ e.form = "Agent" => "keys" \in e.parts
  /\ e.form = "Title" => ~ series
  /\ e.form = "AdminMetadata" => ("encodingLevel" \in e.parts <=> "conventions" \in e.parts)

\* A part that only one form is read with is not one of an item of another form.
LEMMA OwnParts ==
  ASSUME NEW e, Fits(e)
  PROVE  /\ "titleKeys" \in e.parts => e.form = "Title"
         /\ "otherPrimary" \in e.parts => e.form = "Contribution"
         /\ "seriesMark" \in e.parts => e.form = "SeriesHub"
<1>1. e.form \in DOMAIN Needs /\ e.parts \subseteq Needs[e.form] \cup Takes[e.form]
  BY DEF Fits, Allowed
<1>2. Needs[e.form] \cap {"titleKeys", "otherPrimary", "seriesMark"} = {}
  BY <1>1 DEF Needs
<1>3. Takes[e.form] = CASE e.form = "AdminMetadata" -> {"status", "encodingLevel", "conventions", "local", "dates"}
       [] e.form = "Isbn"          -> {"status", "qualifier"}
       [] e.form = "Language"      -> {"part"}
       [] e.form = "Contribution"  -> {"type", "primary", "otherPrimary"}
       [] e.form = "Title"         -> {"sortKey", "titleKeys"}
       [] e.form = "Agent"         -> {"keys"}
       [] e.form = "ProvisionActivity" -> {"placeAbout", "placeValue"}
       [] e.form = "SeriesHub"     -> {"seriesMark"}
       [] OTHER               -> {}
  BY <1>1 DEF Takes
<1> HIDE DEF Fits
<1>4. e.form # "Title" => "titleKeys" \notin Takes[e.form]
  BY <1>3
<1>5. e.form # "Contribution" => "otherPrimary" \notin Takes[e.form]
  BY <1>3
<1>6. e.form # "SeriesHub" => "seriesMark" \notin Takes[e.form]
  BY <1>3
<1> QED
  BY <1>1, <1>2, <1>4, <1>5, <1>6

\* Texts are at rest when they are plain, and change on the next trip when not.
LEMMA AgedFacts ==
  ASSUME NEW t \in Texts
  PROVE  Aged(t) \in Texts /\ (Aged(t) = t <=> t = Plain)
<1>1. \A f \in Fates : t[f] \in Nat
  BY DEF Texts
<1>2. Aged(t) \in Texts /\ \A f \in Fates : Aged(t)[f] = IF t[f] = 0 THEN 0 ELSE t[f] - 1
  BY <1>1 DEF Aged, Texts
<1>3. ASSUME Aged(t) = t PROVE t = Plain
  <2>1. \A f \in Fates : t[f] = 0
    BY <1>1, <1>2, <1>3
  <2>2. t = [f \in Fates |-> t[f]]
    BY DEF Texts
  <2> QED
    BY <2>1, <2>2 DEF Plain
<1>4. ASSUME t = Plain PROVE Aged(t) = t
  <2>1. \A f \in Fates : t[f] = 0 /\ Aged(t)[f] = 0
    BY <1>2, <1>4 DEF Plain
  <2>2. Aged(t) = [f \in Fates |-> Aged(t)[f]] /\ t = [f \in Fates |-> t[f]]
    BY <1>2 DEF Texts
  <2> QED
    BY <2>1, <2>2
<1> QED
  BY <1>2, <1>3, <1>4

\* Writing changes the parts and the texts.
LEMMA WrittenLeafFields ==
  ASSUME NEW e \in ElementType, NEW series \in BOOLEAN
  PROVE  /\ WrittenParts(e, series) \cup Damage(e) \in SUBSET Parts
         /\ WrittenLeaf(e, series) \in ElementType
         /\ WrittenLeaf(e, series).form = e.form
         /\ WrittenLeaf(e, series).parts = WrittenParts(e, series) \cup Damage(e)
         /\ WrittenLeaf(e, series).texts = Aged(e.texts)
         /\ WrittenLeaf(e, series).kids = e.kids
         /\ WrittenParts(e, series) \cup Damage(e) = e.parts /\ e.texts = Plain => WrittenLeaf(e, series) = e
<1> DEFINE ps == WrittenParts(e, series) \cup Damage(e)
           w == WrittenLeaf(e, series)
<1>1. /\ e.form \in Forms /\ e.parts \in SUBSET Parts /\ e.texts \in Texts /\ e.kids \in Seq(KidType)
      /\ e = [form |-> e.form, parts |-> e.parts, texts |-> e.texts, kids |-> e.kids]
      /\ e.form \notin Hubs => e.kids = << >>
  BY ElementFields
<1>2. Damage(e) \in SUBSET Parts
  BY DEF Damage, Parts, Spoils
<1>3. WrittenParts(e, series) \in SUBSET Parts
  <2> DEFINE add == {"bf:value", "bareConventions", "emptyKeys", "nameKeys"}
  <2>1. add \subseteq Parts
    BY DEF Parts, Spoils
  <2>2. WrittenTitle(e.parts, series) \subseteq e.parts \cup add
    BY DEF WrittenTitle
  <2>3. WrittenAdmin(e.parts) \subseteq e.parts \cup add
    BY DEF WrittenAdmin
  <2> DEFINE a == WrittenTitle(e.parts, series)
             b == WrittenAdmin(e.parts)
  <2>4. WrittenParts(e, series) =
          CASE e.form = "Language"      -> (e.parts \ {"rdf:value"}) \cup {"bf:value"}
            [] e.form = "AdminMetadata" -> b
            [] e.form = "Agent"         -> IF "keys" \in e.parts THEN e.parts ELSE e.parts \cup {"emptyKeys"}
            [] e.form = "Title"         -> a
            [] e.form = "Contribution"  -> e.parts \ {"otherPrimary"}
            [] e.form = "SeriesHub"     -> e.parts \ {"seriesMark"}
            [] OTHER                    -> e.parts
    BY DEF WrittenParts
  <2> HIDE DEF a, b
  <2>5. a \subseteq e.parts \cup add /\ b \subseteq e.parts \cup add
    BY <2>2, <2>3 DEF a, b
  <2>6. WrittenParts(e, series) \subseteq e.parts \cup add
    BY <2>4, <2>5
  <2> QED
    BY <1>1, <2>1, <2>6
<1>4. ps \in SUBSET Parts
  BY <1>2, <1>3
<1>5. Aged(e.texts) \in Texts /\ (e.texts = Plain => Aged(e.texts) = e.texts)
  BY <1>1, AgedFacts
<1>6. w = [e EXCEPT !.parts = ps, !.texts = Aged(e.texts)]
  BY DEF WrittenLeaf
<1> HIDE DEF ps, w
<1>7. w = [form |-> e.form, parts |-> ps, texts |-> Aged(e.texts), kids |-> e.kids]
  BY <1>1, <1>6
<1>8. w \in ElementType
  BY <1>1, <1>4, <1>5, <1>7 DEF ElementType
<1>9. ps = e.parts /\ e.texts = Plain => w = e
  BY <1>1, <1>5, <1>7
<1> QED
  BY <1>4, <1>7, <1>8, <1>9 DEF ps, w

\* Of a leaf that is written and can be read, by form: what was lost and what is there.
LEMMA WrittenByForm ==
  ASSUME NEW e \in ElementType, Fits(e), NEW series \in BOOLEAN,
         NEW ps, ps = WrittenParts(e, series) \cup Damage(e)
  PROVE  /\ "otherPrimary" \notin ps /\ "seriesMark" \notin ps
         /\ ps \cap Spoils = {} =>
              /\ "titleKeys" \notin ps /\ "titleKeys" \notin e.parts
              /\ e.form = "Title" => ~ series
              /\ e.form = "Agent" => "keys" \in ps /\ "keys" \in e.parts
              /\ e.form = "AdminMetadata" => ("encodingLevel" \in ps <=> "conventions" \in ps)
         /\ e.form = "Language" => "rdf:value" \notin ps
         /\ Solid(e, series) => ps = e.parts
<1>1. /\ "titleKeys" \in e.parts => e.form = "Title"
      /\ "otherPrimary" \in e.parts => e.form = "Contribution"
      /\ "seriesMark" \in e.parts => e.form = "SeriesHub"
  BY OwnParts
<1>2. /\ Damage(e) \subseteq {"raw", "emptyKeys"} /\ Damage(e) \subseteq Spoils
      /\ {"raw", "emptyKeys", "nameKeys", "bareConventions"} \subseteq Spoils
      /\ e.texts = Plain => Damage(e) = {}
  BY DEF Damage, Spoils, Plain, Fates
<1>3. CASE e.form = "Language"
  <2>1. WrittenParts(e, series) = (e.parts \ {"rdf:value"}) \cup {"bf:value"}
    BY <1>3 DEF WrittenParts
  <2> QED
    BY <1>1, <1>2, <1>3, <2>1 DEF Solid
<1>4. CASE e.form = "AdminMetadata"
  <2>1. WrittenParts(e, series) = WrittenAdmin(e.parts)
    BY <1>4 DEF WrittenParts
  <2>2. WrittenAdmin(e.parts) = IF "encodingLevel" \in e.parts
             THEN IF "conventions" \in e.parts THEN e.parts ELSE e.parts \cup {"bareConventions"}
             ELSE e.parts \ {"conventions"}
    BY DEF WrittenAdmin
  <2>3. Solid(e, series) => /\ "encodingLevel" \in e.parts <=> "conventions" \in e.parts
                            /\ Damage(e) = {}
    BY <1>2, <1>4 DEF Solid, LastingLeaf
  <2>4. "otherPrimary" \notin e.parts /\ "seriesMark" \notin e.parts /\ "titleKeys" \notin e.parts
    BY <1>1, <1>4
  <2>5. CASE "encodingLevel" \in e.parts /\ "conventions" \notin e.parts
    BY <1>2, <1>4, <2>1, <2>2, <2>3, <2>4, <2>5
  <2>6. CASE "encodingLevel" \in e.parts /\ "conventions" \in e.parts
    BY <1>2, <1>4, <2>1, <2>2, <2>3, <2>4, <2>6
  <2>7. CASE "encodingLevel" \notin e.parts
    BY <1>2, <1>4, <2>1, <2>2, <2>3, <2>4, <2>7
  <2> QED
    BY <2>5, <2>6, <2>7
<1>5. CASE e.form = "Agent"
  <2>1. WrittenParts(e, series) = IF "keys" \in e.parts THEN e.parts ELSE e.parts \cup {"emptyKeys"}
    BY <1>5 DEF WrittenParts
  <2>2. Solid(e, series) => "keys" \in e.parts /\ Damage(e) = {}
    BY <1>2, <1>5 DEF Solid, LastingLeaf
  <2> QED
    BY <1>1, <1>2, <1>5, <2>1, <2>2
<1>6. CASE e.form = "Title"
  <2>1. WrittenParts(e, series) = IF series \/ "titleKeys" \in e.parts
                                    THEN (e.parts \ {"titleKeys"}) \cup {"nameKeys"} ELSE e.parts
    BY <1>6 DEF WrittenParts, WrittenTitle
  <2>2. Solid(e, series) => ~ series /\ "titleKeys" \notin e.parts /\ Damage(e) = {}
    BY <1>2, <1>6 DEF Solid, LastingLeaf
  <2> QED
    BY <1>1, <1>2, <1>6, <2>1, <2>2
<1>7. CASE e.form = "Contribution"
  <2>1. WrittenParts(e, series) = e.parts \ {"otherPrimary"}
    BY <1>7 DEF WrittenParts
  <2>2. Solid(e, series) => "otherPrimary" \notin e.parts /\ Damage(e) = {}
    BY <1>2 DEF Solid, LastingLeaf
  <2> QED
    BY <1>1, <1>2, <1>7, <2>1, <2>2
<1>8. CASE e.form = "SeriesHub"
  <2>1. WrittenParts(e, series) = e.parts \ {"seriesMark"}
    BY <1>8 DEF WrittenParts
  <2>2. Solid(e, series) => "seriesMark" \notin e.parts /\ Damage(e) = {}
    BY <1>2 DEF Solid, LastingLeaf
  <2> QED
    BY <1>1, <1>2, <1>8, <2>1, <2>2
<1>9. CASE e.form \notin {"Language", "AdminMetadata", "Agent", "Title", "Contribution", "SeriesHub"}
  <2>1. WrittenParts(e, series) = e.parts
    BY <1>9 DEF WrittenParts
  <2>2. Solid(e, series) => Damage(e) = {}
    BY <1>2 DEF Solid, LastingLeaf
  <2> QED
    BY <1>1, <1>2, <1>9, <2>1, <2>2
<1> QED
  BY <1>3, <1>4, <1>5, <1>6, <1>7, <1>8, <1>9

\* Leaves that are solid are written as they are; what has been written and read again is
\* solid as soon as its texts are plain, and is the same only if the leaf was solid.
LEMMA LeafTrip ==
  ASSUME NEW e \in ElementType, Fits(e), NEW series \in BOOLEAN,
         NEW w, w = WrittenLeaf(e, series)
  PROVE  /\ w \in ElementType /\ w.form = e.form /\ w.kids = e.kids
         /\ Solid(e, series) => w = e
         /\ LeafReadable(w) =>
              /\ LeafItem(w).texts = Plain => Solid(LeafItem(w), series)
              /\ LeafItem(w).parts = e.parts /\ LeafItem(w).texts = e.texts => Solid(e, series)
<1> DEFINE ps == WrittenParts(e, series) \cup Damage(e)
<1>1. /\ w \in ElementType /\ w.form = e.form /\ w.kids = e.kids
      /\ w.parts = ps /\ w.texts = Aged(e.texts)
      /\ ps = e.parts /\ e.texts = Plain => w = e
  BY WrittenLeafFields
<1> HIDE DEF ps
<1>2. /\ "otherPrimary" \notin ps /\ "seriesMark" \notin ps
      /\ ps \cap Spoils = {} =>
              /\ "titleKeys" \notin ps /\ "titleKeys" \notin e.parts
              /\ e.form = "Title" => ~ series
              /\ e.form = "Agent" => "keys" \in ps /\ "keys" \in e.parts
              /\ e.form = "AdminMetadata" => ("encodingLevel" \in ps <=> "conventions" \in ps)
      /\ e.form = "Language" => "rdf:value" \notin ps
      /\ Solid(e, series) => ps = e.parts
  BY WrittenByForm DEF ps
<1>3. Solid(e, series) => w = e
  BY <1>1, <1>2 DEF Solid, LastingLeaf
<1>4. ASSUME LeafReadable(w)
      PROVE  /\ LeafItem(w).texts = Plain => Solid(LeafItem(w), series)
             /\ LeafItem(w).parts = e.parts /\ LeafItem(w).texts = e.texts => Solid(e, series)
  <2> DEFINE x == LeafItem(w)
  <2>1. ps \cap Spoils = {} /\ Needs[w.form] \subseteq ps /\ w.form \in DOMAIN Needs
    BY <1>1, <1>4 DEF LeafReadable
  <2>2. x.form = e.form /\ x.texts = Aged(e.texts) /\ x.parts = ps \cap Allowed(e.form)
    BY <1>1, <2>1, LeafFacts
  <2>3. e.form # "Language"
    <3>1. Needs["Language"] = {"rdf:value"}
      BY DEF Needs
    <3> QED
      BY <1>1, <1>2, <2>1, <3>1
  <2>4. /\ e.form = "Agent" => "keys" \in Allowed(e.form)
        /\ e.form = "AdminMetadata" => {"encodingLevel", "conventions"} \subseteq Allowed(e.form)
    <3>1. "Agent" \in DOMAIN Needs /\ "AdminMetadata" \in DOMAIN Needs
      BY DEF Needs
    <3>2. Takes["Agent"] = {"keys"}
      BY <3>1 DEF Takes
    <3>3. Takes["AdminMetadata"] = {"status", "encodingLevel", "conventions", "local", "dates"}
      BY <3>1 DEF Takes
    <3> QED
      BY <3>2, <3>3 DEF Allowed
  <2> HIDE DEF x
  <2>5. /\ "otherPrimary" \notin x.parts /\ "seriesMark" \notin x.parts /\ "titleKeys" \notin x.parts
        /\ x.form = "Agent" => "keys" \in x.parts
        /\ x.form = "Title" => ~ series
        /\ x.form = "AdminMetadata" => ("encodingLevel" \in x.parts <=> "conventions" \in x.parts)
    BY <1>2, <2>1, <2>2, <2>4
  <2>6. x.texts = Plain => Solid(x, series)
    BY <2>2, <2>3, <2>5 DEF Solid, LastingLeaf
  <2>7. ASSUME x.parts = e.parts, x.texts = e.texts PROVE Solid(e, series)
    <3>1. e.texts = Plain
      BY <2>2, <2>7, AgedFacts, ElementFields
    <3> QED
      BY <2>2, <2>3, <2>5, <2>7, <3>1 DEF Solid, LastingLeaf
  <2> QED
    BY <2>6, <2>7 DEF x
<1> QED
  BY <1>1, <1>3, <1>4

------------------------------------------------------------------------------
\* Writing an item.

\* What becomes of an item o that is written as w: if it lasts, w is the item itself; if
\* w can be read, it is read as o only if o lasts, and as an item that is then written as
\* it is, if its texts are plain.
Rests(x) == \A y \in Inside(x) : y.texts = Plain

Outcome(o, w) ==
  /\ w \in ElementType /\ w.form \in DOMAIN Needs /\ w.form # "OtherIdentifier"
  /\ LastingItem(o) => w = o
  /\ Readable(w) => /\ Item(w) = o => LastingItem(o)
                    /\ Rests(Item(w)) => Written(Item(w)) = Item(w)

\* The element and what it is read with.
LEMMA InsideFacts ==
  ASSUME NEW e, NEW P
  PROVE  Inside(e) \subseteq P <=> e \in P /\ \A i \in DOMAIN KnownKids(e) : KnownKids(e)[i] \in P
BY DEF Inside

\* What is inside an item fits.
LEMMA KidsOfItem ==
  ASSUME NEW o \in ItemType
  PROVE  /\ o \in ElementType /\ Fits(o) /\ o.kids \in Seq(KidType) /\ KnownKids(o) = o.kids
         /\ DOMAIN o.kids = 1 .. Len(o.kids) /\ Len(o.kids) \in Nat
         /\ \A i \in DOMAIN o.kids : o.kids[i] \in KidType /\ Fits(o.kids[i])
         /\ o.form \notin Hubs => o.kids = << >>
         /\ o.form = "SeriesHub" => SeriesShape(o.kids)
<1>1. /\ o \in ElementType /\ Fits(o) /\ KnownKids(o) = o.kids
      /\ \A i \in DOMAIN o.kids : Fits(o.kids[i])
  BY DEF ItemType
<1>2. /\ o.kids \in Seq(KidType) /\ DOMAIN o.kids = 1 .. Len(o.kids) /\ Len(o.kids) \in Nat
      /\ \A i \in DOMAIN o.kids : o.kids[i] \in KidType
      /\ o.form \notin Hubs => o.kids = << >>
  BY <1>1, ElementFields
<1>3. o.form = "SeriesHub" => SeriesShape(KnownKids(o))
  BY <1>1, KidsFacts
<1> QED
  BY <1>1, <1>2, <1>3

\* Of a series with a contribution and a title only the contribution is written.
LEMMA SeriesKidsFacts ==
  ASSUME NEW k, SeriesShape(k)
  PROVE  /\ SeriesShape(SeriesKids(k)) /\ SeriesKids(SeriesKids(k)) = SeriesKids(k)
         /\ Len(SeriesKids(k)) <= 1
         /\ Len(k) <= 1 => SeriesKids(k) = k
         /\ \A i \in DOMAIN SeriesKids(k) : i \in DOMAIN k /\ SeriesKids(k)[i] = k[i]
<1>1. SeriesKids(k) = IF First(k, Names) # << >> THEN First(k, Names) ELSE k
  BY DEF SeriesKids, Names
<1>2. \A f \in Names : f \notin TitleForms
  BY DEF Names, TitleForms
<1>3. CASE k = << >>
  <2>1. First(<< >>, Names) = << >>
    BY OnlyOfFew DEF First
  <2>2. SeriesKids(k) = k
    BY <1>1, <1>3, <2>1
  <2> QED
    BY <1>3, <2>2
<1>4. ASSUME NEW a \in KidType, a.form \in Names \cup TitleForms
      PROVE  SeriesKids(<<a>>) = <<a>>
  <2>1. First(<<a>>, Names) = IF a.form \in Names THEN <<a>> ELSE << >>
    BY FirstOfOne
  <2>2. SeriesKids(<<a>>) = IF First(<<a>>, Names) # << >> THEN First(<<a>>, Names) ELSE <<a>>
    BY DEF SeriesKids, Names
  <2> QED
    BY <2>1, <2>2
<1>5. ASSUME NEW a \in KidType, a.form \in Names \cup TitleForms, k = <<a>>
      PROVE  /\ SeriesShape(SeriesKids(k)) /\ SeriesKids(SeriesKids(k)) = SeriesKids(k)
             /\ Len(SeriesKids(k)) <= 1
             /\ Len(k) <= 1 => SeriesKids(k) = k
             /\ \A i \in DOMAIN SeriesKids(k) : i \in DOMAIN k /\ SeriesKids(k)[i] = k[i]
  <2>1. SeriesKids(k) = k
    BY <1>4, <1>5
  <2>2. SeriesShape(k) /\ Len(k) <= 1
    BY <1>5
  <2> QED
    BY <2>1, <2>2
<1>6. ASSUME NEW a \in KidType, NEW b \in KidType, a.form \in Names, b.form \in TitleForms, k = <<a, b>>
      PROVE  /\ SeriesShape(SeriesKids(k)) /\ SeriesKids(SeriesKids(k)) = SeriesKids(k)
             /\ Len(SeriesKids(k)) <= 1
             /\ Len(k) <= 1 => SeriesKids(k) = k
             /\ \A i \in DOMAIN SeriesKids(k) : i \in DOMAIN k /\ SeriesKids(k)[i] = k[i]
  <2>1. First(<<a, b>>, Names) = <<a>>
    BY <1>6, FirstOfTwo
  <2>2. <<a>> # << >>
    OBVIOUS
  <2>3. SeriesKids(k) = <<a>>
    BY <1>1, <1>6, <2>1, <2>2
  <2>4. SeriesKids(<<a>>) = <<a>>
    BY <1>4, <1>6
  <2>5. SeriesShape(<<a>>)
    BY <1>6 DEF SeriesShape
  <2>6. Len(<<a>>) = 1 /\ Len(k) = 2 /\ DOMAIN <<a>> = {1} /\ <<a>>[1] = a /\ k[1] = a /\ 1 \in DOMAIN k
    BY <1>6
  <2> QED
    BY <2>3, <2>4, <2>5, <2>6
<1> QED
  BY <1>3, <1>5, <1>6 DEF SeriesShape

\* A leaf inside a hub stays one.
LEMMA KidTrip ==
  ASSUME NEW k \in KidType, Fits(k), NEW series \in BOOLEAN,
         NEW w, w = WrittenLeaf(k, series)
  PROVE  /\ w \in KidType /\ w.form = k.form
         /\ Solid(k, series) => w = k
         /\ LeafReadable(w) =>
              /\ LeafItem(w).texts = Plain => Solid(LeafItem(w), series)
              /\ LeafItem(w).parts = k.parts /\ LeafItem(w).texts = k.texts => Solid(k, series)
<1>1. k \in ElementType /\ k.kids = << >> /\ k.form \in TitleForms \cup {"Contribution", "Other"}
  BY KidsAreElements DEF KidType
<1>2. /\ w \in ElementType /\ w.form = k.form /\ w.kids = k.kids
      /\ Solid(k, series) => w = k
      /\ LeafReadable(w) =>
              /\ LeafItem(w).texts = Plain => Solid(LeafItem(w), series)
              /\ LeafItem(w).parts = k.parts /\ LeafItem(w).texts = k.texts => Solid(k, series)
  BY <1>1, LeafTrip
<1>3. w \in KidType
  BY <1>1, <1>2 DEF ElementType, KidType
<1> QED
  BY <1>2, <1>3

\* An item all of which is written.
Whole(o) == KidsToWrite(o) = o.kids

\* The fields of what it is written as.
LEMMA WrittenFields ==
  ASSUME NEW o \in ItemType, ~ Nodeless(o), Whole(o), o.form # "Topic"
  PROVE  /\ Written(o) \in ElementType /\ Written(o).form = o.form
         /\ Written(o).parts = WrittenLeaf(o, FALSE).parts
         /\ Written(o).texts = WrittenLeaf(o, FALSE).texts
         /\ Len(Written(o).kids) = Len(o.kids)
         /\ \A i \in 1 .. Len(o.kids) :
              Written(o).kids[i] = WrittenLeaf(o.kids[i], o.form = "SeriesHub")
         /\ KnownKids(Written(o)) = Written(o).kids
<1> DEFINE w == Written(o)
           series == (o.form = "SeriesHub")
           l == WrittenLeaf(o, FALSE)
           n == Len(o.kids)
           ks == [i \in 1 .. n |-> WrittenLeaf(o.kids[i], series)]
<1>1. /\ o \in ElementType /\ Fits(o) /\ o.kids \in Seq(KidType) /\ KnownKids(o) = o.kids
      /\ DOMAIN o.kids = 1 .. n /\ n \in Nat
      /\ \A i \in DOMAIN o.kids : o.kids[i] \in KidType /\ Fits(o.kids[i])
      /\ o.form \notin Hubs => o.kids = << >>
  BY KidsOfItem
<1>2. l \in ElementType /\ l.form = o.form /\ l.kids = o.kids
  BY <1>1, LeafTrip
<1>3. w = [l EXCEPT !.kids = ks]
  <2>1. KidsToWrite(o) = o.kids
    BY DEF Whole
  <2>2. Written(o) = [l EXCEPT !.kids = [i \in DOMAIN o.kids |-> WrittenLeaf(o.kids[i], o.form = "SeriesHub")]]
    BY <2>1 DEF Written
  <2> QED
    BY <1>1, <2>2
<1>4. series \in BOOLEAN
  OBVIOUS
<1>5. \A i \in 1 .. n : WrittenLeaf(o.kids[i], series) \in KidType /\ WrittenLeaf(o.kids[i], series).form = o.kids[i].form
  <2> TAKE i \in 1 .. n
  <2> DEFINE k == o.kids[i]
  <2>1. k \in KidType /\ Fits(k)
    BY <1>1
  <2> HIDE DEF k
  <2>2. WrittenLeaf(k, series) \in KidType /\ WrittenLeaf(k, series).form = k.form
    BY <1>4, <2>1, KidTrip
  <2> QED
    BY <2>2 DEF k
<1>6. ks \in Seq(KidType) /\ Len(ks) = n /\ \A i \in 1 .. n : ks[i] = WrittenLeaf(o.kids[i], series)
  <2> DEFINE W(k) == WrittenLeaf(k, series)
  <2>1. ks = [i \in 1 .. n |-> W(o.kids[i])] /\ \A i \in 1 .. n : W(o.kids[i]) \in KidType
    BY <1>5, Zenon
  <2> HIDE DEF W, n, ks
  <2>2. ks \in [1 .. n -> KidType] /\ \A i \in 1 .. n : ks[i] = W(o.kids[i])
    BY <2>1
  <2>3. ks \in Seq(KidType) /\ Len(ks) = n
    BY <1>1, <2>2
  <2> QED
    BY <2>2, <2>3 DEF W
<1>7. l.form \notin Hubs => ks = << >>
  <2> HAVE l.form \notin Hubs
  <2>1. o.kids = << >>
    BY <1>1, <1>2
  <2>2. n = 0
    BY <2>1
  <2> HIDE DEF ks
  <2> QED
    BY <1>6, <2>2
<1> HIDE DEF w, l, n, ks
<1>8. /\ w \in ElementType /\ w.form = l.form /\ w.parts = l.parts /\ w.texts = l.texts
      /\ w.kids = ks
  BY <1>2, <1>3, <1>6, <1>7, OtherKids
<1>9. KnownKids(w) = w.kids
  <2>1. /\ Len(w.kids) = Len(KnownKids(o))
        /\ \A i \in 1 .. Len(w.kids) : w.kids[i].form = KnownKids(o)[i].form
        /\ w.form = o.form
    BY <1>1, <1>2, <1>5, <1>6, <1>8 DEF n
  <2> QED
    BY <1>1, <1>8, <2>1, KidsClosed
<1> QED
  BY <1>2, <1>6, <1>8, <1>9 DEF w, l, n

\* Solid inside and out.
SolidItem(o) ==
  /\ o.form # "Topic" /\ Solid(o, FALSE)
  /\ \A i \in DOMAIN o.kids : Solid(o.kids[i], o.form = "SeriesHub")

\* A solid item is written as it is.
LEMMA SolidWritten ==
  ASSUME NEW o \in ItemType, ~ Nodeless(o), Whole(o), SolidItem(o)
  PROVE  Written(o) = o
<1> DEFINE w == Written(o)
           series == (o.form = "SeriesHub")
<1>1. /\ o \in ElementType /\ Fits(o) /\ o.kids \in Seq(KidType)
      /\ DOMAIN o.kids = 1 .. Len(o.kids) /\ Len(o.kids) \in Nat
      /\ \A i \in DOMAIN o.kids : o.kids[i] \in KidType /\ Fits(o.kids[i])
  BY KidsOfItem
<1>2. /\ w \in ElementType /\ w.form = o.form
      /\ w.parts = WrittenLeaf(o, FALSE).parts /\ w.texts = WrittenLeaf(o, FALSE).texts
      /\ Len(w.kids) = Len(o.kids)
      /\ \A i \in 1 .. Len(o.kids) : w.kids[i] = WrittenLeaf(o.kids[i], series)
  BY WrittenFields DEF SolidItem
<1>3. WrittenLeaf(o, FALSE) = o
  BY <1>1, LeafTrip DEF SolidItem
<1>4. \A i \in 1 .. Len(o.kids) : WrittenLeaf(o.kids[i], series) = o.kids[i]
  <2> TAKE i \in 1 .. Len(o.kids)
  <2> DEFINE k == o.kids[i]
  <2>1. k \in KidType /\ Fits(k) /\ Solid(k, series) /\ series \in BOOLEAN
    BY <1>1 DEF SolidItem
  <2> HIDE DEF k, series
  <2>2. WrittenLeaf(k, series) = k
    BY <2>1, KidTrip
  <2> QED
    BY <2>2 DEF k
<1> HIDE DEF w, series
<1>5. w.kids \in Seq(KidType)
  BY <1>2, ElementFields
<1>6. w.kids = o.kids
  <2>1. \A i \in 1 .. Len(o.kids) : w.kids[i] = o.kids[i]
    BY <1>2, <1>4
  <2> QED
    BY <1>1, <1>2, <1>5, <2>1
<1>7. w = [form |-> w.form, parts |-> w.parts, texts |-> w.texts, kids |-> w.kids]
  BY <1>2, ElementFields
<1>8. o = [form |-> o.form, parts |-> o.parts, texts |-> o.texts, kids |-> o.kids]
  BY <1>1, ElementFields
<1> QED
  BY <1>2, <1>3, <1>6, <1>7, <1>8 DEF w

\* To be solid is a matter of form, parts and texts.
LEMMA SolidSame ==
  ASSUME NEW a, NEW b, NEW series, a.form = b.form, a.parts = b.parts, a.texts = b.texts
  PROVE  Solid(a, series) => Solid(b, series)
BY DEF Solid, LastingLeaf

\* The forms of what is inside an item.
LEMMA KidForms ==
  ASSUME NEW o \in ItemType, NEW i \in DOMAIN o.kids
  PROVE  /\ o.kids[i].form \in Names \cup TitleForms
         /\ o.kids[i].form \notin {"Language", "Agent", "AdminMetadata", "Topic"}
<1>1. KnownKids(o) = o.kids /\ o \in ElementType
  BY KidsOfItem
<1>2. o.kids[i].form \in Names \cup TitleForms
  BY <1>1, KidsFacts
<1> QED
  BY <1>2 DEF Names, TitleForms

\* A lasting item is solid and written as a whole.
LEMMA LastingIsSolid ==
  ASSUME NEW o \in ItemType, LastingItem(o)
  PROVE  SolidItem(o) /\ Whole(o)
<1>1. KnownKids(o) = o.kids /\ (o.form = "SeriesHub" => SeriesShape(o.kids))
  BY KidsOfItem
<1>2. LastingLeaf(o) /\ \A i \in DOMAIN o.kids : LastingLeaf(o.kids[i])
  BY <1>1 DEF LastingItem, Inside
<1>3. Solid(o, FALSE) /\ o.form # "Topic"
  BY <1>2 DEF LastingItem, Solid
<1>4. ASSUME NEW i \in DOMAIN o.kids PROVE Solid(o.kids[i], o.form = "SeriesHub")
  <2>1. o.kids[i].form \notin {"Language", "Agent", "AdminMetadata"}
    BY KidForms
  <2>2. o.form = "SeriesHub" => o.kids[i].form # "Title"
    BY DEF LastingItem
  <2> QED
    BY <1>2, <2>1, <2>2 DEF Solid
<1>5. Whole(o)
  <2>1. CASE o.form = "SeriesHub"
    <3>1. SeriesKids(o.kids) = o.kids
      BY <1>1, <2>1, SeriesKidsFacts DEF LastingItem
    <3> QED
      BY <2>1, <3>1 DEF Whole, KidsToWrite
  <2>2. CASE o.form # "SeriesHub"
    BY <2>2 DEF Whole, KidsToWrite
  <2> QED
    BY <2>1, <2>2
<1> QED
  BY <1>3, <1>4, <1>5 DEF SolidItem

\* And the other way round, once a series has been marked.
LEMMA SolidIsLasting ==
  ASSUME NEW o \in ItemType, SolidItem(o), Whole(o), Marked(o) = o
  PROVE  LastingItem(o)
<1>1. /\ KnownKids(o) = o.kids /\ (o.form = "SeriesHub" => SeriesShape(o.kids))
      /\ o \in ElementType /\ o.parts \in SUBSET Parts
  BY KidsOfItem, ElementFields
<1>2. LastingLeaf(o) /\ \A i \in DOMAIN o.kids : LastingLeaf(o.kids[i])
  BY DEF SolidItem, Solid
<1>3. \A x \in Inside(o) : LastingLeaf(x)
  BY <1>1, <1>2 DEF Inside
<1>4. ASSUME o.form = "SeriesHub"
      PROVE  Len(o.kids) <= 1 /\ \A i \in DOMAIN o.kids : o.kids[i].form = "Contribution"
  <2>1. SeriesKids(o.kids) = o.kids
    BY <1>4 DEF Whole, KidsToWrite
  <2>2. Len(o.kids) <= 1
    BY <1>1, <1>4, <2>1, SeriesKidsFacts
  <2>3. "seriesMark" \notin o.parts
    BY <1>2 DEF LastingLeaf
  <2>4. o.kids # << >> => First(o.kids, {"Contribution"}) # << >>
    <3> SUFFICES ASSUME o.kids # << >>, First(o.kids, {"Contribution"}) = << >> PROVE FALSE
      OBVIOUS
    <3> DEFINE ps == o.parts \cup {"seriesMark"}
    <3>1. Marked(o) = [o EXCEPT !.parts = ps]
      BY <1>4 DEF Marked
    <3>2. ps \in SUBSET Parts
      <4>1. "SeriesHub" \in DOMAIN Needs
        BY DEF Needs
      <4>2. "seriesMark" \in Takes["SeriesHub"]
        BY <4>1 DEF Takes
      <4> QED
        BY <1>1, <4>1, <4>2 DEF Parts
    <3> HIDE DEF ps
    <3>3. [o EXCEPT !.parts = ps].parts = ps
      BY <1>1, <3>2, OtherParts
    <3>4. o.parts = ps
      BY <3>1, <3>3
    <3> QED
      BY <2>3, <3>4 DEF ps
  <2>5. CASE o.kids = << >>
    BY <2>2, <2>5
  <2>6. ASSUME NEW a \in KidType, o.kids = <<a>>
        PROVE  \A i \in DOMAIN o.kids : o.kids[i].form = "Contribution"
    <3>1. First(<<a>>, {"Contribution"}) = IF a.form \in {"Contribution"} THEN <<a>> ELSE << >>
      BY FirstOfOne
    <3>2. o.kids # << >>
      BY <2>6
    <3>3. a.form = "Contribution"
      BY <2>4, <2>6, <3>1, <3>2
    <3> QED
      BY <2>6, <3>3
  <2>7. o.kids = << >> \/ \E a \in KidType : o.kids = <<a>>
    <3>1. ASSUME NEW a \in KidType, NEW b \in KidType, o.kids = <<a, b>> PROVE FALSE
      BY <2>2, <3>1
    <3> QED
      BY <1>1, <1>4, <3>1 DEF SeriesShape
  <2> QED
    BY <2>2, <2>5, <2>6, <2>7
<1> QED
  BY <1>3, <1>4 DEF LastingItem, SolidItem, Solid

\* What an item is read as when it is read after having been written: it is solid if its
\* texts are plain, and the same only if the item was solid.
LEMMA ReadAgain ==
  ASSUME NEW o \in ItemType, ~ Nodeless(o), Whole(o), o.form # "Topic",
         NEW w, w = Written(o), Readable(w), NEW x, x = Item(w)
  PROVE  /\ x \in ItemType
         /\ Rests(x) => SolidItem(x) /\ Whole(x) /\ ~ Nodeless(x)
         /\ x = o => SolidItem(o)
<1> DEFINE series == (o.form = "SeriesHub")
           l == WrittenLeaf(o, FALSE)
           n == Len(o.kids)
<1>1. /\ o \in ElementType /\ Fits(o) /\ o.kids \in Seq(KidType)
      /\ DOMAIN o.kids = 1 .. n /\ n \in Nat
      /\ \A i \in DOMAIN o.kids : o.kids[i] \in KidType /\ Fits(o.kids[i])
      /\ o.form = "SeriesHub" => SeriesShape(o.kids)
  BY KidsOfItem
<1>2. /\ w \in ElementType /\ w.form = o.form /\ w.parts = l.parts /\ w.texts = l.texts
      /\ Len(w.kids) = n /\ KnownKids(w) = w.kids
      /\ \A i \in 1 .. n : w.kids[i] = WrittenLeaf(o.kids[i], series)
  BY WrittenFields
<1>3. /\ x \in ItemType /\ x.form = w.form /\ x.texts = w.texts
      /\ x.parts = w.parts \cap Allowed(w.form) /\ x.kids = ItemKids(w)
  BY <1>2, ItemFacts
<1>4. /\ x.kids \in Seq(KidType) /\ Len(x.kids) = n /\ DOMAIN x.kids = 1 .. n
      /\ \A i \in 1 .. n : x.kids[i] = LeafItem(w.kids[i]) /\ x.kids[i].form = w.kids[i].form
                           /\ LeafReadable(w.kids[i])
  <2>1. /\ ItemKids(w) \in Seq(KidType) /\ Len(ItemKids(w)) = Len(KnownKids(w))
        /\ \A i \in 1 .. Len(ItemKids(w)) : /\ ItemKids(w)[i] = LeafItem(KnownKids(w)[i])
                                            /\ ItemKids(w)[i].form = KnownKids(w)[i].form
    BY <1>2, ItemKidsFacts
  <2>2. w.kids \in Seq(KidType)
    BY <1>2, ElementFields
  <2>3. \A i \in DOMAIN w.kids : LeafReadable(w.kids[i])
    BY <1>2 DEF Readable
  <2> HIDE DEF n
  <2> QED
    BY <1>1, <1>2, <1>3, <2>1, <2>2, <2>3
<1>5. /\ l \in ElementType /\ l.form = o.form
      /\ Solid(o, FALSE) => l = o
      /\ LeafReadable(l) =>
              /\ LeafItem(l).texts = Plain => Solid(LeafItem(l), FALSE)
              /\ LeafItem(l).parts = o.parts /\ LeafItem(l).texts = o.texts => Solid(o, FALSE)
  BY <1>1, LeafTrip
<1>6. LeafReadable(l)
  BY <1>2, <1>5 DEF Readable, LeafReadable
<1>7. LeafItem(l).form = x.form /\ LeafItem(l).parts = x.parts /\ LeafItem(l).texts = x.texts
  <2>1. l.form \in DOMAIN Needs
    BY <1>6 DEF LeafReadable
  <2> HIDE DEF l
  <2>2. LeafItem(l).form = l.form /\ LeafItem(l).texts = l.texts /\ LeafItem(l).parts = l.parts \cap Allowed(l.form)
    BY <1>5, <2>1, LeafFacts
  <2> QED
    BY <1>2, <1>3, <1>5, <2>2
<1>8. ASSUME NEW i \in 1 .. n
      PROVE  /\ x.kids[i].form = o.kids[i].form
             /\ x.kids[i].texts = Plain => Solid(x.kids[i], series)
             /\ x.kids[i] = o.kids[i] => Solid(o.kids[i], series)
  <2> DEFINE k == o.kids[i]
             m == WrittenLeaf(k, series)
  <2>1. k \in KidType /\ Fits(k) /\ series \in BOOLEAN
    BY <1>1, <1>8
  <2>2. w.kids[i] = m /\ x.kids[i] = LeafItem(m) /\ x.kids[i].form = m.form /\ LeafReadable(m)
    BY <1>2, <1>4, <1>8
  <2> HIDE DEF k, series, n
  <2>3. /\ m.form = k.form
        /\ LeafReadable(m) =>
              /\ LeafItem(m).texts = Plain => Solid(LeafItem(m), series)
              /\ LeafItem(m).parts = k.parts /\ LeafItem(m).texts = k.texts => Solid(k, series)
    BY <2>1, KidTrip
  <2> HIDE DEF m
  <2>4. /\ x.kids[i].form = k.form
        /\ x.kids[i].texts = Plain => Solid(x.kids[i], series)
        /\ x.kids[i] = k => Solid(k, series)
    BY <2>2, <2>3
  <2> QED
    BY <2>4 DEF k
<1> HIDE DEF l
<1>9. ASSUME Rests(x) PROVE SolidItem(x) /\ Whole(x) /\ ~ Nodeless(x)
  <2>1. KnownKids(x) = x.kids
    BY <1>3, KidsOfItem
  <2>2. x.texts = Plain /\ \A i \in 1 .. n : x.kids[i].texts = Plain
    BY <1>4, <1>9, <2>1 DEF Rests, Inside
  <2>3. Solid(x, FALSE)
    BY <1>5, <1>6, <1>7, <2>2, SolidSame
  <2>4. x.form = o.form
    BY <1>2, <1>3
  <2>5. SolidItem(x)
    <3>1. \A i \in DOMAIN x.kids : Solid(x.kids[i], series)
      BY <1>4, <1>8, <2>2
    <3>2. \A i \in DOMAIN x.kids : Solid(x.kids[i], x.form = "SeriesHub")
      BY <2>4, <3>1
    <3> QED
      BY <2>3, <2>4, <3>2 DEF SolidItem
  <2>6. Whole(x)
    <3>1. CASE o.form = "SeriesHub"
      <4>1. SeriesKids(o.kids) = o.kids
        BY <3>1 DEF Whole, KidsToWrite
      <4>2. n <= 1
        BY <1>1, <3>1, <4>1, SeriesKidsFacts
      <4>3. SeriesShape(x.kids)
        BY <1>3, <2>4, <3>1, KidsOfItem
      <4>4. Len(x.kids) <= 1
        BY <1>4, <4>2
      <4>5. SeriesKids(x.kids) = x.kids
        BY <4>3, <4>4, SeriesKidsFacts
      <4> QED
        BY <2>4, <3>1, <4>5 DEF Whole, KidsToWrite
    <3>2. CASE o.form # "SeriesHub"
      BY <2>4, <3>2 DEF Whole, KidsToWrite
    <3> QED
      BY <3>1, <3>2
  <2>7. ~ Nodeless(x)
    <3>1. Plain["empties"] = 0
      BY DEF Plain, Fates
    <3>2. x.form # "OtherIdentifier"
      BY <2>4 DEF Nodeless
    <3>3. ~ Empty(x) /\ \A i \in DOMAIN x.kids : ~ Empty(x.kids[i])
      BY <1>4, <2>2, <3>1 DEF Empty
    <3> QED
      BY <2>6, <3>2, <3>3 DEF Nodeless, Whole
  <2> QED
    BY <2>5, <2>6, <2>7
<1>10. ASSUME x = o PROVE SolidItem(o)
  <2>1. Solid(o, FALSE)
    BY <1>5, <1>6, <1>7, <1>10
  <2>2. \A i \in DOMAIN o.kids : Solid(o.kids[i], series)
    BY <1>1, <1>8, <1>10
  <2> QED
    BY <2>1, <2>2 DEF SolidItem
<1> QED
  BY <1>3, <1>9, <1>10

\* What becomes of an item that is written as a whole.
LEMMA WholeTrip ==
  ASSUME NEW o \in ItemType, ~ Nodeless(o), Whole(o)
  PROVE  /\ Written(o) \in ElementType /\ Written(o).form \in DOMAIN Needs
         /\ Written(o).form # "OtherIdentifier"
         /\ SolidItem(o) => Written(o) = o
         /\ Readable(Written(o)) =>
              /\ Item(Written(o)) = o => SolidItem(o)
              /\ Rests(Item(Written(o))) => Written(Item(Written(o))) = Item(Written(o))
<1> DEFINE w == Written(o)
<1>1. o \in ElementType /\ Fits(o) /\ o.form \in DOMAIN Needs /\ o.form # "OtherIdentifier"
  BY KidsOfItem DEF Fits, Nodeless
<1>2. CASE o.form = "Topic"
  <2> DEFINE l == WrittenLeaf(o, FALSE)
             ps == {"about", "labels", "emptyKeys"} \cup Damage(o)
  <2>1. ps \in SUBSET Parts /\ "emptyKeys" \in ps /\ "emptyKeys" \in Spoils
    BY DEF Damage, Parts, Spoils, Needs
  <2>2. "Agent" \in DOMAIN Needs /\ "Agent" \notin Hubs /\ "Agent" \in Forms /\ o.form \notin Hubs
    BY <1>2 DEF Needs, Hubs, Forms
  <2>3. w = [l EXCEPT !.form = "Agent", !.parts = ps]
    BY <1>2 DEF Written
  <2>4. l \in ElementType /\ l.form = o.form
    BY <1>1, LeafTrip
  <2> HIDE DEF l, ps, w
  <2>5. /\ l.texts \in Texts /\ l.kids = << >>
        /\ l = [form |-> l.form, parts |-> l.parts, texts |-> l.texts, kids |-> l.kids]
    BY <2>2, <2>4, ElementFields
  <2>6. w = [form |-> "Agent", parts |-> ps, texts |-> l.texts, kids |-> << >>]
    BY <2>3, <2>5
  <2>7. w \in ElementType /\ w.form = "Agent" /\ w.parts = ps
    <3>1. << >> \in Seq(KidType)
      OBVIOUS
    <3> QED
      BY <2>1, <2>2, <2>5, <2>6, <3>1 DEF ElementType
  <2>8. ~ Readable(w)
    BY <2>1, <2>7 DEF Readable, LeafReadable
  <2>9. ~ SolidItem(o)
    BY <1>2 DEF SolidItem
  <2> QED
    BY <2>2, <2>7, <2>8, <2>9 DEF w
<1>3. CASE o.form # "Topic"
  <2>1. w \in ElementType /\ w.form = o.form
    BY <1>3, WrittenFields
  <2>2. SolidItem(o) => w = o
    BY SolidWritten
  <2>3. ASSUME Readable(w)
        PROVE  /\ Item(w) = o => SolidItem(o)
               /\ Rests(Item(w)) => Written(Item(w)) = Item(w)
    <3> DEFINE x == Item(w)
    <3>1. /\ x \in ItemType
          /\ Rests(x) => SolidItem(x) /\ Whole(x) /\ ~ Nodeless(x)
          /\ x = o => SolidItem(o)
      BY <1>3, <2>3, ReadAgain
    <3> HIDE DEF x
    <3>2. Rests(x) => Written(x) = x
      BY <3>1, SolidWritten
    <3> QED
      BY <3>1, <3>2 DEF x
  <2> QED
    BY <1>1, <2>1, <2>2, <2>3
<1> QED
  BY <1>2, <1>3

\* Of an item of which not all is written as much comes back as of one with no more to it.
LEMMA AnyTrip ==
  ASSUME NEW o \in ItemType, ~ Nodeless(o)
  PROVE  /\ Written(o) \in ElementType /\ Written(o).form \in DOMAIN Needs
         /\ Written(o).form # "OtherIdentifier"
         /\ LastingItem(o) => Written(o) = o
         /\ Readable(Written(o)) =>
              /\ Item(Written(o)) = o => SolidItem(o) /\ Whole(o)
              /\ Rests(Item(Written(o))) => Written(Item(Written(o))) = Item(Written(o))
<1> DEFINE w == Written(o)
<1>1. CASE Whole(o)
  BY <1>1, WholeTrip, LastingIsSolid
<1>2. CASE ~ Whole(o)
  <2> DEFINE ks == SeriesKids(o.kids)
             v == [o EXCEPT !.kids = ks]
             l == WrittenLeaf(o, FALSE)
  <2>1. o.form = "SeriesHub" /\ ks # o.kids /\ KidsToWrite(o) = ks
    BY <1>2 DEF Whole, KidsToWrite
  <2>2. /\ o \in ElementType /\ Fits(o) /\ SeriesShape(o.kids) /\ o.kids \in Seq(KidType)
        /\ \A i \in DOMAIN o.kids : Fits(o.kids[i])
    BY <2>1, KidsOfItem
  <2>3. /\ SeriesShape(ks) /\ SeriesKids(ks) = ks /\ Len(ks) <= 1
        /\ Len(o.kids) <= 1 => ks = o.kids
        /\ \A i \in DOMAIN ks : i \in DOMAIN o.kids /\ ks[i] = o.kids[i]
    BY <2>2, SeriesKidsFacts
  <2> HIDE DEF ks
  <2>4. ks \in Seq(KidType)
    <3>1. << >> \in Seq(KidType) /\ (\A a \in KidType : <<a>> \in Seq(KidType))
          /\ (\A a, b \in KidType : <<a, b>> \in Seq(KidType))
      OBVIOUS
    <3> QED
      BY <2>3, <3>1, Zenon DEF SeriesShape
  <2>5. "SeriesHub" \in Hubs
    BY DEF Hubs
  <2>6. /\ v \in ElementType /\ v.form = o.form /\ v.parts = o.parts /\ v.texts = o.texts
        /\ v.kids = ks
    BY <2>1, <2>2, <2>4, <2>5, OtherKids
  <2> HIDE DEF v
  <2>7. v \in ItemType
    <3>1. KnownKids(v) = First(v.kids, Names) \o First(v.kids, TitleForms)
      BY <2>1, <2>6 DEF KnownKids, Names
    <3>2. KnownKids(v) = v.kids
      BY <2>3, <2>6, <3>1, SeriesAgain
    <3>3. Fits(v) /\ \A i \in DOMAIN v.kids : Fits(v.kids[i])
      BY <2>2, <2>3, <2>6 DEF Fits
    <3> QED
      BY <2>6, <3>2, <3>3 DEF ItemType
  <2>8. KidsToWrite(v) = ks
    BY <2>1, <2>3, <2>6 DEF KidsToWrite
  <2>9. Whole(v) /\ ~ Nodeless(v)
    BY <2>1, <2>6, <2>8 DEF Whole, Nodeless, Empty
  <2>10. Written(v) = w
    <3> DEFINE m == WrittenLeaf(v, FALSE)
               us == [i \in DOMAIN ks |-> WrittenLeaf(ks[i], TRUE)]
    <3>1. o.form # "Topic" /\ v.form # "Topic" /\ v.form = "SeriesHub"
      BY <2>1, <2>6
    <3>2. w = [l EXCEPT !.kids = us] /\ Written(v) = [m EXCEPT !.kids = us]
      BY <2>1, <2>8, <2>9, <3>1 DEF Written
    <3>3. WrittenParts(o, FALSE) = WrittenParts(v, FALSE) /\ Damage(o) = Damage(v)
      BY <2>6 DEF WrittenParts, Damage
    <3>4. /\ l \in ElementType /\ l.form = o.form /\ l.texts = Aged(o.texts)
          /\ l.parts = WrittenParts(o, FALSE) \cup Damage(o)
      BY <2>2, WrittenLeafFields
    <3>5. /\ m \in ElementType /\ m.form = v.form /\ m.texts = Aged(v.texts)
          /\ m.parts = WrittenParts(v, FALSE) \cup Damage(v)
      BY <2>6, WrittenLeafFields
    <3> HIDE DEF l, m, us, w
    <3>6. l.form = m.form /\ l.parts = m.parts /\ l.texts = m.texts
      BY <2>6, <3>3, <3>4, <3>5
    <3>7. /\ l = [form |-> l.form, parts |-> l.parts, texts |-> l.texts, kids |-> l.kids]
          /\ m = [form |-> m.form, parts |-> m.parts, texts |-> m.texts, kids |-> m.kids]
      BY <3>4, <3>5, ElementFields
    <3> QED
      BY <3>2, <3>6, <3>7
  <2>11. /\ w \in ElementType /\ w.form \in DOMAIN Needs /\ w.form # "OtherIdentifier"
         /\ Readable(w) => (Rests(Item(w)) => Written(Item(w)) = Item(w))
    <3> HIDE DEF w
    <3> QED
      BY <2>7, <2>9, <2>10, WholeTrip
  <2>12. Readable(w) => Item(w) # o
    <3> HAVE Readable(w)
    <3>1. Len(w.kids) = Len(v.kids) /\ KnownKids(w) = w.kids
      <4>1. v.form # "Topic"
        BY <2>1, <2>6
      <4> HIDE DEF w
      <4> QED
        BY <2>7, <2>9, <2>10, <4>1, WrittenFields
    <3>2. Item(w).kids = ItemKids(w) /\ Len(ItemKids(w)) = Len(KnownKids(w))
      BY <2>11, ItemFacts, ItemKidsFacts
    <3>3. Len(Item(w).kids) <= 1
      BY <2>3, <2>6, <3>1, <3>2
    <3>4. ~ (Len(o.kids) <= 1)
      BY <2>1, <2>3
    <3> QED
      BY <3>3, <3>4
  <2>13. ~ LastingItem(o)
    BY <1>2, LastingIsSolid
  <2> QED
    BY <2>11, <2>12, <2>13 DEF w
<1> QED
  BY <1>1, <1>2

\* What becomes of any item, a series being marked.
LEMMA WrittenFacts ==
  ASSUME NEW o \in ItemType, ~ Nodeless(o), Marked(o) = o
  PROVE  Outcome(o, Written(o))
<1> DEFINE w == Written(o)
<1>1. /\ w \in ElementType /\ w.form \in DOMAIN Needs /\ w.form # "OtherIdentifier"
      /\ LastingItem(o) => w = o
      /\ Readable(w) =>
           /\ Item(w) = o => SolidItem(o) /\ Whole(o)
           /\ Rests(Item(w)) => Written(Item(w)) = Item(w)
  BY AnyTrip
<1>2. SolidItem(o) /\ Whole(o) => LastingItem(o)
  BY SolidIsLasting
<1> HIDE DEF w
<1>3. Outcome(o, w)
  BY <1>1, <1>2 DEF Outcome
<1> QED
  BY <1>3 DEF w

\* The items that have no element.
LEMMA WrittenNull ==
  ASSUME NEW o \in ItemType
  PROVE  Written(o) = Null <=> Nodeless(o)
<1>1. Nodeless(o) => Written(o) = Null
  BY DEF Written
<1>2. ~ Nodeless(o) => Written(o) \in ElementType
  BY AnyTrip
<1> QED
  BY <1>1, <1>2, NullAssumption

\* Marking a series.
LEMMA MarkedFacts ==
  ASSUME NEW o \in ItemType
  PROVE  /\ Marked(o) \in ItemType /\ Marked(Marked(o)) = Marked(o)
         /\ Nodeless(Marked(o)) <=> Nodeless(o)
<1>1. /\ o \in ElementType /\ Fits(o) /\ KnownKids(o) = o.kids
      /\ \A i \in DOMAIN o.kids : Fits(o.kids[i])
      /\ o.parts \in SUBSET Parts
  BY KidsOfItem, ElementFields
<1>2. CASE Marked(o) = o
  BY <1>2
<1>3. CASE Marked(o) # o
  <2> DEFINE ps == o.parts \cup {"seriesMark"}
             m == [o EXCEPT !.parts = ps]
  <2>1. /\ o.form = "SeriesHub" /\ o.kids # << >> /\ First(o.kids, {"Contribution"}) = << >>
        /\ Marked(o) = m
    BY <1>3 DEF Marked
  <2>2. "seriesMark" \in Allowed("SeriesHub") /\ "SeriesHub" \in DOMAIN Needs
    <3>1. "SeriesHub" \in DOMAIN Needs
      BY DEF Needs
    <3>2. "seriesMark" \in Takes["SeriesHub"]
      BY <3>1 DEF Takes
    <3> QED
      BY <3>1, <3>2 DEF Allowed
  <2>3. ps \in SUBSET Parts
    BY <1>1, <2>2, NoneSpoils
  <2> HIDE DEF ps
  <2>4. /\ m \in ElementType /\ m.form = o.form /\ m.parts = ps /\ m.texts = o.texts /\ m.kids = o.kids
    BY <1>1, <2>3, OtherParts
  <2>5. Marked(m) = m
    <3>1. ps \cup {"seriesMark"} = ps
      BY DEF ps
    <3>2. Marked(m) = [m EXCEPT !.parts = ps]
      <4> HIDE DEF m
      <4> QED
        BY <2>1, <2>4, <3>1 DEF Marked
    <3> HIDE DEF m
    <3> QED
      BY <2>4, <3>2, OtherParts, <2>3
  <2> HIDE DEF m
  <2>6. KnownKids(m) = m.kids
    BY <1>1, <2>4 DEF KnownKids
  <2>7. Fits(m)
    BY <1>1, <2>1, <2>2, <2>4 DEF Fits, ps
  <2>8. m \in ItemType
    BY <1>1, <2>4, <2>6, <2>7 DEF ItemType
  <2>9. KidsToWrite(m) = KidsToWrite(o)
    BY <2>4 DEF KidsToWrite
  <2>10. Nodeless(m) <=> Nodeless(o)
    BY <2>4, <2>9 DEF Nodeless, Empty
  <2> QED
    BY <2>1, <2>5, <2>8, <2>10
<1> QED
  BY <1>2, <1>3

------------------------------------------------------------------------------
\* Prefixes.

\* Fewer parts need no other prefixes.
LEMMA FewerPrefixes ==
  ASSUME NEW a, NEW b, a.form = b.form, a.parts \subseteq b.parts
  PROVE  LeafAsks(a) \subseteq LeafAsks(b) /\ LeafUses(a) \subseteq LeafUses(b)
<1>1. LeafAsks(a) \subseteq LeafAsks(b)
  BY DEF LeafAsks
<1>2. LeafUses(a) \subseteq LeafUses(b)
  BY DEF LeafUses
<1> QED
  BY <1>1, <1>2

\* An item needs no other prefixes than the element that it was read from, and has no text
\* that is no XML.
LEMMA ItemPrefixes ==
  ASSUME NEW e \in ElementType, Readable(e)
  PROVE  /\ Asks(Item(e)) \subseteq Asks(e) /\ Uses(Item(e)) \subseteq Uses(e)
         /\ \A y \in Inside(Item(e)) : "raw" \notin y.parts
<1> DEFINE x == Item(e)
<1>1. /\ x \in ItemType /\ x.form = e.form /\ x.parts = e.parts \cap Allowed(e.form)
      /\ x.kids = ItemKids(e)
  BY ItemFacts
<1>2. /\ ItemKids(e) \in Seq(KidType) /\ Len(ItemKids(e)) = Len(KnownKids(e))
      /\ \A i \in 1 .. Len(ItemKids(e)) :
              /\ KnownKids(e)[i] \in KidType
              /\ ItemKids(e)[i] = LeafItem(KnownKids(e)[i])
              /\ ItemKids(e)[i].form = KnownKids(e)[i].form
  BY ItemKidsFacts
<1>3. KnownKids(e) \in Seq(KidType)
  BY KidsFacts
<1> HIDE DEF x
<1>4. KnownKids(x) = x.kids /\ Fits(x) /\ \A i \in DOMAIN x.kids : Fits(x.kids[i])
  BY <1>1, KidsOfItem
<1>5. ASSUME NEW y \in Inside(x)
      PROVE  /\ Fits(y) /\ \E z \in Inside(e) : y.form = z.form /\ y.parts \subseteq z.parts
  <2>1. CASE y = x
    BY <1>1, <1>4, <2>1 DEF Inside
  <2>2. ASSUME NEW i \in DOMAIN x.kids, y = x.kids[i]
        PROVE  Fits(y) /\ \E z \in Inside(e) : y.form = z.form /\ y.parts \subseteq z.parts
    <3> DEFINE z == KnownKids(e)[i]
    <3>1. /\ i \in 1 .. Len(ItemKids(e)) /\ i \in DOMAIN KnownKids(e) /\ z \in Inside(e)
      BY <1>1, <1>2, <1>3, <2>2 DEF Inside
    <3>2. y = LeafItem(z) /\ y.form = z.form /\ z \in KidType /\ Fits(y)
      BY <1>1, <1>2, <1>4, <2>2, <3>1
    <3> HIDE DEF z
    <3>3. y.parts = z.parts \cap Allowed(z.form)
      <4>1. z \in ElementType /\ z.form \in DOMAIN Needs
        BY <3>2, KidsAreElements DEF Fits
      <4> QED
        BY <3>2, <4>1, LeafFacts
    <3> QED
      BY <3>1, <3>2, <3>3
  <2> QED
    BY <1>4, <2>1, <2>2 DEF Inside
<1>6. ASSUME NEW y \in Inside(x) PROVE LeafAsks(y) \subseteq Asks(e) /\ LeafUses(y) \subseteq Uses(e)
  <2>1. PICK z \in Inside(e) : y.form = z.form /\ y.parts \subseteq z.parts
    BY <1>5
  <2>2. LeafAsks(y) \subseteq LeafAsks(z) /\ LeafUses(y) \subseteq LeafUses(z)
    BY <2>1, FewerPrefixes
  <2> QED
    BY <2>1, <2>2 DEF Asks, Uses
<1>7. ASSUME NEW y \in Inside(x) PROVE "raw" \notin y.parts
  <2>1. y.form \in DOMAIN Needs /\ y.parts \subseteq Allowed(y.form)
    BY <1>5 DEF Fits
  <2>2. Allowed(y.form) \cap Spoils = {} /\ "raw" \in Spoils
    BY <2>1, NoneSpoils DEF Spoils
  <2> QED
    BY <2>1, <2>2
<1>8. Asks(x) \subseteq Asks(e)
  BY <1>6 DEF Asks
<1>9. Uses(x) \subseteq Uses(e)
  BY <1>6 DEF Uses
<1> QED
  BY <1>7, <1>8, <1>9 DEF x

------------------------------------------------------------------------------
\* Lists of items and of elements.

ItemLists == Seq(ItemType) \cup {Null}

\* A list of items or of elements is not missing.
LEMMA ListsAreNotNull ==
  /\ \A os \in Seq(ItemType) : os \in Seq(ElementType) /\ os # Null
  /\ \A es \in Seq(ElementType) : es # Null
  /\ ItemLists \subseteq Lists
<1>1. ItemType \subseteq ElementType
  BY DEF ItemType
<1>2. \A os \in Seq(ItemType) : os \in Seq(ElementType)
  BY <1>1
<1> QED
  BY <1>2, NullAssumption DEF ItemLists, Lists

\* The properties that are known are elements of the list.
LEMMA KnownFacts ==
  ASSUME NEW es \in Seq(ElementType)
  PROVE  /\ Known(es) \in Seq(ElementType)
         /\ Len(Known(es)) \in Nat /\ DOMAIN Known(es) = 1 .. Len(Known(es))
         /\ \A i \in 1 .. Len(Known(es)) : Known(es)[i] \in ElementType
<1>1. Known(es) \in Seq(ElementType)
  BY OnlyType DEF Known
<1> QED
  BY <1>1

\* An element that is read where some prefixes are known.
Fine(e, scope) == Readable(e) /\ Asks(e) \subseteq scope

\* A list that can be read has an item for each of them.
LEMMA ItemsFacts ==
  ASSUME NEW es \in Seq(ElementType), NEW scope, ~ Throws(es, scope)
  PROVE  /\ Items(es) \in Seq(ItemType) /\ Len(Items(es)) = Len(Known(es))
         /\ \A i \in 1 .. Len(Known(es)) :
              /\ Fine(Known(es)[i], scope) /\ Items(es)[i] = Item(Known(es)[i])
              /\ Items(es)[i].form = Known(es)[i].form
<1> DEFINE k == Known(es)
           n == Len(k)
<1>1. k \in Seq(ElementType) /\ n \in Nat /\ DOMAIN k = 1 .. n /\ \A i \in 1 .. n : k[i] \in ElementType
  BY KnownFacts
<1>2. es # Null
  BY ListsAreNotNull
<1>3. \A i \in 1 .. n : Fine(k[i], scope)
  BY <1>1, <1>2 DEF Throws, Fine
<1>4. Items(es) = [i \in 1 .. n |-> Item(k[i])]
  BY <1>1, <1>2 DEF Items
<1> HIDE DEF k, n
<1>5. \A i \in 1 .. n : Item(k[i]) \in ItemType /\ Item(k[i]).form = k[i].form
  BY <1>1, <1>3, ItemFacts DEF Fine
<1>6. Items(es) \in [1 .. n -> ItemType] /\ \A i \in 1 .. n : Items(es)[i] = Item(k[i])
  BY <1>4, <1>5
<1>7. Items(es) \in Seq(ItemType) /\ Len(Items(es)) = n
  BY <1>1, <1>6
<1> QED
  BY <1>3, <1>5, <1>6, <1>7 DEF k, n

\* bf:hasInstance is an element that is not known.
LEMMA HasInstanceFacts == HasInstance \in ElementType /\ HasInstance.form \notin Forms \ Unknown
<1>1. "Other" \in Forms /\ "Other" \in Unknown /\ "Other" \notin Hubs
  BY DEF Forms, Unknown, Hubs
<1>2. << >> \in Seq(KidType) /\ {} \in SUBSET Parts /\ Plain \in Texts
  BY DEF Plain, Texts
<1> QED
  BY <1>1, <1>2 DEF HasInstance, ElementType

\* A list of items is written as a list of known elements.
LEMMA WrittenListFacts ==
  ASSUME NEW os \in Seq(ItemType), ~ NoNode(os)
  PROVE  /\ WrittenItems(os) \in Seq(ElementType) /\ Len(WrittenItems(os)) = Len(os)
         /\ \A i \in 1 .. Len(os) : WrittenItems(os)[i] = Written(os[i]) /\ ~ Nodeless(os[i])
         /\ Known(WrittenItems(os)) = WrittenItems(os)
         /\ Append(WrittenItems(os), HasInstance) \in Seq(ElementType)
         /\ Known(Append(WrittenItems(os), HasInstance)) = WrittenItems(os)
<1> DEFINE n == Len(os)
           ws == WrittenItems(os)
<1>1. os # Null /\ n \in Nat /\ DOMAIN os = 1 .. n /\ \A i \in 1 .. n : os[i] \in ItemType
  BY ListsAreNotNull
<1>2. \A i \in 1 .. n : ~ Nodeless(os[i])
  BY <1>1, WrittenNull DEF NoNode
<1>3. ws = [i \in 1 .. n |-> Written(os[i])]
  BY <1>1 DEF WrittenItems
<1> HIDE DEF n, ws
<1>5. \A i \in 1 .. n : Written(os[i]) \in ElementType /\ Written(os[i]).form \in DOMAIN Needs
  BY <1>1, <1>2, AnyTrip
<1>6. ws \in [1 .. n -> ElementType] /\ \A i \in 1 .. n : ws[i] = Written(os[i])
  BY <1>3, <1>5
<1>7. ws \in Seq(ElementType) /\ Len(ws) = n /\ DOMAIN ws = 1 .. n
  BY <1>1, <1>6
<1>8. \A f \in DOMAIN Needs : f \in Forms \ Unknown
  BY DEF Forms, Unknown, Needs
<1>9. Known(ws) = ws
  <2>1. \A i \in DOMAIN ws : ws[i].form \in Forms \ Unknown
    BY <1>5, <1>6, <1>7, <1>8
  <2> QED
    BY <1>7, <2>1, OnlyAll DEF Known
<1>10. Known(Append(ws, HasInstance)) = Known(ws)
  <2>1. Only(Append(ws, HasInstance), Forms \ Unknown) = Only(ws, Forms \ Unknown)
    BY <1>7, HasInstanceFacts, OnlyAppend
  <2> QED
    BY <2>1 DEF Known
<1>11. Append(ws, HasInstance) \in Seq(ElementType)
  BY <1>7, HasInstanceFacts
<1> QED
  BY <1>2, <1>6, <1>7, <1>9, <1>10, <1>11 DEF ws, n

\* All the series of a list have been marked.
AllMarked(os) == os = Null \/ \A i \in DOMAIN os : Marked(os[i]) = os[i]

\* A list of items that are written as they are, and can be read with the prefixes of the root.
Steady(xs, root) ==
  xs = Null \/
    /\ xs \in Seq(ItemType)
    /\ \A i \in DOMAIN xs : Written(xs[i]) = xs[i] /\ Fine(xs[i], root) /\ ~ IllFormed(xs[i], root)

\* A list of elements that the list os of items has been written as.
WrittenAs(os, es, root) ==
  /\ es \in Seq(ElementType) /\ Known(es) = WrittenItems(os)
  /\ \A i \in DOMAIN WrittenItems(os) : ~ IllFormed(WrittenItems(os)[i], root)

\* An item that has come back from an element at rest is steady.
LEMMA SteadyItem ==
  ASSUME NEW o \in ItemType, ~ Nodeless(o), Marked(o) = o, NEW root,
         Fine(Written(o), root), ~ IllFormed(Written(o), root), Rests(Item(Written(o)))
  PROVE  /\ Written(Item(Written(o))) = Item(Written(o))
         /\ Fine(Item(Written(o)), root) /\ ~ IllFormed(Item(Written(o)), root)
<1> DEFINE w == Written(o)
           x == Item(w)
<1>1. Outcome(o, w)
  BY WrittenFacts
<1> HIDE DEF w
<1>2. w \in ElementType /\ Readable(w) /\ Asks(w) \subseteq root /\ Uses(w) \subseteq root /\ Rests(x)
  BY <1>1 DEF Outcome, Fine, IllFormed, w
<1>3. Written(x) = x
  BY <1>1, <1>2 DEF Outcome
<1>4. x \in ItemType
  BY <1>2, ItemFacts
<1>5. /\ Asks(x) \subseteq Asks(w) /\ Uses(x) \subseteq Uses(w)
      /\ \A y \in Inside(x) : "raw" \notin y.parts
  BY <1>2, ItemPrefixes
<1> HIDE DEF x
<1>6. Readable(x)
  BY <1>4, ItemAgain
<1>7. Fine(x, root) /\ ~ IllFormed(x, root)
  BY <1>2, <1>5, <1>6 DEF Fine, IllFormed
<1> QED
  BY <1>3, <1>7 DEF x, w

\* A list is read back as the same items exactly if all of them last, and as steady ones
\* if it is read at all and their texts are at rest.
LEMMA ListTrip ==
  ASSUME NEW os \in Seq(ItemType), ~ NoNode(os), AllMarked(os),
         NEW es, NEW root, WrittenAs(os, es, root)
  PROVE  /\ AllLasting(os, root) <=> ~ Throws(es, root) /\ Items(es) = os
         /\ ~ Throws(es, root) /\ AtRest(Items(es)) => Steady(Items(es), root)
<1> DEFINE n == Len(os)
           k == Known(es)
<1>1. /\ os # Null /\ n \in Nat /\ DOMAIN os = 1 .. n
      /\ \A i \in 1 .. n : os[i] \in ItemType /\ Marked(os[i]) = os[i] /\ ~ Nodeless(os[i])
  BY ListsAreNotNull, WrittenListFacts DEF AllMarked
<1>2. /\ k \in Seq(ElementType) /\ Len(k) = n /\ DOMAIN k = 1 .. n
      /\ \A i \in 1 .. n : k[i] = Written(os[i]) /\ ~ IllFormed(k[i], root)
  BY <1>1, WrittenListFacts DEF WrittenAs
<1>3. es \in Seq(ElementType) /\ es # Null
  BY ListsAreNotNull DEF WrittenAs
<1>4. ASSUME ~ Throws(es, root)
      PROVE  /\ Items(es) \in Seq(ItemType) /\ Len(Items(es)) = n
             /\ \A i \in 1 .. n : Fine(k[i], root) /\ Items(es)[i] = Item(k[i])
  BY <1>2, <1>3, <1>4, ItemsFacts
<1>5. Throws(es, root) <=> \E i \in 1 .. n : ~ Fine(k[i], root)
  BY <1>2, <1>3 DEF Throws, Fine
<1>6. AllLasting(os, root) <=> \A i \in 1 .. n : Lasting(os[i], root)
  BY <1>1 DEF AllLasting
<1>7. \A i \in 1 .. n : Outcome(os[i], k[i])
  BY <1>1, <1>2, WrittenFacts
<1> HIDE DEF n, k
<1>8. ASSUME AllLasting(os, root) PROVE ~ Throws(es, root) /\ Items(es) = os
  <2>1. ASSUME NEW i \in 1 .. n PROVE Fine(k[i], root) /\ Item(k[i]) = os[i]
    <3>1. Lasting(os[i], root) /\ os[i] \in ItemType /\ Outcome(os[i], k[i])
      BY <1>1, <1>6, <1>7, <1>8
    <3>2. k[i] = os[i] /\ Asks(os[i]) \subseteq root
      BY <3>1 DEF Outcome, Lasting
    <3>3. Readable(os[i]) /\ Item(os[i]) = os[i]
      BY <3>1, ItemAgain
    <3> QED
      BY <3>2, <3>3 DEF Fine
  <2>2. ~ Throws(es, root)
    BY <1>5, <2>1
  <2>3. \A i \in 1 .. n : Items(es)[i] = os[i]
    BY <1>4, <2>1, <2>2
  <2>4. Items(es) = os
    BY <1>4, <2>2, <2>3 DEF n
  <2> QED
    BY <2>2, <2>4
<1>9. ASSUME ~ Throws(es, root), Items(es) = os PROVE AllLasting(os, root)
  <2>1. ASSUME NEW i \in 1 .. n PROVE Lasting(os[i], root)
    <3>1. Fine(k[i], root) /\ Item(k[i]) = os[i] /\ Outcome(os[i], k[i]) /\ ~ IllFormed(k[i], root)
      BY <1>2, <1>4, <1>7, <1>9
    <3>2. LastingItem(os[i]) /\ k[i] = os[i]
      BY <3>1 DEF Outcome, Fine
    <3>3. Asks(os[i]) \subseteq root /\ Uses(os[i]) \subseteq root
      BY <3>1, <3>2 DEF Fine, IllFormed
    <3> QED
      BY <3>2, <3>3 DEF Lasting
  <2> QED
    BY <1>6, <2>1
<1>10. ASSUME ~ Throws(es, root), AtRest(Items(es)) PROVE Steady(Items(es), root)
  <2> DEFINE x == Items(es)
  <2>1. /\ x \in Seq(ItemType) /\ DOMAIN x = 1 .. n /\ x # Null
        /\ \A i \in 1 .. n : Fine(k[i], root) /\ x[i] = Item(k[i])
    BY <1>4, <1>10, ListsAreNotNull
  <2>2. \A i \in 1 .. n : Rests(x[i])
    BY <1>10, <2>1 DEF AtRest, Rests
  <2> HIDE DEF x
  <2>3. ASSUME NEW i \in 1 .. n
        PROVE  Written(x[i]) = x[i] /\ Fine(x[i], root) /\ ~ IllFormed(x[i], root)
    <3>1. /\ os[i] \in ItemType /\ ~ Nodeless(os[i]) /\ Marked(os[i]) = os[i]
          /\ Fine(Written(os[i]), root) /\ ~ IllFormed(Written(os[i]), root)
          /\ x[i] = Item(Written(os[i])) /\ Rests(Item(Written(os[i])))
      BY <1>1, <1>2, <2>1, <2>2
    <3> QED
      BY <3>1, SteadyItem
  <2>4. Steady(x, root)
    BY <2>1, <2>3 DEF Steady
  <2> QED
    BY <2>4 DEF x
<1> QED
  BY <1>8, <1>9, <1>10

\* Items that last are written as well-formed XML.
LEMMA LastingWellFormed ==
  ASSUME NEW os \in Seq(ItemType), ~ NoNode(os), NEW root, AllLasting(os, root)
  PROVE  \A i \in DOMAIN WrittenItems(os) : ~ IllFormed(WrittenItems(os)[i], root)
<1>1. /\ WrittenItems(os) \in Seq(ElementType) /\ Len(WrittenItems(os)) = Len(os)
      /\ \A i \in 1 .. Len(os) : WrittenItems(os)[i] = Written(os[i]) /\ ~ Nodeless(os[i])
  BY WrittenListFacts
<1>2. \A i \in 1 .. Len(os) : os[i] \in ItemType /\ Lasting(os[i], root)
  BY ListsAreNotNull DEF AllLasting
<1>3. ASSUME NEW i \in 1 .. Len(os) PROVE ~ IllFormed(WrittenItems(os)[i], root)
  <2>1. LastingItem(os[i]) /\ Uses(os[i]) \subseteq root /\ os[i] \in ItemType
    BY <1>2 DEF Lasting
  <2>2. WrittenItems(os)[i] = os[i]
    BY <1>1, <2>1, AnyTrip
  <2>3. os[i] \in ElementType /\ Readable(os[i]) /\ Item(os[i]) = os[i]
    BY <2>1, ItemAgain
  <2>4. \A y \in Inside(Item(os[i])) : "raw" \notin y.parts
    BY <2>3, ItemPrefixes
  <2> QED
    BY <2>1, <2>2, <2>3, <2>4 DEF IllFormed
<1> QED
  BY <1>1, <1>3

\* A steady list is written and read as it is.
LEMMA SteadyTrip ==
  ASSUME NEW xs \in ItemLists, NEW root, Steady(xs, root)
  PROVE  /\ ~ NoNode(xs) /\ WrittenItems(xs) = xs
         /\ xs # Null =>
              /\ \A i \in DOMAIN xs : ~ IllFormed(xs[i], root)
              /\ \A es \in Seq(ElementType) : Known(es) = xs => ~ Throws(es, root) /\ Items(es) = xs
<1>1. CASE xs = Null
  BY <1>1 DEF NoNode, WrittenItems
<1>2. CASE xs # Null
  <2>1. xs \in Seq(ItemType) /\ DOMAIN xs = 1 .. Len(xs)
        /\ \A i \in DOMAIN xs : /\ xs[i] \in ItemType /\ Written(xs[i]) = xs[i]
                                /\ Fine(xs[i], root) /\ ~ IllFormed(xs[i], root)
    BY <1>2 DEF Steady
  <2>2. \A i \in DOMAIN xs : xs[i] # Null /\ Item(xs[i]) = xs[i]
    BY <2>1, ItemAgain, NullAssumption
  <2>3. ~ NoNode(xs)
    BY <2>1, <2>2 DEF NoNode
  <2>4. WrittenItems(xs) = [i \in DOMAIN xs |-> Written(xs[i])]
    BY <1>2 DEF WrittenItems
  <2>5. WrittenItems(xs) = [i \in DOMAIN xs |-> xs[i]]
    BY <2>1, <2>4
  <2>6. [i \in DOMAIN xs |-> xs[i]] = xs
    BY <2>1
  <2>7. ASSUME NEW es \in Seq(ElementType), Known(es) = xs
        PROVE  ~ Throws(es, root) /\ Items(es) = xs
    <3>1. es # Null
      BY ListsAreNotNull
    <3>2. ~ Throws(es, root)
      BY <2>1, <2>7, <3>1 DEF Throws, Fine
    <3>3. Items(es) = [i \in DOMAIN xs |-> Item(xs[i])]
      BY <2>7, <3>1 DEF Items
    <3>4. [i \in DOMAIN xs |-> Item(xs[i])] = [i \in DOMAIN xs |-> xs[i]]
      BY <2>2
    <3> QED
      BY <2>6, <3>2, <3>3, <3>4
  <2> QED
    BY <2>1, <2>3, <2>5, <2>6, <2>7
<1> QED
  BY <1>1, <1>2

------------------------------------------------------------------------------
\* Documents and Bibframes.

BibType == [root : SUBSET Prefixes, work : ItemLists, instance : ItemLists]

\* A Bibframe is its two lists and the prefixes.
LEMMA SameBibframe ==
  ASSUME NEW a \in BibType, NEW b \in BibType,
         a.root = b.root, a.work = b.work, a.instance = b.instance
  PROVE  a = b
BY DEF BibType

\* No text of a list of items spoils the document.
Sound(os, root) == os = Null \/ \A i \in DOMAIN WrittenItems(os) : ~ IllFormed(WrittenItems(os)[i], root)

\* The document that a Bibframe is written as.
LEMMA DocFacts ==
  ASSUME NEW b \in BibType, Writable(b)
  PROVE  /\ WrittenDoc(b) \in DocType
         /\ WrittenDoc(b).root = b.root /\ WrittenDoc(b).scope = b.root
         /\ b.work \in Seq(ItemType) /\ WrittenDoc(b).work \in Seq(ElementType)
         /\ Known(WrittenDoc(b).work) = WrittenItems(b.work)
         /\ IF b.instance = Null THEN WrittenDoc(b).instance = Null
            ELSE /\ b.instance \in Seq(ItemType) /\ WrittenDoc(b).instance \in Seq(ElementType)
                 /\ Known(WrittenDoc(b).instance) = WrittenItems(b.instance)
         /\ WrittenDoc(b).wellFormed <=> Sound(b.work, b.root) /\ Sound(b.instance, b.root)
<1> DEFINE work == WrittenItems(b.work)
           instance == WrittenItems(b.instance)
           dw == IF b.instance = Null THEN work ELSE Append(work, HasInstance)
           wf == /\ \A i \in DOMAIN work : ~ IllFormed(work[i], b.root)
                 /\ instance = Null \/ \A i \in DOMAIN instance : ~ IllFormed(instance[i], b.root)
<1>1. /\ b.work \in ItemLists /\ b.instance \in ItemLists /\ b.root \subseteq Prefixes
      /\ b.work # Null /\ ~ NoNode(b.work) /\ ~ NoNode(b.instance)
  BY DEF BibType, Writable
<1>2. b.work \in Seq(ItemType) /\ (b.instance # Null => b.instance \in Seq(ItemType))
  BY <1>1 DEF ItemLists
<1>3. WrittenDoc(b) = [root |-> b.root, scope |-> b.root, work |-> dw, instance |-> instance, wellFormed |-> wf]
  BY Zenon DEF WrittenDoc
<1>4. /\ WrittenDoc(b).work = dw /\ WrittenDoc(b).instance = instance
      /\ WrittenDoc(b).wellFormed = wf
      /\ WrittenDoc(b).root = b.root /\ WrittenDoc(b).scope = b.root
  <2> HIDE DEF dw, instance, wf
  <2> QED
    BY <1>3
<1>5. /\ dw \in Seq(ElementType) /\ Known(dw) = work
  <2>1. /\ work \in Seq(ElementType) /\ Known(work) = work
        /\ Append(work, HasInstance) \in Seq(ElementType)
        /\ Known(Append(work, HasInstance)) = work
    BY <1>1, <1>2, WrittenListFacts
  <2> HIDE DEF work
  <2> QED
    BY <2>1
<1>6. b.instance = Null => instance = Null
  BY DEF WrittenItems
<1>7. b.instance # Null => instance \in Seq(ElementType) /\ Known(instance) = instance /\ instance # Null
  <2> HAVE b.instance # Null
  <2>1. instance \in Seq(ElementType) /\ Known(instance) = instance
    BY <1>1, <1>2, WrittenListFacts
  <2> QED
    BY <2>1, ListsAreNotNull
<1>8. wf \in BOOLEAN
  OBVIOUS
<1>9. dw \in Lists /\ instance \in Lists
  <2> HIDE DEF dw, instance
  <2> QED
    BY <1>5, <1>6, <1>7 DEF Lists
<1>10. WrittenDoc(b) \in DocType
  <2> HIDE DEF dw, instance, wf
  <2> QED
    BY <1>1, <1>3, <1>8, <1>9 DEF DocType
<1>11. wf <=> Sound(b.work, b.root) /\ Sound(b.instance, b.root)
  <2>1. Sound(b.work, b.root) <=> \A i \in DOMAIN work : ~ IllFormed(work[i], b.root)
    BY <1>1 DEF Sound
  <2>2. Sound(b.instance, b.root)
          <=> instance = Null \/ \A i \in DOMAIN instance : ~ IllFormed(instance[i], b.root)
    <3> HIDE DEF instance
    <3>1. Sound(b.instance, b.root)
            <=> b.instance = Null \/ \A i \in DOMAIN instance : ~ IllFormed(instance[i], b.root)
      BY DEF Sound, instance
    <3> QED
      BY <1>6, <1>7, <3>1
  <2> QED
    BY <2>1, <2>2
<1> QED
  <2> HIDE DEF dw, wf
  <2> QED
    BY <1>2, <1>4, <1>5, <1>6, <1>7, <1>10, <1>11

\* Reading makes a Bibframe; what is missing was missing or could not be read.
LEMMA ParsedFacts ==
  ASSUME NEW d \in DocType
  PROVE  /\ Parsed(d) \in BibType
         /\ d.wellFormed => Parsed(d).root = d.root
         /\ ~ Lost(d) =>
              /\ Parsed(d).work = Items(d.work)
              /\ Parsed(d).instance = IF Throws(d.instance, d.scope) THEN Null ELSE Items(d.instance)
         /\ Lost(d) => Parsed(d).work = Null /\ Parsed(d).instance = Null
<1> DEFINE r == IF d.wellFormed THEN d.root ELSE {}
           w == IF Lost(d) THEN Null ELSE Items(d.work)
           i == IF Lost(d) \/ Throws(d.instance, d.scope) THEN Null ELSE Items(d.instance)
<1>1. d.work \in Lists /\ d.instance \in Lists /\ d.root \subseteq Prefixes
  BY DEF DocType
<1>2. \A es \in Lists : ~ Throws(es, d.scope) => Items(es) \in ItemLists
  <2> TAKE es \in Lists
  <2> HAVE ~ Throws(es, d.scope)
  <2>1. CASE es = Null
    BY <2>1 DEF Items, ItemLists
  <2>2. CASE es \in Seq(ElementType)
    <3>1. Items(es) \in Seq(ItemType)
      BY <2>2, ItemsFacts
    <3> QED
      BY <3>1 DEF ItemLists
  <2> QED
    BY <2>1, <2>2 DEF Lists
<1>3. Null \in ItemLists
  BY DEF ItemLists
<1>4. w \in ItemLists /\ i \in ItemLists
  BY <1>1, <1>2, <1>3 DEF Lost
<1>5. r \subseteq Prefixes
  BY <1>1
<1>6. Parsed(d) = [root |-> r, work |-> w, instance |-> i]
  BY DEF Parsed
<1> HIDE DEF r, w, i
<1>7. Parsed(d) \in BibType /\ Parsed(d).root = r /\ Parsed(d).work = w /\ Parsed(d).instance = i
  BY <1>4, <1>5, <1>6 DEF BibType
<1> QED
  BY <1>7 DEF r, w, i

\* A document of steady lists is read as what it was written from.
LEMMA SteadyDoc ==
  ASSUME NEW p \in BibType, p.work # Null, Steady(p.work, p.root), Steady(p.instance, p.root)
  PROVE  Parsed(WrittenDoc(p)) = p
<1> DEFINE d == WrittenDoc(p)
<1>1. p.work \in ItemLists /\ p.instance \in ItemLists
  BY DEF BibType
<1>2. /\ ~ NoNode(p.work) /\ WrittenItems(p.work) = p.work
      /\ \A i \in DOMAIN p.work : ~ IllFormed(p.work[i], p.root)
      /\ \A es \in Seq(ElementType) : Known(es) = p.work => ~ Throws(es, p.root) /\ Items(es) = p.work
  BY <1>1, SteadyTrip
<1>3. /\ ~ NoNode(p.instance) /\ WrittenItems(p.instance) = p.instance
      /\ p.instance # Null =>
           /\ \A i \in DOMAIN p.instance : ~ IllFormed(p.instance[i], p.root)
           /\ \A es \in Seq(ElementType) :
                Known(es) = p.instance => ~ Throws(es, p.root) /\ Items(es) = p.instance
  BY <1>1, SteadyTrip
<1>4. Writable(p)
  BY <1>2, <1>3 DEF Writable
<1>5. /\ d \in DocType /\ d.root = p.root /\ d.scope = p.root
      /\ d.work \in Seq(ElementType) /\ Known(d.work) = p.work
      /\ IF p.instance = Null THEN d.instance = Null
         ELSE d.instance \in Seq(ElementType) /\ Known(d.instance) = p.instance
      /\ d.wellFormed <=> Sound(p.work, p.root) /\ Sound(p.instance, p.root)
  BY <1>2, <1>3, <1>4, DocFacts
<1>6. d.wellFormed
  BY <1>2, <1>3, <1>5 DEF Sound
<1> HIDE DEF d
<1>7. ~ Throws(d.work, d.scope) /\ Items(d.work) = p.work
  BY <1>2, <1>5
<1>8. ~ Throws(d.instance, d.scope) /\ Items(d.instance) = p.instance
  <2>1. CASE p.instance = Null
    BY <1>5, <2>1 DEF Throws, Items
  <2>2. CASE p.instance # Null
    BY <1>3, <1>5, <2>2
  <2> QED
    BY <2>1, <2>2
<1>9. ~ Lost(d)
  BY <1>6, <1>7 DEF Lost
<1>10. /\ Parsed(d) \in BibType /\ Parsed(d).root = p.root
       /\ Parsed(d).work = p.work /\ Parsed(d).instance = p.instance
  BY <1>5, <1>6, <1>7, <1>8, <1>9, ParsedFacts
<1>11. Parsed(d) = p
  BY <1>10, SameBibframe
<1> QED
  BY <1>11 DEF d

\* A Bibframe that can be written, with all its series marked.
Ready(b) == b \in BibType /\ Writable(b) /\ AllMarked(b.work) /\ AllMarked(b.instance)

\* A Bibframe comes back from a document exactly if all of its items last; and whatever
\* comes back at rest comes back the next time.
LEMMA DocTrip ==
  ASSUME NEW b, Ready(b)
  PROVE  /\ Parsed(WrittenDoc(b)) = b <=> AllLasting(b.work, b.root) /\ AllLasting(b.instance, b.root)
         /\ LET p == Parsed(WrittenDoc(b))
            IN  p.work # Null /\ AtRest(p.work) /\ AtRest(p.instance) => Parsed(WrittenDoc(p)) = p
<1> DEFINE d == WrittenDoc(b)
           p == Parsed(d)
<1>1. /\ b \in BibType /\ Writable(b) /\ AllMarked(b.work) /\ AllMarked(b.instance)
      /\ ~ NoNode(b.work) /\ ~ NoNode(b.instance) /\ b.work # Null
  BY DEF Ready, Writable
<1>2. /\ d \in DocType /\ d.root = b.root /\ d.scope = b.root
      /\ b.work \in Seq(ItemType) /\ d.work \in Seq(ElementType)
      /\ Known(d.work) = WrittenItems(b.work)
      /\ b.instance = Null => d.instance = Null
      /\ b.instance # Null =>
           /\ b.instance \in Seq(ItemType) /\ d.instance \in Seq(ElementType)
           /\ Known(d.instance) = WrittenItems(b.instance)
      /\ d.wellFormed <=> Sound(b.work, b.root) /\ Sound(b.instance, b.root)
  BY <1>1, DocFacts
<1> HIDE DEF d
<1>3. d.wellFormed => /\ WrittenAs(b.work, d.work, b.root)
                      /\ b.instance # Null => WrittenAs(b.instance, d.instance, b.root)
  BY <1>1, <1>2 DEF WrittenAs, Sound
<1>4. /\ p \in BibType
      /\ d.wellFormed => p.root = b.root
      /\ ~ Lost(d) =>
           /\ p.work = Items(d.work)
           /\ p.instance = IF Throws(d.instance, b.root) THEN Null ELSE Items(d.instance)
      /\ Lost(d) => p.work = Null /\ p.instance = Null
  BY <1>2, ParsedFacts
<1>5. Lost(d) <=> ~ d.wellFormed \/ Throws(d.work, b.root)
  BY <1>2 DEF Lost
<1> HIDE DEF p
<1>6. d.wellFormed =>
        /\ AllLasting(b.work, b.root) <=> ~ Throws(d.work, b.root) /\ Items(d.work) = b.work
        /\ ~ Throws(d.work, b.root) /\ AtRest(Items(d.work)) => Steady(Items(d.work), b.root)
  BY <1>1, <1>2, <1>3, ListTrip
<1>7. d.wellFormed /\ b.instance # Null =>
        /\ AllLasting(b.instance, b.root)
             <=> ~ Throws(d.instance, b.root) /\ Items(d.instance) = b.instance
        /\ ~ Throws(d.instance, b.root) /\ AtRest(Items(d.instance)) => Steady(Items(d.instance), b.root)
  BY <1>1, <1>2, <1>3, ListTrip
<1>8. b.instance = Null =>
        /\ ~ Throws(d.instance, b.root) /\ Items(d.instance) = Null
        /\ AllLasting(b.instance, b.root) /\ Steady(Items(d.instance), b.root)
  BY <1>2 DEF Throws, Items, AllLasting, Steady
<1>9. AllLasting(b.work, b.root) /\ AllLasting(b.instance, b.root) => d.wellFormed
  <2> HAVE AllLasting(b.work, b.root) /\ AllLasting(b.instance, b.root)
  <2>1. Sound(b.work, b.root)
    BY <1>1, <1>2, LastingWellFormed DEF Sound
  <2>2. Sound(b.instance, b.root)
    BY <1>1, <1>2, LastingWellFormed DEF Sound
  <2> QED
    BY <1>2, <2>1, <2>2
<1>10. ASSUME AllLasting(b.work, b.root), AllLasting(b.instance, b.root) PROVE p = b
  <2>1. d.wellFormed
    BY <1>9, <1>10
  <2>2. p.work = b.work
    BY <1>4, <1>5, <1>6, <1>10, <2>1
  <2>3. p.instance = b.instance
    BY <1>4, <1>5, <1>6, <1>7, <1>8, <1>10, <2>1
  <2> QED
    BY <1>1, <1>4, <2>1, <2>2, <2>3, SameBibframe
<1>11. ASSUME p = b PROVE AllLasting(b.work, b.root) /\ AllLasting(b.instance, b.root)
  <2>1. d.wellFormed /\ ~ Throws(d.work, b.root)
    BY <1>1, <1>4, <1>5, <1>11
  <2>2. AllLasting(b.work, b.root)
    BY <1>4, <1>5, <1>6, <1>11, <2>1
  <2>3. AllLasting(b.instance, b.root)
    BY <1>4, <1>5, <1>7, <1>8, <1>11, <2>1
  <2> QED
    BY <2>2, <2>3
<1>12. ASSUME p.work # Null, AtRest(p.work), AtRest(p.instance) PROVE Parsed(WrittenDoc(p)) = p
  <2>1. d.wellFormed /\ ~ Throws(d.work, b.root) /\ p.root = b.root
    BY <1>4, <1>5, <1>12
  <2>2. Steady(p.work, p.root)
    BY <1>4, <1>5, <1>6, <1>12, <2>1
  <2>3. Steady(p.instance, p.root)
    <3>1. CASE Throws(d.instance, b.root)
      BY <1>4, <1>5, <2>1, <3>1 DEF Steady
    <3>2. CASE ~ Throws(d.instance, b.root)
      BY <1>4, <1>5, <1>7, <1>8, <1>12, <2>1, <3>2
    <3> QED
      BY <3>1, <3>2
  <2> QED
    BY <1>4, <1>12, <2>2, <2>3, SteadyDoc
<1> QED
  BY <1>10, <1>11, <1>12 DEF p, d

------------------------------------------------------------------------------
\* The inductive invariant.

\* Marking a list of items.
LEMMA MarkedList ==
  ASSUME NEW os \in ItemLists
  PROVE  /\ MarkedItems(os) \in ItemLists /\ AllMarked(MarkedItems(os))
         /\ MarkedItems(os) = Null <=> os = Null
         /\ NoNode(MarkedItems(os)) <=> NoNode(os)
<1>1. CASE os = Null
  BY <1>1 DEF MarkedItems, AllMarked, ItemLists
<1>2. CASE os # Null
  <2> DEFINE n == Len(os)
             m == MarkedItems(os)
  <2>1. os \in Seq(ItemType) /\ n \in Nat /\ DOMAIN os = 1 .. n /\ \A i \in 1 .. n : os[i] \in ItemType
    BY <1>2 DEF ItemLists
  <2>2. m = [i \in 1 .. n |-> Marked(os[i])]
    BY <1>2, <2>1 DEF MarkedItems
  <2> HIDE DEF m, n
  <2>3. \A i \in 1 .. n : /\ Marked(os[i]) \in ItemType /\ Marked(Marked(os[i])) = Marked(os[i])
                          /\ Nodeless(Marked(os[i])) <=> Nodeless(os[i])
    BY <2>1, MarkedFacts
  <2>4. m \in [1 .. n -> ItemType] /\ \A i \in 1 .. n : m[i] = Marked(os[i])
    BY <2>2, <2>3
  <2>5. m \in Seq(ItemType) /\ DOMAIN m = 1 .. n
    BY <2>1, <2>4
  <2>6. m # Null
    BY <2>5, ListsAreNotNull
  <2>7. NoNode(m) <=> \E i \in 1 .. n : Nodeless(m[i])
    BY <2>4, <2>5, <2>6, WrittenNull DEF NoNode
  <2>8. NoNode(os) <=> \E i \in 1 .. n : Nodeless(os[i])
    BY <1>2, <2>1, WrittenNull DEF NoNode
  <2>9. AllMarked(m)
    BY <2>3, <2>4, <2>5 DEF AllMarked
  <2>10. NoNode(m) <=> NoNode(os)
    BY <2>3, <2>4, <2>7, <2>8
  <2> QED
    BY <1>2, <2>5, <2>6, <2>9, <2>10 DEF ItemLists, m
<1> QED
  BY <1>1, <1>2

\* Writing leaves a Bibframe, and one that is ready when it could be written.
LEMMA AfterWritingFacts ==
  ASSUME NEW b \in BibType
  PROVE  AfterWriting(b) \in BibType /\ (Writable(b) => Ready(AfterWriting(b)))
<1> DEFINE a == AfterWriting(b)
           w == MarkedItems(b.work)
           i == IF NoNode(b.work) THEN b.instance ELSE MarkedItems(b.instance)
<1>1. b.work \in ItemLists /\ b.instance \in ItemLists /\ b.root \subseteq Prefixes
  BY DEF BibType
<1>2. /\ w \in ItemLists /\ AllMarked(w) /\ (w = Null <=> b.work = Null) /\ (NoNode(w) <=> NoNode(b.work))
  BY <1>1, MarkedList
<1>3. /\ i \in ItemLists
      /\ ~ NoNode(b.work) => AllMarked(i) /\ (NoNode(i) <=> NoNode(b.instance))
  BY <1>1, MarkedList
<1>4. CASE b.work = Null
  BY <1>4 DEF AfterWriting, Writable
<1>5. CASE b.work # Null
  <2>1. a = [b EXCEPT !.work = w, !.instance = i]
    BY <1>5 DEF AfterWriting
  <2> HIDE DEF a, w, i
  <2>2. a \in BibType /\ a.work = w /\ a.instance = i
    BY <1>2, <1>3, <2>1 DEF BibType
  <2>3. Writable(b) => Ready(a)
    BY <1>2, <1>3, <2>2 DEF Writable, Ready
  <2> QED
    BY <2>2, <2>3 DEF a
<1> QED
  BY <1>4, <1>5

\* The Bibframe is what the last reading made of the document, the document what the last
\* writing made of its origin.
IInv ==
  /\ doc \in DocType /\ bib \in BibType
  /\ last \in {"none", "parsed", "edited", "written", "throws"}
  /\ origin \in BibType \cup {Null}
  /\ origin # Null => Ready(origin) /\ doc = WrittenDoc(origin)
  /\ last = "parsed" => bib = Parsed(doc)
  /\ last = "written" => origin = bib

\* A Bibframe is not missing.
LEMMA BibframeNotNull == Null \notin BibType
BY ListsAreNotNull, NullAssumption DEF BibType

\* Taking an item out of a list leaves a list of items.
LEMMA WithoutType ==
  ASSUME NEW S, NEW os \in Seq(S), NEW i \in DOMAIN os
  PROVE  Without(os, i) \in Seq(S)
<1>1. i \in 1 .. Len(os) /\ Len(os) \in Nat
  OBVIOUS
<1>2. SubSeq(os, 1, i-1) \in Seq(S) /\ SubSeq(os, i+1, Len(os)) \in Seq(S)
  BY <1>1
<1> QED
  BY <1>2, ConcatProperties DEF Without

\* Initially.
LEMMA InitInv == Init => IInv
<1> SUFFICES ASSUME Init PROVE IInv
  OBVIOUS
<1>1. doc \in DocType
  BY DocumentAssumption DEF Init
<1>2. bib \in BibType
  BY DEF Init, NoBibframe, BibType, ItemLists
<1> QED
  BY <1>1, <1>2 DEF Init, IInv

\* And after every step.
LEMMA NextInv == IInv /\ [Next]_vars => IInv'
<1> SUFFICES ASSUME IInv, [Next]_vars PROVE IInv'
  OBVIOUS
<1>1. CASE ParseBibframeXML
  <2>1. bib' = Parsed(doc) /\ last' = "parsed" /\ doc' = doc /\ origin' = origin
    BY <1>1 DEF ParseBibframeXML
  <2>2. bib' \in BibType
    BY <2>1, ParsedFacts DEF IInv
  <2> QED
    BY <2>1, <2>2 DEF IInv
<1>2. CASE PropertiesToStrem
  <2>1. bib' = AfterWriting(bib) /\ bib' \in BibType /\ (Writable(bib) => Ready(bib'))
    BY <1>2, AfterWritingFacts DEF PropertiesToStrem, IInv
  <2>2. CASE Writable(bib)
    <3>1. doc' = WrittenDoc(bib') /\ origin' = bib' /\ last' = "written"
      BY <1>2, <2>2 DEF PropertiesToStrem
    <3>2. doc' \in DocType
      BY <2>1, <2>2, <3>1, DocFacts DEF Ready
    <3> QED
      BY <2>1, <2>2, <3>1, <3>2 DEF IInv
  <2>3. CASE ~ Writable(bib)
    <3>1. doc' = doc /\ origin' = origin /\ last' = "throws"
      BY <1>2, <2>3 DEF PropertiesToStrem
    <3> QED
      BY <2>1, <3>1 DEF IInv
  <2> QED
    BY <2>2, <2>3
<1>3. CASE RemoveItem
  <2>1. doc' = doc /\ origin' = origin /\ last' = "edited"
    BY <1>3 DEF RemoveItem
  <2>2. PICK p \in {"work", "instance"} :
          bib[p] # Null /\ \E i \in DOMAIN bib[p] : bib' = [bib EXCEPT ![p] = Without(@, i)]
    BY <1>3 DEF RemoveItem
  <2>3. PICK i \in DOMAIN bib[p] : bib' = [bib EXCEPT ![p] = Without(bib[p], i)]
    BY <2>2
  <2>4. bib \in BibType /\ bib[p] \in Seq(ItemType)
    BY <2>2 DEF IInv, BibType, ItemLists
  <2> DEFINE os == Without(bib[p], i)
  <2>5. os \in ItemLists
    BY <2>4, WithoutType DEF ItemLists
  <2> HIDE DEF os
  <2>6. bib' = [bib EXCEPT ![p] = os]
    BY <2>3 DEF os
  <2>7. bib' \in BibType
    BY <2>4, <2>5, <2>6 DEF BibType
  <2> QED
    BY <2>1, <2>7 DEF IInv
<1>4. CASE UNCHANGED vars
  BY <1>4 DEF vars, IInv
<1> QED
  BY <1>1, <1>2, <1>3, <1>4 DEF Next

\* The program keeps documents, Bibframes and the origin of the document in step: what
\* parseBibframeXML and propertiesToStrem did last can be told from the state.
THEOREM InvHolds == Spec => []IInv
BY InitInv, NextInv, PTL DEF Spec

\* The shape of the state, for documents of any length.
THEOREM TypeCorrect == Spec => []TypeOK
<1>1. IInv => TypeOK
  <2> SUFFICES ASSUME IInv PROVE TypeOK
    OBVIOUS
  <2>1. doc \in DocType /\ bib.root \subseteq Prefixes
    BY DEF IInv, BibType
  <2>2. bib.work \in ItemLists /\ bib.instance \in ItemLists
    BY DEF IInv, BibType
  <2>3. ASSUME NEW os \in ItemLists
        PROVE  os \in Lists /\ (os # Null => \A i \in DOMAIN os : os[i].form \in DOMAIN Needs)
    <3>1. os # Null => \A i \in DOMAIN os : os[i] \in ItemType
      BY DEF ItemLists
    <3> QED
      BY <3>1, ListsAreNotNull DEF ItemType, Fits
  <2>4. last = "written" => doc.work # Null /\ origin = bib
    <3> HAVE last = "written"
    <3>1. origin = bib /\ origin # Null
      BY BibframeNotNull DEF IInv
    <3>2. doc = WrittenDoc(bib) /\ Writable(bib) /\ bib \in BibType
      BY <3>1 DEF IInv, Ready
    <3> QED
      BY <3>1, <3>2, DocFacts, ListsAreNotNull
  <2> QED
    BY <2>1, <2>2, <2>3, <2>4 DEF TypeOK, IInv
<1> QED
  BY <1>1, InvHolds, PTL

\* A list that parseBibframeXML has built has an item for each property that is known,
\* or is missing altogether.
THEOREM AllOrNothingHolds == Spec => []AllOrNothing
<1>1. IInv => AllOrNothing
  <2> SUFFICES ASSUME IInv, last = "parsed" PROVE AllOrNothing
    BY DEF AllOrNothing
  <2>1. doc \in DocType /\ doc.work \in Lists /\ doc.instance \in Lists /\ bib = Parsed(doc)
    BY DEF IInv, DocType
  <2>2. /\ ~ Lost(doc) =>
             /\ bib.work = Items(doc.work)
             /\ bib.instance = IF Throws(doc.instance, doc.scope) THEN Null ELSE Items(doc.instance)
        /\ Lost(doc) => bib.work = Null /\ bib.instance = Null
        /\ ~ Lost(doc) => ~ Throws(doc.work, doc.scope)
    BY <2>1, ParsedFacts DEF Lost
  <2>3. ASSUME NEW es \in Lists, ~ Throws(es, doc.scope)
        PROVE  /\ Items(es) # Null <=> es # Null
               /\ es # Null =>
                    [i \in DOMAIN Items(es) |-> Items(es)[i].form] = [i \in DOMAIN Known(es) |-> Known(es)[i].form]
    <3>1. CASE es = Null
      BY <3>1 DEF Items
    <3>2. CASE es \in Seq(ElementType)
      <4>1. /\ Items(es) \in Seq(ItemType) /\ Len(Items(es)) = Len(Known(es))
            /\ \A i \in 1 .. Len(Known(es)) : Items(es)[i].form = Known(es)[i].form
        BY <2>3, <3>2, ItemsFacts
      <4>2. DOMAIN Items(es) = 1 .. Len(Known(es)) /\ DOMAIN Known(es) = 1 .. Len(Known(es))
        BY <3>2, <4>1, KnownFacts
      <4> QED
        BY <3>2, <4>1, <4>2, ListsAreNotNull
    <3> QED
      BY <3>1, <3>2 DEF Lists
  <2>4. ASSUME NEW p \in {"work", "instance"}, bib[p] # Null
        PROVE  /\ doc[p] # Null
               /\ [i \in DOMAIN bib[p] |-> bib[p][i].form] = [i \in DOMAIN Known(doc[p]) |-> Known(doc[p])[i].form]
    <3>1. CASE p = "work"
      <4>1. ~ Throws(doc.work, doc.scope) /\ bib.work = Items(doc.work) /\ bib.work # Null
        BY <2>2, <2>4, <3>1
      <4> QED
        BY <2>1, <2>3, <3>1, <4>1
    <3>2. CASE p = "instance"
      <4>1. ~ Throws(doc.instance, doc.scope) /\ bib.instance = Items(doc.instance) /\ bib.instance # Null
        BY <2>2, <2>4, <3>2
      <4> QED
        BY <2>1, <2>3, <3>2, <4>1
    <3> QED
      BY <3>1, <3>2
  <2>5. bib.instance # Null /\ doc.work # Null => bib.work # Null
    BY <2>1, <2>2, <2>3
  <2> QED
    BY <2>4, <2>5 DEF AllOrNothing
<1> QED
  BY <1>1, InvHolds, PTL

\* What propertiesToStrem has written comes back from parseBibframeXML exactly when all
\* of its items are lasting ones.
THEOREM LastingComesBack == Spec => []ComesBack
<1>1. IInv => ComesBack
  <2> SUFFICES ASSUME IInv, last = "parsed", origin # Null
               PROVE  bib = origin <=> AllLasting(origin.work, origin.root) /\ AllLasting(origin.instance, origin.root)
    BY DEF ComesBack
  <2>1. Ready(origin) /\ bib = Parsed(WrittenDoc(origin))
    BY DEF IInv
  <2> QED
    BY <2>1, DocTrip
<1> QED
  BY <1>1, InvHolds, PTL

\* What has come back once, its texts being at rest, comes back always.
THEOREM StableAfter == Spec => []StableAfterOneTrip
<1>1. IInv => StableAfterOneTrip
  <2> SUFFICES ASSUME IInv, last = "parsed", origin # Null, bib.work # Null,
                      AtRest(bib.work), AtRest(bib.instance)
               PROVE  Parsed(WrittenDoc(bib)) = bib
    BY DEF StableAfterOneTrip
  <2>1. Ready(origin) /\ bib = Parsed(WrittenDoc(origin))
    BY DEF IInv
  <2> QED
    BY <2>1, DocTrip
<1> QED
  BY <1>1, InvHolds, PTL

==============================================================================
