-------------------------- MODULE StyleFiles_proofs --------------------------
(***************************************************************************)
(* Proofs about StyleFiles, for any number of JVMs, versions and files of  *)
(* any size: the shape of the state, that an empty place has a cause, that *)
(* a file is whole unless torn, and that a JVM which copied alone finds    *)
(* its own version.                                                        *)
(***************************************************************************)
EXTENDS StyleFiles, TLAPS

\* The file that a writer has not opened yet has nothing of it.
Fresh == \A j \in JVMs : ~ opened[j] => written[j] = 0

\* Whether j still has to write in the file f, which it has open.
Writing(j, f) == pc[j] = "copying" /\ opened[j] /\ file[j] = f

\* A file that the JVM j has truncated last, while no one wrote it that has a
\* longer one: all in it is within the length that it has for j, and what is
\* missing of that j has not got to.
FilledBy(j, f) ==
  /\ \A c \in Places : c[1] = f /\ disk[c] # Nil => c[2] <= Length(j, f)
  /\ \A c \in Places : c[1] = f /\ disk[c] = Nil /\ c[2] <= Length(j, f) =>
       j \in Unfinished /\ ~ Passed(j, c)
  /\ \A k \in JVMs \ {j} : Writing(k, f) /\ written[k] < Length(k, f) =>
       Length(k, f) <= Length(j, f)

\* A file that no one has opened so far, as all who are on the way to it have not
\* got there or have failed.
Untouched(f) ==
  /\ \A c \in Places : c[1] = f => disk[c] = Nil
  /\ \A k \in JVMs : ~ Writing(k, f)
  /\ \/ \A j \in JVMs : pc[j] = "new"
     \/ \E j \in Unfinished : file[j] < f \/ (file[j] = f /\ ~ opened[j])

FileInv == \A f \in FILES \ torn : Untouched(f) \/ \E j \in JVMs : FilledBy(j, f)

\* What the copy of j, alone on the disk, has left in the files up to now.
Placed(j) ==
  \A c \in Places :
    /\ c[1] < file[j] => disk[c] = Content(Version[j], c)
    /\ c[1] = file[j] /\ opened[j] => disk[c] = IF c[2] <= written[j] THEN Version[j] ELSE Nil

\* What the JVM that was started alone last has put in place stays there: no
\* other one copies, and it has not read anything else.
AloneAs(j) ==
  /\ \A k \in JVMs \ {j} : pc[k] # "copying"
  /\ pc[j] = "copying" => unread[j] = {} /\ seen[j] = {} /\ Placed(j)
  /\ pc[j] = "loaded" =>
       /\ \A c \in Places : disk[c] = Content(Version[j], c)
       /\ \A r \in seen[j] : r[2] = Content(Version[j], r[1])

Alone == \A j \in JVMs : sole = j => AloneAs(j)

IInv == TypeOK /\ Fresh /\ MissingHasCause /\ FileInv /\ Alone

------------------------------------------------------------------------------
\* The files have a length in the version of every JVM.
LEMMA LengthShape ==
  ASSUME NEW j \in JVMs, NEW f \in FILES
  PROVE  Version[j] \in Versions /\ Length(j, f) \in Nat /\ Length(j, f) >= 1
BY SizeAssumption DEF Versions, Length, FILES

\* A place is one of a file, and a version's file has those up to its length.
LEMMA PlaceShape ==
  ASSUME NEW c \in Places
  PROVE  /\ c[1] \in FILES /\ c[1] \in Nat /\ c[1] >= 1
         /\ c[2] \in Nat /\ c[2] >= 1 /\ c = <<c[1], c[2]>>
         /\ \A j \in JVMs : c \in Chunks(Version[j]) <=> c[2] <= Length(j, c[1])
<1>1. PICK v \in Versions, f \in FILES : c \in {f} \X (1 .. Size[v][f])
  BY DEF Places, Chunks
<1>2. Size[v][f] \in Nat
  BY SizeAssumption DEF Versions, FILES
<1>3. /\ c[1] = f /\ f \in Nat /\ f >= 1
      /\ c[2] \in Nat /\ c[2] >= 1 /\ c = <<c[1], c[2]>>
  BY <1>1, <1>2 DEF FILES
<1>4. ASSUME NEW j \in JVMs
      PROVE  c \in Chunks(Version[j]) <=> c[2] <= Length(j, c[1])
  <2>1. Length(j, f) \in Nat
    BY LengthShape
  <2>2. c \in Chunks(Version[j]) <=> c[2] \in 1 .. Length(j, f)
    BY <1>3 DEF Chunks, Length
  <2> QED BY <1>3, <2>1, <2>2
<1> QED BY <1>3, <1>4

\* Every place within the length is one.
LEMMA InLengthIsPlace ==
  ASSUME NEW j \in JVMs, NEW f \in FILES, NEW i \in 1 .. Length(j, f)
  PROVE  <<f, i>> \in Places
<1>1. <<f, i>> \in Chunks(Version[j]) /\ Version[j] \in Versions
  BY LengthShape DEF Chunks, Length
<1> QED BY <1>1 DEF Places

\* A JVM that has written all of its last file has passed every place that is in
\* its version.
LEMMA AllPassed ==
  ASSUME TypeOK, NEW j \in JVMs, file[j] = Count, written[j] = Length(j, Count),
         NEW c \in Places, c[2] <= Length(j, c[1])
  PROVE  Passed(j, c)
BY PlaceShape, SizeAssumption DEF Passed, FILES

\* The initial state.
LEMMA InitInv == Init => IInv
<1> SUFFICES ASSUME Init PROVE IInv
  OBVIOUS
<1>1. TypeOK
  <2>1. 1 \in FILES /\ \A j \in JVMs : 0 <= Length(j, 1)
    BY SizeAssumption, LengthShape DEF FILES
  <2> QED BY <2>1 DEF Init, TypeOK
<1>2. Fresh /\ MissingHasCause
  BY DEF Init, Fresh, MissingHasCause
<1>3. FileInv
  BY DEF Init, FileInv, Untouched, Writing
<1>4. Alone
  BY NilAssumption DEF Init, Alone
<1>5. QED BY <1>1, <1>2, <1>3, <1>4 DEF IInv

------------------------------------------------------------------------------
\* A JVM that starts copies nothing yet: all that is missing is before it.
LEMMA LoadClassStep ==
  ASSUME IInv, NEW j \in JVMs, LoadClass(j)
  PROVE  IInv'
<1> USE DEF IInv, LoadClass
<1>1. /\ pc'[j] = "copying" /\ file'[j] = 1 /\ written'[j] = 0 /\ ~ opened'[j]
      /\ unread'[j] = {} /\ seen'[j] = {}
      /\ \A k \in JVMs \ {j} : /\ pc'[k] = pc[k] /\ file'[k] = file[k]
                               /\ written'[k] = written[k] /\ opened'[k] = opened[k]
  BY DEF TypeOK
<1>2. TypeOK'
  <2>1. 1 \in FILES /\ \A k \in JVMs : 0 <= Length(k, 1)
    BY SizeAssumption, LengthShape DEF FILES
  <2>2. \A k \in JVMs : written'[k] <= Length(k, file'[k])
    BY <1>1, <2>1 DEF TypeOK
  <2>3. /\ pc' \in [JVMs -> {"new", "copying", "loaded", "halfway", "cut"}]
        /\ file' \in [JVMs -> FILES] /\ opened' \in [JVMs -> BOOLEAN]
        /\ written' \in [JVMs -> Nat] /\ unread' \in [JVMs -> SUBSET Places]
    BY <2>1 DEF TypeOK
  <2>4. seen' \in [JVMs -> SUBSET (Places \X (Versions \cup {Nil}))]
    BY DEF TypeOK
  <2>5. loads' \in Nat /\ sole' \in JVMs \cup {Nil} /\ torn' \subseteq FILES
    BY DEF TypeOK
  <2> QED BY <2>2, <2>3, <2>4, <2>5 DEF TypeOK, Length
<1>3. Fresh'
  BY <1>1 DEF Fresh
<1>4. \A c \in Places : ~ Passed(j, c)'
  BY <1>1, PlaceShape DEF Passed
<1>5. j \in Unfinished' /\ \A k \in Unfinished : k \in Unfinished'
  BY <1>1 DEF Unfinished
<1>6. MissingHasCause'
  BY <1>4, <1>5 DEF MissingHasCause
<1>7. FileInv'
  <2> SUFFICES ASSUME NEW f \in FILES \ torn
               PROVE  Untouched(f)' \/ \E k \in JVMs : FilledBy(k, f)'
    BY DEF FileInv
  <2>1. \A k \in JVMs \ {j} : Writing(k, f)' <=> Writing(k, f)
    BY <1>1 DEF Writing
  <2>2. ~ Writing(j, f)'
    BY <1>1 DEF Writing
  <2>3. CASE Untouched(f)
    <3>1. file'[j] < f \/ (file'[j] = f /\ ~ opened'[j])
      BY <1>1, SizeAssumption DEF FILES
    <3> QED BY <1>5, <2>1, <2>2, <2>3, <3>1 DEF Untouched
  <2>4. ASSUME NEW k \in JVMs, FilledBy(k, f)
        PROVE  FilledBy(k, f)'
    <3>1. \A c \in Places : ~ Passed(k, c) => ~ Passed(k, c)'
      BY <1>1, <1>4 DEF Passed
    <3>2. k \in Unfinished => k \in Unfinished'
      BY <1>5
    <3>3. \A l \in JVMs \ {k} : Writing(l, f)' => Writing(l, f) /\ written'[l] = written[l]
      BY <1>1, <2>1, <2>2
    <3> QED BY <2>4, <3>1, <3>2, <3>3 DEF FilledBy, Length
  <2> QED BY <2>3, <2>4 DEF FileInv
<1>8. Alone'
  <2> SUFFICES ASSUME NEW k \in JVMs, sole' = k
               PROVE  AloneAs(k)'
    BY DEF Alone
  <2>1. k = j /\ \A l \in JVMs \ {j} : pc[l] # "copying"
    BY NilAssumption
  <2>2. Placed(j)'
    BY <1>1, PlaceShape DEF Placed
  <2> QED BY <1>1, <2>1, <2>2 DEF AloneAs
<1>9. QED BY <1>2, <1>3, <1>6, <1>7, <1>8

\* Truncating a file takes away what others have written, but the JVM that does
\* it has all of the file before it, and unless the file is torn the others that
\* write it have the same length of it.
LEMMA OpenStyleStep ==
  ASSUME IInv, NEW j \in JVMs, OpenStyle(j)
  PROVE  IInv'
<1> USE DEF IInv, OpenStyle
<1>1. /\ UNCHANGED <<pc, file, written, unread, seen, loads, sole>>
      /\ opened'[j] /\ \A k \in JVMs \ {j} : opened'[k] = opened[k]
      /\ file[j] \in FILES /\ written[j] = 0
  BY DEF TypeOK, conversion, Fresh
<1>2. /\ \A c \in Places : c[1] = file[j] => disk'[c] = Nil
      /\ \A c \in Places : c[1] # file[j] => disk'[c] = disk[c]
  OBVIOUS
<1>3. TypeOK'
  <2>1. disk' \in [Places -> Versions \cup {Nil}] /\ opened' \in [JVMs -> BOOLEAN]
    BY DEF TypeOK
  <2>2. torn' \subseteq FILES
    BY <1>1 DEF TypeOK, Tear
  <2> QED BY <1>1, <2>1, <2>2 DEF TypeOK, Length
<1>4. Fresh'
  BY <1>1 DEF Fresh
<1>5. \A k \in JVMs, c \in Places : Passed(k, c)' <=> Passed(k, c)
  BY <1>1 DEF Passed
<1>6. \A c \in Places : c[1] = file[j] => ~ Passed(j, c)
  BY <1>1, PlaceShape DEF Passed
<1>7. Unfinished' = Unfinished /\ j \in Unfinished
  BY <1>1 DEF Unfinished
<1>8. MissingHasCause'
  <2> SUFFICES ASSUME NEW c \in Places, disk'[c] = Nil, \A v \in Versions : c \in Chunks(v)
               PROVE  \E k \in Unfinished : ~ Passed(k, c)
    <3>1. Unfinished \subseteq JVMs
      BY DEF Unfinished
    <3> QED BY <1>5, <1>7, <3>1 DEF MissingHasCause
  <2>1. CASE c[1] = file[j]
    BY <1>6, <1>7, <2>1
  <2>2. CASE c[1] # file[j]
    <3>1. disk[c] = Nil
      BY <1>2, <2>2
    <3> QED BY <3>1 DEF MissingHasCause
  <2> QED BY <2>1, <2>2
<1>9. FileInv'
  <2> SUFFICES ASSUME NEW f \in FILES, f \notin torn'
               PROVE  Untouched(f)' \/ \E k \in JVMs : FilledBy(k, f)'
    BY DEF FileInv
  <2>1. CASE f = file[j]
    <3>1. \A k \in JVMs \ {j} : ~ Disturbs(k, j)
      BY <2>1 DEF Tear
    <3>2. \A k \in JVMs \ {j} : Writing(k, f)' => Writing(k, f)
      BY <1>1 DEF Writing
    <3>3. \A k \in JVMs \ {j} : Writing(k, f)' /\ written'[k] < Length(k, f) =>
            Length(k, f) <= Length(j, f)
      BY <1>1, <2>1, <3>1, <3>2, LengthShape DEF Disturbs, Writing
    <3>4. FilledBy(j, f)'
      BY <1>2, <1>5, <1>6, <1>7, <2>1, <3>3 DEF FilledBy, Length
    <3> QED BY <3>4
  <2>2. CASE f # file[j]
    <3>1. f \notin torn /\ \A c \in Places : c[1] = f => disk'[c] = disk[c]
      BY <1>2, <2>2 DEF Tear
    <3>2. \A k \in JVMs : Writing(k, f)' <=> Writing(k, f)
      BY <1>1, <2>2 DEF Writing
    <3>3. CASE Untouched(f)
      <4>1. \A k \in JVMs : file[k] = f /\ ~ opened[k] => ~ opened'[k]
        BY <1>1, <2>2
      <4>2. CASE \A k \in JVMs : pc[k] = "new"
        BY <4>2
      <4>3. ASSUME NEW k \in Unfinished, file[k] < f \/ (file[k] = f /\ ~ opened[k])
            PROVE  Untouched(f)'
        BY <1>1, <1>7, <3>1, <3>2, <3>3, <4>1, <4>3 DEF Untouched, Unfinished
      <4> QED BY <3>3, <4>2, <4>3 DEF Untouched
    <3>4. ASSUME NEW k \in JVMs, FilledBy(k, f)
          PROVE  FilledBy(k, f)'
      BY <1>1, <1>5, <1>7, <3>1, <3>2, <3>4 DEF FilledBy, Length
    <3> QED BY <3>1, <3>3, <3>4 DEF FileInv
  <2> QED BY <2>1, <2>2
<1>10. Alone'
  <2> SUFFICES ASSUME NEW k \in JVMs, sole = k
               PROVE  AloneAs(k)'
    BY <1>1 DEF Alone
  <2>1. k = j /\ AloneAs(j)
    BY DEF Alone, AloneAs
  <2>2. Placed(j)'
    <3> SUFFICES ASSUME NEW c \in Places
                 PROVE  /\ c[1] < file[j] => disk'[c] = Content(Version[j], c)
                        /\ c[1] = file[j] => disk'[c] = IF c[2] <= 0 THEN Version[j] ELSE Nil
      BY <1>1 DEF Placed, Content
    <3>1. c[1] \in Nat /\ file[j] \in Nat /\ ~ c[2] <= 0
      BY <1>1, PlaceShape DEF FILES
    <3> QED BY <1>2, <2>1, <3>1 DEF AloneAs, Placed
  <2> QED BY <1>1, <2>1, <2>2 DEF AloneAs
<1>11. QED BY <1>3, <1>4, <1>8, <1>9, <1>10

\* A chunk written is there, within the length that the file has for the JVM that
\* truncated it last; nothing else changes.
LEMMA WriteChunkStep ==
  ASSUME IInv, NEW j \in JVMs, WriteChunk(j)
  PROVE  IInv'
<1> USE DEF IInv, WriteChunk
<1> DEFINE d == <<file[j], written[j] + 1>>
<1>1. file[j] \in FILES /\ written[j] \in Nat /\ Length(j, file[j]) \in Nat
  BY LengthShape DEF TypeOK
<1>2. d \in Places /\ d[1] = file[j] /\ d[2] = written[j] + 1
  BY <1>1, InLengthIsPlace
<1>3. Version[j] \in Versions /\ Version[j] # Nil
  BY NilAssumption DEF Versions
<1>4. /\ disk' = [disk EXCEPT ![d] = Version[j]] /\ disk'[d] = Version[j]
      /\ \A c \in Places : c # d => disk'[c] = disk[c]
  BY <1>2 DEF TypeOK
<1>5. /\ UNCHANGED <<pc, file, opened, unread, seen, loads, sole, torn>>
      /\ written'[j] = written[j] + 1 /\ \A k \in JVMs \ {j} : written'[k] = written[k]
  BY DEF TypeOK, conversion
<1> HIDE DEF d
<1>6. TypeOK'
  <2>1. disk' \in [Places -> Versions \cup {Nil}]
    BY <1>2, <1>3, <1>4 DEF TypeOK
  <2>2. written' \in [JVMs -> Nat] /\ \A k \in JVMs : written'[k] <= Length(k, file[k])
    BY <1>1, <1>5 DEF TypeOK
  <2> QED BY <1>5, <2>1, <2>2 DEF TypeOK, Length
<1>7. Fresh'
  BY <1>5 DEF Fresh
<1>8. \A k \in JVMs, c \in Places : c # d => (Passed(k, c)' <=> Passed(k, c))
  <2> TAKE k \in JVMs, c \in Places
  <2>1. CASE k # j
    BY <1>5, <2>1 DEF Passed
  <2>2. CASE k = j
    <3>1. c[1] \in Nat /\ c[2] \in Nat /\ c = <<c[1], c[2]>> /\ file[j] \in Nat
      BY <1>1, PlaceShape DEF FILES
    <3> QED BY <1>1, <1>5, <2>2, <3>1 DEF Passed, d
  <2> QED BY <2>1, <2>2
<1>9. Unfinished' = Unfinished
  BY <1>5 DEF Unfinished
<1>10. MissingHasCause'
  <2> SUFFICES ASSUME NEW c \in Places, disk'[c] = Nil, \A v \in Versions : c \in Chunks(v)
               PROVE  \E k \in Unfinished : ~ Passed(k, c)'
    BY <1>9 DEF MissingHasCause
  <2>1. c # d /\ disk[c] = Nil
    BY <1>3, <1>4
  <2>2. PICK k \in Unfinished : ~ Passed(k, c)
    BY <2>1 DEF MissingHasCause
  <2> QED BY <1>8, <1>9, <2>1, <2>2 DEF Unfinished
<1>11. FileInv'
  <2> SUFFICES ASSUME NEW f \in FILES \ torn
               PROVE  Untouched(f)' \/ \E k \in JVMs : FilledBy(k, f)'
    BY <1>5 DEF FileInv
  <2>1. \A k \in JVMs : Writing(k, f)' <=> Writing(k, f)
    BY <1>5 DEF Writing
  <2>2. CASE Untouched(f)
    <3>1. file[j] # f
      BY <2>2 DEF Untouched, Writing
    <3>2. \A c \in Places : c[1] = f => disk'[c] = disk[c]
      BY <1>2, <1>4, <3>1
    <3> QED BY <1>5, <1>9, <2>1, <2>2, <3>2 DEF Untouched
  <2>3. ASSUME NEW k \in JVMs, FilledBy(k, f)
        PROVE  FilledBy(k, f)'
    <3>1. ASSUME NEW c \in Places, c[1] = f, disk'[c] # Nil
          PROVE  c[2] <= Length(k, f)
      <4>1. CASE c # d
        BY <1>4, <2>3, <3>1, <4>1 DEF FilledBy
      <4>2. CASE c = d
        <5>1. Writing(j, f) /\ written[j] < Length(j, f) /\ file[j] = f
          BY <1>2, <3>1, <4>2 DEF Writing
        <5>2. j = k \/ Length(j, f) <= Length(k, f)
          BY <2>3, <5>1 DEF FilledBy
        <5>3. Length(j, f) \in Nat /\ Length(k, f) \in Nat /\ written[j] \in Nat
          BY LengthShape DEF TypeOK
        <5> QED BY <1>1, <1>2, <4>2, <5>1, <5>2, <5>3
      <4> QED BY <4>1, <4>2
    <3>2. ASSUME NEW c \in Places, c[1] = f, disk'[c] = Nil, c[2] <= Length(k, f)
          PROVE  k \in Unfinished /\ ~ Passed(k, c)'
      <4>1. c # d
        BY <1>3, <1>4, <3>2
      <4> QED BY <1>4, <1>8, <2>3, <3>2, <4>1 DEF FilledBy
    <3>3. ASSUME NEW l \in JVMs \ {k}, Writing(l, f), written'[l] < Length(l, f)
          PROVE  Length(l, f) <= Length(k, f)
      <4>1. written[l] \in Nat /\ Length(l, f) \in Nat
        BY LengthShape DEF TypeOK
      <4>2. written[l] < Length(l, f)
        BY <1>5, <3>3, <4>1
      <4> QED BY <2>3, <3>3, <4>2 DEF FilledBy
    <3> QED BY <1>9, <2>1, <3>1, <3>2, <3>3 DEF FilledBy, Length
  <2> QED BY <2>2, <2>3 DEF FileInv
<1>12. Alone'
  <2> SUFFICES ASSUME NEW k \in JVMs, sole = k
               PROVE  AloneAs(k)'
    BY <1>5 DEF Alone
  <2>1. k = j /\ AloneAs(j) /\ Placed(j)
    BY DEF Alone, AloneAs
  <2>2. Placed(j)'
    <3> SUFFICES ASSUME NEW c \in Places
                 PROVE  /\ c[1] < file[j] => disk'[c] = Content(Version[j], c)
                        /\ c[1] = file[j] => disk'[c] = IF c[2] <= written[j] + 1 THEN Version[j] ELSE Nil
      BY <1>5 DEF Placed, Content
    <3>1. c[1] \in Nat /\ c[2] \in Nat /\ c = <<c[1], c[2]>> /\ file[j] \in Nat
      BY <1>1, PlaceShape DEF FILES
    <3>2. CASE c = d
      BY <1>1, <1>2, <1>4, <3>1, <3>2
    <3>3. CASE c # d
      <4>1. c[1] = file[j] => (c[2] <= written[j] + 1 <=> c[2] <= written[j])
        BY <1>1, <3>1, <3>3 DEF d
      <4> QED BY <1>4, <2>1, <3>3, <4>1 DEF Placed
    <3> QED BY <3>2, <3>3
  <2> QED BY <1>5, <2>1, <2>2 DEF AloneAs
<1>13. QED BY <1>6, <1>7, <1>10, <1>11, <1>12

\* Going on to the next file leaves all of the last one behind; after the last
\* file nothing is missing on account of this JVM.
LEMMA CloseStyleStep ==
  ASSUME IInv, NEW j \in JVMs, CloseStyle(j)
  PROVE  IInv'
<1> USE DEF IInv, CloseStyle
<1>1. /\ file[j] \in FILES /\ file[j] \in Nat /\ Count \in Nat /\ written[j] = Length(j, file[j])
      /\ Length(j, file[j]) \in Nat
  BY SizeAssumption, LengthShape DEF TypeOK, FILES
<1>2. /\ UNCHANGED <<disk, unread, seen, loads, sole, torn>>
      /\ \A k \in JVMs \ {j} : /\ pc'[k] = pc[k] /\ file'[k] = file[k]
                               /\ written'[k] = written[k] /\ opened'[k] = opened[k]
  <2>1. CASE file[j] = Count
    BY <2>1 DEF TypeOK, copy, conversion
  <2>2. CASE file[j] # Count
    BY <2>2 DEF TypeOK, conversion
  <2> QED BY <2>1, <2>2
<1>3. file[j] = Count => UNCHANGED <<file, written, opened>> /\ pc'[j] = "loaded"
  BY DEF TypeOK, copy
<1>4. file[j] # Count => /\ file'[j] = file[j] + 1 /\ written'[j] = 0 /\ ~ opened'[j]
                         /\ pc' = pc /\ pc'[j] = "copying"
  BY DEF TypeOK
<1>5. TypeOK'
  <2>1. CASE file[j] = Count
    BY <2>1 DEF TypeOK, copy, conversion, Length
  <2>2. CASE file[j] # Count
    <3>1. file[j] + 1 \in FILES
      BY <1>1, <2>2 DEF FILES
    <3>2. 0 <= Length(j, file[j] + 1)
      BY <3>1, LengthShape
    <3>3. file' \in [JVMs -> FILES] /\ written' \in [JVMs -> Nat]
      BY <2>2, <3>1 DEF TypeOK
    <3>4. opened' \in [JVMs -> BOOLEAN]
      <4>1. opened' = [opened EXCEPT ![j] = FALSE] /\ opened \in [JVMs -> BOOLEAN]
        BY <2>2 DEF TypeOK
      <4> QED BY <4>1, Zenon
    <3>5. \A k \in JVMs : written'[k] <= Length(k, file'[k])
      BY <1>2, <1>4, <2>2, <3>2 DEF TypeOK
    <3> QED BY <1>2, <1>4, <2>2, <3>3, <3>4, <3>5 DEF TypeOK, Length
  <2> QED BY <2>1, <2>2
<1>6. Fresh'
  BY <1>2, <1>3, <1>4 DEF Fresh
<1>7. \A k \in JVMs, c \in Places : Passed(k, c) => Passed(k, c)'
  <2> SUFFICES ASSUME NEW k \in JVMs, NEW c \in Places, Passed(k, c)
               PROVE  Passed(k, c)'
    OBVIOUS
  <2>1. CASE file[j] = Count \/ k # j
    BY <1>2, <1>3, <2>1 DEF Passed
  <2>2. CASE file[j] # Count /\ k = j
    <3>1. c[1] \in Nat
      BY PlaceShape
    <3> QED BY <1>1, <1>4, <2>2, <3>1 DEF Passed
  <2> QED BY <2>1, <2>2
<1>8. \A k \in JVMs, c \in Places : c[2] <= Length(k, c[1]) /\ Passed(k, c)' => Passed(k, c)
  <2> SUFFICES ASSUME NEW k \in JVMs, NEW c \in Places, c[2] <= Length(k, c[1]), Passed(k, c)'
               PROVE  Passed(k, c)
    OBVIOUS
  <2>1. CASE file[j] = Count \/ k # j
    BY <1>2, <1>3, <2>1 DEF Passed
  <2>2. CASE file[j] # Count /\ k = j
    <3>1. c[1] \in Nat /\ c[2] \in Nat /\ c[2] >= 1
      BY PlaceShape
    <3> QED BY <1>1, <1>4, <2>2, <3>1 DEF Passed
  <2> QED BY <2>1, <2>2
<1>9. file[j] = Count => \A c \in Places : c[2] <= Length(j, c[1]) => Passed(j, c)
  BY <1>1, AllPassed
<1>10. \A k \in JVMs, c \in Places :
         c[2] <= Length(k, c[1]) /\ k \in Unfinished /\ ~ Passed(k, c) => k \in Unfinished' /\ ~ Passed(k, c)'
  <2> SUFFICES ASSUME NEW k \in JVMs, NEW c \in Places, c[2] <= Length(k, c[1]), k \in Unfinished,
                      ~ Passed(k, c)
               PROVE  k \in Unfinished' /\ ~ Passed(k, c)'
    OBVIOUS
  <2>1. ~ (k = j /\ file[j] = Count)
    BY <1>9
  <2>2. pc'[k] = pc[k]
    BY <1>2, <1>4, <2>1
  <2> QED BY <1>8, <2>2 DEF Unfinished
<1>11. MissingHasCause'
  <2> SUFFICES ASSUME NEW c \in Places, disk[c] = Nil, \A v \in Versions : c \in Chunks(v)
               PROVE  \E k \in Unfinished' : ~ Passed(k, c)'
    BY <1>2 DEF MissingHasCause
  <2>1. PICK k \in Unfinished : ~ Passed(k, c)
    BY DEF MissingHasCause
  <2>2. k \in JVMs
    BY DEF Unfinished
  <2>3. Version[k] \in Versions
    BY <2>2 DEF Versions
  <2>4. c[2] <= Length(k, c[1])
    BY <2>2, <2>3, PlaceShape
  <2> QED BY <1>10, <2>1, <2>2, <2>4
<1>12. FileInv'
  <2> SUFFICES ASSUME NEW f \in FILES \ torn
               PROVE  Untouched(f)' \/ \E k \in JVMs : FilledBy(k, f)'
    BY <1>2 DEF FileInv
  <2>1. \A k \in JVMs \ {j} : Writing(k, f)' <=> Writing(k, f)
    BY <1>2 DEF Writing
  <2>2. ~ Writing(j, f)'
    BY <1>3, <1>4 DEF Writing
  <2>3. CASE Untouched(f)
    <3>1. f # file[j]
      BY <2>3 DEF Untouched, Writing
    <3>2. PICK k \in Unfinished : file[k] < f \/ (file[k] = f /\ ~ opened[k])
      BY <2>3 DEF Untouched
    <3>3. k \in JVMs /\ f \in Nat /\ f <= Count
      BY SizeAssumption DEF Unfinished, FILES
    <3>4. k \in Unfinished' /\ (file'[k] < f \/ (file'[k] = f /\ ~ opened'[k]))
      <4>1. CASE k # j
        BY <1>2, <3>2, <3>3, <4>1 DEF Unfinished
      <4>2. CASE k = j
        <5>1. file[j] < f /\ file[j] # Count
          BY <1>1, <3>2, <3>3, <4>2
        <5> QED BY <1>1, <1>4, <3>2, <3>3, <4>2, <5>1 DEF Unfinished
      <4> QED BY <4>1, <4>2
    <3> QED BY <1>2, <2>1, <2>2, <2>3, <3>4 DEF Untouched
  <2>4. ASSUME NEW k \in JVMs, FilledBy(k, f)
        PROVE  FilledBy(k, f)'
    <3>1. \A c \in Places : c[1] = f /\ disk[c] = Nil /\ c[2] <= Length(k, f) =>
             k \in Unfinished' /\ ~ Passed(k, c)'
      BY <1>10, <2>4 DEF FilledBy
    <3>2. \A l \in JVMs \ {k} : Writing(l, f)' => Writing(l, f) /\ written'[l] = written[l]
      BY <1>2, <2>1, <2>2
    <3> QED BY <1>2, <2>4, <3>1, <3>2 DEF FilledBy, Length
  <2> QED BY <2>3, <2>4 DEF FileInv
<1>13. Alone'
  <2> SUFFICES ASSUME NEW k \in JVMs, sole = k
               PROVE  AloneAs(k)'
    BY <1>2 DEF Alone
  <2>1. k = j /\ AloneAs(j) /\ Placed(j)
    BY DEF Alone, AloneAs
  <2>2. \A c \in Places : c[1] <= file[j] => disk[c] = Content(Version[j], c)
    <3> SUFFICES ASSUME NEW c \in Places, c[1] <= file[j]
                 PROVE  disk[c] = Content(Version[j], c)
      OBVIOUS
    <3>1. c[1] \in Nat /\ (c \in Chunks(Version[j]) <=> c[2] <= Length(j, c[1]))
      BY PlaceShape
    <3>2. CASE c[1] < file[j]
      BY <2>1, <3>2 DEF Placed
    <3>3. CASE c[1] = file[j]
      BY <1>1, <2>1, <3>1, <3>3 DEF Placed, Content
    <3> QED BY <1>1, <3>1, <3>2, <3>3
  <2>3. CASE file[j] = Count
    <3>1. \A c \in Places : disk'[c] = Content(Version[j], c)
      BY <1>2, <2>2, <2>3, PlaceShape, SizeAssumption DEF FILES
    <3> QED BY <1>2, <1>3, <2>1, <2>3, <3>1 DEF AloneAs, Content
  <2>4. CASE file[j] # Count
    <3>1. Placed(j)'
      <4> SUFFICES ASSUME NEW c \in Places
                   PROVE  c[1] < file[j] + 1 => disk[c] = Content(Version[j], c)
        BY <1>2, <1>4, <2>4 DEF Placed, Content
      <4>1. c[1] \in Nat
        BY PlaceShape
      <4> QED BY <1>1, <2>2, <4>1
    <3> QED BY <1>2, <1>4, <2>1, <2>4, <3>1 DEF AloneAs
  <2> QED BY <2>3, <2>4
<1>14. QED BY <1>5, <1>6, <1>11, <1>12, <1>13

\* A copy that has thrown or was cut off stays the cause of what it left out.
LEMMA EndOfCopyStep ==
  ASSUME IInv, NEW j \in JVMs, CopyFails(j) \/ Crash(j)
  PROVE  IInv'
<1> USE DEF IInv, CopyFails, Crash
<1>1. /\ pc' \in [JVMs -> {"new", "copying", "loaded", "halfway", "cut"}]
      /\ pc[j] = "copying" /\ pc'[j] \in {"halfway", "cut"} /\ \A k \in JVMs \ {j} : pc'[k] = pc[k]
      /\ UNCHANGED <<file, opened, written, disk, unread, seen, loads, sole, torn>>
  BY DEF TypeOK, copy, conversion
<1>2. TypeOK'
  BY <1>1 DEF TypeOK, Length
<1>3. Fresh'
  BY <1>1 DEF Fresh
<1>4. \A k \in JVMs, c \in Places : Passed(k, c)' <=> Passed(k, c)
  BY <1>1 DEF Passed
<1>5. Unfinished' = Unfinished
  BY <1>1 DEF Unfinished
<1>6. MissingHasCause'
  BY <1>1, <1>4, <1>5 DEF MissingHasCause, Unfinished
<1>7. FileInv'
  <2> SUFFICES ASSUME NEW f \in FILES \ torn
               PROVE  Untouched(f)' \/ \E k \in JVMs : FilledBy(k, f)'
    BY <1>1 DEF FileInv
  <2>1. \A k \in JVMs : Writing(k, f)' => Writing(k, f)
    BY <1>1 DEF Writing
  <2>2. CASE Untouched(f)
    BY <1>1, <1>5, <2>1, <2>2 DEF Untouched
  <2>3. ASSUME NEW k \in JVMs, FilledBy(k, f)
        PROVE  FilledBy(k, f)'
    BY <1>1, <1>4, <1>5, <2>1, <2>3 DEF FilledBy, Length
  <2> QED BY <2>2, <2>3 DEF FileInv
<1>8. Alone'
  <2> SUFFICES ASSUME NEW k \in JVMs, sole = k
               PROVE  AloneAs(k)'
    BY <1>1 DEF Alone
  <2>1. AloneAs(k) /\ Placed(k)' <=> AloneAs(k) /\ Placed(k)
    BY <1>1 DEF Placed, Content
  <2>2. AloneAs(k)
    BY DEF Alone
  <2> QED BY <1>1, <2>1, <2>2 DEF AloneAs
<1>9. QED BY <1>2, <1>3, <1>6, <1>7, <1>8

\* xsltproc reads what the files hold and changes nothing.
LEMMA ConversionStep ==
  ASSUME IInv, NEW j \in JVMs, Convert(j) \/ ReadStyle(j)
  PROVE  IInv'
<1> USE DEF IInv
<1>1. /\ UNCHANGED <<pc, file, opened, written, disk, loads, sole, torn>>
      /\ unread' \in [JVMs -> SUBSET Places]
      /\ \A k \in JVMs \ {j} : unread'[k] = unread[k] /\ seen'[k] = seen[k]
  BY DEF Convert, ReadStyle, copy, TypeOK
<1>2. /\ seen' \in [JVMs -> SUBSET (Places \X (Versions \cup {Nil}))]
      /\ \/ seen'[j] = {}
         \/ \E c \in Places : c \in unread[j] /\ seen'[j] = seen[j] \cup {<<c, disk[c]>>}
  <2>1. CASE Convert(j)
    BY <2>1 DEF Convert, TypeOK
  <2>2. CASE ReadStyle(j)
    <3>1. PICK c \in unread[j] : seen' = [seen EXCEPT ![j] = @ \cup {<<c, disk[c]>>}]
      BY <2>2 DEF ReadStyle
    <3>2. c \in Places /\ disk[c] \in Versions \cup {Nil}
      BY DEF TypeOK
    <3>3. seen'[j] = seen[j] \cup {<<c, disk[c]>>} /\ seen'[j] \subseteq Places \X (Versions \cup {Nil})
      BY <3>1, <3>2 DEF TypeOK
    <3> QED BY <3>1, <3>2, <3>3 DEF TypeOK
  <2> QED BY <2>1, <2>2
<1>3. TypeOK'
  BY <1>1, <1>2 DEF TypeOK, Length
<1>4. Fresh' /\ MissingHasCause' /\ FileInv'
  BY <1>1 DEF Fresh, MissingHasCause, FileInv, Untouched, FilledBy, Writing, Passed, Unfinished, Length
<1>5. Alone'
  <2> SUFFICES ASSUME NEW k \in JVMs, sole = k
               PROVE  AloneAs(k)'
    BY <1>1 DEF Alone
  <2>1. AloneAs(k)
    BY DEF Alone
  <2>2. pc[k] = "copying" => unread'[k] = {} /\ seen'[k] = {}
    <3>1. CASE k = j
      BY <2>1, <3>1 DEF AloneAs, Convert, ReadStyle
    <3>2. CASE k # j
      BY <1>1, <2>1, <3>2 DEF AloneAs
    <3> QED BY <3>1, <3>2
  <2>3. pc[k] = "loaded" => \A r \in seen'[k] : r[2] = Content(Version[k], r[1])
    <3>1. CASE k = j
      BY <1>2, <2>1, <3>1 DEF AloneAs
    <3>2. CASE k # j
      BY <1>1, <2>1, <3>2 DEF AloneAs
    <3> QED BY <3>1, <3>2
  <2>4. Placed(k)' <=> Placed(k)
    BY <1>1 DEF Placed, Content
  <2> QED BY <1>1, <2>1, <2>2, <2>3, <2>4 DEF AloneAs, Content
<1>6. QED BY <1>3, <1>4, <1>5

------------------------------------------------------------------------------
\* The invariant of the copies and conversions, for all constants.
THEOREM InvHolds == Spec => []IInv
<1>1. IInv /\ [Next]_vars => IInv'
  <2> SUFFICES ASSUME IInv, [Next]_vars
               PROVE  IInv'
    OBVIOUS
  <2>1. CASE UNCHANGED vars
    <3>1. UNCHANGED <<pc, file, opened, written, disk, unread, seen, loads, sole, torn>>
      BY <2>1 DEF vars, copy, conversion
    <3> QED BY <3>1 DEF IInv, TypeOK, Fresh, MissingHasCause, FileInv, Untouched, FilledBy, Writing,
            Alone, AloneAs, Placed, Content, Passed, Unfinished, Length
  <2>2. ASSUME NEW j \in JVMs,
               LoadClass(j) \/ Copy(j) \/ CopyFails(j) \/ Crash(j) \/ Convert(j) \/ ReadStyle(j)
        PROVE  IInv'
    BY <2>2, LoadClassStep, OpenStyleStep, WriteChunkStep, CloseStyleStep, EndOfCopyStep,
       ConversionStep DEF Copy
  <2> QED BY <2>1, <2>2 DEF Next
<1> QED BY <1>1, InitInv, PTL DEF Spec

\* The state keeps its shape: no writer gets behind the end of a file.
THEOREM TypeCorrect == Spec => []TypeOK
BY InvHolds, PTL DEF IInv

\* MarcUtil.java:46-83.  However many JVMs copy at the same time, a place that the
\* file has in every version is empty only because of a copy that is under way,
\* has thrown or was cut off.
THEOREM MissingChunksHaveCause == Spec => []MissingHasCause
BY InvHolds, PTL DEF IInv

\* MarcUtil.java:68-80.  A file is all that it is in some version and nothing more,
\* unless such a copy has not got past it, or it was truncated while a JVM that
\* has a longer one was writing it.
THEOREM WholeFiles == Spec => []WholeUnlessTorn
<1>1. IInv => WholeUnlessTorn
  <2> SUFFICES ASSUME IInv, NEW f \in FILES \ torn,
                      ~ \A j \in JVMs : pc[j] = "new",
                      \A j \in Unfinished : Past(j, f)
               PROVE  Whole(f)
    BY DEF WholeUnlessTorn
  <2>1. f \in Nat /\ \A k \in JVMs : file[k] \in Nat
    BY DEF IInv, TypeOK, FILES
  <2>2. ~ Untouched(f)
    <3> SUFFICES ASSUME Untouched(f) PROVE FALSE
      OBVIOUS
    <3>1. PICK k \in Unfinished : file[k] < f \/ (file[k] = f /\ ~ opened[k])
      BY DEF Untouched
    <3>2. k \in JVMs /\ Past(k, f)
      BY <3>1 DEF Unfinished
    <3>3. ~ opened[k] => written[k] = 0
      BY <3>2 DEF IInv, Fresh
    <3>4. Length(k, f) \in Nat /\ Length(k, f) >= 1
      BY <3>2, LengthShape
    <3> QED BY <2>1, <3>1, <3>2, <3>3, <3>4 DEF Past
  <2>3. PICK j \in JVMs : FilledBy(j, f)
    BY <2>2 DEF IInv, FileInv
  <2>4. ASSUME NEW c \in Places, c[1] = f
        PROVE  disk[c] # Nil <=> c \in Chunks(Version[j])
    <3>1. c \in Chunks(Version[j]) <=> c[2] <= Length(j, f)
      BY <2>4, PlaceShape
    <3>2. c[2] <= Length(j, f) /\ Past(j, f) => Passed(j, c)
      BY <2>4 DEF Past, Passed
    <3>3. disk[c] # Nil => c[2] <= Length(j, f)
      BY <2>3, <2>4 DEF FilledBy
    <3>4. disk[c] = Nil /\ c[2] <= Length(j, f) => j \in Unfinished /\ ~ Passed(j, c)
      BY <2>3, <2>4 DEF FilledBy
    <3> QED BY <3>1, <3>2, <3>3, <3>4
  <2>5. Version[j] \in Versions
    BY DEF Versions
  <2> QED BY <2>4, <2>5 DEF Whole
<1> QED BY <1>1, InvHolds, PTL

\* A JVM that copied alone finds its own version until another one starts.
THEOREM OwnVersionAfterLoad == Spec => []OwnVersion
<1>1. IInv => OwnVersion
  BY DEF IInv, Alone, AloneAs, OwnVersion
<1> QED BY <1>1, InvHolds, PTL
==============================================================================
