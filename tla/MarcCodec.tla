------------------------------ MODULE MarcCodec ------------------------------
(***************************************************************************)
(* Writing MARC records to a string and reading them back: toMarcString,   *)
(* Record.toString, buildMarcData and buildMarcDataSingle of MarcUtil.     *)
(*                                                                         *)
(* A record on the wire is a leader of 24 characters, a directory (tag,    *)
(* length and start of every field, in bytes) and the fields themselves,   *)
(* each behind a 1E character.                                             *)
(* Lengths count bytes in the writer's charset, which the string does not  *)
(* name: the reader guesses it from the last directory entry and encodes   *)
(* the string again to cut it up.  A field is read correctly only if what  *)
(* the directory says is where the field is in the reader's encoding.      *)
(*                                                                         *)
(* The text of a field is a body, of which only its width in each charset  *)
(* counts, and a number of trailing blanks, which trim() may take away.    *)
(***************************************************************************)
EXTENDS Integers, Sequences, FiniteSets

CONSTANTS
  Bodies,      \* field contents, indicators and subfield marks included
  Utf8, Gbk,   \* [Bodies -> Nat], their widths in bytes
  Replaced,    \* the body that GBK makes of a body that it cannot encode ...
  Lossy,       \* ... the bodies it cannot encode
  ControlTags, DataTags, \* numbers: tags 00x, and the others
  MaxPad,      \* bound: trailing blanks of a text
  MaxLen,      \* 9999:  the largest length with 4 digits
  MaxStart,    \* 99999: the largest offset with 5 digits
  MaxTotal,    \* 99999: the largest record, its directory counted, with 5 digits
  MaxFields,   \* bound: fields of a record
  MaxFile      \* bound: records of a file

Charsets == {"utf8", "gbk"}

ASSUME WidthAssumption ==
  /\ Utf8 \in [Bodies -> Nat] /\ Gbk \in [Bodies -> Nat]
  /\ \A b \in Bodies : Gbk[b] <= Utf8[b]
  /\ Replaced \in Bodies /\ Lossy \subseteq Bodies
\* A character that GBK does not know becomes a "?" of one byte; in UTF-8 it has two
\* or more, because GBK knows those of one byte.
ASSUME LossyAssumption == \A b \in Lossy : Gbk[b] < Utf8[b]
ASSUME TagAssumption ==
  /\ ControlTags \subseteq Nat /\ DataTags \subseteq Nat
  /\ \A c \in ControlTags, d \in DataTags : c < d
ASSUME BoundAssumption == {MaxPad, MaxLen, MaxStart, MaxTotal, MaxFields, MaxFile} \subseteq Nat

Texts   == [body : Bodies, pad : 0 .. MaxPad]
Garbled == [body |-> Replaced, pad |-> -1]   \* what a field cut in the wrong place holds
Tags    == ControlTags \cup DataTags
Fields  == [tag : Tags, text : Texts]

VARIABLES
  record,   \* the Record being edited: [charSet, fields]
  file,     \* the records written so far, as they stand in the string
  written,  \* the Records they were written from, sorted by tag
  result    \* what the last read of the file returned, or "none", or "throws"

vars == <<record, file, written, result>>

------------------------------------------------------------------------------
\* Bytes.
Width(cs, t) == (IF cs = "utf8" THEN Utf8 ELSE Gbk)[t.body] + t.pad

\* A field takes its text and the 1E in front of it.
Size(cs, t) == 1 + Width(cs, t)

\* The first n of some sizes together.
SumTo(sizes, n) ==
  LET sum[k \in 0 .. n] == IF k = 0 THEN 0 ELSE sum[k-1] + sizes[k]
  IN  sum[n]

\* The digits that n has beyond those of max; an int has ten digits at most.
Beyond(n, max) == IF n <= max THEN 0 ELSE Cardinality({d \in 0 .. 5 : n >= (max + 1) * 10^d})

Offset(cs, body, i) == SumTo([j \in DOMAIN body |-> Size(cs, body[j])], i-1)

\* Decoding what was encoded in cs.
Decoded(cs, t) == IF cs = "gbk" /\ t.body \in Lossy THEN [t EXCEPT !.body = Replaced] ELSE t

------------------------------------------------------------------------------
\* Writing.  sorted() orders the control fields, then the data fields, by tag
\* and keeps the order of equal tags; every control tag sorts before a data tag.
UpTo(fs, i) ==
  {j \in DOMAIN fs : fs[j].tag < fs[i].tag \/ (fs[j].tag = fs[i].tag /\ j <= i)}

SortedByTag(fs) ==
  [p \in DOMAIN fs |-> fs[CHOOSE i \in DOMAIN fs : Cardinality(UpTo(fs, i)) = p]]

\* Characters of a directory that are too many: its numbers are filled up to
\* four and five digits with zeros, but never cut.
DirectoryDigits(dir) ==
  SumTo([i \in DOMAIN dir |-> Beyond(dir[i].len, MaxLen) + Beyond(dir[i].start, MaxStart)], Len(dir))

\* What the leader counts: the directory and the fields, in UTF-8 always.
Total(fs, dir) ==
  12 * Len(fs) + DirectoryDigits(dir)
  + SumTo([i \in DOMAIN fs |-> Size("utf8", fs[i].text)], Len(fs))

\* A record as a string: csOf gives the charset in which the fields with a tag
\* are measured.
Layout(fs, csOf) ==
  LET size == [i \in DOMAIN fs |-> Size(csOf[fs[i].tag], fs[i].text)]
      dir  == [i \in DOMAIN fs |-> [tag |-> fs[i].tag, len |-> size[i], start |-> SumTo(size, i-1)]]
  IN  [surplus  |-> Beyond(Total(fs, dir), MaxTotal),   \* characters of the leader beyond 24
       dir      |-> dir,
       body     |-> [i \in DOMAIN fs |-> fs[i].text],
       fieldEnd |-> FALSE,   \* a 1E behind the last field
       recEnd   |-> TRUE]    \* a 1D at the end

\* toMarcString measures everything in UTF-8.
MarcString(r) == Layout(SortedByTag(r.fields), [tag \in Tags |-> "utf8"])

\* Record.toString measures data fields in the record's charset, and control
\* fields in UTF-8 whatever that is.
RecordString(r) ==
  Layout(SortedByTag(r.fields), [tag \in Tags |-> IF tag \in DataTags THEN r.charSet ELSE "utf8"])

\* Other programs write the layout of the standard, in one charset throughout:
\* it ends every field with a 1E, the last one too, and its leader is no longer
\* than it should be.
StandardString(fs, cs) ==
  [Layout(SortedByTag(fs), [tag \in Tags |-> cs]) EXCEPT !.fieldEnd = TRUE, !.surplus = 0]

------------------------------------------------------------------------------
\* A slip: cutting a blank off the last field whether or not there is one.
TrimmedAlways(m) ==
  [m EXCEPT !.recEnd = FALSE, !.fieldEnd = FALSE, !.body = [m.body EXCEPT ![Len(m.body)].pad = @ - 1]]

\* Reading.
\* trim() at the end of the string: control characters, then blanks.
Trimmed(m) ==
  [m EXCEPT !.recEnd = FALSE, !.fieldEnd = FALSE,
            !.body = [m.body EXCEPT ![Len(m.body)].pad = 0]]

\* A slip: counting the 1D at the end of the record.
DetectedWithMark(m) ==
  LET n     == Len(m.body)
      total == Offset("utf8", m.body, n+1) + (IF m.fieldEnd THEN 1 ELSE 0)
                 + (IF m.recEnd THEN 1 ELSE 0)
  IN  IF m.dir[n].len + m.dir[n].start = total THEN "utf8" ELSE "gbk"

\* marcCharSet: UTF-8 if the last directory entry ends where the string does.
Detected(m) ==
  LET n     == Len(m.body)
      total == Offset("utf8", m.body, n+1) + (IF m.fieldEnd THEN 1 ELSE 0)
  IN  IF m.dir[n].len + m.dir[n].start = total THEN "utf8" ELSE "gbk"

\* getbyte(start, start + len), and what becomes of the slice.  Behind the last
\* field come a 1D, which is dropped, and zero bytes, which a data field drops
\* and a control field keeps; a 1E is kept in either.
Slice(m, cs, d) ==
  LET whole == {i \in DOMAIN m.body :
                  d.start = Offset(cs, m.body, i) /\ d.len = Size(cs, m.body[i])}
      n     == Len(m.body)
      pastEnd == /\ d.start = Offset(cs, m.body, n) /\ d.len > Size(cs, m.body[n])
                 /\ ~ m.fieldEnd /\ d.tag \in DataTags
  IN  IF whole # {} THEN Decoded(cs, m.body[CHOOSE i \in whole : TRUE])
      ELSE IF pastEnd THEN Decoded(cs, m.body[n])
      ELSE Garbled

\* What is too long at the beginning: the reader takes 24 characters for the
\* leader, so what is left of it shifts the directory, and so does any number
\* with a digit too many.
ExtraDigits(m) == m.surplus + DirectoryDigits(m.dir)

Thrown == [charSet |-> "throws", fields |-> << >>]

\* A slip: the Record is not told its charset and keeps the default.
ReadingsUnlabelled(m) ==
  LET cs  == Detected(m)
      got == [charSet |-> "utf8",
              fields  |-> [i \in DOMAIN m.dir |->
                             [tag |-> m.dir[i].tag, text |-> Slice(m, cs, m.dir[i])]]]
  IN  IF ExtraDigits(m) % 12 # 0 THEN {Thrown} ELSE {got}

\* What reading m may give: a Record, or an exception, because the directory is
\* not a multiple of 12 characters or a garbled data field has no subfield mark.
Readings(m) ==
  LET cs  == Detected(m)
      got == [charSet |-> cs,
              fields  |-> [i \in DOMAIN m.dir |->
                             [tag |-> m.dir[i].tag, text |-> Slice(m, cs, m.dir[i])]]]
      cut == {i \in DOMAIN m.dir : got.fields[i].text = Garbled}
  IN  IF ExtraDigits(m) % 12 # 0 THEN {Thrown}
      ELSE {got} \cup {t \in {Thrown} : \E i \in cut : m.dir[i].tag \in DataTags}

\* What the reader of a file splits it into: only the end of it is trimmed, and
\* every record gets its 1D back.
Pieces == [file EXCEPT ![Len(file)] = [Trimmed(@) EXCEPT !.recEnd = TRUE]]

------------------------------------------------------------------------------
NoRecord == [charSet |-> "utf8", fields |-> << >>]

Unread == [status |-> "none", records |-> << >>]

Init ==
  /\ record = NoRecord
  /\ file = << >> /\ written = << >>
  /\ result = Unread

\* Bounds of the model: nothing is edited that could not be written any more, or
\* that was read wrongly, and no file is continued that has been read (reading
\* leaves nothing behind that a writer would look at).
Readable(r) == \A i \in DOMAIN r.fields : r.fields[i].text # Garbled

Editing == Len(file) < MaxFile /\ result.status = "none"

\* addfiled.
AddField(f) ==
  /\ Editing /\ Len(record.fields) < MaxFields
  /\ record' = [record EXCEPT !.fields = Append(@, f)]
  /\ UNCHANGED <<file, written, result>>

\* replace: every field with the tag gets the new contents.
ReplaceField(f) ==
  /\ Editing
  /\ \E i \in DOMAIN record.fields : record.fields[i].tag = f.tag
  /\ record' = [record EXCEPT !.fields =
                  [i \in DOMAIN @ |-> IF @[i].tag = f.tag THEN f ELSE @[i]]]
  /\ UNCHANGED <<file, written, result>>

SetCharSet(cs) ==
  /\ Editing
  /\ record' = [record EXCEPT !.charSet = cs]
  /\ UNCHANGED <<file, written, result>>

\* Bound: with twelve digits too many the directory would have the length of one
\* with an entry more.
Countable(m) == ExtraDigits(m) < 12

\* A record without fields cannot be written: there is no directory to end.
Write(m, cs) ==
  /\ Editing /\ record.fields # << >> /\ Countable(m)
  /\ file' = Append(file, m)
  /\ written' = Append(written, [charSet |-> cs, fields |-> SortedByTag(record.fields)])
  /\ record' = NoRecord
  /\ result' = Unread

ToMarcString   == Write(MarcString(record), "utf8")
RecordToString == Write(RecordString(record), record.charSet)

\* Another program writes a record of its own to the same file.
Receive(cs) == Write(StandardString(record.fields, cs), cs)

Read(results) ==
  /\ result' = IF \E i \in DOMAIN results : results[i] = Thrown
                 THEN [status |-> "throws", records |-> << >>]
                 ELSE [status |-> "read", records |-> results]
  /\ UNCHANGED <<record, file, written>>

\* buildMarcData: the records of the file, all of them or none.
BuildMarcData ==
  /\ file # << >>
  /\ LET of == [i \in DOMAIN file |-> Readings(Pieces[i])]
     IN  \E results \in [DOMAIN file -> UNION {of[i] : i \in DOMAIN file}] :
           (\A i \in DOMAIN file : results[i] \in of[i]) /\ Read(results)

\* buildMarcDataSingle, of a file with one record.
BuildMarcDataSingle ==
  /\ Len(file) = 1
  /\ \E r \in Readings(Trimmed(file[1])) : Read(<<r>>)

\* A record that was read becomes the one being edited, for a new file.
TakeRecord ==
  /\ \E i \in DOMAIN result.records :
       Readable(result.records[i]) /\ record' = result.records[i]
  /\ file' = << >> /\ written' = << >> /\ result' = Unread

Next ==
  \/ \E f \in Fields : AddField(f) \/ ReplaceField(f)
  \/ \E cs \in Charsets : SetCharSet(cs) \/ Receive(cs)
  \/ ToMarcString \/ RecordToString
  \/ BuildMarcData \/ BuildMarcDataSingle \/ TakeRecord

Spec == Init /\ [][Next]_vars

------------------------------------------------------------------------------
\* Properties.

\* The shape of the state.
RecordOK(r) == /\ r.charSet \in Charsets
               /\ \A i \in DOMAIN r.fields : /\ r.fields[i].tag \in Tags
                                             /\ r.fields[i].text \in Texts \cup {Garbled}
TypeOK ==
  /\ RecordOK(record)
  /\ Len(file) <= MaxFile /\ Len(written) = Len(file)
  /\ \A i \in DOMAIN written : RecordOK(written[i]) /\ Len(file[i].dir) = Len(written[i].fields)
  /\ result.status \in {"none", "read", "throws"}
  /\ \A i \in DOMAIN result.records : RecordOK(result.records[i])

NonAscii(t) == Utf8[t.body] # Gbk[t.body]

HasNonAscii(r) == \E i \in DOMAIN r.fields : NonAscii(r.fields[i].text)

\* The i-th record of the file is one that the reader can be expected to read:
\* its numbers fit in the leader and the directory, and where the charset matters
\*   - Record.toString has not measured a control field in another charset,
\*   - its end, the only thing the charset is guessed from, is not moved: by a
\*     1E behind the last field of a UTF-8 record, which only the end of the
\*     file loses again, or by the loss of blanks at the end of the file.
Sound(i) ==
  LET r    == written[i]
      last == i = Len(file)
  IN  /\ ExtraDigits(file[i]) = 0
      /\ r.charSet = "gbk" /\ ~ file[i].fieldEnd =>
           \A j \in DOMAIN r.fields : r.fields[j].tag \in ControlTags => ~ NonAscii(r.fields[j].text)
      /\ r.charSet = "utf8" /\ file[i].fieldEnd /\ HasNonAscii(r) => last
      /\ last /\ HasNonAscii(r) => r.fields[Len(r.fields)].text.pad = 0
      /\ last /\ r.fields[Len(r.fields)].text.pad > 0 => r.fields[Len(r.fields)].tag \in DataTags

\* What the fields of a sound record are read as: GBK replaces what it does not
\* know, and the end of the file loses its blanks.
Expected(i) ==
  LET r == written[i]
      n == Len(r.fields)
      decoded == [j \in 1 .. n |-> [r.fields[j] EXCEPT !.text = Decoded(r.charSet, @)]]
  IN  IF i = Len(file) THEN [decoded EXCEPT ![n].text.pad = 0] ELSE decoded

\* A sound record is read back as it was written, whichever of the two writers
\* or another program wrote it and whatever stands around it in the file.
ReadBack ==
  result.status = "read" =>
    \A i \in DOMAIN file : Sound(i) => result.records[i].fields = Expected(i)

\* Only a record that is not sound can make the reader of a file throw (and
\* lose all the others).
ThrowsOnlyIfUnsound == result.status = "throws" => \E i \in DOMAIN file : ~ Sound(i)

\* Reading and writing again changes nothing: Record.toString of what was read
\* is the string it was read from, although the charset may be another one.
RewriteIsStable ==
  result.status = "read" =>
    \A i \in DOMAIN file :
      (Sound(i) /\ ~ file[i].fieldEnd /\ result.records[i].fields = written[i].fields)
        => RecordString(result.records[i]).dir = file[i].dir

\* README.md:3, "recognises the encoding of MARC21 automatically and extracts the
\* data": a record in the layout of the standard, in either charset, whose text
\* that charset can encode is read as it was written.
EncodingRecognised ==
  result.status = "read" =>
    \A i \in DOMAIN file :
      (file[i].fieldEnd /\ \A j \in DOMAIN written[i].fields :
                             Decoded(written[i].charSet, written[i].fields[j].text)
                               = written[i].fields[j].text)
        => result.records[i].fields = written[i].fields
==============================================================================
