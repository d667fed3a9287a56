# MarcUtil in TLA+

MarcUtil is a Java library for bibliographic records: it reads and writes MARC 21
strings, edits records, converts them to BIBFRAME by running `xsltproc` on the
style sheets of marc2bibframe2, and turns BIBFRAME XML into objects and back. This
directory models the parts of it whose correctness is a matter of state and order,
checks them with TLC and proves every invariant and action property that TLC finds to
hold with TLAPS, for every value of the constants. Java sources are under
`src/src/main/java/com/wcdk/marcutil/`; line numbers below refer to them,
`PROJECT.json` maps every definition to its lines.

## Inventory

| Component | State | Operations | What makes it correct | Module |
|---|---|---|---|---|
| `RepeatKeyMap`: the subfields of a field, a list in which keys repeat | an array `nodes`, `length` | `put`, `put` after an occurrence, `putBefor`, `putToIndex`, three `remove`, `removeLastValue`, `replace`, `get`, `putAll` | it behaves as a list; it grows in time; nothing stale behind `length`; a call that throws does not lose more than it must | `RepeatKeyMap`, `OrderedMultimap` |
| MARC strings | a `Record`; the string, with a directory of byte lengths and offsets | `toMarcString`, `Record.toString`, `buildMarcData`, `buildMarcDataSingle`, `addfiled`, `replace` | what is written is read back, in a charset the string does not name | `MarcCodec` |
| Field 039, the edit history inside a record | subfields `a b c d y z` | two forms of `build039` | the creation is kept, dates and users stay paired, the newest updates come first | `Field039` |
| Conversion to BIBFRAME | temporary files, a child process, its pipes, two threads per call | `toBibmrame` | a call returns, and returns the conversion of its own record | `Bibmrame` |
| Record editing | field objects and subfield maps, which records may share | `addfiled`, `replace`, `replace` with an index, `build039`, `deleteSubfiled`, `flush008` | a call reaches the fields it names and no others; 008 keeps its positions | `RecordEdit` |
| Style files: static initialiser, `moveFiles` | 29 files on disk, shared by all JVMs; what each JVM has copied of them | copy at class loading | a conversion finds all of them, complete and of one version, whatever other JVMs do | `StyleFiles` |
| BIBFRAME objects, `parseBibframeXML` | the lists of items of a Work and an Instance; the document | `parseBibframeXML` with `buildBibToObj`, `propertiesToStrem` with `toBibFrameNode` | one bad element does not leave half a list; what was parsed and written is what is parsed again | `BibframeXml` |
| `createXML` | none | writes a record as XML | | not modelled: straight-line output |
| Leader, 006, 007, 008 analysis | none | slices fixed positions | | not modelled: stateless tables |
| Beans, `test.java` | data | accessors, an example | | appear as records |
| `style/`, `xsltproc/` | | | | third-party; `xsltproc` is an external process of `Bibmrame` |

How they interact. A `Record` holds control fields and data fields; a data field
holds a `RepeatKeyMap`. The codec reads subfields with `putAll` and writes them with
`forEach`, which visits the whole array: this is why slots behind `length` must be
empty. `build039` reads an old map with `get` and `size`, builds a new one with `put`
and stores it with `replace` or `addfiled`; a null it puts there is met again by
`toMarcString`. `toBibmrame` writes the record to a file that a child process reads,
after class loading has copied the style sheets the child needs.

What is hard. The map replaces its array before it has copied the old one, so that an
exception in the copy loses entries; `m.putAll(m)` iterates over what it writes. The
codec measures in one charset what the reader may measure in another. `build039`
feeds its own result to the next call. `toBibmrame` shares a directory between
threads, names files by the millisecond and has two pipes to keep from filling. Class
loading truncates files that the `xsltproc` of another JVM may be reading, and swallows
its own failure. Each class of BIBFRAME items reads and writes XML in a place of its
own, and nothing in the code compares the two. The
full list, with lines, is under `hazards` in `PROJECT.json`.

## Modules

### OrderedMultimap and RepeatKeyMap

`OrderedMultimap` is what callers may rely on: a list of entries, the last call and
what it returned. `RepeatKeyMap` has the array (`nodes`, `capacity`, `length`), the
last call (`call`, `ret`) and a running `putAll` (`mode`, `source`, `next`). Every
method is one action, except `putAll`, whose iterations are steps of their own
(`PutAllNext`) because what it iterates over may change under it. The class is not
synchronised and used from one thread: no call starts while `putAll` runs.

- `Resized` is `resize()`, with the exact `==` of the code in integers.
- The loops that copy up to the first slot they cannot compare are `Copied`,
  `Without`, `Inserted`; `Stop` is the slot at which such a loop ends, `Throws` what
  the call then "returns".
- Keys, values and positions are small sets; `NullKey` is Java's null as a key.
- The code moves one slot more than there are entries (lines 100 and 122): that slot
  is empty, by `NoStaleSlots`, and `Inserted` leaves it so.

`MaxLength` bounds the length at which an insertion may start, `MaxUnion` the length at
which a `putAll` may end.
`MCRepeatKeyMap` starts with 4 slots where the code has 8, so that the array doubles
at lengths 2 and 5 and both resizes fit in the bounds; the proofs cover 8.

### MarcCodec

State: the `Record` being edited, the records written to a file as they stand in
the string (`file`), the Records they were written from (`written`) and what the last
read returned (`result`). A text is a body, of which only the width in each charset
counts, and trailing blanks. `Layout` builds directory and fields; `MarcString`
measures everything in UTF-8, `RecordString` measures data fields in the record's
charset and control fields in UTF-8 as the code does, `StandardString` is what other
programs write: one charset, a 1E behind the last field. `Detected` is
`marcCharSet`/`getmarcCharSet`. `SumTo` adds sizes up to an offset, `SortedByTag` puts
every field where its rank is, the number of fields that do not stand behind it (`UpTo`),
which is what the stable sort of the writers does. `Slice` is `getbyte` and what `cleanDatafiled` makes of
the result, `Readings` adds the exceptions. A slice that does not match a field is
`Garbled`; a garbled data field may or may not have a subfield mark left, so that
reading may or may not throw.

Numbers have a width. The writers fill them up with zeros and never cut them: a length
over 9999 (`MaxLen`), an offset over 99999 (`MaxStart`), or a total of directory and fields
over 99999 (`MaxTotal`, in the leader) takes more digits than it has positions. `Beyond` counts
the digits that are too many, `DirectoryDigits` those of a directory, `Total` is what the
leader counts (in UTF-8 always, and with the directory, whose own surplus may push it
over), `surplus` by how much the leader exceeds 24 characters. The reader takes 24, so that
both shift the directory alike: `ExtraDigits` is their sum, and if the directory is then no
multiple of 12 characters long, reading throws (`Readings`). Bounds beside the numbers of fields
and records: no record has twelve digits too many (`Countable`), with which the directory
would have the length of one with an entry more, and a file is not continued once it has been
read (reading leaves nothing behind that a writer looks at).

`Sound` says which records can be expected to be read correctly; it is long because
the code depends on all of it: that all the numbers fit, the leader's too, that the end of the
record is where the charset is guessed from, and so on. `ReadBack` says they are, whatever stands around them
in the file, `ThrowsOnlyIfUnsound` that nothing else makes the reader throw.

### Field039

`fields` are the 039 fields of the record, `history` the edits really made, `ret` what
`build039` returned and `saved` what became of `toMarcString`. The initial states are a
record without the field and records from other programs with up to four updates
and one or two 039 fields, each complete (`Complete`). `Chain` has the branches of
`build039` by `(size-2)/2`; both methods have the same ones. A date is the number of the
edit.

### RecordEdit

`field` are the Datafield objects that exist, with their tag and the map of subfields
they point to, `content` what the maps hold, `data` the list of field objects of each
record, `head` the number of characters in 008 before what follows the date, `caller`
the record of the last call. A program may put any object it has made into any record
and change the subfields of any field. `Replace` copies the pointer to the map, as the
code does (line 762); `Build039` allocates a new one. `Accepted` are the arguments in
front of the first that is no field, at which `addfiled` and `replace` throw, and
`GivenMaps` goes through them one after the other. `Deleted` is the loop of
`deleteSubfiled` with its index, `DeletionRound` one round of it; `DeletesExactly`
compares it with what deletion should do: as many fields stay as have other tags, and
they stay in their order. `DateWidth` is what the pattern `YYMMDD` prints for a day of the year
with one, two or three digits.

### Bibmrame

Per thread: where it is (`pc`), the name of its file, how much it has written; its
child process, what the child found in the file (`whose`), what it still prints
(`todo`), the chunks in its pipes and what the thread has read (`result`). The file
system is shared: `temp` maps names to contents. `DrainErr` is the thread `t1`. The
child is external: it reads its file in one step, prints output and messages in any
order, blocks when a pipe is full, and may stop for ever at any point.

Three things may go wrong in the middle. `Fail`: the child ends before it has printed
everything; the code ignores its exit status (MarcUtil.java:711), so the call goes on as if
that had been all. `Throw`: the call throws, at any point from the moment it has picked a name
until the end of `waitFor`, be it while it writes or when the child has long been started; what
it has made stays, since `deleteOnExit` comes last (line 648). `ProgramEnds`: the program ends
wherever its calls are, and deletes what has been registered by then; `ProgramKilled`: it ends
and deletes nothing. `OwnOutputUnlessSameName` and `LeftBehind` say what holds nevertheless.

### StyleFiles

A place for a JVM has the version of the library in its class path; a JVM that has
ended may be followed by another one in the same place. A file has a length of its own in
every version (`Size`). `disk` says of every place that a file has in some version
(`Places`; `Chunks` are those of one version) which version wrote it, or `Nil`: nothing has
been written there, or it is a hole. The copy is `LoadClass`, then for each
file `OpenStyle` (which truncates), `WriteChunk` at the position of its own stream, and
`CloseStyle`; `CopyFails` is the exception that line 51 swallows, after which the class
is usable; `Crash` is the end of the JVM. `Convert` and `ReadStyle` are the `xsltproc` of
a conversion, external, which reads the chunks in any order while the copies go on.
`Bibmrame` has the same `xsltproc` seen from its caller: the two meet only in the text
it prints, which both leave abstract, so they are not composed.

Streams keep their positions when another JVM truncates the file. A JVM that is in the
middle of a file when one with a shorter version of it opens it goes on behind the place
where the other stops: a hole in front of that stays, or a tail, though both
copies end well and nothing in the code notices. Two history variables tell such
cases from the others: `torn` are the files that were truncated last while a JVM in whose
version they are longer still had to write in them (`Disturbs`, `Tear`), and `sole`
is the JVM started last, if no other was copying at that moment. `WholeUnlessTorn` and
`Settles` say that a file which is not torn is whole: all of it that some version has, nothing
behind that. `MissingHasCause` needs no such exception, since it speaks of the places that a
file has in every version.

### BibframeXml

A document has a Work and an Instance, lists of elements, and namespaces: the prefixes
declared at its `root`, and those in `scope` where the code uses them. An element has a `form` (the
class that reads it), the `parts` that the code looks for, `texts` and `kids`, the
contributions and titles inside a hub. `Needs`, `Takes` and `Spoils` are the tables of what each `buildBibToObj` cannot do
without, reads if it is there, and throws at. `Only` and `First` are the two ways in which
the code looks for what it knows, a loop over the children and `selectSingleNode`; a
series and a hub that is a subject use the latter (`KnownKids`). `Parsed` is `parseBibframeXML` with the one
`catch` at the top that makes one bad element take the whole list, and a bad Work the
Instance as well. `Written` is every `toBibFrameNode`, `WrittenDoc` is
`propertiesToStrem`. `RemoveItem` is a program taking an item out of a list. `origin`
is a history variable: the objects that the present document was written from.
`Lasting` says which items survive the way to XML and back, and `ComesBack` that the
Bibframe comes back if and only if all of its items do.

Texts are written without being escaped (MarcUtil.java:1385), and trimmed and with their
blanks collapsed (line 1380). What a text is does not matter, only what becomes of it, and on
which trip to XML and back: `texts` says for each of four `Fates` the number of the trip, 0 for
never. A text *settles* on the trip after which it stays as it is: `a  b` on the first, as the blanks
collapse, and so does one with tags in it, which are read as elements and not as text. It *breaks* on the trip on
which it is no XML any more: `&amp;` in a document is read as `&` and makes the next document
ill-formed; `&amp;amp;` only the one after that. A title may be made of blanks and turn out empty
(*empties*), and an empty one has no node. A MARC key may lose an indicator, so that the next reading finds too few
characters (*spoils*): of `700  $a` it is one blank. `Aged` is the texts
one trip later, `Damage` what a text does to the element it is written into.

Four more things the writer does are easily overlooked. `Marked`: writing a series that has no
contribution sets `series` in its title, in the very object that is written (Series.java:26);
`AfterWriting` is the Bibframe after a call, which an exception may have left half marked. `WrittenParts`: the primary name of a
contribution is written from the match key (Contribution.java:55), so that one that differed
(`otherPrimary`) is lost. `Nodeless`: an identifier without a number, an empty title and a hub
with one inside give no node, at which the writer throws. `LeafAsks` and `LeafUses`: the prefixes in the
paths that an element is read with and in the XML it is written as. Only those declared at the root are kept
(lines 1235-1237, 1366-1368); what is written with another is ill-formed, what is searched with
one that is unknown throws.

## Runs

| Run | Bounds | Shows |
|---|---|---|
| `map_calls` | 2 keys, 2 values, length up to 4, indices -1, 0, 1, 2, 5 | `TypeOK`, `RoomForInsert`, `NoStaleSlots`, `Packed`; the array implements `OrderedMultimap` (no null keys) |
| `map_nullkey` | `k1` and a null key, 2 values, insertions up to length 4, `putAll` up to 7, indices 0, 1, 5; `putAll` of an empty map, of two entries, of itself | order of what is appended, and that `putAll` returns, over two resizes; that the entries in front of the first null key stay, in their order, and that a call which loses others throws |
| `codec_file` | 2 records of 2 fields, "?", hanzi and hangul, which GBK does not know, one blank, the limits of lengths and offsets set to 4, that of the total to 31 | `ReadBack`, `ThrowsOnlyIfUnsound`, `RewriteIsStable` through read, edit and write |
| `codec_encoding` | as `codec_file`, no hangul, no blanks | **violated**: the first of two UTF-8 records is taken for GBK |
| `history_039` | 8 edits, 2 users | creation kept, pairs matched, newest first, complete through three updates, nulls stay |
| `history_written` | the same | **violated**: after the fourth update the record cannot be written |
| `record_edit` | 2 records, 2 field objects, 2 tags, 2 contents, two fields per record | only fields with one tag share subfields; calls leave other records alone; a history built by `build039` is the record's own; `deleteSubfiled` removes exactly the tags; 008 is never cut |
| `record_008` | the same | **violated**: `flush008` moves what follows the date |
| `bibframe_threads` | 2 threads, documents of 1 and 2 parts, 2 milliseconds, pipes of 1 chunk | own output, whole or, if the child failed, the first part of it, unless two calls share a name; what files are left when calls throw or the program ends; a call returns unless its own `xsltproc` stops |
| `style_files` | 2 places with different versions, two files of 1 chunk, in one version the second one of 3, 3 JVMs started | a missing chunk has a cause, files are whole unless torn, a JVM that copied alone finds its own version, what is not torn is whole in the end |
| `bibframe_xml` | every form complete or lacking one part; a Work of up to 2 elements, an Instance of up to 1; any one element with texts that change on the first, the second or the third trip, or with any namespaces at the root, below it or missing | lists whole or missing; a Bibframe comes back exactly if its items are lasting ones; once it has come back with its texts at rest it always does |
| `bibframe_both` | documents with one title in the Instance | **violated**: an Instance that was read and written is gone when read again |

Why the bounds are enough. An array of 4 slots meets its resize with one entry and
again with four; indices cover before, at, inside, at the end and past the array.
`MaxLen`, `MaxStart` and `MaxTotal` stand for 9999, 99999 and 99999 and are small enough that all are
exceeded; two fields come to 24 in the directory and may stay below 31 or not, with lengths and
offsets that fit or not. Two records in a file are enough to have one that is trimmed and one that
is not. Eight edits pass every branch of `build039` and come back to the last one
repeatedly. Two field objects can be in one record, in two, or the same one twice in a record, and
share a map or not. Two threads in two milliseconds meet with the same name and with
different ones; the pipes hold less than either stream. Three loads in two places are a
copy that fails or dies, one that runs beside it and one that follows; a file of three
chunks can be cut in the middle, and when the one chunk of the other version is written at the
same time it is left with a hole or a tail; two files have one that is done while the other is
open. Elements do not look at each other, so two are enough to have one that reads well
behind or in front of one that throws, and texts and namespaces are tried with one at a time; what happens on the
third trip is what happened on the second, one trip later; a hub has up to two kids that are read because the
code treats the first one specially, and a third one that is passed over. What these
bounds leave open the theorems below close: none of them has a bound on the number or
length of anything.

Deadlock is checked wherever a program can always make another call. It is not for
`Field039`, whose history of edits is bounded and ends; for `Bibmrame`, where calls that
have all returned do nothing more; and for `StyleFiles`, where no JVM may be left.

### What the violated runs show

1. README.md:6 promises that BIBFRAME XML and BIBFRAME convert into each other. A title
   with keys is written as `nameNNMatchKey` and `nameNNMarcKey` (Title.java:83-84), but
   `titleNNMatchKey` is looked for (line 130): reading throws, the exception is swallowed
   (MarcUtil.java:1266), and everything read with it is missing. In the counterexample an
   Instance with such a title is gone when it is read again. `Lasting` lists the others: a
   language (Language.java:26 and :44), a topic and an agent without keys
   (Subject.java:39-52), an encoding level without description conventions or the reverse
   (AdminMetadata.java:83), a series with a title, a contribution whose primary name is not
   the match key (Contribution.java:55), texts that are no XML or another text when written
   raw (MarcUtil.java:1385) or have blanks to collapse (line 1380), and whatever needs a
   namespace that the root does not declare (line 1235).
2. README.md:3 promises that the encoding is recognised. It is guessed from the end
   of the last directory entry. The standard ends the last field with a 1E, which
   `trim` removes from the end of the file only; in front of that, UTF-8 is taken for
   GBK.
3. With three updates in the field, `build039` copies the second and the third pair
   instead of the first and the second (`child.get("c", 1)`, `child.get("c", 2)`, lines
   1060-1064 and 1168-1172; `get` counts from 0). The newest pair is lost, a null is
   put for the missing one, and `toMarcString` throws at line 863. `BrokenStaysBroken`
   shows that later edits do not repair it.
4. `flush008` cuts six characters off 008 and puts a date in front that is seven
   characters long from the hundredth day of the year on (`DD` in line 1121 is the day of
   the year): every such call moves the other elements by one character, away from where
   `analysis008` reads them (lines 942-952).

Worth knowing though no property fails: `remove(key)` is `remove(key, 0)`, and `remove`
counts from 1, so it never removes anything (`OrderedMultimap!RemoveNth` says so); and
`putToIndex` compares its index with the positions of existing entries only
(RepeatKeyMap.java:134, 145): it cannot append, and inserts nothing into an empty map
(`OrderedMultimap!PutToIndex`).

## Fairness

- `RepeatKeyMap`: weak fairness of the iteration of `putAll`. The call runs in one
  thread and nothing it does blocks.
- `Bibmrame`: weak fairness of the calling thread and of the thread that reads the error
  stream. Both are Java threads that are runnable whenever their action is enabled.
  Nothing is assumed of `xsltproc`, and the code sets it no time limit (line 711):
  `CallReturns` says that the call returns or its own `xsltproc` could go on for ever and
  does not. What it excludes is that the two wait for each other.
- `StyleFiles`: weak fairness of the copy, which is the thread that loads the class. None
  of failures, crashes, starts and conversions.
- `MarcCodec`, `Field039`, `RecordEdit` and `BibframeXml` have no liveness properties and no fairness.

## Proofs

Every theorem is about the module itself, for every value of its constants that its
named assumptions allow; TLC evaluates these assumptions in every run. Each property was
a run's property first, and each strengthening was checked as an invariant before it was
proved. All invariants and action properties of the passing runs are proved, and the
refinement of `OrderedMultimap`.

### RepeatKeyMap

`RepeatKeyMap_proofs` proves, for every set of keys and values, null keys included,
every multiple of 4 as initial length, every set of positions and of arguments of
`putAll`, and every bound:

| Theorem | States |
|---|---|
| `InvHolds` | `Spec => []Inv` |
| `TypeCorrect` | `Spec => []TypeOK` |
| `AlwaysRoom` | `Spec => []RoomForInsert` |
| `NothingStale` | `Spec => []NoStaleSlots` |
| `NoHoles` | `NullKey \notin Keys` implies `Spec => []Packed` |

`Inv` is `TypeOK /\ RoomForInsert /\ NoStaleSlots`. None of the three is inductive alone:
an insertion stays inside the array only because a quarter of it is free; the free
quarter is kept only because `length`, which `resize` compares by `==`, grows by at
most one per call and shrinks no lower than zero, which for `remove(index)` depends on
slots behind `length` being empty (it decrements `length` only when it finds an entry).
The argument: `ResizeMakesRoom` shows that `resize` leaves one free slot more than an
insertion needs; lemmas about `Copied`, `Without` and `Inserted` show what each loop
produces; `Shrinks` and `Grows` turn this into the invariant; one lemma per operation
applies them, and `NoHoles` adds that without null keys no loop stops early.

Assumptions: those of the module (`SizeAssumption`, `IndexAssumption`,
`MarkAssumption`, `NoneAssumption`, `SourceAssumption`): the initial length is a
positive multiple of 4 (8 in the code), null and the mark for an exception are no
entries or values, and arguments of `putAll` are arrays of slots. TLC evaluates them in
every run of `MCRepeatKeyMap`.

`ArrayImplementsList` is the refinement: if `NullKey \notin Keys`, then
`Spec => ImplementsMultimap`. The list is `[i \in 1 .. length |-> nodes[i - 1]]`; `Sound`
is `Inv /\ Packed` and that a running call is a `putAll`. One lemma per operation
shows that its step is that operation of `OrderedMultimap`, or a stutter. The work is in
the loops: that what they copy until a slot is empty is the list with one entry more,
less, or changed.

`PutAllKeepsOrder` is `PutAllInOrder`, null keys included. Its proof adds to `Inv` that the slots of what is read are numbered (`Numbered`), so that the entries
read so far are finitely many: when `m.putAll(m)` replaces its array the old one goes on
being read, and every entry in it is appended once.

`PrefixKept` (`PrefixSurvives`) and `LossReported` (`LossIsReported`) are the two
properties of maps with null keys. `PrefixSurvives` compares entries: for the first slot `b`
that is empty or has a null key there is a `p` such that all entries below `p` are where they
were and those from `p` to `b` are too, or one place further, or, if the call takes one out or
overwrites it, are but for the one at `p`. Every step is classified by its effect on the array
(nothing, an entry appended, inserted, overwritten, taken out, or a copy cut off at a
slot); for each class one lemma says what it does to the entries in front of `b`
(`InsertionKeepsFront`, `RemovalKeepsFront`, `PrefixStays`) and bounds what is lost of the others.

### Field039

`Field039_proofs` proves all six properties of `history_039`, for any set of users and
any number of edits. The invariant says what the field is, as a function of `history`
alone. `Chronicle(s, history)`: a field with one edit is `Created`; any other
is `Formed` with `PairsAfter(history)` pairs, which are two fewer than the edits below
six and four from then on. `a`, `b` are the last edit, `y`, `z` the first, the first pair
is the edit before the last, with two pairs the second is the one before, every pair is
an edit or null with null, and of four pairs the last is null. `GetPairs` and `ChainOf`
compute what `get` and the branches of `build039` return for such a field;
`UpdatedFormed` and `UpdateKeeps` show that an edit leads from one to the next. The
invariant has to know about the number of pairs because the code branches on it, and
about the last pair because that is what makes `NullStays` true.

### Bibmrame

`Bibmrame_proofs` proves, for any number of threads, any documents and any sizes of
pipes: `TypeCorrect`, by `Shape` (a thread that writes has a name and its file exists);
`OnlyFailedLeaveFiles` (`LeftBehind`), by `Files`: every file belongs to a call that opened
it, every call that returned has registered it, and the program ends for all calls at
once, so that what is left belongs to calls that threw or were cut short, wherever they were;
`OwnOutput` (`OwnOutputUnlessSameName`), by `Together`, which ties the state of the
child to that of its caller, and `Undisturbed`: as long as nobody shares the name of a
call its file holds what it has written, and what is read, in the pipe, and still to be
printed is together the output of its record, or, when the child has failed, what is read and in
the pipe is the first part of it (`FileIsOwn`, `OutputIsOwn`).

### StyleFiles

`StyleFiles_proofs` proves, for any number of JVMs, versions and files, of any length in
every version: `TypeCorrect`, `MissingChunksHaveCause` (`MissingHasCause`), `WholeFiles`
(`WholeUnlessTorn`) and `OwnVersionAfterLoad` (`OwnVersion`), by
`IInv == TypeOK /\ Fresh /\ MissingHasCause /\ FileInv /\ Alone`. `MissingHasCause` is
nearly inductive: whoever truncates a file has not passed it, and whoever passes a chunk
has written it. `FileInv` says of a file that is not torn that nobody has opened it yet
(`Untouched`) or that there is a JVM which has truncated it last (`FilledBy`): nothing is there
behind the length that the file has for that JVM, what is missing within it the JVM has yet to write or will not write any more,
and for whoever else still has to write in the file it is no longer than that. That last part is what makes it
inductive: it is what `Disturbs` denies when the file is opened. `Alone` says that the JVM in
`sole` has its own version in all it has passed, and nothing behind the ends.

### DataInduction

The loops over arguments and lists and the sums over fields need induction. The
library's induction theorems take an operator for a parameter, which the provers at hand
cannot instantiate; `DataInduction` states induction with a set in its place. `Least` is
that a set of natural numbers has a least element (from well-foundedness), `Induct` that a
set with 0 that is closed under +1 up to `N` has all numbers up to `N`, and `Recursion`
that an array of steps has a run, a function that takes them one after the other. A
recursive function of a model is shown to be such a run once (`SumFacts`,
`GivenMapsRegive`, `DeletedFacts`, `OnlyRun`); after that it is known by its two equations.

### RecordEdit

`RecordEdit_proofs` proves all six properties of `record_edit`, for any number of
records, field objects, arguments and positions, any contents, and lists of any length.
`IInv` is `TypeOK`, that the lists are sequences, `SharedWithinTag` and `RestSurvives`.
`SharedWithinTag` is inductive with the shape of the state: `GivenMapsRegive` shows by
induction over the arguments of `replace` that whoever gets a map has the tag of those who
had it, `FreshMapFacts` counts that there is always a map nobody has, and `CreationStep`
and `Build039Step` use it. `OthersUnchanged` and `HistoryIsOwn` are properties of steps
and follow from what each call does to fields, maps and lists (`CallStep`,
`Build039Step`). `DeletesExactly` is a statement about a loop that removes from the list
it walks along: after `n` rounds the list is what stays of its first `n` elements,
followed by the others untouched, and the index is behind the former (`RoundStep`,
`DeletedFacts`).

Assumptions: `RecordAssumption`, `TagAssumption`, `WrongAssumption` (what marks no
record, no field and a wrong argument is none), `BoundAssumption` (the bounds are numbers).

### MarcCodec

`MarcCodec_proofs` proves the four invariants of `codec_file`, for any texts, widths and
tags, records of any number of fields and files of any number of records. `IInv` says
that every string in the file is what one of the three writers made of the record it was
written from (`WrittenBy`), and that a result is one of the readings of the file as it is
now. That is all the reader's correctness needs of the history; the rest is about one
string:

- `SumFacts`, `SumIncreasing`: offsets are strictly increasing, so that a directory entry
  is about one field; `RankBijective`, `SortedFacts`: sorting by rank moves every field to
  one place of its own, in the order of tags, and `SortedTwice`: sorts nothing twice.
- `DetectedRight`: of a sound string the last entry of the directory ends where the string
  does in UTF-8, and before in GBK if any character is not ASCII. This is where the
  conditions of `Sound` about the 1E and the last field come from; `ReaderAgrees` draws
  the conclusion that the reader measures as the directory does, whichever charset it
  took the string for.
- `BeyondFacts`, `LayoutFacts`: no number has fewer than no digits too many, so that
  `ExtraDigits = 0` in `Sound` means that every length, every start and the total fit, and the reader
  finds the directory where it is.
- `SliceRight`: what lies between the offsets is the field, for the last field at the
  trimmed end of the file up to its blanks; `ReadingsRight`: so that reading does not throw
  and gives the fields that were written.

`SoundIsReadBack` and `SoundNeverThrows` apply this to every string of the file.
`RewritingIsStable` adds that sorting again changes nothing and that the charset the record
was taken for is its own unless all of it is ASCII, where both measure the same.

Assumptions: `WidthAssumption` (a text is at least as wide in UTF-8 as in GBK, widths are numbers),
`LossyAssumption` (what GBK does not know becomes a "?" of one byte and is wider in
UTF-8), `TagAssumption` (the tags of control fields are smaller), `BoundAssumption`.

### BibframeXml

`BibframeXml_proofs` proves the four invariants of `bibframe_xml`, for documents of any
length, hubs with any number of kids, texts that change on any trips and any namespaces. `IInv`
says what the last reading and the last writing made of what (`origin` is what it was when
written, its series marked: `Ready`), and that all items are ones that reading can build: `ItemType`,
elements with all the parts their form needs, none that is not looked at, and kids that
are picked again when read again. `ItemFacts` shows that reading builds such items,
`ItemAgain` that it leaves them alone.

The heart is `Outcome`, about an item `o` and the element `w` that it is written as: if `o` lasts,
`w` is `o`; if `w` can be read, what is read is `o` only if `o` lasts, and if its texts are at rest
it is an item that is written as itself. It is proved from the leaves up. `WrittenByForm` says
form by form what writing loses and adds, `LeafTrip` draws the conclusion for a leaf, with `Solid`
for the leaves that are written as they are; `ReadAgain` and `WholeTrip` put a hub together from its kids,
`AnyTrip` adds the items not all of which is written, and `WrittenFacts` the marked series.
`LastingIsSolid` and `SolidIsLasting` connect `Solid` with `Lasting`.
`ItemPrefixes` shows that an item needs no prefixes that the element it was read from did not
need, so that what could be read once does not fail for a namespace later. `ListTrip` and
`DocTrip` carry this to lists and documents, with `bf:hasInstance`
passed over by the reader: the first half of `Outcome` gives `LastingComesBack`, the second
`StableAfter`, by way of `Steady` lists, which are written and read as they are
(`SteadyTrip`, `SteadyDoc`). `MarkedList` and `AfterWritingFacts` are about the marks that
writing leaves in the objects. For the lists, `OnlyRun`, `OnlyAppend`, `OnlyAll` and the lemmas
about `First` say what selecting elements by form does.

`StableAfter` assumes that the texts are at rest. Without that it would be false: a text with a
reference in a reference comes back as another one, and loses the document on a later trip.

Assumptions: `DocumentAssumption` (the shape of documents) and `NullAssumption` (what is
missing is no list, element or Bibframe).

### Only model-checked

Liveness (`PutAllReturns`, `CallReturns`, `Settles`): out of the prover's reach, with
fairness and `ENABLED`. And what the violated runs show, which has no proof to be had.

## Not modelled

- What `RepeatKeyMap` inherits: `clear()`, `putIfAbsent`, `merge` and so on work on the
  fresh `HashSet` that `entrySet()` returns.
- What stands in leaders: the writers fill in a length that omits the leader and the
  start of the last field as base address, and neither reader uses them. Only how many
  characters the length takes matters, and that is modelled.
- The text of fields beyond width and trailing blanks; subfields inside a text.
- `System.out`, logging, XML formatting, the character classes `toBibmrame` strips.
- Of BIBFRAME: the setters of the items, an `rdf:about` that is missing where only its value
  matters, and the texts themselves: of those that matter beyond their fate, texts that end the element they
  stand in when written raw, and white space in attributes. `bf` and `rdf`, without which there is
  no Work to be found, are taken to be declared at the root.
- The charset in which `FileWriter` writes the temporary file (the default of the JVM, while
  the XML says UTF-8) and the year of the week in `YYYYMMddHHmm`: both are under `hazards`.
- `createXML`, the analysis of fixed fields, the beans and `test.java`: no state and no order
  that could go wrong; see the inventory.
- C code. The only C in the repository are headers under `resources/xsltproc`: those of
  OpenSSL, libxml2, libxslt, xmlsec and zlib in `include`, and of a KDE program in `docs`
  (with one `.c`, 202 files, some 64,000 lines). They came with the `xsltproc` binary, nothing in the repository is compiled against them and
  they declare interfaces of third-party libraries. The program is the 3,276 lines of
  Java; `PROJECT.json` maps definitions to half of them (1,664), and most of the rest are
  imports, accessors, `createXML` and the tables of fixed fields.

## Plan

What is left:

1. The operations `RepeatKeyMap` inherits, above all `setValue` on an entry of `entrySet()`.
2. Setters of BIBFRAME items, as an action that changes the parts of an item; `Outcome` is
   about items that reading can build and would have to say which others last.
3. An abstract `toBibmrame`, one step per call, that `Bibmrame` implements as long as no
   two calls share a name.
