------------------------------ MODULE StyleFiles ------------------------------
(***************************************************************************)
(* The style sheets of MarcUtil.  When a JVM loads the class, its static   *)
(* initialiser copies them to a directory that all JVMs of the machine     *)
(* use: each file is opened, which truncates it, and written chunk by      *)
(* chunk.  An exception is caught and forgotten; the class can be used     *)
(* nevertheless, and the copy is not tried again in that JVM.  A           *)
(* conversion starts xsltproc, which reads the files while other JVMs may  *)
(* be copying them.                                                        *)
(*                                                                         *)
(* What a place of a file holds is the version of the library it comes     *)
(* from, or Nil: behind the end of the file, or in a hole that a writer    *)
(* has left which went on in a file that another one has truncated.  A     *)
(* file need not have the same length in all versions.                     *)
(***************************************************************************)
EXTENDS Integers

CONSTANTS
  JVMs,      \* places for a JVM, used again when it has ended
  Version,   \* [JVMs -> the version of the library in its class path]
  Count,     \* the number of style files
  Size,      \* [versions -> [1 .. Count -> the chunks of the file]]
  Nil,
  MaxLoads   \* bound: JVMs started

ASSUME VersionAssumption == Version \in [JVMs -> {Version[j] : j \in JVMs}]
ASSUME SizeAssumption ==
  /\ Count \in Nat \ {0}
  /\ Size \in [{Version[j] : j \in JVMs} -> [1 .. Count -> Nat \ {0}]]
ASSUME NilAssumption == Nil \notin {Version[j] : j \in JVMs} \cup JVMs
ASSUME LoadAssumption == MaxLoads \in Nat

FILES    == 1 .. Count
Versions == {Version[j] : j \in JVMs}

\* The places that the files of a version have, and those that some version has.
Chunks(v) == UNION {{f} \X (1 .. Size[v][f]) : f \in FILES}
Places    == UNION {Chunks(v) : v \in Versions}

\* The length of a file in the version of a JVM.
Length(j, f) == Size[Version[j]][f]

VARIABLES
  pc,       \* "new", "copying", "loaded"; "halfway": the copy has thrown;
            \* "cut": the JVM has ended while it copied
  file,     \* the number of the file that each copies
  opened,   \* whether it has opened it
  written,  \* and the chunks it has written
  disk,     \* what the places of the files hold
  unread,   \* the places that the xsltproc of each JVM still has to read
  seen,     \* and what it has found where; empty: no conversion so far
  loads,    \* the JVMs started so far
  sole,     \* history: the JVM that was started last, if none was copying then
  torn      \* history: the files that were truncated last while a JVM in whose
            \* version they are longer still had to write in them

copy == <<file, opened, written>>
conversion == <<unread, seen>>
vars == <<pc, copy, disk, conversion, loads, sole, torn>>

Init ==
  /\ pc = [j \in JVMs |-> "new"]
  /\ file = [j \in JVMs |-> 1]
  /\ opened = [j \in JVMs |-> FALSE]
  /\ written = [j \in JVMs |-> 0]
  /\ disk = [c \in Places |-> Nil]
  /\ unread = [j \in JVMs |-> {}]
  /\ seen = [j \in JVMs |-> {}]
  /\ loads = 0
  /\ sole = Nil
  /\ torn = {}

------------------------------------------------------------------------------
\* A JVM starts, in a new place or in that of one that has ended, and loads the
\* class.
LoadClass(j) ==
  /\ pc[j] # "copying" /\ loads < MaxLoads
  /\ loads' = loads + 1
  /\ pc' = [pc EXCEPT ![j] = "copying"]
  /\ file' = [file EXCEPT ![j] = 1]
  /\ opened' = [opened EXCEPT ![j] = FALSE]
  /\ written' = [written EXCEPT ![j] = 0]
  /\ unread' = [unread EXCEPT ![j] = {}]
  /\ seen' = [seen EXCEPT ![j] = {}]
  /\ sole' = IF \E k \in JVMs \ {j} : pc[k] = "copying" THEN Nil ELSE j
  /\ UNCHANGED <<disk, torn>>

\* Whether the JVM k is in the middle of the file that j copies, in a version in
\* which the file is longer.
Disturbs(k, j) ==
  /\ pc[k] = "copying" /\ opened[k] /\ file[k] = file[j]
  /\ written[k] < Length(k, file[k]) /\ Length(k, file[k]) > Length(j, file[j])

\* The file gets torn, or whole again.
Tear(j) ==
  torn' = IF \E k \in JVMs \ {j} : Disturbs(k, j) THEN torn \cup {file[j]} ELSE torn \ {file[j]}

\* A slip: opening a file that is there without truncating it.
OpenStyleKeeping(j) ==
  /\ pc[j] = "copying" /\ ~ opened[j]
  /\ opened' = [opened EXCEPT ![j] = TRUE]
  /\ Tear(j)
  /\ UNCHANGED <<pc, file, written, disk, conversion, loads, sole>>

\* new FileOutputStream truncates the file.
OpenStyle(j) ==
  /\ pc[j] = "copying" /\ ~ opened[j]
  /\ opened' = [opened EXCEPT ![j] = TRUE]
  /\ disk' = [c \in Places |-> IF c[1] = file[j] THEN Nil ELSE disk[c]]
  /\ Tear(j)
  /\ UNCHANGED <<pc, file, written, conversion, loads, sole>>

\* A slip: writing on behind the end of the resource.
WriteChunkOn(j) ==
  /\ pc[j] = "copying" /\ opened[j]
  /\ written' = [written EXCEPT ![j] = @ + 1]
  /\ disk' = [disk EXCEPT ![<<file[j], written[j] + 1>>] = Version[j]]
  /\ UNCHANGED <<pc, file, opened, conversion, loads, sole, torn>>

\* read and write, at the position of this stream.
WriteChunk(j) ==
  /\ pc[j] = "copying" /\ opened[j] /\ written[j] < Length(j, file[j])
  /\ written' = [written EXCEPT ![j] = @ + 1]
  /\ disk' = [disk EXCEPT ![<<file[j], written[j] + 1>>] = Version[j]]
  /\ UNCHANGED <<pc, file, opened, conversion, loads, sole, torn>>

\* A slip: closing the file one chunk early, as a read that fills the buffer
\* exactly could suggest.
CloseStyleEarly(j) ==
  /\ pc[j] = "copying" /\ opened[j] /\ written[j] + 1 >= Length(j, file[j])
  /\ IF file[j] = Count
       THEN pc' = [pc EXCEPT ![j] = "loaded"] /\ UNCHANGED copy
       ELSE /\ file' = [file EXCEPT ![j] = @ + 1]
            /\ opened' = [opened EXCEPT ![j] = FALSE]
            /\ written' = [written EXCEPT ![j] = 0]
            /\ UNCHANGED pc
  /\ UNCHANGED <<disk, conversion, loads, sole, torn>>

\* The end of the resource: on to the next file, if there is one.
CloseStyle(j) ==
  /\ pc[j] = "copying" /\ opened[j] /\ written[j] = Length(j, file[j])
  /\ IF file[j] = Count
       THEN pc' = [pc EXCEPT ![j] = "loaded"] /\ UNCHANGED copy
       ELSE /\ file' = [file EXCEPT ![j] = @ + 1]
            /\ opened' = [opened EXCEPT ![j] = FALSE]
            /\ written' = [written EXCEPT ![j] = 0]
            /\ UNCHANGED pc
  /\ UNCHANGED <<disk, conversion, loads, sole, torn>>

\* A slip: taking the class for loaded although the copy has thrown.
CopyFailsQuietly(j) ==
  /\ pc[j] = "copying"
  /\ pc' = [pc EXCEPT ![j] = "loaded"]
  /\ UNCHANGED <<copy, disk, conversion, loads, sole, torn>>

\* A resource is missing, the file cannot be opened or the disk is full: the
\* initialiser catches the exception.
CopyFails(j) ==
  /\ pc[j] = "copying"
  /\ pc' = [pc EXCEPT ![j] = "halfway"]
  /\ UNCHANGED <<copy, disk, conversion, loads, sole, torn>>

\* The JVM ends in the middle of the copy.
Crash(j) ==
  /\ pc[j] = "copying"
  /\ pc' = [pc EXCEPT ![j] = "cut"]
  /\ UNCHANGED <<copy, disk, conversion, loads, sole, torn>>

------------------------------------------------------------------------------
\* toBibmrame starts xsltproc on the style sheets: stylePath_def is set, whether
\* or not the copy has succeeded.
Convert(j) ==
  /\ pc[j] \in {"loaded", "halfway"} /\ unread[j] = {}
  /\ unread' = [unread EXCEPT ![j] = Places]
  /\ seen' = [seen EXCEPT ![j] = {}]
  /\ UNCHANGED <<pc, copy, disk, loads, sole, torn>>

\* xsltproc reads the files, in an order of its own; Nil where there is nothing.
ReadStyle(j) ==
  /\ \E c \in unread[j] :
       /\ unread' = [unread EXCEPT ![j] = @ \ {c}]
       /\ seen' = [seen EXCEPT ![j] = @ \cup {<<c, disk[c]>>}]
  /\ UNCHANGED <<pc, copy, disk, loads, sole, torn>>

------------------------------------------------------------------------------
Copy(j) == OpenStyle(j) \/ WriteChunk(j) \/ CloseStyle(j)

Next == \E j \in JVMs :
          LoadClass(j) \/ Copy(j) \/ CopyFails(j) \/ Crash(j) \/ Convert(j) \/ ReadStyle(j)

\* The thread that loads the class runs on.
Fairness == \A j \in JVMs : WF_vars(Copy(j))

Spec == Init /\ [][Next]_vars /\ Fairness

------------------------------------------------------------------------------
\* Properties.

\* The shape of the state.
TypeOK ==
  /\ pc \in [JVMs -> {"new", "copying", "loaded", "halfway", "cut"}]
  /\ file \in [JVMs -> FILES] /\ opened \in [JVMs -> BOOLEAN]
  /\ written \in [JVMs -> Nat] /\ \A j \in JVMs : written[j] <= Length(j, file[j])
  /\ disk \in [Places -> Versions \cup {Nil}]
  /\ unread \in [JVMs -> SUBSET Places]
  /\ seen \in [JVMs -> SUBSET (Places \X (Versions \cup {Nil}))]
  /\ loads \in Nat /\ sole \in JVMs \cup {Nil} /\ torn \subseteq FILES

\* Whether the copy that was started last in the place j has got past a place, and
\* past a file.
Passed(j, c) == c[1] < file[j] \/ (c[1] = file[j] /\ c[2] <= written[j])
Past(j, f)   == f < file[j] \/ (f = file[j] /\ written[j] = Length(j, f))

\* The JVMs whose copy has not ended well, or not yet.
Unfinished == {j \in JVMs : pc[j] \in {"copying", "halfway", "cut"}}

\* MarcUtil.java:46-83.  A place that the file has in every version is empty only
\* when some copy that has not ended well has not got to it: however many JVMs
\* copy at the same time, of whichever versions, truncating each other's files,
\* this much of them is there when all have finished; and when one has failed or
\* died half-way another one mends what it left.
MissingHasCause ==
  \A c \in Places : disk[c] = Nil /\ (\A v \in Versions : c \in Chunks(v)) =>
    \/ \A j \in JVMs : pc[j] = "new"
    \/ \E j \in Unfinished : ~ Passed(j, c)

\* A file that has all it has in some version, and nothing behind that.
Whole(f) ==
  \E v \in Versions :
    \A c \in Places : c[1] = f => (disk[c] # Nil <=> c \in Chunks(v))

\* MarcUtil.java:68-80.  A file is whole, without a hole and without anything
\* behind its end, unless a copy that has not ended well has not got past it, or
\* it was truncated while a JVM was writing it whose version of it is longer.
WholeUnlessTorn ==
  \A f \in FILES \ torn :
    \/ Whole(f)
    \/ \A j \in JVMs : pc[j] = "new"
    \/ \E j \in Unfinished : ~ Past(j, f)

\* What the files of a version hold at a place.
Content(v, c) == IF c \in Chunks(v) THEN v ELSE Nil

\* A JVM that copied alone finds its own version in all the files, and nothing
\* behind their ends, until another one starts, whatever earlier ones left there,
\* and so does its xsltproc.
OwnVersion ==
  \A j \in JVMs : pc[j] = "loaded" /\ sole = j =>
    /\ \A c \in Places : disk[c] = Content(Version[j], c)
    /\ \A r \in seen[j] : r[2] = Content(Version[j], r[1])

\* In the end the files are whole, or torn, unless the last copy in some place has
\* failed.
Settles ==
  <>[](\/ \A j \in JVMs : pc[j] = "new"
       \/ \A f \in FILES \ torn : Whole(f)
       \/ \E j \in JVMs : pc[j] \in {"halfway", "cut"})
==============================================================================
