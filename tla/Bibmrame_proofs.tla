--------------------------- MODULE Bibmrame_proofs ---------------------------
(***************************************************************************)
(* Proofs about Bibmrame, for any number of threads, and documents and     *)
(* pipes of any size: the shape of the state, which files are left behind, *)
(* and whose conversion a call returns.                                    *)
(***************************************************************************)
EXTENDS Bibmrame, FiniteSetTheorems, SequenceTheorems, TLAPS

Contents == [1 .. MaxPart -> Callers \cup {Nil}]

\* What the child still prints is a sequence of chunks; a thread has picked its
\* name at the beginning, and the file that it writes exists.
Shape ==
  /\ TypeOK
  /\ todo \in [Callers -> Seq(Streams)]
  /\ \A c \in Callers : pc[c] = "begin" => name[c] = Nil
  /\ \A c \in Callers : pc[c] \notin {"begin", "cut"} => name[c] # Nil
  /\ \A c \in Callers : pc[c] = "write" => temp[name[c]] \in Contents

\* Where the child is while its caller is somewhere.
Together ==
  \A c \in Callers :
    /\ pc[c] \in {"begin", "open"} => put[c] = 0
    /\ pc[c] \in {"begin", "open", "write", "exec"} => child[c] = "none"
    /\ pc[c] = "read" => child[c] # "none"
    /\ child[c] = "started" => pc[c] \in {"read", "failed", "cut"}
    /\ child[c] \in {"none", "started"} => pipe[c]["out"] = 0 /\ result[c] = << >>
    /\ child[c] \in Over => todo[c] = << >>
    /\ pc[c] \in {"wait", "done", "gone"} => child[c] \in Over /\ pipe[c]["out"] = 0
    /\ \A i \in 1 .. Len(result[c]) : result[c][i] = whose[c]

\* Every file has the name of a call; those of calls that have returned are
\* registered; and when the program has ended it has ended for all.
Owned == \A n \in Names : temp[n] # Nil => \E c \in Callers : name[c] = n

Registered == \A c \in Callers : pc[c] = "done" => name[c] \in doomed

AllEnded == (\E c \in Callers : pc[c] = "gone") => \A c \in Callers : pc[c] \in {"gone", "failed", "cut"}

Files == Owned /\ Registered /\ AllEnded /\ LeftBehind

------------------------------------------------------------------------------
\* An order in which the child prints is a sequence of chunks.
LEMMA OrderIsSequence ==
  ASSUME NEW o \in Orders(Output, Messages) PROVE o \in Seq(Streams)
BY PipeAssumption DEF Orders

LEMMA InitShape == Init => Shape /\ Together /\ Files
<1> SUFFICES ASSUME Init PROVE Shape /\ Together /\ Files
  OBVIOUS
<1>1. 0 \in Names /\ 0 \in 0 .. PipeSize /\ \A c \in Callers : 0 <= Parts[c]
  BY PartsAssumption, PipeAssumption DEF Names
<1>2. Shape
  BY <1>1, NilAssumption DEF Init, Shape, TypeOK, Streams
<1>3. Together /\ Files
  BY DEF Init, Together, Files, Owned, Registered, AllEnded, LeftBehind, Streams
<1> QED BY <1>2, <1>3

------------------------------------------------------------------------------
\* The shape of the state is kept by the calling thread up to the start of the child ...
LEMMA WritingShape ==
  ASSUME Shape, NEW c \in Callers,
         PickName(c) \/ OpenFile(c) \/ WritePart(c) \/ CloseFile(c) \/ Exec(c)
  PROVE  Shape'
<1> USE DEF Shape, Go, process, disk
<1>1. CASE PickName(c)
  BY <1>1, NilAssumption DEF PickName, TypeOK, Names
<1>2. CASE OpenFile(c)
  <2>1. Blank \in Contents /\ name[c] \in Names
    BY <1>2, NilAssumption DEF OpenFile, TypeOK, Blank, Contents
  <2>2. temp' \in [Names -> {Nil} \cup Contents] /\ temp'[name[c]] = Blank
        /\ \A n \in Names : n # name[c] => temp'[n] = temp[n]
    BY <1>2, <2>1 DEF OpenFile, TypeOK, Contents
  <2>3. TypeOK'
    BY <1>2, <2>2 DEF OpenFile, TypeOK, Contents
  <2>4. \A d \in Callers : pc'[d] = "write" => temp'[name[d]] \in Contents
    BY <1>2, <2>1, <2>2 DEF OpenFile, TypeOK
  <2> QED BY <1>2, <2>3, <2>4 DEF OpenFile, TypeOK
<1>3. CASE WritePart(c)
  <2>1. name[c] \in Names /\ temp[name[c]] \in Contents
    BY <1>3, NilAssumption DEF WritePart, TypeOK
  <2>2. [temp[name[c]] EXCEPT ![put[c] + 1] = c] \in Contents
    BY <2>1 DEF Contents
  <2>3. temp' \in [Names -> {Nil} \cup Contents] /\ temp'[name[c]] \in Contents
        /\ \A n \in Names : n # name[c] => temp'[n] = temp[n]
    BY <1>3, <2>1, <2>2 DEF WritePart, TypeOK, Contents
  <2>4. put' = [put EXCEPT ![c] = put[c] + 1] /\ put[c] \in Nat /\ put[c] + 1 <= Parts[c]
    <3>1. Parts[c] \in Nat /\ put[c] \in Nat
      BY PartsAssumption DEF TypeOK
    <3> QED BY <1>3, <3>1 DEF WritePart
  <2>5. put' \in [Callers -> Nat] /\ \A d \in Callers : put'[d] <= Parts[d]
    BY <2>4 DEF TypeOK
  <2>6. TypeOK'
    BY <1>3, <2>3, <2>5 DEF WritePart, TypeOK, Contents
  <2>7. \A d \in Callers : pc[d] = "write" => temp'[name[d]] \in Contents
    BY <1>3, <2>3 DEF WritePart, TypeOK
  <2> QED BY <1>3, <2>6, <2>7 DEF WritePart
<1>4. CASE CloseFile(c)
  BY <1>4 DEF CloseFile, TypeOK
<1>5. CASE Exec(c)
  BY <1>5 DEF Exec, TypeOK
<1> QED BY <1>1, <1>2, <1>3, <1>4, <1>5

\* ... and while it reads, and by the child; every other step keeps it too.
LEMMA ReadingShape ==
  ASSUME Shape, NEW c \in Callers,
         ReadOut(c) \/ EndOfOut(c) \/ Return(c) \/ DrainErr(c)
  PROVE  Shape'
<1> USE DEF Shape, Go, process, disk
<1>1. CASE ReadOut(c)
  <2>1. pipe[c] \in [Streams -> 0 .. PipeSize] /\ pipe[c]["out"] - 1 \in 0 .. PipeSize
    BY <1>1, PipeAssumption DEF ReadOut, TypeOK, Streams
  <2>2. pipe' \in [Callers -> [Streams -> 0 .. PipeSize]]
    BY <1>1, <2>1 DEF ReadOut, TypeOK
  <2>3. result' \in [Callers -> Seq(Callers \cup {Nil})]
    BY <1>1 DEF ReadOut, TypeOK
  <2> QED BY <1>1, <2>2, <2>3 DEF ReadOut, TypeOK
<1>2. CASE EndOfOut(c)
  BY <1>2 DEF EndOfOut, TypeOK
<1>3. CASE Return(c)
  BY <1>3, NilAssumption DEF Return, TypeOK
<1>4. CASE DrainErr(c)
  <2>1. pipe[c] \in [Streams -> 0 .. PipeSize] /\ pipe[c]["err"] - 1 \in 0 .. PipeSize
    BY <1>4, PipeAssumption DEF DrainErr, TypeOK, Streams
  <2>2. pipe' \in [Callers -> [Streams -> 0 .. PipeSize]]
    BY <1>4, <2>1 DEF DrainErr, TypeOK
  <2> QED BY <1>4, <2>2 DEF DrainErr, TypeOK
<1> QED BY <1>1, <1>2, <1>3, <1>4

LEMMA ChildShape ==
  ASSUME Shape, NEW c \in Callers, Child(c)
  PROVE  Shape'
<1> USE DEF Shape, disk
<1>1. CASE ReadFile(c)
  <2>1. /\ child' \in [Callers -> {"none", "started", "printing"} \cup Over]
        /\ UNCHANGED <<clock, pc, name, put, temp, doomed, pipe, result>>
    BY <1>1 DEF ReadFile, TypeOK, Over
  <2>2. whose' \in [Callers -> Callers \cup {Nil}] /\ todo' \in [Callers -> Seq(Streams)]
    <3>1. CASE \E d \in Callers \cup {Nil}, o \in Orders(Output, Messages) :
                 whose' = [whose EXCEPT ![c] = d] /\ todo' = [todo EXCEPT ![c] = o]
      BY <3>1, OrderIsSequence DEF TypeOK
    <3>2. CASE whose' = whose /\ todo' = [todo EXCEPT ![c] = <<"err">>]
      <4>1. <<"err">> \in Seq(Streams)
        BY DEF Streams
      <4> QED BY <3>2, <4>1 DEF TypeOK
    <3> QED BY <1>1, <3>1, <3>2 DEF ReadFile
  <2> QED BY <2>1, <2>2 DEF TypeOK
<1>2. CASE PrintChunk(c)
  <2> DEFINE s == Head(todo[c])
  <2>1. s \in Streams /\ Tail(todo[c]) \in Seq(Streams)
    BY <1>2 DEF PrintChunk
  <2>2. pipe[c] \in [Streams -> 0 .. PipeSize] /\ pipe[c][s] + 1 \in 0 .. PipeSize
    BY <1>2, <2>1, PipeAssumption DEF PrintChunk, TypeOK
  <2>3. pipe' \in [Callers -> [Streams -> 0 .. PipeSize]]
    BY <1>2, <2>1, <2>2 DEF PrintChunk, TypeOK
  <2>4. todo' \in [Callers -> Seq(Streams)]
    BY <1>2, <2>1 DEF PrintChunk
  <2> QED BY <1>2, <2>3, <2>4 DEF PrintChunk, TypeOK
<1>3. CASE Exit(c)
  BY <1>3 DEF Exit, TypeOK, Over
<1>4. CASE Fail(c)
  <2>1. child' \in [Callers -> {"none", "started", "printing"} \cup Over]
    BY <1>4 DEF Fail, TypeOK, Over
  <2>2. todo' \in [Callers -> Seq(Streams)]
    BY <1>4 DEF Fail
  <2> QED BY <1>4, <2>1, <2>2 DEF Fail, TypeOK
<1> QED BY <1>1, <1>2, <1>3, <1>4 DEF Child

\* ... and by a call that throws, the clock and the end of the program.
LEMMA RestShape ==
  ASSUME Shape, Tick \/ ProgramEnds \/ ProgramKilled \/ \E c \in Callers : Throw(c)
  PROVE  Shape'
<1> USE DEF Shape, process, disk
<1>1. CASE Tick
  BY <1>1, PipeAssumption DEF Tick, TypeOK, Names
<1>2. CASE ProgramEnds
  <2>1. \A c \in Callers : /\ pc'[c] \in {"gone", "failed", "cut"}
                           /\ pc'[c] = "gone" <=> pc[c] = "done"
                           /\ pc'[c] = "failed" <=> pc[c] = "failed"
    BY <1>2 DEF ProgramEnds
  <2>2. TypeOK'
    BY <1>2, <2>1 DEF ProgramEnds, TypeOK
  <2> QED BY <1>2, <2>1, <2>2 DEF ProgramEnds
<1>3. CASE ProgramKilled
  BY <1>3 DEF ProgramKilled, TypeOK
<1>4. ASSUME NEW c \in Callers, Throw(c)
      PROVE  Shape'
  BY <1>4 DEF Throw, TypeOK
<1> QED BY <1>1, <1>2, <1>3, <1>4

LEMMA StutterShape ==
  ASSUME Shape, UNCHANGED vars
  PROVE  Shape'
BY DEF Shape, TypeOK, vars

LEMMA ShapeStep ==
  ASSUME Shape, [Next]_vars
  PROVE  Shape'
BY WritingShape, ReadingShape, ChildShape, RestShape, StutterShape DEF Next, Caller

LEMMA ShapeHolds == Spec => []Shape
BY InitShape, ShapeStep, PTL DEF Spec

\* The state keeps its shape: no thread writes behind its document, no pipe holds
\* more than it can.
THEOREM TypeCorrect == Spec => []TypeOK
BY ShapeHolds, PTL DEF Shape

------------------------------------------------------------------------------
\* The calling thread and its child keep in step.
LEMMA TogetherStep ==
  ASSUME Shape, Together, [Next]_vars
  PROVE  Together'
<1> USE DEF Go, process, disk
<1>1. ASSUME NEW c \in Callers, PickName(c) \/ OpenFile(c) \/ CloseFile(c) \/ Exec(c)
      PROVE  Together'
  <2>1. /\ UNCHANGED <<put, whose, todo, pipe, result>>
        /\ pc[c] \in {"begin", "open", "write", "exec"} /\ (pc'[c] = "open" => pc[c] = "begin")
        /\ \/ pc'[c] \in {"open", "write", "exec"} /\ child'[c] = child[c]
           \/ pc'[c] = "read" /\ child'[c] = "started"
        /\ \A d \in Callers \ {c} : pc'[d] = pc[d] /\ child'[d] = child[d]
    BY <1>1 DEF Shape, TypeOK, PickName, OpenFile, CloseFile, Exec
  <2>2. child[c] = "none"
    BY <2>1 DEF Together
  <2> QED BY <2>1, <2>2 DEF Together, Over
<1>2. ASSUME NEW c \in Callers, WritePart(c)
      PROVE  Together'
  BY <1>2 DEF Shape, TypeOK, Together, Over, WritePart
<1>3. ASSUME NEW c \in Callers, ReadOut(c)
      PROVE  Together'
  <2>1. /\ UNCHANGED <<pc, put, child, whose, todo>>
        /\ \A d \in Callers \ {c} : pipe'[d] = pipe[d] /\ result'[d] = result[d]
        /\ pc[c] = "read" /\ pipe[c]["out"] > 0 /\ result'[c] = Append(result[c], whose[c])
    BY <1>3 DEF ReadOut, Shape, TypeOK
  <2>2. \A i \in 1 .. Len(result'[c]) : result'[c][i] = whose[c]
    <3>1. result[c] \in Seq(Callers \cup {Nil}) /\ whose[c] \in Callers \cup {Nil}
      BY DEF Shape, TypeOK
    <3> QED BY <2>1, <3>1 DEF Together
  <2>3. child[c] \notin {"none", "started"}
    BY <2>1 DEF Together
  <2> QED BY <2>1, <2>2, <2>3 DEF Together
<1>4. ASSUME NEW c \in Callers, EndOfOut(c) \/ Return(c)
      PROVE  Together'
  <2>1. /\ UNCHANGED <<put, child, whose, todo, pipe, result>> /\ child[c] \in Over
        /\ pc[c] \in {"read", "wait"} /\ pc'[c] \in {"wait", "done"}
        /\ \A d \in Callers \ {c} : pc'[d] = pc[d]
    BY <1>4 DEF Shape, TypeOK, EndOfOut, Return
  <2>2. pipe[c]["out"] = 0
    BY <1>4 DEF Together, EndOfOut, Return
  <2> QED BY <2>1, <2>2 DEF Together, Over
<1>5. ASSUME NEW c \in Callers, DrainErr(c)
      PROVE  Together'
  <2>1. \A d \in Callers : pipe'[d]["out"] = pipe[d]["out"]
    BY <1>5 DEF DrainErr, Shape, TypeOK, Streams
  <2> QED BY <1>5, <2>1 DEF Together, DrainErr
<1>6. ASSUME NEW c \in Callers, pc[c] = "read", ReadFile(c)
      PROVE  Together'
  <2>1. /\ UNCHANGED <<pc, put, pipe, result>> /\ child[c] = "started" /\ child'[c] = "printing"
        /\ pc[c] = "read"
        /\ \A d \in Callers \ {c} : child'[d] = child[d] /\ whose'[d] = whose[d] /\ todo'[d] = todo[d]
    BY <1>6 DEF ReadFile, Shape, TypeOK
  <2>2. result[c] = << >> /\ pipe[c]["out"] = 0
    BY <2>1 DEF Together
  <2> QED BY <2>1, <2>2 DEF Together, Over
<1>7. ASSUME NEW c \in Callers, PrintChunk(c)
      PROVE  Together'
  <2>1. /\ UNCHANGED <<pc, put, child, whose, result>> /\ child[c] = "printing"
        /\ \A d \in Callers \ {c} : pipe'[d] = pipe[d] /\ todo'[d] = todo[d]
    BY <1>7 DEF PrintChunk, Shape, TypeOK
  <2>2. pc[c] \notin {"wait", "done", "gone"}
    BY <2>1 DEF Together, Over
  <2> QED BY <2>1, <2>2 DEF Together, Over
<1>8. ASSUME NEW c \in Callers, pc[c] = "read", Exit(c) \/ Fail(c)
      PROVE  Together'
  <2>1. /\ UNCHANGED <<pc, put, whose, pipe, result>> /\ child[c] \in {"started", "printing"}
        /\ child'[c] \in Over /\ todo'[c] = << >>
        /\ \A d \in Callers \ {c} : child'[d] = child[d] /\ todo'[d] = todo[d]
    BY <1>8 DEF Exit, Fail, Shape, TypeOK, Over
  <2> QED BY <1>8, <2>1 DEF Together, Over
<1>9. CASE Tick \/ UNCHANGED vars
  BY <1>9 DEF Together, Tick, vars
<1>10. CASE ProgramEnds \/ ProgramKilled \/ \E c \in Callers : Throw(c)
  <2>1. /\ UNCHANGED <<put, child, whose, todo, pipe, result>>
        /\ \A d \in Callers : \/ pc'[d] = pc[d]
                              \/ pc'[d] \in {"failed", "cut"}
                              \/ pc'[d] = "gone" /\ pc[d] = "done"
    <3>1. CASE ProgramEnds
      BY <3>1 DEF ProgramEnds
    <3>2. CASE ProgramKilled
      BY <3>2 DEF ProgramKilled
    <3>3. CASE \E c \in Callers : Throw(c)
      BY <3>3 DEF Throw, Shape, TypeOK
    <3> QED BY <1>10, <3>1, <3>2, <3>3
  <2> QED BY <2>1 DEF Together
<1> QED BY <1>1, <1>2, <1>3, <1>4, <1>5, <1>6, <1>7, <1>8, <1>9, <1>10 DEF Next, Caller, Child

------------------------------------------------------------------------------
\* The files that exist, by whom they were opened and which are registered.
LEMMA FilesStep ==
  ASSUME Shape, Files, [Next]_vars
  PROVE  Files'
<1> USE DEF Files, Go, process, disk
<1>1. ASSUME NEW c \in Callers,
             PickName(c) \/ OpenFile(c) \/ WritePart(c) \/ CloseFile(c) \/ Exec(c) \/ EndOfOut(c) \/ Throw(c)
      PROVE  Files'
  <2>1. /\ UNCHANGED doomed /\ name' = [name EXCEPT ![c] = name'[c]]
        /\ \A d \in Callers \ {c} : name'[d] = name[d] /\ pc'[d] = pc[d]
        /\ pc[c] \notin {"done", "gone", "failed", "cut"} /\ pc'[c] \notin {"done", "gone"}
        /\ \A n \in Names : n # name'[c] => temp'[n] = temp[n]
    BY <1>1 DEF Shape, TypeOK, PickName, OpenFile, WritePart, CloseFile, Exec, EndOfOut, Throw
  <2>2. ~ \E d \in Callers : pc'[d] = "gone"
    BY <2>1 DEF AllEnded
  <2>3. pc[c] = "begin" => name[c] = Nil
    BY DEF Shape
  <2>4. name'[c] = name[c] \/ name[c] = Nil
    BY <1>1, <2>3 DEF PickName, OpenFile, WritePart, CloseFile, Exec, EndOfOut, Throw
  <2>5. Owned'
    <3> SUFFICES ASSUME NEW n \in Names, temp'[n] # Nil
                 PROVE  \E d \in Callers : name'[d] = n
      BY DEF Owned, Names
    <3>1. CASE n = name'[c]
      BY <3>1
    <3>2. CASE n # name'[c]
      <4>1. PICK d \in Callers : name[d] = n
        BY <2>1, <3>2 DEF Owned
      <4>2. n # Nil
        BY NilAssumption DEF Names
      <4> QED BY <2>1, <2>4, <3>2, <4>1, <4>2
    <3> QED BY <3>1, <3>2
  <2>6. Registered'
    BY <2>1 DEF Registered
  <2> QED BY <2>2, <2>5, <2>6 DEF AllEnded, LeftBehind
<1>2. ASSUME NEW c \in Callers, Return(c)
      PROVE  Files'
  <2>1. /\ UNCHANGED <<name, temp>> /\ doomed' = doomed \cup {name[c]}
        /\ pc[c] = "wait" /\ pc'[c] = "done" /\ \A d \in Callers \ {c} : pc'[d] = pc[d]
    BY <1>2 DEF Shape, TypeOK, Return
  <2>2. ~ \E d \in Callers : pc'[d] = "gone"
    BY <2>1 DEF AllEnded
  <2>3. Owned' /\ Registered'
    BY <2>1 DEF Owned, Registered, Names
  <2> QED BY <2>2, <2>3 DEF AllEnded, LeftBehind
<1>3. ASSUME NEW c \in Callers, ReadOut(c) \/ DrainErr(c) \/ Child(c)
      PROVE  Files'
  <2>1. UNCHANGED <<pc, name, temp, doomed>>
    BY <1>3 DEF ReadOut, DrainErr, Child, ReadFile, PrintChunk, Exit, Fail
  <2> QED BY <2>1 DEF Owned, Registered, AllEnded, LeftBehind, Names
<1>4. CASE Tick \/ UNCHANGED vars
  <2>1. UNCHANGED <<pc, name, temp, doomed>>
    BY <1>4 DEF Tick, vars
  <2> QED BY <2>1 DEF Owned, Registered, AllEnded, LeftBehind, Names
<1>5. CASE ProgramEnds
  <2>1. /\ UNCHANGED <<name, doomed>>
        /\ \A d \in Callers : /\ pc'[d] \in {"gone", "failed", "cut"}
                              /\ pc'[d] = "gone" => pc[d] = "done"
        /\ \A n \in Names : temp'[n] = IF n \in doomed THEN Nil ELSE temp[n]
    BY <1>5 DEF Shape, TypeOK, ProgramEnds
  <2>2. ASSUME NEW n \in Names, temp'[n] # Nil
        PROVE  /\ \E d \in Callers : name[d] = n
               /\ \A d \in Callers : name[d] = n => pc'[d] \in {"failed", "cut"}
    <3>1. n \notin doomed /\ temp[n] # Nil
      BY <2>1, <2>2
    <3>2. \E d \in Callers : name[d] = n
      BY <3>1 DEF Owned
    <3>3. \A d \in Callers : name[d] = n => pc[d] # "done"
      BY <3>1 DEF Registered
    <3> QED BY <2>1, <3>2, <3>3
  <2> QED BY <2>1, <2>2 DEF Owned, Registered, AllEnded, LeftBehind, Names
<1>6. CASE ProgramKilled
  BY <1>6 DEF ProgramKilled, Owned, Registered, AllEnded, LeftBehind, Names
<1> QED BY <1>1, <1>2, <1>3, <1>4, <1>5, <1>6 DEF Next, Caller

\* toBibmrame, MarcUtil.java:640-648.  When the program has ended by itself, a file
\* is left behind only by calls that have thrown or were cut short, at whatever
\* point: the file of a call that returned is deleted.
THEOREM OnlyFailedLeaveFiles == Spec => []LeftBehind
<1>1. Shape /\ Files /\ [Next]_vars => Files'
  BY FilesStep
<1> QED BY <1>1, InitShape, ShapeHolds, PTL DEF Spec, Files

------------------------------------------------------------------------------
\* How many chunks of output are among those that the child still prints.
OutPlaces(s) == {i \in 1 .. Len(s) : s[i] = "out"}
OutLeft(s)   == Cardinality(OutPlaces(s))

\* The length of the longest document is one: every document fits.
LEMMA LongestDocument ==
  MaxPart \in Nat \ {0} /\ \A c \in Callers : Parts[c] <= MaxPart
<1>1. \E n \in {Parts[c] : c \in Callers} : \A c \in Callers : Parts[c] <= n
  BY LongestAssumption
<1>2. MaxPart \in {Parts[c] : c \in Callers} /\ \A c \in Callers : Parts[c] <= MaxPart
  BY <1>1 DEF MaxPart
<1> QED BY <1>2, PartsAssumption

\* Two threads have different documents.
LEMMA DocumentsDiffer ==
  ASSUME NEW c \in Callers, NEW d \in Callers, Document(c) = Document(d)
  PROVE  c = d
<1>1. 1 \in 1 .. MaxPart /\ 1 <= Parts[c] /\ 1 <= Parts[d]
  BY LongestDocument, PartsAssumption
<1>2. Document(c)[1] = c /\ Document(d)[1] = d
  BY <1>1 DEF Document
<1> QED BY <1>2

\* There are finitely many chunks of output in a sequence.
LEMMA OutFinite ==
  ASSUME NEW s \in Seq(Streams)
  PROVE  IsFiniteSet(OutPlaces(s)) /\ OutLeft(s) \in Nat
<1>1. IsFiniteSet(1 .. Len(s))
  BY FS_Interval
<1>2. OutPlaces(s) \in SUBSET (1 .. Len(s))
  BY DEF OutPlaces
<1>3. IsFiniteSet(OutPlaces(s))
  BY <1>1, <1>2, FS_Subset
<1> QED BY <1>3, FS_CardinalityType DEF OutLeft

\* Printing a chunk of output leaves one less, printing a message as many.
LEMMA OutOfTail ==
  ASSUME NEW s \in Seq(Streams), s # << >>
  PROVE  OutLeft(s) = OutLeft(Tail(s)) + (IF Head(s) = "out" THEN 1 ELSE 0)
<1> DEFINE t == Tail(s)
           f == [i \in OutPlaces(t) |-> i + 1]
           rest == OutPlaces(s) \ {1}
<1>1. t \in Seq(Streams) /\ Len(t) = Len(s) - 1 /\ Len(s) \in Nat /\ Len(s) >= 1
      /\ \A i \in 1 .. Len(t) : t[i] = s[i + 1]
  OBVIOUS
<1>2. f \in [OutPlaces(t) -> rest]
  BY <1>1 DEF OutPlaces
<1>3. \A i, j \in OutPlaces(t) : f[i] = f[j] => i = j
  BY <1>1 DEF OutPlaces
<1>4. \A k \in rest : \E i \in OutPlaces(t) : f[i] = k
  <2> TAKE k \in rest
  <2>1. k - 1 \in OutPlaces(t)
    BY <1>1 DEF OutPlaces
  <2>2. k \in Int
    BY <1>1 DEF OutPlaces
  <2> QED BY <2>1, <2>2
<1>5. f \in Bijection(OutPlaces(t), rest)
  BY <1>2, <1>3, <1>4 DEF Bijection, Injection, Surjection, IsInjective
<1>6. Cardinality(rest) = OutLeft(t)
  BY <1>1, <1>5, OutFinite, FS_Bijection DEF ExistsBijection, OutLeft
<1>7. Cardinality(rest) = IF 1 \in OutPlaces(s) THEN OutLeft(s) - 1 ELSE OutLeft(s)
  BY OutFinite, FS_RemoveElement DEF OutLeft
<1>8. 1 \in OutPlaces(s) <=> Head(s) = "out"
  BY <1>1 DEF OutPlaces
<1>9. OutLeft(s) \in Nat /\ OutLeft(t) \in Nat
  BY <1>1, OutFinite
<1> HIDE DEF t, f, rest
<1>10. CASE Head(s) = "out"
  BY <1>6, <1>7, <1>8, <1>9, <1>10 DEF t
<1>11. CASE Head(s) # "out"
  BY <1>6, <1>7, <1>8, <1>9, <1>11 DEF t
<1> QED BY <1>10, <1>11

\* A child that has found a document prints all of its output.
LEMMA OutOfOrder ==
  ASSUME NEW o \in Orders(Output, Messages)
  PROVE  OutLeft(o) = Output
<1>1. Len(o) = Output + Messages
  BY PipeAssumption DEF Orders
<1> QED BY <1>1 DEF Orders, OutLeft, OutPlaces

LEMMA NoneLeft == OutLeft(<< >>) = 0
BY FS_EmptySet DEF OutLeft, OutPlaces

------------------------------------------------------------------------------
\* A call whose file no other call uses finds in it what it has written, and its
\* child prints the conversion of it: what has been read, what is in the pipe
\* and what is still to be printed are always the whole output, or part of it
\* when the child has failed.
Unshared(c) == name[c] # Nil /\ \A d \in Callers \ {c} : name[d] # name[c]

FileIsOwn(c) ==
  /\ pc[c] = "write" => temp[name[c]] = [p \in 1 .. MaxPart |-> IF p <= put[c] THEN c ELSE Nil]
  /\ pc[c] \in {"exec", "read"} /\ child[c] \in {"none", "started"} => temp[name[c]] = Document(c)

OutputIsOwn(c) ==
  /\ child[c] \in {"printing", "ended"} =>
       whose[c] = c /\ Len(result[c]) + pipe[c]["out"] + OutLeft(todo[c]) = Output
  /\ child[c] = "failed" =>
       /\ Len(result[c]) + pipe[c]["out"] <= Output
       /\ whose[c] = c \/ (Len(result[c]) = 0 /\ pipe[c]["out"] = 0)

Undisturbed == \A c \in Callers : Unshared(c) => FileIsOwn(c) /\ OutputIsOwn(c)

\* A call that nobody disturbs after a step was not disturbed before it.
LEMMA UnsharedBefore ==
  ASSUME Shape, NEW c \in Callers, NEW d \in Callers, Unshared(d)',
         UNCHANGED name \/ (PickName(c) /\ d # c)
  PROVE  Unshared(d) /\ name'[d] = name[d]
<1>1. CASE UNCHANGED name
  BY <1>1 DEF Unshared
<1>2. CASE PickName(c) /\ d # c
  <2>1. name[c] = Nil /\ \A e \in Callers \ {c} : name'[e] = name[e]
    BY <1>2 DEF PickName, Go, Shape, TypeOK
  <2> QED BY <1>2, <2>1 DEF Unshared
<1> QED BY <1>1, <1>2

LEMMA InitUndisturbed == Init => Undisturbed
BY DEF Init, Undisturbed, Unshared

\* The steps up to the start of the child.
LEMMA WritingUndisturbed ==
  ASSUME Shape, Together, Undisturbed, NEW c \in Callers,
         PickName(c) \/ OpenFile(c) \/ WritePart(c) \/ CloseFile(c) \/ Exec(c)
  PROVE  Undisturbed'
<1> SUFFICES ASSUME NEW d \in Callers, Unshared(d)'
             PROVE  FileIsOwn(d)' /\ OutputIsOwn(d)'
  BY DEF Undisturbed
<1> USE DEF Go, process, disk
<1>1. UNCHANGED <<whose, todo, pipe, result>>
  BY DEF PickName, OpenFile, WritePart, CloseFile, Exec
<1>2. child'[c] \in {"none", "started"} /\ \A e \in Callers \ {c} : child'[e] = child[e] /\ pc'[e] = pc[e]
  BY DEF Shape, TypeOK, Together, PickName, OpenFile, WritePart, CloseFile, Exec
<1>3. UNCHANGED name \/ PickName(c)
  BY DEF PickName, OpenFile, WritePart, CloseFile, Exec
<1>4. CASE d # c
  <2>1. Unshared(d) /\ name'[d] = name[d]
    BY <1>3, <1>4, UnsharedBefore
  <2>2. temp'[name[d]] = temp[name[d]]
    <3>1. CASE OpenFile(c) \/ WritePart(c)
      <4>1. name[c] # name[d]
        BY <1>4, <2>1 DEF Unshared
      <4>2. name[d] \in Names /\ temp \in [Names -> {Nil} \cup Contents]
        BY <2>1 DEF Unshared, Shape, TypeOK, Contents
      <4>3. \E t : temp' = [temp EXCEPT ![name[c]] = t]
        BY <3>1 DEF OpenFile, WritePart
      <4> QED BY <4>1, <4>2, <4>3
    <3>2. CASE UNCHANGED temp
      BY <3>2
    <3> QED BY <3>1, <3>2 DEF PickName, CloseFile, Exec
  <2>3. put'[d] = put[d]
    BY <1>4 DEF Shape, TypeOK, PickName, OpenFile, WritePart, CloseFile, Exec
  <2>4. FileIsOwn(d) /\ OutputIsOwn(d)
    BY <2>1 DEF Undisturbed
  <2> QED BY <1>1, <1>2, <1>4, <2>1, <2>2, <2>3, <2>4 DEF FileIsOwn, OutputIsOwn, Document
<1>5. CASE d = c
  <2>1. OutputIsOwn(c)'
    BY <1>2 DEF OutputIsOwn
  <2>2. CASE PickName(c)
    <3>1. pc'[c] = "open"
      BY <2>2 DEF Shape, TypeOK, PickName
    <3> QED BY <1>5, <2>1, <3>1 DEF FileIsOwn
  <2>3. CASE OpenFile(c)
    <3>1. pc'[c] = "write" /\ put'[c] = 0 /\ name'[c] = name[c] /\ name[c] \in Names
      BY <2>3 DEF Shape, TypeOK, Together, OpenFile
    <3>2. temp'[name[c]] = Blank
      BY <2>3, <3>1 DEF Shape, TypeOK, OpenFile
    <3>3. Blank = [p \in 1 .. MaxPart |-> IF p <= 0 THEN c ELSE Nil]
      BY DEF Blank
    <3> QED BY <1>5, <2>1, <3>1, <3>2, <3>3 DEF FileIsOwn
  <2>4. CASE WritePart(c)
    <3> DEFINE old == [p \in 1 .. MaxPart |-> IF p <= put[c] THEN c ELSE Nil]
               new == [p \in 1 .. MaxPart |-> IF p <= put[c] + 1 THEN c ELSE Nil]
    <3>1. /\ pc'[c] = "write" /\ pc[c] = "write" /\ put'[c] = put[c] + 1 /\ put[c] \in Nat
          /\ name' = name /\ name[c] \in Names
      BY <2>4 DEF Shape, TypeOK, WritePart
    <3>2. temp[name[c]] = old
      BY <1>3, <1>5, <3>1 DEF Undisturbed, Unshared, FileIsOwn
    <3>3. temp'[name[c]] = [old EXCEPT ![put[c] + 1] = c]
      BY <2>4, <3>1, <3>2 DEF WritePart, Shape, TypeOK
    <3>4. [old EXCEPT ![put[c] + 1] = c] = new
      <4>1. \A p \in 1 .. MaxPart : [old EXCEPT ![put[c] + 1] = c][p] = new[p]
        BY <3>1, LongestDocument
      <4> QED BY <4>1
    <3> QED BY <1>5, <2>1, <3>1, <3>3, <3>4 DEF FileIsOwn
  <2>5. CASE CloseFile(c)
    <3>1. /\ pc'[c] = "exec" /\ pc[c] = "write" /\ put[c] = Parts[c]
          /\ name' = name /\ temp' = temp
      BY <2>5 DEF Shape, TypeOK, CloseFile
    <3>2. temp[name[c]] = Document(c)
      BY <1>5, <3>1 DEF Undisturbed, Unshared, FileIsOwn, Document
    <3> QED BY <1>5, <2>1, <3>1, <3>2 DEF FileIsOwn, Document
  <2>6. CASE Exec(c)
    <3>1. pc'[c] = "read" /\ pc[c] = "exec" /\ child[c] = "none" /\ name' = name /\ temp' = temp
      BY <2>6 DEF Shape, TypeOK, Together, Exec
    <3>2. temp[name[c]] = Document(c)
      BY <1>5, <3>1 DEF Undisturbed, Unshared, FileIsOwn
    <3> QED BY <1>5, <2>1, <3>1, <3>2 DEF FileIsOwn, Document
  <2> QED BY <2>2, <2>3, <2>4, <2>5, <2>6
<1> QED BY <1>4, <1>5

\* The steps of the child and of those who read what it prints.
LEMMA ReadingUndisturbed ==
  ASSUME Shape, Together, Undisturbed, NEW c \in Callers,
         ReadOut(c) \/ EndOfOut(c) \/ Return(c) \/ DrainErr(c) \/ Child(c)
  PROVE  Undisturbed'
<1> SUFFICES ASSUME NEW d \in Callers, Unshared(d)'
             PROVE  FileIsOwn(d)' /\ OutputIsOwn(d)'
  BY DEF Undisturbed
<1> USE DEF Go, process, disk
<1>1. UNCHANGED <<name, put, temp>>
  BY DEF ReadOut, EndOfOut, Return, DrainErr, Child, ReadFile, PrintChunk, Exit, Fail
<1>2. FileIsOwn(d) /\ OutputIsOwn(d)
  BY <1>1 DEF Unshared, Undisturbed
<1>3. FileIsOwn(d)'
  <2>1. /\ pc'[d] = "write" => pc[d] = "write"
        /\ pc'[d] \in {"exec", "read"} => pc[d] = pc'[d]
        /\ child'[d] \in {"none", "started"} => child'[d] = child[d]
    BY DEF Shape, TypeOK, ReadOut, EndOfOut, Return, DrainErr, Child, ReadFile, PrintChunk, Exit, Fail
  <2> QED BY <1>1, <1>2, <2>1 DEF FileIsOwn, Document
<1>4. OutputIsOwn(d)'
  <2>1. CASE d # c
    <3>1. /\ child'[d] = child[d] /\ whose'[d] = whose[d] /\ todo'[d] = todo[d]
          /\ pipe'[d] = pipe[d] /\ result'[d] = result[d]
      BY <2>1 DEF Shape, TypeOK, ReadOut, EndOfOut, Return, DrainErr, Child, ReadFile, PrintChunk, Exit, Fail
    <3> QED BY <1>2, <3>1 DEF OutputIsOwn
  <2>2. CASE d = c /\ (EndOfOut(c) \/ Return(c))
    BY <1>2, <2>2 DEF EndOfOut, Return, OutputIsOwn
  <2>3. CASE d = c /\ DrainErr(c)
    <3>1. pipe'[c]["out"] = pipe[c]["out"] /\ UNCHANGED <<child, whose, todo, result>>
      BY <2>3 DEF DrainErr, Shape, TypeOK, Streams
    <3> QED BY <1>2, <2>3, <3>1 DEF OutputIsOwn
  <2>4. CASE d = c /\ ReadOut(c)
    <3>1. /\ UNCHANGED <<child, whose, todo>> /\ pipe'[c]["out"] = pipe[c]["out"] - 1
          /\ result'[c] = Append(result[c], whose[c]) /\ pipe[c]["out"] \in Nat
          /\ result[c] \in Seq(Callers \cup {Nil}) /\ whose[c] \in Callers \cup {Nil}
      BY <2>4, PipeAssumption DEF ReadOut, Shape, TypeOK, Streams
    <3>2. Len(result'[c]) = Len(result[c]) + 1 /\ Len(result[c]) \in Nat
      BY <3>1
    <3>3. OutLeft(todo[c]) \in Nat /\ OutLeft(todo[c])' = OutLeft(todo[c])
      BY <3>1, OutFinite DEF Shape
    <3> DEFINE l == Len(result[c])
               p == pipe[c]["out"]
    <3>4. l \in Nat /\ p \in Nat /\ Len(result'[c]) = l + 1 /\ pipe'[c]["out"] = p - 1
      BY <3>1, <3>2
    <3>5. child[c] \in {"printing", "ended"} => whose[c] = c /\ l + p + OutLeft(todo[c]) = Output
      BY <1>2, <2>4 DEF OutputIsOwn
    <3>6. child[c] = "failed" => l + p <= Output /\ (whose[c] = c \/ p = 0)
      BY <1>2, <2>4 DEF OutputIsOwn
    <3>7. p # 0
      BY <2>4 DEF ReadOut
    <3> HIDE DEF l, p
    <3>8. Len(result'[c]) + pipe'[c]["out"] = l + p
      BY <3>4
    <3> QED BY <2>4, <3>1, <3>3, <3>5, <3>6, <3>7, <3>8 DEF OutputIsOwn
  <2>5. CASE d = c /\ pc[c] = "read" /\ ReadFile(c)
    <3>1. child[c] = "started" /\ UNCHANGED <<pipe, result>> /\ child'[c] = "printing"
      BY <2>5 DEF ReadFile, Shape, TypeOK
    <3>2. pc[c] = "read" /\ pipe[c]["out"] = 0 /\ result[c] = << >>
      BY <2>5, <3>1 DEF Together
    <3>3. temp[name[c]] = Document(c)
      BY <1>2, <2>5, <3>1, <3>2 DEF FileIsOwn
    <3>4. {e \in Callers : temp[name[c]] = Document(e)} = {c}
      BY <3>3, DocumentsDiffer
    <3>5. PICK o \in Orders(Output, Messages) : whose' = [whose EXCEPT ![c] = c] /\ todo' = [todo EXCEPT ![c] = o]
      BY <2>5, <3>4 DEF ReadFile
    <3>6. whose'[c] = c /\ todo'[c] = o
      BY <3>5 DEF Shape, TypeOK
    <3>7. OutLeft(o) = Output /\ Len(<< >>) = 0
      BY OutOfOrder
    <3> QED BY <2>5, <3>1, <3>2, <3>6, <3>7, PipeAssumption DEF OutputIsOwn
  <2>6. CASE d = c /\ PrintChunk(c)
    <3> DEFINE s == Head(todo[c])
    <3>1. /\ UNCHANGED <<child, whose, result>> /\ todo[c] # << >> /\ todo[c] \in Seq(Streams)
          /\ child[c] = "printing"
          /\ todo'[c] = Tail(todo[c]) /\ s \in Streams
      BY <2>6 DEF PrintChunk, Shape
    <3>2. /\ pipe'[c]["out"] = IF s = "out" THEN pipe[c]["out"] + 1 ELSE pipe[c]["out"]
          /\ pipe[c]["out"] \in Nat
      BY <2>6, <3>1, PipeAssumption DEF PrintChunk, Shape, TypeOK, Streams
    <3>3. OutLeft(todo[c]) = OutLeft(todo'[c]) + (IF s = "out" THEN 1 ELSE 0)
      BY <3>1, OutOfTail
    <3>4. OutLeft(todo'[c]) \in Nat
      <4>1. todo'[c] \in Seq(Streams)
        BY <3>1
      <4> QED BY <4>1, OutFinite
    <3> DEFINE l == Len(result[c])
               p == pipe[c]["out"]
               q == OutLeft(todo'[c])
    <3>5. l \in Nat /\ p \in Nat /\ q \in Nat
      BY <3>2, <3>4 DEF Shape, TypeOK
    <3>6. child[c] \in {"printing", "ended"} =>
            whose[c] = c /\ l + p + (q + (IF s = "out" THEN 1 ELSE 0)) = Output
      BY <1>2, <2>6, <3>3 DEF OutputIsOwn
    <3> HIDE DEF s, l, p, q
    <3>7. l + (IF s = "out" THEN p + 1 ELSE p) + q = l + p + (q + (IF s = "out" THEN 1 ELSE 0))
      BY <3>5
    <3>8. child[c] \in {"printing", "ended"} =>
            Len(result[c]) + pipe'[c]["out"] + OutLeft(todo'[c]) = Output
      BY <3>2, <3>6, <3>7 DEF l, p, q
    <3> QED BY <2>6, <3>1, <3>6, <3>8 DEF OutputIsOwn
  <2>7. CASE d = c /\ Exit(c)
    <3>1. child[c] = "printing" /\ child'[c] = "ended" /\ UNCHANGED <<whose, todo, pipe, result>>
      BY <2>7 DEF Exit, Shape, TypeOK
    <3> QED BY <1>2, <2>7, <3>1 DEF OutputIsOwn
  <2>8. CASE d = c /\ Fail(c)
    <3>1. child[c] \in {"started", "printing"} /\ child'[c] = "failed" /\ UNCHANGED <<whose, pipe, result>>
      BY <2>8 DEF Fail, Shape, TypeOK
    <3> DEFINE l == Len(result[c])
               p == pipe[c]["out"]
               q == OutLeft(todo[c])
    <3>2. l \in Nat /\ p \in Nat /\ q \in Nat
      BY OutFinite, PipeAssumption DEF Shape, TypeOK, Streams
    <3>3. CASE child[c] = "started"
      <4>1. l = 0 /\ p = 0
        BY <3>3 DEF Together
      <4> QED BY <2>8, <3>1, <4>1, PipeAssumption DEF OutputIsOwn
    <3>4. CASE child[c] = "printing"
      <4>1. whose[c] = c /\ l + p + q = Output
        BY <1>2, <2>8, <3>4 DEF OutputIsOwn
      <4> HIDE DEF l, p, q
      <4>2. l + p <= Output
        BY <3>2, <4>1
      <4> QED BY <2>8, <3>1, <4>1, <4>2 DEF OutputIsOwn, l, p
    <3> QED BY <3>1, <3>3, <3>4
  <2> QED BY <2>1, <2>2, <2>3, <2>4, <2>5, <2>6, <2>7, <2>8 DEF Child
<1> QED BY <1>3, <1>4

LEMMA RestUndisturbed ==
  ASSUME Shape, Together, Undisturbed,
         Tick \/ ProgramEnds \/ ProgramKilled \/ (\E c \in Callers : Throw(c)) \/ UNCHANGED vars
  PROVE  Undisturbed'
<1>1. UNCHANGED <<name, put, child, whose, todo, pipe, result>>
  BY DEF Tick, ProgramEnds, ProgramKilled, Throw, process, vars
<1>2. \/ /\ UNCHANGED temp
         /\ \A d \in Callers : pc'[d] \in {"write", "exec", "read"} => pc'[d] = pc[d]
      \/ \A d \in Callers : pc'[d] \notin {"write", "exec", "read"}
  <2>1. CASE Tick \/ UNCHANGED vars
    BY <2>1 DEF Tick, disk, vars
  <2>2. CASE ProgramEnds \/ ProgramKilled
    BY <2>2 DEF ProgramEnds, ProgramKilled
  <2>3. ASSUME NEW c \in Callers, Throw(c)
        PROVE  /\ UNCHANGED temp
               /\ \A d \in Callers : pc'[d] \in {"write", "exec", "read"} => pc'[d] = pc[d]
    BY <2>3 DEF Throw, disk, Shape, TypeOK
  <2> QED BY <2>1, <2>2, <2>3
<1> QED BY <1>1, <1>2 DEF Undisturbed, Unshared, FileIsOwn, OutputIsOwn, Document

LEMMA UndisturbedHolds == Spec => [](Shape /\ Together /\ Undisturbed)
<1>1. Init => Shape /\ Together /\ Undisturbed
  BY InitShape, InitUndisturbed
<1>2. Shape /\ Together /\ Undisturbed /\ [Next]_vars => (Shape /\ Together /\ Undisturbed)'
  BY ShapeStep, TogetherStep, WritingUndisturbed, ReadingUndisturbed, RestUndisturbed DEF Next, Caller
<1> QED BY <1>1, <1>2, PTL DEF Spec

\* MarcUtil.java:639-651.  A call returns the whole conversion of its own record,
\* or the beginning of it if its xsltproc has failed, whatever the other threads
\* do, unless one of them used the same name.
THEOREM OwnOutput == Spec => []OwnOutputUnlessSameName
<1>1. Shape /\ Together /\ Undisturbed => OwnOutputUnlessSameName
  <2> SUFFICES ASSUME Shape, Together, Undisturbed, NEW c \in Callers, pc[c] \in {"done", "gone"},
                      ~ \E d \in Callers \ {c} : name[d] = name[c]
               PROVE  /\ \A i \in 1 .. Len(result[c]) : result[c][i] = c
                      /\ Len(result[c]) <= Output
                      /\ child[c] = "ended" => Len(result[c]) = Output
    BY DEF OwnOutputUnlessSameName
  <2>1. Unshared(c)
    BY DEF Unshared, Shape
  <2>2. child[c] \in Over /\ pipe[c]["out"] = 0 /\ todo[c] = << >>
    BY DEF Together
  <2>3. result[c] \in Seq(Callers \cup {Nil}) /\ Len(result[c]) \in Nat
    BY DEF Shape, TypeOK
  <2>4. CASE child[c] = "ended"
    <3>1. whose[c] = c /\ Len(result[c]) + 0 + OutLeft(<< >>) = Output
      BY <2>1, <2>2, <2>4 DEF Undisturbed, OutputIsOwn
    <3>2. Len(result[c]) = Output
      BY <2>3, <3>1, NoneLeft
    <3> QED BY <2>3, <3>1, <3>2, PipeAssumption DEF Together
  <2>5. CASE child[c] = "failed"
    <3>1. Len(result[c]) + 0 <= Output /\ (whose[c] = c \/ Len(result[c]) = 0)
      BY <2>1, <2>2, <2>5 DEF Undisturbed, OutputIsOwn
    <3> QED BY <2>3, <2>5, <3>1 DEF Together
  <2> QED BY <2>2, <2>4, <2>5 DEF Over
<1> QED BY <1>1, UndisturbedHolds, PTL
==============================================================================
