------------------------------- MODULE Bibmrame -------------------------------
(***************************************************************************)
(* MarcUtil.toBibmrame: converting records to BIBFRAME by several threads  *)
(* at once.  Each writes its record to a temporary file named after the    *)
(* current millisecond, starts xsltproc on that file, reads what the child *)
(* process prints and waits for it to end.  A second thread empties the    *)
(* child's error pipe: a child that found it full would stop.  The child   *)
(* may fail at any point, which nobody notices, and the call may throw at  *)
(* any point, which leaves its file behind; so may the program end.        *)
(*                                                                         *)
(* A document is a number of parts, written to the file one by one; what   *)
(* another thread does to a file of the same name in between shows.        *)
(***************************************************************************)
EXTENDS Integers, Sequences, FiniteSets

CONSTANTS
  Callers,    \* the threads, each with a record of its own
  Parts,      \* [Callers -> Nat], the size of the record's document
  Output,     \* the chunks that xsltproc prints for a document ...
  Messages,   \* ... and those it prints to its error stream
  PipeSize,   \* the chunks that fit in a pipe
  Nil,        \* nothing written
  MaxClock    \* bound: milliseconds that pass

ASSUME PartsAssumption == Parts \in [Callers -> Nat \ {0}]
ASSUME PipeAssumption  == /\ PipeSize \in Nat \ {0} /\ Output \in Nat \ {0}
                          /\ Messages \in Nat \ {0} /\ MaxClock \in Nat
ASSUME NilAssumption   == Nil \notin Callers \cup 0 .. MaxClock
ASSUME LongestAssumption == \E c \in Callers : \A d \in Callers : Parts[d] <= Parts[c]

Names   == 0 .. MaxClock
MaxPart == CHOOSE n \in {Parts[c] : c \in Callers} : \A c \in Callers : Parts[c] <= n
Blank   == [p \in 1 .. MaxPart |-> Nil]
Streams == {"out", "err"}

VARIABLES
  clock,   \* the current millisecond
  pc,      \* where each thread is; "failed": the call has thrown; "gone": it had
           \* returned when the program ended; "cut": it had not, or was killed
  name,    \* the name of its temporary file
  put,     \* the parts of its document that it has written
  temp,    \* the temporary files: Nil, or whose part is in which place
  doomed,  \* the names registered for deletion at exit
  child,   \* its child process: "none", "started", "printing", "ended" or "failed"
  whose,   \* the record that the child found in the file, or Nil
  todo,    \* the chunks that the child still prints, by stream
  pipe,    \* the chunks in the pipes of the child
  result   \* whose output the thread has read, chunk by chunk

vars == <<clock, pc, name, put, temp, doomed, child, whose, todo, pipe, result>>
process == <<child, whose, todo, pipe>>
disk    == <<temp, doomed>>

Init ==
  /\ clock = 0
  /\ pc = [c \in Callers |-> "begin"]
  /\ name = [c \in Callers |-> Nil]
  /\ put = [c \in Callers |-> 0]
  /\ temp = [n \in Names |-> Nil] /\ doomed = {}
  /\ child = [c \in Callers |-> "none"]
  /\ whose = [c \in Callers |-> Nil]
  /\ todo = [c \in Callers |-> << >>]
  /\ pipe = [c \in Callers |-> [s \in Streams |-> 0]]
  /\ result = [c \in Callers |-> << >>]

Over == {"ended", "failed"}

\* The program runs.
Running == \A c \in Callers : pc[c] \notin {"gone", "cut"}

Go(c, from, to) == pc[c] = from /\ pc' = [pc EXCEPT ![c] = to]

------------------------------------------------------------------------------
\* The calling thread.

\* LocalDateTime.now() gives the name.
PickName(c) ==
  /\ Go(c, "begin", "open")
  /\ name' = [name EXCEPT ![c] = clock]
  /\ UNCHANGED <<clock, put, disk, process, result>>

\* new FileWriter creates the file, or empties it.
OpenFile(c) ==
  /\ Go(c, "open", "write")
  /\ temp' = [temp EXCEPT ![name[c]] = Blank]
  /\ UNCHANGED <<clock, name, put, doomed, process, result>>

\* A slip: going on behind the end of the document.
WritePartOn(c) ==
  /\ pc[c] = "write"
  /\ put' = [put EXCEPT ![c] = @ + 1]
  /\ temp' = [temp EXCEPT ![name[c]][put[c] + 1] = c]
  /\ UNCHANGED <<clock, pc, name, doomed, process, result>>

WritePart(c) ==
  /\ pc[c] = "write" /\ put[c] < Parts[c]
  /\ put' = [put EXCEPT ![c] = @ + 1]
  /\ temp' = [temp EXCEPT ![name[c]][put[c] + 1] = c]
  /\ UNCHANGED <<clock, pc, name, doomed, process, result>>

\* A slip: starting xsltproc on a file that is not closed yet.
CloseFileEarly(c) ==
  /\ Go(c, "write", "exec")
  /\ UNCHANGED <<clock, name, put, disk, process, result>>

CloseFile(c) ==
  /\ put[c] = Parts[c]
  /\ Go(c, "write", "exec")
  /\ UNCHANGED <<clock, name, put, disk, process, result>>

\* Runtime.exec starts xsltproc.
Exec(c) ==
  /\ Go(c, "exec", "read")
  /\ child' = [child EXCEPT ![c] = "started"]
  /\ UNCHANGED <<clock, name, put, disk, whose, todo, pipe, result>>

\* readLine, until the child has closed the stream.
ReadOut(c) ==
  /\ pc[c] = "read" /\ pipe[c]["out"] > 0
  /\ pipe' = [pipe EXCEPT ![c]["out"] = @ - 1]
  /\ result' = [result EXCEPT ![c] = Append(@, whose[c])]
  /\ UNCHANGED <<clock, pc, name, put, disk, child, whose, todo>>

EndOfOut(c) ==
  /\ pipe[c]["out"] = 0 /\ child[c] \in Over
  /\ Go(c, "read", "wait")
  /\ UNCHANGED <<clock, name, put, disk, process, result>>

\* A slip: returning without registering the file for deletion.
ReturnOnly(c) ==
  /\ child[c] \in Over
  /\ Go(c, "wait", "done")
  /\ UNCHANGED <<clock, name, put, disk, process, result>>

\* waitFor, whatever the exit code; then deleteOnExit.
Return(c) ==
  /\ child[c] \in Over
  /\ Go(c, "wait", "done")
  /\ doomed' = doomed \cup {name[c]}
  /\ UNCHANGED <<clock, name, put, temp, process, result>>

\* The directory cannot be made, the disk is full, xsltproc cannot be started, its
\* output not be read, or the thread is interrupted: the call throws, and what it
\* has made stays as it is, the file and the child.
Throw(c) ==
  /\ pc[c] \in {"open", "write", "exec", "read", "wait"}
  /\ pc' = [pc EXCEPT ![c] = "failed"]
  /\ UNCHANGED <<clock, name, put, disk, process, result>>

\* A slip: reading the child's errors after its output, in the same thread.
DrainErrAfter(c) ==
  /\ pc[c] = "wait" /\ pipe[c]["err"] > 0
  /\ pipe' = [pipe EXCEPT ![c]["err"] = @ - 1]
  /\ UNCHANGED <<clock, pc, name, put, disk, child, whose, todo, result>>

\* Thread t1 reads the child's errors and drops them.
DrainErr(c) ==
  /\ pc[c] \in {"read", "wait"} /\ pipe[c]["err"] > 0
  /\ pipe' = [pipe EXCEPT ![c]["err"] = @ - 1]
  /\ UNCHANGED <<clock, pc, name, put, disk, child, whose, todo, result>>

------------------------------------------------------------------------------
\* The child process.
Document(c) == [p \in 1 .. MaxPart |-> IF p <= Parts[c] THEN c ELSE Nil]

\* The order in which it prints its chunks.
Orders(out, err) ==
  {o \in [1 .. out + err -> Streams] : Cardinality({i \in 1 .. out+err : o[i] = "out"}) = out}

\* It reads the file: the document of a record; or something that is no XML, or
\* has been deleted, and makes it print an error message only; or, when several threads have written
\* the file, a mixture that happens to be XML.
ReadFile(c) ==
  /\ child[c] = "started"
  /\ child' = [child EXCEPT ![c] = "printing"]
  /\ LET found == {d \in Callers : temp[name[c]] = Document(d)}
         mixed == IF temp[name[c]] = Nil \/ temp[name[c]][MaxPart] = Nil THEN {} ELSE {Nil}
         seen  == IF found # {} THEN found ELSE mixed
     IN  \/ \E d \in seen, o \in Orders(Output, Messages) :
              /\ whose' = [whose EXCEPT ![c] = d]
              /\ todo' = [todo EXCEPT ![c] = o]
         \/ found = {} /\ whose' = whose /\ todo' = [todo EXCEPT ![c] = <<"err">>]
  /\ UNCHANGED <<clock, pc, name, put, disk, pipe, result>>

\* It prints the next chunk when the pipe has room for it.
PrintChunk(c) ==
  /\ child[c] = "printing" /\ todo[c] # << >>
  /\ pipe[c][Head(todo[c])] < PipeSize
  /\ pipe' = [pipe EXCEPT ![c][Head(todo[c])] = @ + 1]
  /\ todo' = [todo EXCEPT ![c] = Tail(@)]
  /\ UNCHANGED <<clock, pc, name, put, disk, child, whose, result>>

Exit(c) ==
  /\ child[c] = "printing" /\ todo[c] = << >>
  /\ child' = [child EXCEPT ![c] = "ended"]
  /\ UNCHANGED <<clock, pc, name, put, disk, whose, todo, pipe, result>>

\* It ends before it has printed all: a style sheet is missing, a character is not
\* one of XML, something has killed it.
Fail(c) ==
  /\ child[c] \in {"started", "printing"}
  /\ child' = [child EXCEPT ![c] = "failed"]
  /\ todo' = [todo EXCEPT ![c] = << >>]
  /\ UNCHANGED <<clock, pc, name, put, disk, whose, pipe, result>>

------------------------------------------------------------------------------
Tick ==
  /\ Running /\ clock < MaxClock /\ clock' = clock + 1
  /\ UNCHANGED <<pc, name, put, disk, process, result>>

\* When the program ends, wherever its calls are, it deletes the files it has
\* registered.
ProgramEnds ==
  /\ Running
  /\ pc' = [c \in Callers |-> CASE pc[c] = "done" -> "gone"
                               [] pc[c] = "failed" -> "failed"
                               [] OTHER -> "cut"]
  /\ temp' = [n \in Names |-> IF n \in doomed THEN Nil ELSE temp[n]]
  /\ UNCHANGED <<clock, name, put, doomed, process, result>>

\* When it is killed it deletes nothing.
ProgramKilled ==
  /\ Running
  /\ pc' = [c \in Callers |-> "cut"]
  /\ UNCHANGED <<clock, name, put, disk, process, result>>

Caller(c) ==
  \/ PickName(c) \/ OpenFile(c) \/ WritePart(c) \/ CloseFile(c)
  \/ Exec(c) \/ ReadOut(c) \/ EndOfOut(c) \/ Return(c)

\* What it does when its call has thrown or the program has ended nobody sees.
Child(c) == pc[c] = "read" /\ (ReadFile(c) \/ PrintChunk(c) \/ Exit(c) \/ Fail(c))

Next ==
  \/ \E c \in Callers : Caller(c) \/ Throw(c) \/ DrainErr(c) \/ Child(c)
  \/ Tick \/ ProgramEnds \/ ProgramKilled

\* The scheduler runs both threads of a call sooner or later.  xsltproc may stop
\* for ever at any point: the code sets it no time limit.
Fairness == \A c \in Callers : WF_vars(Caller(c)) /\ WF_vars(DrainErr(c))

Spec == Init /\ [][Next]_vars /\ Fairness

------------------------------------------------------------------------------
\* Properties.

\* The shape of the state.
TypeOK ==
  /\ clock \in Names
  /\ pc \in [Callers -> {"begin", "open", "write", "exec", "read", "wait", "done", "failed", "gone", "cut"}]
  /\ name \in [Callers -> Names \cup {Nil}]
  /\ put \in [Callers -> Nat] /\ \A c \in Callers : put[c] <= Parts[c]
  /\ temp \in [Names -> {Nil} \cup [1 .. MaxPart -> Callers \cup {Nil}]] /\ doomed \subseteq Names
  /\ pipe \in [Callers -> [Streams -> 0 .. PipeSize]]
  /\ child \in [Callers -> {"none", "started", "printing"} \cup Over]
  /\ whose \in [Callers -> Callers \cup {Nil}]
  /\ result \in [Callers -> Seq(Callers \cup {Nil})]

\* A call returns the whole conversion of its own record, or, if its xsltproc has
\* failed, which the call does not notice, the first chunks of it; unless another
\* call used the same name: only two calls in one millisecond disturb each other.
OwnOutputUnlessSameName ==
  \A c \in Callers :
    pc[c] \in {"done", "gone"} =>
      \/ /\ \A i \in 1 .. Len(result[c]) : result[c][i] = c
         /\ Len(result[c]) <= Output
         /\ child[c] = "ended" => Len(result[c]) = Output
      \/ \E d \in Callers \ {c} : name[d] = name[c]

\* When the program has ended by itself, a file that is left behind belongs to calls
\* that have thrown or were cut short: of those that returned every file is
\* deleted, also those of which another call uses the name.
LeftBehind ==
  (\E c \in Callers : pc[c] = "gone") =>
    \A n \in Names : temp[n] # Nil =>
      /\ \E c \in Callers : name[c] = n
      /\ \A c \in Callers : name[c] = n => pc[c] \in {"failed", "cut"}

\* Whether xsltproc could go on: it has not ended, and no pipe keeps it from it.
CanGoOn(c) ==
  \/ child[c] = "started"
  \/ child[c] = "printing" /\ (todo[c] = << >> \/ pipe[c][Head(todo[c])] < PipeSize)

\* Every call comes to an end, at the latest with the program, however much its
\* xsltproc prints to either stream and in whatever order, unless that xsltproc
\* stops when it could go on; waitFor has no time limit (MarcUtil.java:711).  The
\* xsltproc of another call does not hold it up, though it may stop for ever.
CallReturns ==
  \A c \in Callers : (pc[c] = "begin" ~> pc[c] \in {"done", "failed", "cut"}) \/ <>[]CanGoOn(c)
==============================================================================
