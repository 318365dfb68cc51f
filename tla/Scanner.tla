------------------------------ MODULE Scanner ------------------------------
(***************************************************************************)
(* scanner_new_exec (scanner.c): the editor's main thread runs a command   *)
(* in a child process, reads its output from a pipe into a slab, and cuts  *)
(* the slab into candidates at the NUL bytes.                              *)
(*                                                                         *)
(* Offsets into the slab count from 0 as in the code.  A candidate is a    *)
(* pointer into the slab and a length, never a copy.  The slab always      *)
(* holds the first `end` bytes of what the child wrote: a pipe neither     *)
(* loses nor reorders, so the slab is that prefix of `output`, and         *)
(* what is in the pipe is output[end + 1 .. written].                      *)
(***************************************************************************)
EXTENDS Integers, Sequences

CONSTANTS Byte,          \* the bytes a command can write
          Nul,           \* the one that ends a record
          Outputs,       \* what commands would write if left alone
          Chunk,         \* most bytes one read() returns, 4096 in the code
          Pipe,          \* capacity of the pipe
          Drop,          \* bytes cut off the front of every record
          MaxFiles,      \* most candidates wanted, 0 for no limit
          Descriptors,   \* file descriptors the editor may open for scans
          Others         \* bound: exited children of the editor not yet reaped

ASSUME BytesAssumption == /\ Nul \in Byte
                          /\ Outputs \subseteq Seq(Byte)
ASSUME SizesAssumption == /\ Chunk \in Nat \ {0}
                          /\ Pipe \in Nat \ {0}
                          /\ Drop \in Nat
                          /\ MaxFiles \in Nat
                          /\ Descriptors \in Nat
                          /\ Others \in Nat

VARIABLES
  output,       \* what the command of this scan would write in all
  written,      \* how many bytes of it the child has written
  child,        \* the child: "none", "running" or "exited" (a zombie)
  exited,       \* zombies of the editor that are not this scan's child
  leaked,       \* descriptors that earlier scans and this one left open
  pc,           \* the parent: "idle", "read", "split" or "wait"
  end, start,   \* the code's pointers into the slab
  candidates,   \* scanner->candidates[0 .. count - 1]
  left          \* how the read loop was left: "not", "eof", "error",
                \* "short" or "full"; "nostart" when there was no child

slab == <<end, start, candidates>>
vars == <<output, written, child, exited, leaked, pc, slab, left>>

At(i) == output[i + 1]

Init ==
  /\ output = << >>
  /\ written = 0
  /\ child = "none"
  /\ exited = 0
  /\ leaked = 0
  /\ pc = "idle"
  /\ end = 0
  /\ start = 0
  /\ candidates = << >>
  /\ left = "nostart"

---------------------------------------------------------------------------
(* The start of a scan.                                                    *)

Fresh ==
  /\ pc = "idle"
  /\ written' = 0
  /\ end' = 0
  /\ start' = 0
  /\ candidates' = << >>

\* pipe() takes two descriptors.  The parent closes the write end and keeps
\* the read end for good: there is no close() of it.
Fork(command) ==
  /\ Fresh
  /\ leaked + 2 <= Descriptors
  /\ output' = command
  /\ leaked' = leaked + 1
  /\ child' = "running"
  /\ pc' = "read"
  /\ left' = "not"
  /\ UNCHANGED exited

\* pipe() fails when the descriptors are used up; when fork() fails both ends
\* of the pipe stay open.  Either way the caller gets an empty scanner.
NoStart ==
  /\ Fresh
  /\ leaked' \in IF leaked + 2 <= Descriptors THEN {leaked + 2} ELSE {leaked}
  /\ output' = << >>
  /\ left' = "nostart"
  /\ UNCHANGED <<child, exited, pc>>

---------------------------------------------------------------------------
(* The child and the editor's other children.                              *)

\* A write blocks while the pipe is full: the parent holds the read end open,
\* so there is no SIGPIPE even when it will never read again.
Write(n) ==
  /\ child = "running"
  /\ written + n <= Len(output)
  /\ written + n - end <= Pipe
  /\ written' = written + n
  /\ UNCHANGED <<output, child, exited, leaked, pc, slab, left>>

\* The command may also fail half way, or never be run at all (_exit(1)).
Exit ==
  /\ child = "running"
  /\ child' = "exited"
  /\ UNCHANGED <<output, written, exited, leaked, pc, slab, left>>

OtherExits ==
  /\ exited < Others
  /\ exited' = exited + 1
  /\ UNCHANGED <<output, written, child, leaked, pc, slab, left>>

\* The editor reaps its jobs from its event loop, which a scan blocks.
EditorReaps ==
  /\ pc = "idle"
  /\ exited > 0
  /\ exited' = exited - 1
  /\ UNCHANGED <<output, written, child, leaked, pc, slab, left>>

---------------------------------------------------------------------------
(* The parent.                                                             *)

LeaveLoop(why) ==
  /\ pc' = "wait"
  /\ left' = why

Read(n) ==
  /\ pc = "read"
  /\ n <= Chunk
  /\ end + n <= written
  /\ end' = end + n
  /\ pc' = "split"
  /\ UNCHANGED <<output, written, child, exited, leaked, start, candidates, left>>

\* Mutant: an empty pipe is taken for the end of the output.
ReadEndWhenEmpty ==
  /\ pc = "read"
  /\ end = written
  /\ LeaveLoop("eof")
  /\ UNCHANGED <<output, written, child, exited, leaked, slab>>

\* read() returns 0 once the pipe is empty and its last writer is gone.
ReadEnd ==
  /\ pc = "read"
  /\ end = written
  /\ child = "exited"
  /\ LeaveLoop("eof")
  /\ UNCHANGED <<output, written, child, exited, leaked, slab>>

ReadError ==
  /\ pc = "read"
  /\ LeaveLoop("error")
  /\ UNCHANGED <<output, written, child, exited, leaked, slab>>

\* start[0] == 0: an empty record.
SkipNul ==
  /\ pc = "split"
  /\ start < end
  /\ At(start) = Nul
  /\ start' = start + 1
  /\ UNCHANGED <<output, written, child, exited, leaked, pc, end, candidates, left>>

\* Mutant: the search for a NUL takes in one byte that was not read.
FirstNulPastEnd(nextEnd) ==
  /\ nextEnd \in start .. end
  /\ nextEnd < Len(output)
  /\ At(nextEnd) = Nul
  /\ \A i \in start .. (nextEnd - 1) : At(i) # Nul

\* memchr(start, 0, end - start) returned nextEnd.
FirstNul(nextEnd) ==
  /\ nextEnd \in start .. (end - 1)
  /\ At(nextEnd) = Nul
  /\ \A i \in start .. (nextEnd - 1) : At(i) # Nul

\* Mutant: every read starts anew, behind what it left over.
NeedMoreDropsTail ==
  /\ pc = "split"
  /\ \A i \in start .. (end - 1) : At(i) # Nul
  /\ pc' = "read"
  /\ start' = end
  /\ UNCHANGED <<output, written, child, exited, leaked, end, candidates, left>>

\* No terminator yet, or nothing left: the rest stays for the next read.
NeedMore ==
  /\ pc = "split"
  /\ \A i \in start .. (end - 1) : At(i) # Nul
  /\ pc' = "read"
  /\ UNCHANGED <<output, written, child, exited, leaked, slab, left>>

TooShort(nextEnd) ==
  /\ pc = "split"
  /\ nextEnd > start
  /\ FirstNul(nextEnd)
  /\ nextEnd - start < Drop
  /\ LeaveLoop("short")
  /\ UNCHANGED <<output, written, child, exited, leaked, slab>>

Candidate(from, nextEnd) == [path |-> from + Drop, length |-> nextEnd - from - Drop]

\* Mutant: the child is not killed.
TakeNoKill(nextEnd) ==
  /\ pc = "split"
  /\ nextEnd > start
  /\ FirstNul(nextEnd)
  /\ nextEnd - start >= Drop
  /\ candidates' = Append(candidates, Candidate(start, nextEnd))
  /\ start' = nextEnd + 1
  /\ IF MaxFiles > 0 /\ Len(candidates') >= MaxFiles
       THEN LeaveLoop("full")
       ELSE UNCHANGED <<pc, left>>
  /\ UNCHANGED <<output, written, child, exited, leaked, end>>

\* The candidate that reaches max_files kills the child and ends the loop.
Take(nextEnd) ==
  /\ pc = "split"
  /\ nextEnd > start
  /\ FirstNul(nextEnd)
  /\ nextEnd - start >= Drop
  /\ candidates' = Append(candidates, Candidate(start, nextEnd))
  /\ start' = nextEnd + 1
  /\ IF MaxFiles > 0 /\ Len(candidates') >= MaxFiles
       THEN child' = "exited" /\ LeaveLoop("full")
       ELSE UNCHANGED <<child, pc, left>>
  /\ UNCHANGED <<output, written, exited, leaked, end>>

\* wait(&child_pid) passes a place for the status where a process would be
\* named: it returns for any child of the editor that has exited.
Wait ==
  /\ pc = "wait"
  /\ \/ child = "exited" /\ UNCHANGED exited
     \/ exited > 0 /\ exited' = IF child = "exited" THEN exited ELSE exited - 1
  /\ child' = "none"
  /\ pc' = "idle"
  /\ UNCHANGED <<output, written, leaked, slab, left>>

---------------------------------------------------------------------------

Child == (\E n \in 1 .. (Len(output) - written) : Write(n)) \/ Exit

Parent ==
  \/ \E n \in 1 .. Chunk : Read(n)
  \/ ReadEnd
  \/ SkipNul
  \/ NeedMore
  \/ \E nextEnd \in 0 .. end : TooShort(nextEnd) \/ Take(nextEnd)
  \/ Wait

Next ==
  \/ \E command \in Outputs : Fork(command)
  \/ NoStart
  \/ Child
  \/ OtherExits
  \/ EditorReaps
  \/ Parent
  \/ ReadError

\* The parent is a running thread, and a command that can write goes on
\* writing and exits when it has written everything.
Fairness ==
  /\ WF_vars(Parent)
  /\ WF_vars(\E n \in 1 .. (Len(output) - written) : Write(n))
  /\ WF_vars(written = Len(output) /\ Exit)

Spec == Init /\ [][Next]_vars /\ Fairness

---------------------------------------------------------------------------
(* Properties.                                                             *)

TypeOK ==
  /\ output \in Seq(Byte)
  /\ written \in 0 .. Len(output)
  /\ child \in {"none", "running", "exited"}
  /\ exited \in Nat
  /\ leaked \in Nat
  /\ pc \in {"idle", "read", "split", "wait"}
  /\ end \in 0 .. written
  /\ start \in 0 .. end
  /\ candidates \in Seq([path : Nat, length : Nat])
  /\ left \in {"not", "eof", "error", "short", "full", "nostart"}

\* The bytes from offset a up to the NUL at offset b are a whole record.
Record(a, b) ==
  /\ a < b
  /\ At(b) = Nul
  /\ \A i \in a .. (b - 1) : At(i) # Nul
  /\ a > 0 => At(a - 1) = Nul

OnlyRecords ==
  \A i \in 1 .. Len(candidates) :
    \E a, b \in 0 .. (start - 1) : Record(a, b) /\ candidates[i] = Candidate(a, b)

InOrder ==
  \A i, j \in 1 .. Len(candidates) :
    i < j => candidates[i].path + candidates[i].length < candidates[j].path - Drop

EveryRecord ==
  \A a, b \in 0 .. (start - 1) :
    Record(a, b) => \E i \in 1 .. Len(candidates) : candidates[i] = Candidate(a, b)

\* The candidates are the records of the output, from the first on, each
\* once, in order and whatever the sizes of the reads: no record is cut in two
\* by the end of a read, joined to its neighbour, skipped or repeated.
Faithful == OnlyRecords /\ InOrder /\ EveryRecord

\* A scan that leaves out a record the command wrote did so for a reason
\* the code gives: it reached max_files exactly, it met a record shorter than
\* `drop`, or reading failed.  At the end of the output nothing is left out.
Accounted ==
  /\ MaxFiles > 0 => Len(candidates) <= MaxFiles
  /\ left = "eof" => \A b \in start .. (written - 1) : At(b) # Nul
  /\ left = "full" => MaxFiles > 0 /\ Len(candidates) = MaxFiles
  /\ left = "short" => \E b \in start .. (written - 1) : Record(start, b) /\ b - start < Drop
  /\ left = "nostart" => candidates = << >>

\* The child is blocked on a pipe that the parent has stopped reading.
Stuck ==
  /\ pc = "wait"
  /\ left \in {"error", "short"}
  /\ child = "running"
  /\ Len(output) - end > Pipe

\* Every scan comes back to the editor, also one that stops a command early
\* that has more to write, but for the one case above.
ScanEnds == pc # "idle" ~> (pc = "idle" \/ Stuck)

=============================================================================
