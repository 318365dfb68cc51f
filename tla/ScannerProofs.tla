--------------------------- MODULE ScannerProofs ---------------------------
(***************************************************************************)
(* Proofs about Scanner, for every output, pipe and chunk size, `drop` and *)
(* max_files: the candidates are the records of the output, and a record   *)
(* is left out only for a reason the code gives.                           *)
(***************************************************************************)
EXTENDS Scanner, TLAPS

USE BytesAssumption, SizesAssumption DEF BytesAssumption, SizesAssumption

\* What the read loop keeps true between its steps: it stands just behind a
\* NUL or at the front of the slab, it asks for more only when no record is
\* complete, and it goes on only below max_files.
Loop ==
  /\ start > 0 => At(start - 1) = Nul
  /\ pc = "read" => \A i \in start .. (end - 1) : At(i) # Nul
  /\ pc \in {"read", "split"} <=> left = "not"
  /\ left = "not" => (MaxFiles > 0 => Len(candidates) < MaxFiles)
  /\ left = "eof" => child # "running"

Inv == TypeOK /\ Loop /\ Faithful /\ Accounted

---------------------------------------------------------------------------

LEMMA CandidateType ==
  ASSUME NEW a \in Nat, NEW b \in Nat, b - a >= Drop
  PROVE  Candidate(a, b) \in [path : Nat, length : Nat]
BY DEF Candidate

LEMMA InitInv == Init => Inv
<1> SUFFICES ASSUME Init PROVE Inv
  OBVIOUS
<1>1. TypeOK
  BY DEF Init, TypeOK
<1>2. Loop
  BY DEF Init, Loop
<1>3. Faithful
  BY DEF Init, Faithful, OnlyRecords, InOrder, EveryRecord
<1>4. Accounted
  BY DEF Init, Accounted
<1> QED BY <1>1, <1>2, <1>3, <1>4 DEF Inv

\* The output is only ever read at offsets below `end`, and the part of it
\* that a record lies in never changes while a scan lasts.
LEMMA FreshInv ==
  ASSUME Inv, Fresh, output' \in Seq(Byte), exited' = exited, leaked' \in Nat,
         \/ child' = "running" /\ pc' = "read" /\ left' = "not"
         \/ child' = child /\ pc' = pc /\ left' = "nostart"
  PROVE  Inv'
<1>1. TypeOK'
  BY DEF Inv, TypeOK, Fresh
<1>2. Loop'
  BY DEF Inv, Loop, TypeOK, Fresh
<1>3. Faithful'
  BY DEF Inv, Faithful, OnlyRecords, InOrder, EveryRecord, TypeOK, Fresh
<1>4. Accounted'
  BY DEF Inv, Accounted, TypeOK, Fresh
<1> QED BY <1>1, <1>2, <1>3, <1>4 DEF Inv

\* A step that leaves the slab, the candidates and the output as they are
\* disturbs none of what is said about the candidates.
LEMMA FaithfulKept ==
  ASSUME Faithful, UNCHANGED <<output, start, candidates>>
  PROVE  Faithful'
<1>1. \A a, b : Record(a, b)' <=> Record(a, b)
  BY DEF Record, At
<1>2. OnlyRecords'
  BY <1>1 DEF Faithful, OnlyRecords
<1>3. InOrder'
  BY DEF Faithful, InOrder
<1>4. EveryRecord'
  BY <1>1 DEF Faithful, EveryRecord
<1> QED BY <1>2, <1>3, <1>4 DEF Faithful

LEMMA ForkInv == ASSUME NEW command \in Outputs, Inv, Fork(command) PROVE Inv'
<1>1. leaked' \in Nat
  BY DEF Fork, Inv, TypeOK
<1> QED BY <1>1, FreshInv DEF Fork

LEMMA NoStartInv == ASSUME Inv, NoStart PROVE Inv'
<1>1. leaked' \in Nat
  BY DEF NoStart, Inv, TypeOK
<1>2. output' \in Seq(Byte)
  BY DEF NoStart
<1> QED BY <1>1, <1>2, FreshInv DEF NoStart, Inv, TypeOK

LEMMA WriteInv == ASSUME NEW n \in Nat \ {0}, Inv, Write(n) PROVE Inv'
<1>1. TypeOK'
  BY DEF Inv, TypeOK, Write, slab
<1>2. Loop'
  BY DEF Inv, TypeOK, Loop, Write, slab, At
<1>3. Faithful'
  BY FaithfulKept DEF Inv, Write, slab
<1>4. Accounted'
  BY DEF Inv, TypeOK, Loop, Accounted, Write, slab, At, Record
<1> QED BY <1>1, <1>2, <1>3, <1>4 DEF Inv

\* The steps of the child and of the editor that only move processes along.
LEMMA ProcessInv ==
  ASSUME Inv, Exit \/ OtherExits \/ EditorReaps
  PROVE  Inv'
<1> USE DEF Exit, OtherExits, EditorReaps, slab
<1>1. TypeOK'
  BY DEF Inv, TypeOK
<1>2. Loop'
  BY DEF Inv, TypeOK, Loop, At
<1>3. Faithful'
  BY FaithfulKept DEF Inv
<1>4. Accounted'
  BY DEF Inv, TypeOK, Accounted, At, Record
<1> QED BY <1>1, <1>2, <1>3, <1>4 DEF Inv

LEMMA ReadInv == ASSUME NEW n \in 1 .. Chunk, Inv, Read(n) PROVE Inv'
<1>1. TypeOK'
  BY DEF Inv, TypeOK, Read
<1>2. Loop'
  BY DEF Inv, TypeOK, Loop, Read, At
<1>3. Faithful'
  BY FaithfulKept DEF Inv, Read
<1>4. Accounted'
  BY DEF Inv, TypeOK, Accounted, Read, At, Record
<1> QED BY <1>1, <1>2, <1>3, <1>4 DEF Inv

\* The ends of the loop that take nothing more.
LEMMA LeaveInv ==
  ASSUME Inv, ReadEnd \/ ReadError \/ NeedMore \/ (\E b \in 0 .. end : TooShort(b))
  PROVE  Inv'
<1> USE DEF ReadEnd, ReadError, NeedMore, TooShort, LeaveLoop, slab
<1>1. TypeOK'
  BY DEF Inv, TypeOK
<1>2. Loop'
  BY DEF Inv, TypeOK, Loop, At
<1>3. Faithful'
  BY FaithfulKept DEF Inv
<1>4. Accounted'
  <2>1. \A a, b : Record(a, b)' <=> Record(a, b)
    BY DEF Record, At
  <2>2. CASE ReadEnd
    BY <2>2 DEF Inv, TypeOK, Loop, Accounted, At
  <2>3. CASE ReadError \/ NeedMore
    BY <2>1, <2>3 DEF Inv, TypeOK, Loop, Accounted
  <2>4. ASSUME NEW b \in 0 .. end, TooShort(b) PROVE Accounted'
    <3>1. b \in start .. (written - 1) /\ b \in Nat /\ start \in Nat
      BY <2>4 DEF Inv, TypeOK, FirstNul
    <3>2. Record(start, b) /\ b - start < Drop
      BY <2>4, <3>1 DEF Inv, TypeOK, Loop, Record, FirstNul
    <3> QED BY <2>1, <2>4, <3>1, <3>2 DEF Inv, TypeOK, Loop, Accounted
  <2> QED BY <2>2, <2>3, <2>4
<1> QED BY <1>1, <1>2, <1>3, <1>4 DEF Inv

LEMMA WaitInv == ASSUME Inv, Wait PROVE Inv'
<1> USE DEF Wait, slab
<1>1. TypeOK'
  BY DEF Inv, TypeOK
<1>2. Loop'
  BY DEF Inv, TypeOK, Loop, At
<1>3. Faithful'
  BY FaithfulKept DEF Inv
<1>4. Accounted'
  BY DEF Inv, TypeOK, Accounted, At, Record
<1> QED BY <1>1, <1>2, <1>3, <1>4 DEF Inv

---------------------------------------------------------------------------
(* The two steps that move `start`.                                        *)

\* No record ends at a NUL that follows a NUL, so skipping one loses none.
LEMMA SkipNulInv == ASSUME Inv, SkipNul PROVE Inv'
<1>1. TypeOK'
  BY DEF Inv, TypeOK, SkipNul
<1>2. Loop'
  BY DEF Inv, TypeOK, Loop, SkipNul, At
<1>3. Faithful'
  <2>1. \A a, b : Record(a, b)' <=> Record(a, b)
    BY DEF SkipNul, Record, At
  <2>2. \A a \in 0 .. start : ~ Record(a, start)
    BY DEF Inv, TypeOK, Loop, SkipNul, Record
  <2>3. /\ start \in Nat
        /\ start' - 1 = start
        /\ candidates' = candidates
        /\ \A a, b \in 0 .. start : Record(a, b) => b # start /\ a < b
    BY <2>2 DEF Inv, TypeOK, SkipNul, Record
  <2>4. OnlyRecords'
    BY <2>1, <2>3 DEF Inv, Faithful, OnlyRecords
  <2>5. InOrder'
    BY <2>3 DEF Inv, Faithful, InOrder
  <2>6. EveryRecord'
    BY <2>1, <2>3 DEF Inv, Faithful, EveryRecord
  <2> QED BY <2>4, <2>5, <2>6 DEF Faithful
<1>4. Accounted'
  BY DEF Inv, TypeOK, Loop, Accounted, SkipNul
<1> QED BY <1>1, <1>2, <1>3, <1>4 DEF Inv

\* The only record between `start` and the NUL found is the one taken.
LEMMA OneRecord ==
  ASSUME TypeOK, Loop, NEW c \in Nat, c > start, FirstNul(c)
  PROVE  /\ Record(start, c)
         /\ \A a, b \in 0 .. c : Record(a, b) /\ b >= start => a = start /\ b = c
<1>1. Record(start, c)
  BY DEF TypeOK, Loop, FirstNul, Record
<1>2. ASSUME NEW a \in 0 .. c, NEW b \in 0 .. c, Record(a, b), b >= start
      PROVE  a = start /\ b = c
  <2>1. b = c
    BY <1>2 DEF TypeOK, FirstNul, Record
  <2>2. ~ a < start
    <3>1. a < start => start - 1 \in a .. (b - 1)
      BY <1>2, <2>1 DEF TypeOK
    <3> QED BY <3>1, <1>2 DEF TypeOK, Loop, Record
  <2>3. ~ a > start
    <3>1. a > start => a - 1 \in start .. (c - 1)
      BY <1>2 DEF TypeOK
    <3> QED BY <3>1, <1>2 DEF TypeOK, FirstNul, Record
  <2> QED BY <2>1, <2>2, <2>3 DEF TypeOK
<1> QED BY <1>1, <1>2

LEMMA TakeInv == ASSUME NEW c \in 0 .. end, Inv, Take(c) PROVE Inv'
<1> DEFINE n == Len(candidates)
<1>1. /\ c \in Nat /\ start \in Nat /\ c > start /\ c - start >= Drop
      /\ start' = c + 1
  BY DEF Inv, TypeOK, Take
<1>2. Candidate(start, c) \in [path : Nat, length : Nat]
  BY <1>1, CandidateType
<1>3. candidates' \in Seq([path : Nat, length : Nat])
  BY <1>2 DEF Inv, TypeOK, Take
<1>4. n \in Nat /\ Len(candidates') = n + 1
  BY <1>2 DEF Inv, TypeOK, Take
<1>5. candidates'[n + 1] = Candidate(start, c)
  BY <1>2 DEF Inv, TypeOK, Take
<1>6. \A i \in 1 .. n : candidates'[i] = candidates[i]
  BY <1>2 DEF Inv, TypeOK, Take
<1> HIDE DEF n
<1>7. \A i : i \in 1 .. Len(candidates') <=> i \in 1 .. n \/ i = n + 1
  BY <1>4
<1>8. TypeOK'
  BY <1>3 DEF Inv, TypeOK, Take, FirstNul, LeaveLoop
<1>9. Loop'
  <2>1. (start > 0 => At(start - 1) = Nul)'
    BY <1>1 DEF Take, FirstNul, At
  <2>2. pc' # "read"
    BY DEF Take, LeaveLoop
  <2>3. CASE MaxFiles > 0 /\ Len(candidates') >= MaxFiles
    BY <1>1, <2>3 DEF Inv, TypeOK, Loop, Take, FirstNul, LeaveLoop, At
  <2>4. CASE ~ (MaxFiles > 0 /\ Len(candidates') >= MaxFiles)
    BY <1>1, <1>4, <2>4 DEF Inv, TypeOK, Loop, Take, FirstNul, At
  <2> QED BY <2>3, <2>4
<1>10. \A a, b : Record(a, b)' <=> Record(a, b)
  BY DEF Take, Record, At
<1>11. Record(start, c)
  BY <1>1, OneRecord DEF Inv, Take
<1>12. \A a, b \in 0 .. c : Record(a, b) /\ b >= start => a = start /\ b = c
  BY <1>1, OneRecord DEF Inv, Take
<1>13. start' - 1 = c
  BY <1>1
<1>14. OnlyRecords'
  <2>1. ASSUME NEW i \in 1 .. n
        PROVE  \E a, b \in 0 .. c : Record(a, b) /\ candidates'[i] = Candidate(a, b)
    <3>1. PICK a \in 0 .. (start - 1), b \in 0 .. (start - 1) :
            Record(a, b) /\ candidates[i] = Candidate(a, b)
      BY DEF Inv, Faithful, OnlyRecords, n
    <3>2. a \in 0 .. c /\ b \in 0 .. c
      BY <3>1, <1>1
    <3> QED BY <3>1, <3>2, <1>6
  <2>2. \E a, b \in 0 .. c : Record(a, b) /\ candidates'[n + 1] = Candidate(a, b)
    <3>1. start \in 0 .. c /\ c \in 0 .. c
      BY <1>1
    <3> QED BY <3>1, <1>5, <1>11
  <2>3. \A i \in 1 .. Len(candidates') :
          \E a, b \in 0 .. c : Record(a, b) /\ candidates'[i] = Candidate(a, b)
    BY <2>1, <2>2, <1>7
  <2> QED BY <2>3, <1>10, <1>13 DEF OnlyRecords
<1>15. InOrder'
  <2>1. ASSUME NEW i \in 1 .. n
        PROVE  candidates[i].path + candidates[i].length < candidates'[n + 1].path - Drop
    <3>1. PICK a \in 0 .. (start - 1), b \in 0 .. (start - 1) :
            candidates[i] = Candidate(a, b)
      BY DEF Inv, Faithful, OnlyRecords, n
    <3>2. candidates[i].path + candidates[i].length = b
      BY <3>1, <1>1 DEF Candidate
    <3>3. candidates'[n + 1].path - Drop = start
      BY <1>1, <1>5 DEF Candidate
    <3> QED BY <3>1, <3>2, <3>3, <1>1
  <2>2. ASSUME NEW i \in 1 .. Len(candidates'), NEW j \in 1 .. Len(candidates'), i < j
        PROVE  candidates'[i].path + candidates'[i].length < candidates'[j].path - Drop
    <3>1. i \in 1 .. n
      BY <2>2, <1>4
    <3>2. CASE j = n + 1
      BY <3>1, <3>2, <2>1, <1>6
    <3>3. CASE j \in 1 .. n
      BY <3>1, <3>3, <2>2, <1>6 DEF Inv, Faithful, InOrder, n
    <3> QED BY <3>2, <3>3, <1>7
  <2> QED BY <2>2 DEF InOrder
<1>16. EveryRecord'
  <2>1. ASSUME NEW a \in 0 .. c, NEW b \in 0 .. c, Record(a, b)
        PROVE  \E i \in 1 .. Len(candidates') : candidates'[i] = Candidate(a, b)
    <3>1. CASE b >= start
      <4>1. Candidate(a, b) = Candidate(start, c)
        BY <3>1, <2>1, <1>12
      <4> QED BY <4>1, <1>5, <1>7
    <3>2. CASE b < start
      <4>1. a \in 0 .. (start - 1) /\ b \in 0 .. (start - 1)
        BY <3>2, <2>1, <1>1 DEF Record
      <4>2. PICK i \in 1 .. n : candidates[i] = Candidate(a, b)
        BY <4>1, <2>1 DEF Inv, Faithful, EveryRecord, n
      <4> QED BY <4>2, <1>6, <1>7
    <3> QED BY <3>1, <3>2, <1>1
  <2> QED BY <2>1, <1>10, <1>13 DEF EveryRecord
<1>17. Accounted'
  BY <1>1, <1>4 DEF Inv, TypeOK, Loop, Accounted, Take, LeaveLoop, n
<1> QED BY <1>8, <1>9, <1>14, <1>15, <1>16, <1>17 DEF Inv, Faithful

---------------------------------------------------------------------------

LEMMA NextInv == Inv /\ [Next]_vars => Inv'
<1> SUFFICES ASSUME Inv, [Next]_vars PROVE Inv'
  OBVIOUS
<1>1. ASSUME NEW command \in Outputs, Fork(command) PROVE Inv'
  BY <1>1, ForkInv
<1>2. CASE NoStart
  BY <1>2, NoStartInv
<1>3. CASE Child
  <2>1. ASSUME NEW n \in 1 .. (Len(output) - written), Write(n) PROVE Inv'
    BY <2>1, WriteInv
  <2> QED BY <1>3, <2>1, ProcessInv DEF Child
<1>4. CASE OtherExits \/ EditorReaps
  BY <1>4, ProcessInv
<1>5. CASE Parent
  <2>1. ASSUME NEW n \in 1 .. Chunk, Read(n) PROVE Inv'
    BY <2>1, ReadInv
  <2>2. ASSUME NEW c \in 0 .. end, Take(c) PROVE Inv'
    BY <2>2, TakeInv
  <2> QED BY <1>5, <2>1, <2>2, SkipNulInv, LeaveInv, WaitInv DEF Parent
<1>6. CASE ReadError
  BY <1>6, LeaveInv
<1>7. CASE UNCHANGED vars
  <2> USE <1>7 DEF vars, slab
  <2>1. TypeOK'
    BY DEF Inv, TypeOK
  <2>2. Loop'
    BY DEF Inv, Loop, At
  <2>3. Faithful'
    BY FaithfulKept DEF Inv
  <2>4. Accounted'
    BY DEF Inv, Accounted, Record, At
  <2> QED BY <2>1, <2>2, <2>3, <2>4 DEF Inv
<1> QED BY <1>1, <1>2, <1>3, <1>4, <1>5, <1>6, <1>7 DEF Next

LEMMA SpecInv == Spec => []Inv
BY InitInv, NextInv, PTL DEF Spec

\* Every value keeps its type; in particular `start` never passes `end`, and
\* `end` never passes what the child has written.
THEOREM TypeCorrect == Spec => []TypeOK
BY SpecInv, PTL DEF Inv

\* Whatever the reads return, the candidates are exactly the records up to
\* `start`, in the order the command wrote them.
THEOREM CandidatesFaithful == Spec => []Faithful
BY SpecInv, PTL DEF Inv

\* A record of the output is left out only at max_files, behind a record too
\* short for `drop`, or after a read error.
THEOREM NothingLeftOut == Spec => []Accounted
BY SpecInv, PTL DEF Inv

=============================================================================
