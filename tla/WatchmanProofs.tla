--------------------------- MODULE WatchmanProofs ---------------------------
(***************************************************************************)
(* Proofs about Watchman, for all directories, words, responses, widths of *)
(* integers and ways for a response to arrive: the requests and responses  *)
(* on the one socket stay in step until a request fails on it.  And about  *)
(* Bser, for all data: appending keeps a request within its room.          *)
(***************************************************************************)
EXTENDS Watchman, Induction

USE BserAssumption, WatchmanAssumption DEF BserAssumption, WatchmanAssumption

\* Appending any data to a request that lies in its room leaves it in its room
\* and writes nothing past it, however much is appended (watchman_append()).
THEOREM AppendFits ==
  ASSUME NEW w \in Writer, NEW data \in Seq(Byte),
         ~ w.past, Len(w.payload) <= w.capacity
  PROVE  LET v == watchman_append(w, data)
         IN  v \in Writer /\ ~ v.past /\ Len(v.payload) <= v.capacity
<1> DEFINE v == watchman_append(w, data)
           need == Len(w.payload) + Len(data)
<1>1. v.payload = w.payload \o data /\ v.payload \in Seq(Byte) /\ Len(v.payload) = need
  BY DEF watchman_append, Filled, Writer
<1>2. Len(w.payload) \in Nat /\ Len(data) \in Nat /\ w.capacity \in Nat
  BY DEF Writer
<1>3. v.capacity \in Nat /\ need <= v.capacity
  BY <1>2 DEF watchman_append, Filled
<1>4. v.past = (w.past \/ need > v.capacity)
  BY DEF watchman_append, Filled
<1>5. ~ v.past
  <2>1. ~ need > v.capacity
    BY <1>2, <1>3
  <2> QED BY <2>1, <1>4, Zenon
<1>6. v \in Writer
  BY <1>1, <1>3, <1>5 DEF watchman_append, Filled, Writer
<1> QED BY <1>1, <1>3, <1>5, <1>6

---------------------------------------------------------------------------
(* What is written are bytes.                                              *)

LEMMA Markers ==
  /\ ARRAY \in Byte /\ OBJECT \in Byte /\ BYTES \in Byte
  /\ INT8 .. INT64 = 3 .. 6 /\ 3 .. 6 \subseteq Byte /\ DOMAIN Width = 3 .. 6
  /\ \A m \in 3 .. 6 : Width[m] \in Nat \ {0}
BY DEF ARRAY, OBJECT, BYTES, INT8, INT64, Byte

LEMMA DigitsAre ==
  ASSUME NEW num \in Int, NEW n \in Nat
  PROVE  Digits(num, n) \in Seq(Byte)
<1>1. ASSUME NEW i \in 1 .. n PROVE (num \div (Base ^ (i - 1))) % Base \in Byte
  <2>1. PICK b \in Int : b = Base ^ (i - 1)
    OBVIOUS
  <2> QED
    BY <2>1 DEF Byte
<1>2. Digits(num, n) \in [1 .. n -> Byte]
  BY <1>1 DEF Digits
<1> QED
  BY <1>2

LEMMA NarrowestIs ==
  ASSUME NEW num \in Int
  PROVE  Narrowest(num) \in 3 .. 6
<1> DEFINE Good(m) == /\ FitsIn(num, Width[m]) \/ m = 6
                      /\ \A k \in 3 .. (m - 1) : ~ FitsIn(num, Width[k])
           T == { m \in Nat : m \in 3 .. 6 /\ (FitsIn(num, Width[m]) \/ m = 6) }
<1>1. T \in SUBSET Nat /\ 6 \in T
  OBVIOUS
<1>2. \A m \in T : m \in 3 .. 6 /\ (FitsIn(num, Width[m]) \/ m = 6)
  OBVIOUS
<1>3. \A m \in 3 .. 6 : FitsIn(num, Width[m]) => m \in T
  OBVIOUS
<1> HIDE DEF T
<1>4. PICK m \in T : \A k \in T : m <= k
  BY <1>1, Least
<1>5. m \in 3 .. 6 /\ Good(m)
  <2>1. ASSUME NEW k \in 3 .. (m - 1) PROVE ~ FitsIn(num, Width[k])
    <3>1. k \in 3 .. 6 /\ ~ m <= k
      BY <1>2
    <3> QED
      BY <1>3, <1>4, <3>1
  <2> QED
    BY <1>2, <2>1
<1>6. Narrowest(num) = CHOOSE o \in 3 .. 6 : Good(o)
  BY Markers DEF Narrowest, INT8, INT64
<1> HIDE DEF Good
<1> QED
  BY <1>5, <1>6

LEMMA IntWritten ==
  ASSUME NEW num \in Int
  PROVE  watchman_write_int(num) \in Seq(Seq(Byte))
<1>1. PICK m \in 3 .. 6 : m = Narrowest(num)
  BY NarrowestIs
<1>2. <<m>> \in Seq(Byte)
  BY Markers
<1>3. PICK d \in Seq(Byte) : d = Digits(num, Width[m])
  BY DigitsAre, Markers
<1>4. <<m>> \o d \in Seq(Byte)
  BY <1>2
<1> QED
  BY <1>1, <1>3, <1>4 DEF watchman_write_int

LEMMA HeaderBytes == Header \in Seq(Byte)
<1>1. <<0, 1, INT64>> \in Seq(Byte)
  BY DEF INT64, Byte
<1>2. Digits(0, Width[INT64]) \in Seq(Byte)
  <2>1. PICK n \in Nat, num \in Int : n = Width[INT64] /\ num = 0
    BY Markers DEF INT64
  <2> QED
    BY <2>1, DigitsAre
<1> QED
  BY <1>1, <1>2 DEF Header

LEMMA CountsWritten ==
  ASSUME NEW num \in Int
  PROVE  watchman_write_array(num) \in Seq(Seq(Byte)) /\ watchman_write_object(num) \in Seq(Seq(Byte))
<1>1. << <<ARRAY>> >> \in Seq(Seq(Byte)) /\ << <<OBJECT>> >> \in Seq(Seq(Byte))
  BY Markers
<1>2. PICK w \in Seq(Seq(Byte)) : w = watchman_write_int(num)
  BY IntWritten
<1> QED
  BY <1>1, <1>2 DEF watchman_write_array, watchman_write_object

LEMMA StringWritten ==
  ASSUME NEW string \in Seq(Byte)
  PROVE  watchman_write_string(string) \in Seq(Seq(Byte))
<1>1. << <<BYTES>> >> \in Seq(Seq(Byte)) /\ << string >> \in Seq(Seq(Byte))
  BY Markers
<1>2. PICK w \in Seq(Seq(Byte)) : w = watchman_write_int(Len(string))
  BY IntWritten
<1> QED
  BY <1>1, <1>2 DEF watchman_write_string

---------------------------------------------------------------------------
(* Requests.                                                               *)

Pieces == Seq(Seq(Byte))

LEMMA PiecesAre ==
  /\ << >> \in Pieces
  /\ \A some \in Pieces, more \in Pieces : some \o more \in Pieces
<1>1. PICK S : S = Seq(Byte)
  OBVIOUS
<1>2. << >> \in Seq(S) /\ \A some \in Seq(S), more \in Seq(S) : some \o more \in Seq(S)
  OBVIOUS
<1> QED
  BY <1>1, <1>2 DEF Pieces

\* A request that lies within its room and was never written past it.
Roomy == { w \in Writer : ~ w.past /\ Len(w.payload) <= w.capacity }

LEMMA AppendRoomy ==
  ASSUME NEW w \in Roomy, NEW data \in Seq(Byte)
  PROVE  watchman_append(w, data) \in Roomy
<1>1. PICK v : v = watchman_append(w, data)
  OBVIOUS
<1>2. w \in Writer /\ ~ w.past /\ Len(w.payload) <= w.capacity
  BY DEF Roomy
<1>3. v \in Writer /\ ~ v.past /\ Len(v.payload) <= v.capacity
  BY <1>1, <1>2, AppendFits
<1> QED
  BY <1>1, <1>3 DEF Roomy

LEMMA AppendWriter ==
  ASSUME NEW w \in Writer, NEW data \in Seq(Byte)
  PROVE  watchman_append(w, data) \in Writer
<1>1. w.payload \o data \in Seq(Byte)
  BY DEF Writer
<1>2. /\ Len(w.payload) \in Nat /\ Len(data) \in Nat /\ w.capacity \in Nat
      /\ w.past \in BOOLEAN
  BY DEF Writer
<1>3. \A c \in Nat : Filled(w, data, c) \in Writer
  <2> SUFFICES ASSUME NEW c \in Nat PROVE Filled(w, data, c) \in Writer
    OBVIOUS
  <2>1. (w.past \/ Len(w.payload) + Len(data) > c) \in BOOLEAN
    BY <1>2
  <2> QED
    BY <1>1, <2>1 DEF Filled, Writer
<1> QED
  BY <1>2, <1>3 DEF watchman_append

\* The pieces are appended one by one, to the last: the function Request defines obeys
\* its definition.
LEMMA AppendedIs ==
  ASSUME NEW pieces \in Pieces
  PROVE  \E f : f = [i \in 1 .. Len(pieces) + 1 |->
               [w \in Writer |-> IF i > Len(pieces) THEN w
                                 ELSE f[i + 1][watchman_append(w, pieces[i])]]]
<1>1. PICK n \in Nat : n = Len(pieces)
  BY DEF Pieces
<1>2. \A i \in 1 .. n : pieces[i] \in Seq(Byte)
  BY <1>1 DEF Pieces
<1>3. PICK S : S = [Writer -> Writer]
  OBVIOUS
<1>4. PICK same : same = [w \in Writer |-> w]
  OBVIOUS
<1>5. PICK step : step = [i \in 1 .. n |-> [f \in S |->
                           [w \in Writer |-> f[watchman_append(w, pieces[i])]]]]
  OBVIOUS
<1>6. ASSUME NEW i \in 1 .. n, NEW f \in S
      PROVE  /\ step[i][f] = [w \in Writer |-> f[watchman_append(w, pieces[i])]]
             /\ step[i][f] \in S
  <2>1. \A w \in Writer : watchman_append(w, pieces[i]) \in Writer
    BY <1>2, AppendWriter
  <2> QED
    BY <1>3, <1>5, <2>1
<1>7. same \in S
  BY <1>3, <1>4
<1>8. PICK d : d = Down(n, same, step)
  OBVIOUS
<1>9. /\ d = [i \in 1 .. n + 1 |-> IF i > n THEN same ELSE step[i][d[i + 1]]]
      /\ \A i \in 1 .. n + 1 : d[i] \in S
  <2>1. \A i \in 1 .. n : \A f \in S : step[i][f] \in S
    BY <1>6
  <2> QED
    BY <1>7, <1>8, <2>1, DownIs
<1>10. ASSUME NEW i \in 1 .. n + 1
       PROVE  d[i] = [w \in Writer |-> IF i > n THEN w
                                       ELSE d[i + 1][watchman_append(w, pieces[i])]]
  <2>1. CASE i > n
    BY <1>4, <1>9, <2>1
  <2>2. CASE ~ i > n
    <3>1. i \in 1 .. n /\ i + 1 \in 1 .. n + 1
      BY <2>2
    <3> QED
      BY <1>6, <1>9, <2>2, <3>1
  <2> QED
    BY <2>1, <2>2
<1>11. d = [i \in 1 .. n + 1 |->
              [w \in Writer |-> IF i > n THEN w
                                ELSE d[i + 1][watchman_append(w, pieces[i])]]]
  <2>1. d = [i \in 1 .. n + 1 |-> d[i]]
    BY <1>9
  <2> QED
    BY <1>10, <2>1
<1> QED
  BY <1>1, <1>11

LEMMA RequestRoomy ==
  ASSUME NEW pieces \in Pieces
  PROVE  Request(pieces) \in Roomy
<1> DEFINE append == CHOOSE f : f = [i \in 1 .. Len(pieces) + 1 |->
             [w \in Writer |-> IF i > Len(pieces) THEN w
                               ELSE f[i + 1][watchman_append(w, pieces[i])]]]
<1>1. Request(pieces) = append[1][watchman_request_init]
  BY DEF Request
<1>2. append = [i \in 1 .. Len(pieces) + 1 |->
             [w \in Writer |-> IF i > Len(pieces) THEN w
                               ELSE append[i + 1][watchman_append(w, pieces[i])]]]
  BY AppendedIs
<1> HIDE DEF append
<1>3. PICK n \in Nat : n = Len(pieces) /\ \A i \in 1 .. n : pieces[i] \in Seq(Byte)
  BY DEF Pieces
<1>4. ASSUME NEW i \in 1 .. n + 1, NEW w \in Writer
      PROVE  append[i][w] = IF i > n THEN w ELSE append[i + 1][watchman_append(w, pieces[i])]
  <2>1. append[i] = [v \in Writer |-> IF i > n THEN v
                                      ELSE append[i + 1][watchman_append(v, pieces[i])]]
    BY <1>2, <1>3
  <2> HIDE <1>2
  <2> QED
    BY <2>1
<1>5. Roomy \subseteq Writer
  BY DEF Roomy
<1> DEFINE T == { k \in Nat : k <= n => \A w \in Roomy : append[n + 1 - k][w] \in Roomy }
<1>6. 0 \in T
  <2>1. n + 1 - 0 = n + 1 /\ n + 1 > n /\ n + 1 \in 1 .. n + 1
    OBVIOUS
  <2>2. \A w \in Roomy : append[n + 1][w] = w
    BY <1>4, <1>5, <2>1
  <2> QED
    BY <2>1, <2>2
<1>7. ASSUME NEW k \in T PROVE k + 1 \in T
  <2> SUFFICES ASSUME k + 1 <= n, NEW w \in Roomy
               PROVE  append[n + 1 - (k + 1)][w] \in Roomy
    OBVIOUS
  <2>1. PICK i \in 1 .. n : i = n + 1 - (k + 1)
    OBVIOUS
  <2>2. n + 1 - k = i + 1 /\ i \in 1 .. n + 1 /\ ~ i > n
    BY <2>1
  <2>3. PICK v : v = watchman_append(w, pieces[i])
    OBVIOUS
  <2>4. v \in Roomy
    BY <1>3, <2>1, <2>3, AppendRoomy
  <2>5. append[i][w] = append[i + 1][v]
    BY <1>4, <1>5, <2>2, <2>3
  <2> QED
    BY <2>1, <2>2, <2>4, <2>5
<1>8. /\ T \in SUBSET Nat
      /\ \A k \in T : k <= n => \A w \in Roomy : append[n + 1 - k][w] \in Roomy
  OBVIOUS
<1> HIDE DEF T
<1>9. T = Nat
  BY <1>6, <1>7, <1>8, Induct
<1>10. \A w \in Roomy : append[1][w] \in Roomy
  <2>1. n + 1 - n = 1
    OBVIOUS
  <2> QED
    BY <1>8, <1>9, <2>1
<1>11. watchman_request_init \in Roomy
  <2>1. PICK w : w = [payload |-> << >>, capacity |-> Storage, past |-> FALSE]
    OBVIOUS
  <2>2. w \in Roomy
    BY <2>1 DEF Roomy, Writer
  <2>3. Header \in Seq(Byte)
    BY HeaderBytes
  <2> QED
    BY <2>1, <2>2, <2>3, AppendRoomy DEF watchman_request_init
<1> QED
  BY <1>1, <1>10, <1>11

---------------------------------------------------------------------------
(* Reading.                                                                *)

\* What may come of reading a value of V from offset p on: it lies between p and the
\* end of the bytes.
Reading(b, p, V) == {Error, Died} \cup { Ok(e, v) : e \in (p + 1) .. Len(b), v \in V }

LEMMA OutcomesDiffer ==
  /\ Error.how = "error" /\ Died.how = "died" /\ Wild.how = "wild"
  /\ \A e, v : Ok(e, v).how = "ok" /\ Ok(e, v).ptr = e /\ Ok(e, v).val = v
BY DEF Error, Died, Wild, Ok

LEMMA ReadingIs ==
  ASSUME NEW b, NEW p, NEW V
  PROVE  /\ Error \in Reading(b, p, V) /\ Died \in Reading(b, p, V)
         /\ \A e \in (p + 1) .. Len(b), v \in V : Ok(e, v) \in Reading(b, p, V)
BY DEF Reading

LEMMA SignedValueIs ==
  ASSUME NEW digits \in Seq(Byte), digits # << >>
  PROVE  SignedValue(digits) \in Int
<1>1. PICK n \in Nat : n = Len(digits)
  OBVIOUS
<1>2. \A i \in 1 .. n : digits[i] \in Int
  BY <1>1 DEF Byte
<1> DEFINE Value(f) == f = [i \in 1 .. (n + 1) |->
                       IF i <= n THEN digits[i] + Base * f[i + 1]
                       ELSE IF 2 * digits[n] >= Base THEN -1 ELSE 0]
           v == CHOOSE f : Value(f)
<1>3. SignedValue(digits) = v[1]
  BY <1>1 DEF SignedValue
<1>4. Value(v)
  <2>1. PICK start : start = IF 2 * digits[n] >= Base THEN -1 ELSE 0
    OBVIOUS
  <2>2. PICK step : step = [i \in 1 .. n |-> [s \in Int |-> digits[i] + Base * s]]
    OBVIOUS
  <2>3. \A i \in 1 .. n : \A s \in Int : step[i][s] = digits[i] + Base * s
    BY <2>2
  <2>4. \A i \in 1 .. n : \A s \in Int : step[i][s] \in Int
    <3> SUFFICES ASSUME NEW i \in 1 .. n, NEW s \in Int PROVE step[i][s] \in Int
      OBVIOUS
    <3>1. PICK x \in Int, y \in Int : x = digits[i] /\ y = Base * s
      BY <1>2
    <3>2. step[i][s] = x + y
      BY <2>3, <3>1
    <3> QED
      BY <3>2
  <2>5. PICK d : d = Down(n, start, step)
    OBVIOUS
  <2>6. /\ d = [i \in 1 .. n + 1 |-> IF i > n THEN start ELSE step[i][d[i + 1]]]
        /\ \A i \in 1 .. n + 1 : d[i] \in Int
    <3>1. PICK S : S = Int
      OBVIOUS
    <3>2. start \in S
      BY <2>1, <3>1
    <3>4. \A i \in 1 .. n : \A s \in S : step[i][s] \in S
      BY <2>4, <3>1
    <3>3. /\ d = [i \in 1 .. n + 1 |-> IF i > n THEN start ELSE step[i][d[i + 1]]]
          /\ \A i \in 1 .. n + 1 : d[i] \in S
      <4> HIDE <2>1, <3>1
      <4> QED
        BY <2>5, <3>2, <3>4, DownIs
    <3> QED
      BY <3>1, <3>3
  <2>7. \A i \in 1 .. n + 1 : d[i] = IF i <= n THEN digits[i] + Base * d[i + 1] ELSE start
    <3> SUFFICES ASSUME NEW i \in 1 .. n + 1
                 PROVE  d[i] = IF i <= n THEN digits[i] + Base * d[i + 1] ELSE start
      OBVIOUS
    <3>1. CASE i <= n
      <4>1. d[i] = step[i][d[i + 1]] /\ i \in 1 .. n /\ d[i + 1] \in Int
        BY <2>6, <3>1
      <4> QED
        BY <2>3, <3>1, <4>1
    <3>2. CASE ~ i <= n
      BY <2>6, <3>2
    <3> QED
      BY <3>1, <3>2
  <2>8. d = [i \in 1 .. n + 1 |-> d[i]]
    BY <2>6
  <2>9. Value(d)
    BY <2>1, <2>7, <2>8
  <2> QED
    BY <2>9
<1> HIDE DEF v
<1>5. v[n + 1] \in Int
  BY <1>4
<1>6. \A i \in 1 .. n : v[i + 1] \in Int => v[i] \in Int
  <2> SUFFICES ASSUME NEW i \in 1 .. n, v[i + 1] \in Int PROVE v[i] \in Int
    OBVIOUS
  <2>1. v[i] = digits[i] + Base * v[i + 1]
    BY <1>4
  <2> QED
    BY <1>2, <2>1
<1> HIDE DEF Value
<1>7. \A i \in 1 .. n + 1 : v[i] \in Int
  <2>1. PICK u : u = v
    OBVIOUS
  <2>2. u[n + 1] \in Int /\ \A i \in 1 .. n : u[i + 1] \in Int => u[i] \in Int
    BY <1>5, <1>6, <2>1
  <2>3. \A i \in 1 .. n + 1 : u[i] \in Int
    BY <2>2, StaysDown
  <2> QED
    BY <2>1, <2>3
<1> QED
  BY <1>3, <1>7

LEMMA IntRead ==
  ASSUME NEW b \in Seq(Byte), NEW p \in Nat
  PROVE  watchman_read_int(b, p) \in Reading(b, p, Int)
<1>1. CASE p + 1 >= Len(b)
  BY <1>1 DEF watchman_read_int, Reading
<1>2. CASE ~ p + 1 >= Len(b)
  <2>1. PICK m \in Byte : m = b[p + 1]
    BY <1>2
  <2>2. CASE m \notin DOMAIN Width
    BY <1>2, <2>1, <2>2 DEF watchman_read_int, Reading
  <2>3. CASE m \in DOMAIN Width
    <3>1. PICK w \in Nat \ {0} : w = Width[m]
      BY <2>3, Markers
    <3>2. CASE p + 1 + w > Len(b)
      BY <1>2, <2>1, <2>3, <3>1, <3>2 DEF watchman_read_int, Reading
    <3>3. CASE ~ p + 1 + w > Len(b)
      <4>1. PICK end \in (p + 1) .. Len(b) : end = p + 1 + w
        BY <3>3
      <4>2. PICK digits \in Seq(Byte) : digits = SubSeq(b, p + 2, end) /\ Len(digits) = w
        <5>1. Len(SubSeq(b, p + 2, end)) = w
          BY <4>1
        <5>2. SubSeq(b, p + 2, end) \in Seq(Byte)
          BY <4>1
        <5> QED
          BY <5>1, <5>2
      <4>3. SignedValue(digits) \in Int
        <5>1. digits # << >>
          BY <4>2
        <5> QED
          BY <5>1, SignedValueIs
      <4>4. watchman_read_int(b, p) = Ok(end, SignedValue(digits))
        BY <1>2, <2>1, <2>3, <3>1, <3>3, <4>1, <4>2 DEF watchman_read_int
      <4> QED
        BY <4>3, <4>4 DEF Reading
    <3> QED
      BY <3>2, <3>3
  <2> QED
    BY <2>2, <2>3
<1> QED
  BY <1>1, <1>2

LEMMA CountRead ==
  ASSUME NEW b \in Seq(Byte), NEW p \in Nat, NEW marker
  PROVE  ReadCount(marker, b, p) \in Reading(b, p, Nat)
<1>1. CASE p >= Len(b) \/ b[p + 1] # marker \/ p + 3 > Len(b)
  <2>1. ReadCount(marker, b, p) = Error
    BY <1>1 DEF ReadCount
  <2> QED
    BY <2>1, ReadingIs
<1>2. CASE ~ (p >= Len(b) \/ b[p + 1] # marker \/ p + 3 > Len(b))
  <2>1. PICK r \in Reading(b, p + 1, Int) : r = watchman_read_int(b, p + 1)
    BY IntRead
  <2>2. ReadCount(marker, b, p) = IF r.how = "ok" THEN IF r.val < 0 THEN Error ELSE Ok(r.ptr, r.val)
                                  ELSE r
    BY <1>2, <2>1 DEF ReadCount, Then
  <2>3. CASE r = Error \/ r = Died
    BY <2>2, <2>3, OutcomesDiffer DEF Reading
  <2>4. CASE \E e \in (p + 2) .. Len(b), v \in Int : r = Ok(e, v)
    <3>1. PICK e \in (p + 2) .. Len(b), v \in Int : r = Ok(e, v)
      BY <2>4
    <3>2. ReadCount(marker, b, p) = IF v < 0 THEN Error ELSE Ok(e, v)
      BY <2>2, <3>1, OutcomesDiffer
    <3> QED
      BY <3>2 DEF Reading
  <2> QED
    BY <2>1, <2>3, <2>4 DEF Reading
<1> QED
  BY <1>1, <1>2

LEMMA LengthRead ==
  ASSUME NEW b \in Seq(Byte), NEW p \in Nat
  PROVE  ReadLength(b, p) \in Reading(b, p, Int)
<1>1. CASE p >= Len(b) \/ b[p + 1] # BYTES \/ p + 1 >= Len(b)
  <2>1. ReadLength(b, p) = Error
    BY <1>1 DEF ReadLength
  <2> QED
    BY <2>1, ReadingIs
<1>2. CASE ~ (p >= Len(b) \/ b[p + 1] # BYTES \/ p + 1 >= Len(b))
  <2>1. ReadLength(b, p) = watchman_read_int(b, p + 1)
    BY <1>2 DEF ReadLength
  <2>2. watchman_read_int(b, p + 1) \in Reading(b, p + 1, Int)
    BY IntRead
  <2>3. Reading(b, p + 1, Int) \subseteq Reading(b, p, Int)
    BY DEF Reading
  <2> QED
    BY <2>1, <2>2, <2>3
<1> QED
  BY <1>1, <1>2

\* The string between two offsets.
LEMMA StringIs ==
  ASSUME NEW b \in Seq(Byte), NEW e \in 0 .. Len(b), NEW v \in Int, v >= 0, e + v <= Len(b)
  PROVE  \E end \in e .. Len(b), string \in Seq(Byte) :
           end = e + v /\ string = SubSeq(b, e + 1, e + v)
<1>1. SubSeq(b, e + 1, e + v) \in Seq(Byte)
  OBVIOUS
<1>2. e + v \in e .. Len(b)
  OBVIOUS
<1> QED
  BY <1>1, <1>2

LEMMA StringRead ==
  ASSUME NEW b \in Seq(Byte), NEW p \in Nat
  PROVE  watchman_read_string(b, p) \in Reading(b, p, Seq(Byte))
<1>1. PICK r \in Reading(b, p, Int) : r = ReadLength(b, p)
  BY LengthRead
<1>2. watchman_read_string(b, p) =
        IF r.how = "ok"
        THEN IF r.ptr + r.val > Len(b) THEN Error
             ELSE IF r.val < 0 THEN Died
             ELSE Ok(r.ptr + r.val, SubSeq(b, r.ptr + 1, r.ptr + r.val))
        ELSE r
  BY <1>1 DEF watchman_read_string, Then
<1>3. CASE r = Error \/ r = Died
  BY <1>2, <1>3, OutcomesDiffer, ReadingIs
<1>4. CASE \E e \in (p + 1) .. Len(b), v \in Int : r = Ok(e, v)
  <2>1. PICK e \in (p + 1) .. Len(b), v \in Int : r = Ok(e, v)
    BY <1>4
  <2>2. watchman_read_string(b, p) =
          IF e + v > Len(b) THEN Error ELSE IF v < 0 THEN Died
          ELSE Ok(e + v, SubSeq(b, e + 1, e + v))
    BY <1>2, <2>1, OutcomesDiffer
  <2>3. CASE e + v > Len(b) \/ v < 0
    BY <2>2, <2>3, ReadingIs
  <2>4. CASE ~ (e + v > Len(b) \/ v < 0)
    <3>1. e \in 0 .. Len(b) /\ v >= 0 /\ e + v <= Len(b)
      BY <2>1, <2>4
    <3>2. PICK end \in e .. Len(b), string \in Seq(Byte) :
            end = e + v /\ string = SubSeq(b, e + 1, e + v)
      BY <3>1, StringIs
    <3>3. watchman_read_string(b, p) = Ok(end, string) /\ end \in (p + 1) .. Len(b)
      BY <2>2, <2>4, <3>2
    <3> QED
      BY <3>3, ReadingIs
  <2> QED
    BY <2>3, <2>4
<1> QED
  BY <1>1, <1>3, <1>4 DEF Reading

LEMMA DoubleRead ==
  ASSUME NEW b \in Seq(Byte), NEW p \in Nat
  PROVE  watchman_read_double(b, p) \in Reading(b, p, {<< >>})
BY DEF watchman_read_double, Reading

\* What may come of skipping values from offset q on: none, or some before the end.
Skipped(b, q) == {Error, Died} \cup { Ok(e, << >>) : e \in {q} \cup (q .. Len(b)) }

SkipsLater(b, f, q) == \A r \in Nat : r > q => \A k \in Nat : f[r][k] \in Skipped(b, r)

LEMMA SkippedIs ==
  ASSUME NEW b \in Seq(Byte), NEW q \in Nat
  PROVE  /\ Error \in Skipped(b, q) /\ Died \in Skipped(b, q) /\ Ok(q, << >>) \in Skipped(b, q)
         /\ \A e \in q .. Len(b) : Skipped(b, e) \subseteq Skipped(b, q)
BY DEF Skipped

SameLater(f, g, q) == \A r \in Nat : r > q => g[r] = f[r]

\* Skipping goes on behind what was read.
On(r, h, k) == IF r.how = "ok" THEN h[r.ptr][k] ELSE r

LEMMA GoesOn ==
  ASSUME NEW b \in Seq(Byte), NEW q \in Nat, NEW V, NEW r \in Reading(b, q, V),
         NEW f, NEW g, NEW k, r.how = "ok" => k \in Nat,
         SkipsLater(b, f, q), SameLater(f, g, q)
  PROVE  On(r, g, k) = On(r, f, k) /\ On(r, f, k) \in Skipped(b, q)
<1>1. CASE r = Error \/ r = Died
  BY <1>1, OutcomesDiffer, SkippedIs DEF On
<1>2. CASE \E e \in (q + 1) .. Len(b), v \in V : r = Ok(e, v)
  <2>1. PICK e \in (q + 1) .. Len(b), v \in V : r = Ok(e, v)
    BY <1>2
  <2>2. r.how = "ok" /\ r.ptr = e
    BY <2>1, OutcomesDiffer
  <2>3. e \in Nat /\ e > q /\ e \in q .. Len(b) /\ k \in Nat
    BY <2>2
  <2>4. f[e][k] \in Skipped(b, e) /\ g[e] = f[e]
    BY <2>3 DEF SkipsLater, SameLater
  <2>5. f[e][k] \in Skipped(b, q)
    BY <2>3, <2>4, SkippedIs
  <2> QED
    BY <2>2, <2>4, <2>5 DEF On
<1> QED
  BY <1>1, <1>2 DEF Reading

LEMMA ReadingLater ==
  ASSUME NEW b \in Seq(Byte), NEW q \in Nat, NEW p \in Nat, p >= q, NEW V
  PROVE  Reading(b, p, V) \subseteq Reading(b, q, V)
BY DEF Reading

\* To skip a template is to read the number of keys, to skip them, to read the number of
\* rows and to skip their values.
SkipKeys(b, h, n, keys, width) ==
  Then(h[keys][width], LAMBDA rows, done : SkipRows(b, h, n, rows, width))

LEMMA RowsAre ==
  ASSUME NEW b, NEW h, NEW n, NEW p, NEW width
  PROVE  SkipRows(b, h, n, p, width) =
           LET r == watchman_read_array(b, p)
           IN  IF r.how = "ok" THEN h[r.ptr][r.val * width + n - 1] ELSE r
BY DEF SkipRows, Then

LEMMA KeysAre ==
  ASSUME NEW b, NEW h, NEW n, NEW p, NEW width
  PROVE  SkipKeys(b, h, n, p, width) =
           LET r == h[p][width]
           IN  IF r.how = "ok" THEN SkipRows(b, h, n, r.ptr, width) ELSE r
BY DEF SkipKeys, Then

LEMMA TemplateIs ==
  ASSUME NEW b, NEW h, NEW n, NEW p
  PROVE  SkipTemplate(b, h, n, p) =
           LET r == watchman_read_array(b, p + 1)
           IN  IF r.how = "ok" THEN SkipKeys(b, h, n, r.ptr, r.val) ELSE r
BY DEF SkipTemplate, SkipKeys, Then

LEMMA TemplateSkipped ==
  ASSUME NEW b \in Seq(Byte), NEW q \in Nat, NEW n \in Nat, n # 0, NEW f, NEW g,
         SkipsLater(b, f, q), SameLater(f, g, q)
  PROVE  SkipTemplate(b, g, n, q) = SkipTemplate(b, f, n, q) /\ SkipTemplate(b, f, n, q) \in Skipped(b, q)
<1>1. PICK a \in Reading(b, q + 1, Nat) : a = watchman_read_array(b, q + 1)
  BY CountRead DEF watchman_read_array
<1>2. /\ SkipTemplate(b, f, n, q) = IF a.how = "ok" THEN SkipKeys(b, f, n, a.ptr, a.val) ELSE a
      /\ SkipTemplate(b, g, n, q) = IF a.how = "ok" THEN SkipKeys(b, g, n, a.ptr, a.val) ELSE a
  BY <1>1, TemplateIs
<1>3. CASE a = Error \/ a = Died
  BY <1>2, <1>3, OutcomesDiffer, SkippedIs
<1>4. CASE \E keys \in (q + 2) .. Len(b), width \in Nat : a = Ok(keys, width)
  <2>1. PICK keys \in (q + 2) .. Len(b), width \in Nat : a = Ok(keys, width)
    BY <1>4
  <2>2. /\ SkipTemplate(b, f, n, q) = SkipKeys(b, f, n, keys, width)
        /\ SkipTemplate(b, g, n, q) = SkipKeys(b, g, n, keys, width)
    BY <1>2, <2>1, OutcomesDiffer
  <2>3. keys \in Nat /\ keys > q /\ keys \in q .. Len(b)
    OBVIOUS
  <2>4. PICK s \in Skipped(b, keys) : s = f[keys][width] /\ s = g[keys][width]
    BY <2>3 DEF SkipsLater, SameLater
  <2>5. /\ SkipKeys(b, f, n, keys, width) = IF s.how = "ok" THEN SkipRows(b, f, n, s.ptr, width) ELSE s
        /\ SkipKeys(b, g, n, keys, width) = IF s.how = "ok" THEN SkipRows(b, g, n, s.ptr, width) ELSE s
    BY <2>4, KeysAre
  <2>6. CASE s = Error \/ s = Died
    BY <2>2, <2>5, <2>6, OutcomesDiffer, SkippedIs
  <2>7. CASE \E rows \in {keys} \cup (keys .. Len(b)) : s = Ok(rows, << >>)
    <3>1. PICK rows \in Nat : rows \in q .. Len(b) /\ s = Ok(rows, << >>)
      BY <2>3, <2>7
    <3>2. /\ SkipTemplate(b, f, n, q) = SkipRows(b, f, n, rows, width)
          /\ SkipTemplate(b, g, n, q) = SkipRows(b, g, n, rows, width)
      BY <2>2, <2>5, <3>1, OutcomesDiffer
    <3>3. PICK r \in Reading(b, q, Nat) : r = watchman_read_array(b, rows)
      <4>1. watchman_read_array(b, rows) \in Reading(b, rows, Nat)
        BY CountRead DEF watchman_read_array
      <4> QED
        BY <3>1, <4>1, ReadingLater
    <3>4. PICK k : k = r.val * width + n - 1
      OBVIOUS
    <3>5. r.how = "ok" => k \in Nat
      <4>1. ASSUME r.how = "ok" PROVE r.val \in Nat
        BY <4>1, OutcomesDiffer DEF Reading
      <4>2. ASSUME NEW x \in Nat PROVE x * width + n - 1 \in Nat
        <5>1. x * width \in Nat
          OBVIOUS
        <5> QED
          BY <5>1
      <4> QED
        BY <3>4, <4>1, <4>2
    <3>6. /\ SkipRows(b, f, n, rows, width) = IF r.how = "ok" THEN f[r.ptr][k] ELSE r
          /\ SkipRows(b, g, n, rows, width) = IF r.how = "ok" THEN g[r.ptr][k] ELSE r
      BY <3>3, <3>4, RowsAre
    <3>7. /\ SkipRows(b, g, n, rows, width) = SkipRows(b, f, n, rows, width)
          /\ SkipRows(b, f, n, rows, width) \in Skipped(b, q)
      <4>1. On(r, g, k) = On(r, f, k) /\ On(r, f, k) \in Skipped(b, q)
        BY <3>5, GoesOn
      <4> QED
        BY <3>6, <4>1 DEF On
    <3> QED
      BY <3>2, <3>7
  <2> QED
    BY <2>6, <2>7 DEF Skipped
<1> QED
  BY <1>3, <1>4 DEF Reading

LEMMA OpenedIs ==
  ASSUME NEW b \in Seq(Byte), NEW q \in Nat, q < Len(b)
  PROVE  Opened(b, q) \in Reading(b, q, Nat)
<1>1. PICK m \in Byte : m = b[q + 1]
  OBVIOUS
<1>2. ASSUME NEW V, NEW r \in Reading(b, q, V) PROVE Alone(r) \in Reading(b, q, Nat)
  <2>1. Alone(r) = IF r.how = "ok" THEN Ok(r.ptr, 0) ELSE r
    BY DEF Alone, Then
  <2>2. CASE r = Error \/ r = Died
    BY <2>1, <2>2, OutcomesDiffer, ReadingIs
  <2>3. CASE \E e \in (q + 1) .. Len(b), v \in V : r = Ok(e, v)
    BY <2>1, <2>3, OutcomesDiffer DEF Reading
  <2> QED
    BY <2>2, <2>3 DEF Reading
<1>3. ASSUME NEW r \in Reading(b, q, Nat) PROVE Pairs(r) \in Reading(b, q, Nat)
  <2>1. Pairs(r) = IF r.how = "ok" THEN Ok(r.ptr, 2 * r.val) ELSE r
    BY DEF Pairs, Then
  <2>2. CASE r = Error \/ r = Died
    BY <2>1, <2>2, OutcomesDiffer, ReadingIs
  <2>3. CASE \E e \in (q + 1) .. Len(b), v \in Nat : r = Ok(e, v)
    <3>1. PICK e \in (q + 1) .. Len(b), v \in Nat : r = Ok(e, v)
      BY <2>3
    <3>2. PICK w \in Nat : w = 2 * v
      OBVIOUS
    <3>3. Pairs(r) = Ok(e, w)
      BY <2>1, <3>1, <3>2, OutcomesDiffer
    <3> QED
      BY <3>3, ReadingIs
  <2> QED
    BY <2>2, <2>3 DEF Reading
<1>4. /\ watchman_read_array(b, q) \in Reading(b, q, Nat)
      /\ Pairs(watchman_read_object(b, q)) \in Reading(b, q, Nat)
      /\ Alone(watchman_read_string(b, q)) \in Reading(b, q, Nat)
      /\ Alone(watchman_read_int(b, q)) \in Reading(b, q, Nat)
      /\ Alone(watchman_read_double(b, q)) \in Reading(b, q, Nat)
  <2>1. /\ watchman_read_array(b, q) \in Reading(b, q, Nat)
        /\ watchman_read_object(b, q) \in Reading(b, q, Nat)
    BY CountRead DEF watchman_read_array, watchman_read_object
  <2>2. /\ watchman_read_string(b, q) \in Reading(b, q, Seq(Byte))
        /\ watchman_read_int(b, q) \in Reading(b, q, Int)
        /\ watchman_read_double(b, q) \in Reading(b, q, {<< >>})
    BY StringRead, IntRead, DoubleRead
  <2> QED
    BY <1>2, <1>3, <2>1, <2>2
<1>5. Ok(q + 1, 0) \in Reading(b, q, Nat) /\ Error \in Reading(b, q, Nat)
  <2>1. PICK e \in (q + 1) .. Len(b), k \in Nat : e = q + 1 /\ k = 0
    OBVIOUS
  <2> QED
    BY <2>1, ReadingIs
<1> QED
  BY <1>1, <1>4, <1>5 DEF Opened

\* A step of skipping lands where it may, and depends on the steps from later offsets only.
LEMMA SkipStep ==
  ASSUME NEW b \in Seq(Byte), NEW q \in Nat, NEW n \in Nat, NEW f, NEW g,
         SkipsLater(b, f, q), SameLater(f, g, q)
  PROVE  /\ SkipValues(b, g, n, q) = SkipValues(b, f, n, q)
         /\ SkipValues(b, f, n, q) \in Skipped(b, q)
<1>1. CASE n = 0
  BY <1>1, SkippedIs DEF SkipValues
<1>2. CASE n # 0 /\ q >= Len(b)
  BY <1>2, SkippedIs DEF SkipValues
<1>3. CASE n # 0 /\ ~ q >= Len(b) /\ b[q + 1] = TEMPLATE
  <2>1. ASSUME NEW h PROVE SkipValues(b, h, n, q) = SkipTemplate(b, h, n, q)
    BY <1>3 DEF SkipValues
  <2> QED
    BY <1>3, <2>1, TemplateSkipped
<1>4. CASE n # 0 /\ ~ q >= Len(b) /\ b[q + 1] # TEMPLATE
  <2>1. PICK r \in Reading(b, q, Nat) : r = Opened(b, q)
    BY <1>4, OpenedIs
  <2>2. PICK k : k = r.val + n - 1
    OBVIOUS
  <2>3. r.how = "ok" => k \in Nat
    BY <1>4, <2>2, OutcomesDiffer DEF Reading
  <2>4. ASSUME NEW h PROVE SkipValues(b, h, n, q) = On(r, h, k)
    BY <1>4, <2>1, <2>2 DEF SkipValues, Then, On
  <2> QED
    BY <2>3, <2>4, GoesOn
<1> QED
  BY <1>1, <1>2, <1>3, <1>4

\* The function watchman_skip_value defines exists: skipping ends, since every step comes
\* later.
LEMMA SkipEnds ==
  ASSUME NEW b \in Seq(Byte)
  PROVE  \E f : f = [q \in Nat |-> [n \in Nat |-> SkipValues(b, f, n, q)]]
<1>1. PICK len \in Nat : len = Len(b)
  OBVIOUS
<1> DEFINE Obeys(f, q) == /\ f[q] = [n \in Nat |-> SkipValues(b, f, n, q)]
                          /\ \A n \in Nat : f[q][n] \in Skipped(b, q)
           Table(f, k) == f = [q \in Nat |-> f[q]] /\ \A q \in Nat : q >= len - k => Obeys(f, q)
           T == { k \in Nat : k <= len => \E f : Table(f, k) }
<1> HIDE DEF Table
<1>2. T \in SUBSET Nat /\ \A k \in Nat : k \in T <=> (k <= len => \E f : Table(f, k))
  OBVIOUS
<1> HIDE DEF T
<1>3. 0 \in T
  <2>1. PICK f : f = [q \in Nat |-> [n \in Nat |-> IF n = 0 THEN Ok(q, << >>) ELSE Error]]
    OBVIOUS
  <2>2. f = [q \in Nat |-> f[q]]
    BY <2>1
  <2>3. ASSUME NEW q \in Nat, q >= len PROVE Obeys(f, q)
    <3>1. f[q] = [n \in Nat |-> IF n = 0 THEN Ok(q, << >>) ELSE Error]
      BY <2>1
    <3>2. \A n \in Nat : SkipValues(b, f, n, q) = IF n = 0 THEN Ok(q, << >>) ELSE Error
      BY <1>1, <2>3 DEF SkipValues
    <3>3. f[q] = [n \in Nat |-> SkipValues(b, f, n, q)]
      BY <3>1, <3>2
    <3>4. \A n \in Nat : f[q][n] \in Skipped(b, q)
      BY <3>1, SkippedIs
    <3> QED
      BY <3>3, <3>4
  <2> HIDE DEF Obeys
  <2>4. Table(f, 0)
    BY <2>2, <2>3 DEF Table
  <2> QED
    BY <1>2, <2>4
<1>4. ASSUME NEW k \in T PROVE k + 1 \in T
  <2>0. k \in Nat
    BY <1>2
  <2> SUFFICES ASSUME k + 1 <= len PROVE \E f : Table(f, k + 1)
    BY <1>2
  <2>1. PICK f : Table(f, k)
    BY <1>2
  <2>2. PICK o \in Nat : o = len - (k + 1)
    BY <2>0
  <2>3. \A q \in Nat : q > o => q >= len - k
    BY <2>0, <2>2
  <2>4. PICK g : g = [q \in Nat |-> IF q = o THEN [n \in Nat |-> SkipValues(b, f, n, q)]
                                    ELSE f[q]]
    OBVIOUS
  <2>5. \A q \in Nat : q # o => g[q] = f[q]
    BY <2>4
  <2>6. ASSUME NEW q \in Nat, q >= o PROVE Obeys(g, q)
    <3>1. SameLater(f, g, q)
      BY <2>5, <2>6 DEF SameLater
    <3>2. SkipsLater(b, f, q)
      <4>1. \A r \in Nat : r > q => \A n \in Nat : f[r][n] \in Skipped(b, r)
        BY <2>1, <2>3, <2>6 DEF Table
      <4> QED
        BY <4>1 DEF SkipsLater
    <3>3. \A n \in Nat : /\ SkipValues(b, g, n, q) = SkipValues(b, f, n, q)
                         /\ SkipValues(b, f, n, q) \in Skipped(b, q)
      BY <3>1, <3>2, SkipStep
    <3>4. g[q] = [n \in Nat |-> SkipValues(b, f, n, q)]
      <4>1. CASE q = o
        BY <2>4, <4>1
      <4>2. CASE q # o
        <5>1. q >= len - k /\ g[q] = f[q]
          BY <2>3, <2>5, <2>6, <4>2
        <5> QED
          BY <2>1, <5>1 DEF Table
      <4> QED
        BY <4>1, <4>2
    <3>5. g[q] = [n \in Nat |-> SkipValues(b, g, n, q)]
      BY <3>3, <3>4
    <3>6. \A n \in Nat : g[q][n] \in Skipped(b, q)
      BY <3>3, <3>4
    <3> QED
      BY <3>5, <3>6
  <2>7. g = [q \in Nat |-> g[q]]
    BY <2>4
  <2> HIDE DEF Obeys
  <2>8. Table(g, k + 1)
    BY <2>0, <2>2, <2>6, <2>7 DEF Table
  <2> QED
    BY <1>2, <2>0, <2>8
<1>5. T = Nat
  BY <1>3, <1>4, <1>2, Induct
<1>6. PICK f : Table(f, len)
  BY <1>2, <1>5
<1>7. \A q \in Nat : f[q] = [n \in Nat |-> SkipValues(b, f, n, q)]
  <2>1. \A q \in Nat : q >= len - len
    OBVIOUS
  <2> QED
    BY <1>6, <2>1 DEF Table
<1>8. f = [q \in Nat |-> [n \in Nat |-> SkipValues(b, f, n, q)]]
  BY <1>6, <1>7 DEF Table
<1> QED
  BY <1>8

LEMMA ValueSkipped ==
  ASSUME NEW b \in Seq(Byte), NEW p \in Nat
  PROVE  watchman_skip_value(b, p) \in Skipped(b, p)
<1> DEFINE skip == CHOOSE f : f = [q \in Nat |-> [n \in Nat |-> SkipValues(b, f, n, q)]]
<1>1. watchman_skip_value(b, p) = skip[p][1]
  BY DEF watchman_skip_value
<1>2. skip = [q \in Nat |-> [n \in Nat |-> SkipValues(b, skip, n, q)]]
  BY SkipEnds
<1> HIDE DEF skip
<1>3. PICK f : f = skip
  OBVIOUS
<1>4. ASSUME NEW q \in Nat, NEW n \in Nat PROVE f[q][n] = SkipValues(b, f, n, q)
  <2>1. f[q] = [k \in Nat |-> SkipValues(b, f, k, q)]
    BY <1>2, <1>3
  <2> QED
    BY <2>1
<1>5. PICK len \in Nat : len = Len(b)
  OBVIOUS
<1> DEFINE T == { k \in Nat : \A q \in Nat : q >= len - k =>
                    \A n \in Nat : f[q][n] \in Skipped(b, q) }
<1>6. /\ T \in SUBSET Nat
      /\ \A k \in Nat : k \in T <=> \A q \in Nat : q >= len - k =>
                                     \A n \in Nat : f[q][n] \in Skipped(b, q)
  OBVIOUS
<1> HIDE DEF T
<1>7. 0 \in T
  <2>1. ASSUME NEW q \in Nat, q >= len, NEW n \in Nat PROVE f[q][n] \in Skipped(b, q)
    <3>1. SkipValues(b, f, n, q) \in {Error, Ok(q, << >>)}
      BY <1>5, <2>1 DEF SkipValues
    <3> QED
      BY <1>4, <3>1, SkippedIs
  <2>2. len - 0 = len
    OBVIOUS
  <2> QED
    BY <1>6, <2>1, <2>2
<1>8. ASSUME NEW k \in T PROVE k + 1 \in T
  <2>0. k \in Nat
    BY <1>6
  <2>1. ASSUME NEW q \in Nat, q >= len - (k + 1), NEW n \in Nat PROVE f[q][n] \in Skipped(b, q)
    <3>1. \A r \in Nat : r > q => r >= len - k
      BY <2>0, <2>1
    <3>2. SkipsLater(b, f, q) /\ SameLater(f, f, q)
      BY <1>6, <3>1 DEF SkipsLater, SameLater
    <3> QED
      BY <1>4, <3>2, SkipStep
  <2>2. PICK more \in Nat : more = k + 1
    BY <2>0
  <2>3. \A q \in Nat : q >= len - more => \A n \in Nat : f[q][n] \in Skipped(b, q)
    BY <2>1, <2>2
  <2>4. more \in T
    BY <1>6, <2>3
  <2> QED
    BY <2>2, <2>4
<1>9. T = Nat
  BY <1>7, <1>8, <1>6, Induct
<1>10. \A n \in Nat : f[p][n] \in Skipped(b, p)
  <2>1. p >= len - len
    OBVIOUS
  <2> QED
    BY <1>6, <1>9, <2>1
<1> QED
  BY <1>1, <1>3, <1>10

\* What may come of reading names from some offset on: the pointer is left anywhere in
\* the bytes, or leaves them.
Anywhere(b, V) == {Error, Died, Wild} \cup { Ok(e, v) : e \in 0 .. Len(b), v \in V }

LEMMA AnywhereIs ==
  ASSUME NEW b, NEW V
  PROVE  /\ Error \in Anywhere(b, V) /\ Died \in Anywhere(b, V) /\ Wild \in Anywhere(b, V)
         /\ \A e \in 0 .. Len(b), v \in V : Ok(e, v) \in Anywhere(b, V)
BY DEF Anywhere

\* A name that can be read, or not.
Name == Seq(Byte) \cup {Unreadable}

LEMMA NameRead ==
  ASSUME NEW b \in Seq(Byte), NEW p \in Nat
  PROVE  watchman_read_string_no_copy(b, p) \in Anywhere(b, Name)
<1>1. PICK r \in Reading(b, p, Int) : r = ReadLength(b, p)
  BY LengthRead
<1>2. watchman_read_string_no_copy(b, p) =
        IF r.how = "ok"
        THEN IF r.ptr + r.val > Len(b) THEN Error
             ELSE IF r.ptr + r.val < 0 THEN Wild
             ELSE Ok(r.ptr + r.val, IF r.val < 0 THEN Unreadable
                                    ELSE SubSeq(b, r.ptr + 1, r.ptr + r.val))
        ELSE r
  BY <1>1 DEF watchman_read_string_no_copy, Then
<1>3. CASE r = Error \/ r = Died
  BY <1>2, <1>3, OutcomesDiffer, AnywhereIs
<1>4. CASE \E e \in (p + 1) .. Len(b), v \in Int : r = Ok(e, v)
  <2>1. PICK e \in (p + 1) .. Len(b), v \in Int : r = Ok(e, v)
    BY <1>4
  <2>2. watchman_read_string_no_copy(b, p) =
          IF e + v > Len(b) THEN Error ELSE IF e + v < 0 THEN Wild
          ELSE Ok(e + v, IF v < 0 THEN Unreadable ELSE SubSeq(b, e + 1, e + v))
    BY <1>2, <2>1, OutcomesDiffer
  <2>3. CASE e + v > Len(b) \/ e + v < 0
    BY <2>2, <2>3, AnywhereIs
  <2>4. CASE ~ (e + v > Len(b) \/ e + v < 0) /\ v < 0
    <3>1. PICK back : back = e + v
      OBVIOUS
    <3>2. back \in 0 .. Len(b)
      BY <2>1, <2>4, <3>1
    <3>3. watchman_read_string_no_copy(b, p) = Ok(back, Unreadable)
      BY <2>2, <2>4, <3>1
    <3> QED
      BY <3>2, <3>3, AnywhereIs DEF Name
  <2>5. CASE ~ (e + v > Len(b) \/ e + v < 0) /\ ~ v < 0
    <3>1. e \in 0 .. Len(b) /\ v >= 0 /\ e + v <= Len(b)
      BY <2>1, <2>5
    <3>2. PICK end \in e .. Len(b), string \in Seq(Byte) :
            end = e + v /\ string = SubSeq(b, e + 1, e + v)
      BY <3>1, StringIs
    <3>3. watchman_read_string_no_copy(b, p) = Ok(end, string) /\ end \in 0 .. Len(b)
      BY <2>2, <2>5, <3>1, <3>2
    <3> QED
      BY <3>3, AnywhereIs DEF Name
  <2> QED
    BY <2>3, <2>4, <2>5
<1> QED
  BY <1>1, <1>3, <1>4 DEF Reading

\* One name more.
NextName(b, r) ==
  Then(r,                                  LAMBDA q, before :
  Then(watchman_read_string_no_copy(b, q), LAMBDA next, name : Ok(next, Append(before, name))))

LEMMA NextNameIs ==
  ASSUME NEW b \in Seq(Byte), NEW r \in Anywhere(b, Seq(Name))
  PROVE  NextName(b, r) \in Anywhere(b, Seq(Name))
<1> DEFINE More(q, before) ==
             Then(watchman_read_string_no_copy(b, q),
                  LAMBDA next, name : Ok(next, Append(before, name)))
<1>1. ASSUME NEW q \in 0 .. Len(b), NEW before \in Seq(Name)
      PROVE  More(q, before) \in Anywhere(b, Seq(Name))
  <2>1. PICK s \in Anywhere(b, Name) : s = watchman_read_string_no_copy(b, q)
    <3>1. q \in Nat
      OBVIOUS
    <3> QED
      BY <3>1, NameRead
  <2>2. More(q, before) = IF s.how = "ok" THEN Ok(s.ptr, Append(before, s.val)) ELSE s
    BY <2>1 DEF Then
  <2> HIDE DEF More
  <2>3. CASE s = Error \/ s = Died \/ s = Wild
    BY <2>2, <2>3, OutcomesDiffer, AnywhereIs
  <2>4. CASE \E e \in 0 .. Len(b), v \in Name : s = Ok(e, v)
    <3>1. PICK e \in 0 .. Len(b), v \in Name : s = Ok(e, v)
      BY <2>4
    <3>2. PICK more \in Seq(Name) : more = Append(before, v)
      <4>1. PICK S : S = Name
        OBVIOUS
      <4>2. before \in Seq(S) /\ v \in S
        BY <4>1, <3>1
      <4>3. Append(before, v) \in Seq(S)
        BY <4>2
      <4> QED
        BY <4>1, <4>3
    <3>3. More(q, before) = Ok(e, more)
      BY <2>2, <3>1, <3>2, OutcomesDiffer
    <3> QED
      BY <3>1, <3>3, AnywhereIs
  <2> QED
    BY <2>3, <2>4 DEF Anywhere
<1> HIDE DEF More
<1>2. NextName(b, r) = IF r.how = "ok" THEN More(r.ptr, r.val) ELSE r
  <2>1. NextName(b, r) = Then(r, LAMBDA q, before : More(q, before))
    BY DEF NextName, More
  <2> QED
    BY <2>1 DEF Then
<1>3. CASE r = Error \/ r = Died \/ r = Wild
  BY <1>2, <1>3, OutcomesDiffer, AnywhereIs
<1>4. CASE \E e \in 0 .. Len(b), v \in Seq(Name) : r = Ok(e, v)
  BY <1>1, <1>2, <1>4, OutcomesDiffer
<1> QED
  BY <1>3, <1>4 DEF Anywhere

LEMMA NamesAre ==
  ASSUME NEW b \in Seq(Byte), NEW p \in 0 .. Len(b), NEW count \in Nat
  PROVE  Names(b, p, count) \in Anywhere(b, Seq(Name))
<1> DEFINE Table(f) == f = [i \in 0 .. count |->
                              IF i = 0 THEN Ok(p, << >>) ELSE NextName(b, f[i - 1])]
           names == CHOOSE f : Table(f)
<1>1. Names(b, p, count) = names[count]
  BY DEF Names, NextName
<1>2. PICK S, start : S = Anywhere(b, Seq(Name)) /\ start = Ok(p, << >>)
  OBVIOUS
<1>3. start \in S
  <2>1. PICK none \in Seq(Name) : none = << >>
    <3>1. PICK T : T = Name
      OBVIOUS
    <3>2. << >> \in Seq(T)
      OBVIOUS
    <3> QED
      BY <3>1, <3>2
  <2>2. Ok(p, none) \in Anywhere(b, Seq(Name))
    BY AnywhereIs
  <2> QED
    BY <1>2, <2>1, <2>2
<1>4. \A s \in S : NextName(b, s) \in S
  BY <1>2, NextNameIs
<1>5. Table(names)
  <2>1. PICK step : step = [i \in 1 .. count |-> [s \in S |-> NextName(b, s)]]
    OBVIOUS
  <2>2. \A i \in 1 .. count : \A s \in S : step[i][s] = NextName(b, s)
    BY <2>1
  <2>3. \A i \in 1 .. count : \A s \in S : step[i][s] \in S
    BY <1>4, <2>2
  <2>4. PICK u : u = Up(count, start, step)
    OBVIOUS
  <2>5. /\ u = [i \in 0 .. count |-> IF i = 0 THEN start ELSE step[i][u[i - 1]]]
        /\ \A i \in 0 .. count : u[i] \in S
    BY <1>3, <2>3, <2>4, UpIs
  <2>6. ASSUME NEW i \in 0 .. count PROVE u[i] = IF i = 0 THEN start ELSE NextName(b, u[i - 1])
    <3>1. CASE i = 0
      BY <2>5, <3>1
    <3>2. CASE i # 0
      <4>1. i \in 1 .. count /\ i - 1 \in 0 .. count
        BY <3>2
      <4>2. u[i] = step[i][u[i - 1]] /\ u[i - 1] \in S
        BY <2>5, <3>2, <4>1
      <4> QED
        BY <2>2, <3>2, <4>1, <4>2
    <3> QED
      BY <3>1, <3>2
  <2>7. u = [i \in 0 .. count |-> u[i]]
    BY <2>5
  <2>8. Table(u)
    BY <1>2, <2>6, <2>7
  <2> QED
    BY <2>8
<1> HIDE DEF names
<1>6. PICK f : f = names
  OBVIOUS
<1>7. f[0] = start /\ \A i \in 1 .. count : f[i] = NextName(b, f[i - 1])
  BY <1>2, <1>5, <1>6
<1> HIDE DEF Table
<1>8. f[0] \in S /\ \A i \in 1 .. count : f[i - 1] \in S => f[i] \in S
  BY <1>3, <1>4, <1>7
<1>9. \A i \in 0 .. count : f[i] \in S
  BY <1>8, StaysUp
<1>10. f[count] \in S
  BY <1>9
<1> QED
  BY <1>1, <1>2, <1>6, <1>10

LEMMA FilesRead ==
  ASSUME NEW b \in Seq(Byte), NEW p \in Nat
  PROVE  ReadFiles(b, p) \in Anywhere(b, Seq(Name))
<1>1. PICK r \in Reading(b, p, Nat) : r = watchman_read_array(b, p)
  BY CountRead DEF watchman_read_array
<1>2. ReadFiles(b, p) = IF r.how = "ok" THEN IF r.val = 0 THEN Died ELSE Names(b, r.ptr, r.val)
                        ELSE r
  BY <1>1 DEF ReadFiles, Then
<1>3. CASE r = Error \/ r = Died
  BY <1>2, <1>3, OutcomesDiffer, AnywhereIs
<1>4. CASE \E e \in (p + 1) .. Len(b), v \in Nat : r = Ok(e, v)
  <2>1. PICK e \in 0 .. Len(b), v \in Nat : r = Ok(e, v)
    BY <1>4
  <2>2. ReadFiles(b, p) = IF v = 0 THEN Died ELSE Names(b, e, v)
    BY <1>2, <2>1, OutcomesDiffer
  <2>3. Names(b, e, v) \in Anywhere(b, Seq(Name))
    BY NamesAre
  <2> QED
    BY <2>2, <2>3, AnywhereIs
<1> QED
  BY <1>3, <1>4 DEF Reading

---------------------------------------------------------------------------
(* What a response gives.                                                  *)

\* What a project's fields or a query's fields hold: what is wanted, or nothing.
Kind(asked, key) ==
  IF asked = "watch"
  THEN IF key \in {Word.watch, Word.relativePath} THEN Seq(Byte) ELSE {<< >>}
  ELSE IF key = Word.files THEN Seq(Name) ELSE {<< >>}

Value == Seq(Byte) \cup Seq(Name)

FieldsOf(asked) ==
  { fields \in UNION { [keys -> Value] : keys \in SUBSET Seq(Byte) } :
      \A key \in DOMAIN fields : fields[key] \in Kind(asked, key) }

\* What may come of reading on in a response: only a query's has the names behind which
\* the pointer may leave the bytes.
Parsing(asked, b, V) ==
  {Error, Died} \cup (IF asked = "watch" THEN {} ELSE {Wild})
    \cup { Ok(e, v) : e \in 0 .. Len(b), v \in V }

LEMMA ParsingIs ==
  ASSUME NEW asked, NEW b, NEW V
  PROVE  /\ Error \in Parsing(asked, b, V) /\ Died \in Parsing(asked, b, V)
         /\ asked # "watch" => Wild \in Parsing(asked, b, V)
         /\ \A e \in 0 .. Len(b), v \in V : Ok(e, v) \in Parsing(asked, b, V)
BY DEF Parsing

\* What comes of reading on in a response ends it, or leaves the pointer in the bytes.
LEMMA ParsingEnds ==
  ASSUME NEW asked, NEW b, NEW V, NEW W, NEW r \in Parsing(asked, b, V)
  PROVE  \/ r.how # "ok" /\ r \in Parsing(asked, b, W)
         \/ \E e \in 0 .. Len(b), v \in V : r = Ok(e, v)
<1>1. CASE r = Error \/ r = Died \/ (r = Wild /\ asked # "watch")
  BY <1>1, OutcomesDiffer, ParsingIs
<1> QED
  BY <1>1 DEF Parsing

LEMMA KindIs ==
  ASSUME NEW asked, NEW key
  PROVE  Kind(asked, key) \subseteq Value
<1>1. << >> \in Seq(Byte)
  OBVIOUS
<1> QED
  BY <1>1 DEF Kind, Value

LEMMA FieldsAre ==
  ASSUME NEW asked, NEW fields
  PROVE  fields \in FieldsOf(asked) <=>
           /\ fields = [key \in DOMAIN fields |-> fields[key]]
           /\ DOMAIN fields \subseteq Seq(Byte)
           /\ \A key \in DOMAIN fields : fields[key] \in Kind(asked, key)
<1>1. ASSUME fields \in FieldsOf(asked)
      PROVE  /\ fields = [key \in DOMAIN fields |-> fields[key]]
             /\ DOMAIN fields \subseteq Seq(Byte)
             /\ \A key \in DOMAIN fields : fields[key] \in Kind(asked, key)
  BY <1>1 DEF FieldsOf
<1>2. ASSUME /\ fields = [key \in DOMAIN fields |-> fields[key]]
             /\ DOMAIN fields \subseteq Seq(Byte)
             /\ \A key \in DOMAIN fields : fields[key] \in Kind(asked, key)
      PROVE  fields \in FieldsOf(asked)
  <2>1. PICK keys \in SUBSET Seq(Byte) : keys = DOMAIN fields
    BY <1>2
  <2>2. \A key \in keys : fields[key] \in Value
    BY <1>2, <2>1, KindIs
  <2>3. fields \in [keys -> Value]
    BY <1>2, <2>1, <2>2
  <2> QED
    BY <1>2, <2>3 DEF FieldsOf
<1> QED
  BY <1>1, <1>2

LEMMA FieldRead ==
  ASSUME NEW asked, NEW key, NEW b \in Seq(Byte), NEW p \in 0 .. Len(b)
  PROVE  Field(asked, key, b, p) \in Parsing(asked, b, Kind(asked, key))
<1>1. ASSUME NEW V PROVE Reading(b, p, V) \subseteq Parsing(asked, b, V)
  BY DEF Reading, Parsing
<1>2. Skipped(b, p) \subseteq Parsing(asked, b, {<< >>})
  BY DEF Skipped, Parsing
<1>3. watchman_skip_value(b, p) \in Parsing(asked, b, {<< >>})
  BY <1>2, ValueSkipped
<1>4. watchman_read_string(b, p) \in Parsing(asked, b, Seq(Byte))
  BY <1>1, StringRead
<1>5. asked # "watch" => Anywhere(b, Seq(Name)) \subseteq Parsing(asked, b, Seq(Name))
  BY DEF Anywhere, Parsing
<1>6. asked # "watch" => ReadFiles(b, p) \in Parsing(asked, b, Seq(Name))
  BY <1>5, FilesRead
<1> QED
  BY <1>3, <1>4, <1>6 DEF Field, ProjectField, QueryField, Kind

\* One field over the ones before.
LEMMA FieldSet ==
  ASSUME NEW asked, NEW fields \in FieldsOf(asked), NEW key \in Seq(Byte),
         NEW value \in Kind(asked, key)
  PROVE  [k \in DOMAIN fields \cup {key} |-> IF k = key THEN value ELSE fields[k]]
           \in FieldsOf(asked)
<1> DEFINE set == [k \in DOMAIN fields \cup {key} |-> IF k = key THEN value ELSE fields[k]]
<1>1. DOMAIN set = DOMAIN fields \cup {key}
  OBVIOUS
<1>2. \A k \in DOMAIN set : set[k] = IF k = key THEN value ELSE fields[k]
  OBVIOUS
<1>3. set = [k \in DOMAIN set |-> set[k]]
  OBVIOUS
<1> HIDE DEF set
<1>4. /\ DOMAIN fields \subseteq Seq(Byte)
      /\ \A k \in DOMAIN fields : fields[k] \in Kind(asked, k)
  BY FieldsAre
<1>5. \A k \in DOMAIN set : set[k] \in Kind(asked, k)
  BY <1>1, <1>2, <1>4
<1>6. set \in FieldsOf(asked)
  BY <1>1, <1>3, <1>4, <1>5, FieldsAre
<1> QED
  BY <1>6 DEF set

LEMMA NextFieldRead ==
  ASSUME NEW asked, NEW b \in Seq(Byte), NEW p \in Nat, NEW fields \in FieldsOf(asked)
  PROVE  NextField(asked, b, p, fields) \in Parsing(asked, b, FieldsOf(asked))
<1> DEFINE Set(key, value) ==
             [k \in DOMAIN fields \cup {key} |-> IF k = key THEN value ELSE fields[k]]
           Given(key, at) ==
             IF key = Word.error
             THEN Then(watchman_read_string(b, at), LAMBDA q, message : Error)
             ELSE Then(Field(asked, key, b, at), LAMBDA q, value : Ok(q, Set(key, value)))
<1>1. ASSUME NEW at \in (p + 1) .. Len(b), NEW key \in Seq(Byte)
      PROVE  Given(key, at) \in Parsing(asked, b, FieldsOf(asked))
  <2>1. at \in Nat /\ at \in 0 .. Len(b) /\ at \in (p + 1) .. Len(b)
    OBVIOUS
  <2>2. CASE key = Word.error
    <3>1. PICK s \in Reading(b, at, Seq(Byte)) : s = watchman_read_string(b, at)
      BY <2>1, StringRead
    <3>2. Given(key, at) = IF s.how = "ok" THEN Error ELSE s
      BY <2>2, <3>1 DEF Then
    <3> HIDE DEF Given
    <3>3. s = Error \/ s = Died \/ s.how = "ok"
      BY <3>1, OutcomesDiffer DEF Reading
    <3> QED
      BY <3>2, <3>3, OutcomesDiffer, ParsingIs
  <2>3. CASE key # Word.error
    <3>1. PICK s \in Parsing(asked, b, Kind(asked, key)) : s = Field(asked, key, b, at)
      BY <2>1, FieldRead
    <3>2. Given(key, at) = IF s.how = "ok" THEN Ok(s.ptr, Set(key, s.val)) ELSE s
      BY <2>3, <3>1 DEF Then
    <3>3. \A value \in Kind(asked, key) : Set(key, value) \in FieldsOf(asked)
      BY FieldSet
    <3> HIDE DEF Given, Set
    <3>4. CASE s.how # "ok" /\ s \in Parsing(asked, b, FieldsOf(asked))
      BY <3>2, <3>4
    <3>5. CASE \E e \in 0 .. Len(b), v \in Kind(asked, key) : s = Ok(e, v)
      <4>1. PICK e \in 0 .. Len(b), v \in Kind(asked, key) : s = Ok(e, v)
        BY <3>5
      <4>2. PICK more \in FieldsOf(asked) : more = Set(key, v)
        BY <3>3
      <4>3. Given(key, at) = Ok(e, more)
        BY <3>2, <4>1, <4>2, OutcomesDiffer
      <4> QED
        BY <4>1, <4>3, ParsingIs
    <3> QED
      BY <3>1, <3>4, <3>5, ParsingEnds
  <2> QED
    BY <2>2, <2>3
<1>2. PICK r \in Reading(b, p, Seq(Byte)) : r = watchman_read_string(b, p)
  BY StringRead
<1>3. NextField(asked, b, p, fields) = IF r.how = "ok" THEN Given(r.val, r.ptr) ELSE r
  <2>1. NextField(asked, b, p, fields) = Then(r, LAMBDA at, key : Given(key, at))
    BY <1>2 DEF NextField
  <2> HIDE DEF Given
  <2> QED
    BY <2>1 DEF Then
<1> HIDE DEF Given
<1>4. CASE r = Error \/ r = Died
  BY <1>3, <1>4, OutcomesDiffer, ParsingIs
<1>5. CASE \E e \in (p + 1) .. Len(b), v \in Seq(Byte) : r = Ok(e, v)
  BY <1>1, <1>3, <1>5, OutcomesDiffer
<1> QED
  BY <1>2, <1>4, <1>5 DEF Reading

\* One field more.
MoreFields(asked, b, r) == Then(r, LAMBDA q, before : NextField(asked, b, q, before))

LEMMA MoreFieldsRead ==
  ASSUME NEW asked, NEW b \in Seq(Byte), NEW r \in Parsing(asked, b, FieldsOf(asked))
  PROVE  MoreFields(asked, b, r) \in Parsing(asked, b, FieldsOf(asked))
<1>1. MoreFields(asked, b, r) = IF r.how = "ok" THEN NextField(asked, b, r.ptr, r.val) ELSE r
  BY DEF MoreFields, Then
<1>2. CASE r.how # "ok"
  BY <1>1, <1>2
<1>3. CASE \E e \in 0 .. Len(b), v \in FieldsOf(asked) : r = Ok(e, v)
  <2>1. PICK e \in 0 .. Len(b), v \in FieldsOf(asked) : r = Ok(e, v)
    BY <1>3
  <2>2. MoreFields(asked, b, r) = NextField(asked, b, e, v) /\ e \in Nat
    BY <1>1, <2>1, OutcomesDiffer
  <2> QED
    BY <2>2, NextFieldRead
<1> QED
  BY <1>2, <1>3, ParsingEnds

LEMMA FieldsRead ==
  ASSUME NEW asked, NEW b \in Seq(Byte), NEW p \in Nat
  PROVE  ReadFields(asked, b, p) \in Parsing(asked, b, FieldsOf(asked))
<1> DEFINE Table(f, at, count) ==
             f = [i \in 0 .. count |->
                    IF i = 0 THEN Ok(at, << >>) ELSE MoreFields(asked, b, f[i - 1])]
           Fields(at, count) == (CHOOSE f : Table(f, at, count))[count]
<1>1. ASSUME NEW at \in 0 .. Len(b), NEW count \in Nat
      PROVE  Fields(at, count) \in Parsing(asked, b, FieldsOf(asked))
  <2>1. PICK S, start : S = Parsing(asked, b, FieldsOf(asked)) /\ start = Ok(at, << >>)
    OBVIOUS
  <2>2. start \in S
    <3>1. PICK none : none = << >>
      OBVIOUS
    <3>2. none = [key \in DOMAIN none |-> none[key]] /\ DOMAIN none = {}
      BY <3>1
    <3>3. none \in FieldsOf(asked)
      BY <3>2, FieldsAre
    <3>4. Ok(at, none) \in Parsing(asked, b, FieldsOf(asked))
      BY <3>3, ParsingIs
    <3> QED
      BY <2>1, <3>1, <3>4
  <2>3. \A s \in S : MoreFields(asked, b, s) \in S
    BY <2>1, MoreFieldsRead
  <2>4. PICK step : step = [i \in 1 .. count |-> [s \in S |-> MoreFields(asked, b, s)]]
    OBVIOUS
  <2>5. \A i \in 1 .. count : \A s \in S : step[i][s] = MoreFields(asked, b, s)
    BY <2>4
  <2>6. \A i \in 1 .. count : \A s \in S : step[i][s] \in S
    BY <2>3, <2>5
  <2>7. PICK u : u = Up(count, start, step)
    OBVIOUS
  <2>8. /\ u = [i \in 0 .. count |-> IF i = 0 THEN start ELSE step[i][u[i - 1]]]
        /\ \A i \in 0 .. count : u[i] \in S
    BY <2>2, <2>6, <2>7, UpIs
  <2>9. ASSUME NEW i \in 0 .. count
        PROVE  u[i] = IF i = 0 THEN start ELSE MoreFields(asked, b, u[i - 1])
    <3>1. CASE i = 0
      BY <2>8, <3>1
    <3>2. CASE i # 0
      <4>1. i \in 1 .. count /\ i - 1 \in 0 .. count
        BY <3>2
      <4>2. u[i] = step[i][u[i - 1]] /\ u[i - 1] \in S
        BY <2>8, <3>2, <4>1
      <4> QED
        BY <2>5, <3>2, <4>1, <4>2
    <3> QED
      BY <3>1, <3>2
  <2>10. u = [i \in 0 .. count |-> u[i]]
    BY <2>8
  <2>11. Table(u, at, count)
    BY <2>1, <2>9, <2>10
  <2>12. PICK f : f = CHOOSE g : Table(g, at, count)
    OBVIOUS
  <2>13. Table(f, at, count)
    BY <2>11, <2>12
  <2>14. f[0] = start /\ \A i \in 1 .. count : f[i] = MoreFields(asked, b, f[i - 1])
    BY <2>1, <2>13
  <2>15. f[0] \in S /\ \A i \in 1 .. count : f[i - 1] \in S => f[i] \in S
    BY <2>2, <2>3, <2>14
  <2>16. \A i \in 0 .. count : f[i] \in S
    BY <2>15, StaysUp
  <2>17. f[count] \in S
    BY <2>16
  <2>18. Fields(at, count) = f[count]
    BY <2>12
  <2> QED
    BY <2>1, <2>17, <2>18
<1>2. PICK r \in Reading(b, p, Nat) : r = watchman_read_object(b, p)
  BY CountRead DEF watchman_read_object
<1>3. ReadFields(asked, b, p) = IF r.how = "ok" THEN Fields(r.ptr, r.val) ELSE r
  <2>1. ReadFields(asked, b, p) = Then(r, LAMBDA start, count : Fields(start, count))
    BY <1>2 DEF ReadFields, MoreFields
  <2> HIDE DEF Fields
  <2> QED
    BY <2>1 DEF Then
<1> HIDE DEF Fields
<1>4. CASE r = Error \/ r = Died
  BY <1>3, <1>4, OutcomesDiffer, ParsingIs
<1>5. CASE \E e \in (p + 1) .. Len(b), v \in Nat : r = Ok(e, v)
  <2>1. PICK e \in 0 .. Len(b), v \in Nat : r = Ok(e, v)
    BY <1>5
  <2>2. ReadFields(asked, b, p) = Fields(e, v)
    BY <1>3, <2>1, OutcomesDiffer
  <2> QED
    BY <1>1, <2>2
<1> QED
  BY <1>2, <1>4, <1>5 DEF Reading

\* The word a response must have.
Wanted(asked) == IF asked = "watch" THEN Word.watch ELSE Word.files

\* Whatever bytes a response has, reading it comes to an end: in the bytes or at their end,
\* with fields that hold what was wanted, under the word that was asked for among others,
\* of which only the name of a file may be one that cannot be read; or with an error; or
\* with the end of the process; or, in a query's response alone, where the pointer leaves
\* the bytes backwards (watchman_watch_project(), watchman_query() and the readers they
\* call).
THEOREM ResponseRead ==
  ASSUME NEW asked, NEW b \in Seq(Byte), NEW p \in Nat
  PROVE  Parsed(asked, b, p) \in
           Parsing(asked, b, { fields \in FieldsOf(asked) : Wanted(asked) \in DOMAIN fields })
<1> DEFINE V == { fields \in FieldsOf(asked) : Wanted(asked) \in DOMAIN fields }
<1>1. PICK r \in Parsing(asked, b, FieldsOf(asked)) : r = ReadFields(asked, b, p)
  BY FieldsRead
<1>2. Parsed(asked, b, p) =
        IF r.how = "ok" THEN IF Wanted(asked) \in DOMAIN r.val THEN Ok(r.ptr, r.val) ELSE Error
        ELSE r
  BY <1>1 DEF Parsed, Then, Wanted
<1>3. CASE r.how # "ok" /\ r \in Parsing(asked, b, V)
  BY <1>2, <1>3
<1>4. CASE \E e \in 0 .. Len(b), v \in FieldsOf(asked) : r = Ok(e, v)
  <2>1. PICK e \in 0 .. Len(b), v \in FieldsOf(asked) : r = Ok(e, v)
    BY <1>4
  <2>2. Parsed(asked, b, p) = IF Wanted(asked) \in DOMAIN v THEN Ok(e, v) ELSE Error
    BY <1>2, <2>1, OutcomesDiffer
  <2>3. Wanted(asked) \in DOMAIN v => v \in V
    OBVIOUS
  <2> HIDE DEF V
  <2>4. Parsed(asked, b, p) \in Parsing(asked, b, V)
    BY <2>2, <2>3, ParsingIs
  <2> QED
    BY <2>4 DEF V
<1> QED
  BY <1>1, <1>3, <1>4, ParsingEnds

---------------------------------------------------------------------------
(* The requests of the client.                                             *)

LEMMA Words ==
  /\ Word.watchProject \in Seq(Byte) /\ Word.query \in Seq(Byte)
  /\ Word.expression \in Seq(Byte) /\ Word.type \in Seq(Byte) /\ Word.f \in Seq(Byte)
  /\ Word.fields \in Seq(Byte) /\ Word.name \in Seq(Byte) /\ Word.relativeRoot \in Seq(Byte)
BY WordAssumption DEF WordAssumption

LEMMA Written ==
  /\ \A num \in Int : /\ watchman_write_array(num) \in Pieces
                      /\ watchman_write_object(num) \in Pieces
  /\ \A string \in Seq(Byte) : watchman_write_string(string) \in Pieces
BY CountsWritten, StringWritten DEF Pieces

LEMMA WatchRoomy ==
  ASSUME NEW d \in Dir
  PROVE  WatchProject[d] \in Roomy
<1>1. Path[d] \in Seq(Byte)
  BY WordAssumption DEF WordAssumption
<1>2. PICK a \in Pieces, s \in Pieces, p \in Pieces :
        /\ a = watchman_write_array(2) /\ s = watchman_write_string(Word.watchProject)
        /\ p = watchman_write_string(Path[d])
  <2>1. PICK n \in Int : n = 2
    OBVIOUS
  <2> QED
    BY <1>1, <2>1, Words, Written
<1>3. WatchProject[d] = Request(a \o s \o p)
  BY <1>2 DEF WatchProject
<1> QED
  BY <1>3, PiecesAre, RequestRoomy

LEMMA QueryRoomy ==
  ASSUME NEW project \in FieldsOf("watch"), Word.watch \in DOMAIN project
  PROVE  Query(project) \in Roomy
<1> DEFINE inner == Word.relativePath \in DOMAIN project
           counts(n) == watchman_write_array(n)
<1>1. /\ project[Word.watch] \in Seq(Byte)
      /\ inner => project[Word.relativePath] \in Seq(Byte)
  BY FieldsAre DEF Kind
<1>2. PICK p1 \in Pieces, p2 \in Pieces, p3 \in Pieces, p4 \in Pieces :
        /\ p1 = watchman_write_array(3) /\ p2 = watchman_write_string(Word.query)
        /\ p3 = watchman_write_string(project[Word.watch])
        /\ p4 = watchman_write_object(IF inner THEN 3 ELSE 2)
  <2>1. PICK n \in Int, k \in Int : n = 3 /\ k = IF inner THEN 3 ELSE 2
    OBVIOUS
  <2> QED
    BY <1>1, <2>1, Words, Written
<1>3. PICK p5 \in Pieces, p6 \in Pieces, p7 \in Pieces, p8 \in Pieces :
        /\ p5 = watchman_write_string(Word.expression)
        /\ p6 = watchman_write_array(2) /\ p7 = watchman_write_string(Word.type)
        /\ p8 = watchman_write_string(Word.f)
  <2>1. PICK n \in Int : n = 2
    OBVIOUS
  <2> QED
    BY <2>1, Words, Written
<1>4. PICK p9 \in Pieces, p10 \in Pieces, p11 \in Pieces :
        /\ p9 = watchman_write_string(Word.fields)
        /\ p10 = watchman_write_array(1) /\ p11 = watchman_write_string(Word.name)
  <2>1. PICK n \in Int : n = 1
    OBVIOUS
  <2> QED
    BY <2>1, Words, Written
<1>5. PICK last \in Pieces :
        last = IF inner THEN watchman_write_string(Word.relativeRoot)
                               \o watchman_write_string(project[Word.relativePath])
               ELSE << >>
  <2>1. CASE inner
    BY <1>1, <2>1, Words, Written, PiecesAre
  <2>2. CASE ~ inner
    BY <2>2, PiecesAre
  <2> QED
    BY <2>1, <2>2
<1>6. Query(project) =
        Request(p1 \o p2 \o p3 \o p4 \o p5 \o p6 \o p7 \o p8 \o p9 \o p10 \o p11 \o last)
  BY <1>2, <1>3, <1>4, <1>5 DEF Query
<1>7. p1 \o p2 \o p3 \o p4 \o p5 \o p6 \o p7 \o p8 \o p9 \o p10 \o p11 \o last \in Pieces
  BY PiecesAre
<1> QED
  BY <1>6, <1>7, RequestRoomy

---------------------------------------------------------------------------
(* Before a request has failed, the header and the payload's size are those *)
(* of the response at the front of the stream.                              *)

Fresh == failures = 0 /\ pc # "dead"

Sized ==
  Fresh =>
    /\ pc \in {"peek", "read"} => arrived >= 3 /\ stream[3] \in DOMAIN Width /\ head = HeadSize
    /\ pc = "read" => arrived >= head /\ size = PayloadSize

Connected == pc \in {"send", "sniff", "peek", "read"} => socket # "none"

Inv == TypeOK /\ Connected /\ Sized /\ Aligned

---------------------------------------------------------------------------

LEMMA WidthType ==
  /\ DOMAIN Width = 3 .. 6
  /\ \A m \in DOMAIN Width : Width[m] \in Nat \ {0}
BY DEF INT8, INT64

HeadSizes == {0} \cup {3 + Width[m] : m \in DOMAIN Width}

LEMMA HeadType == ASSUME TypeOK PROVE head \in Nat
<1>1. head \in HeadSizes
  BY DEF TypeOK, HeadSizes
<1>2. HeadSizes \subseteq Nat
  BY WidthType DEF HeadSizes
<1> QED BY <1>1, <1>2

\* A part of the front of a response shows its first bytes.
LEMMA FrontOf ==
  ASSUME NEW b \in Seq(Byte), NEW n \in 0 .. Len(b), NEW m \in 0 .. n
  PROVE  /\ SubSeq(b, 1, n) \in Seq(Byte)
         /\ Len(SubSeq(b, 1, n)) = n
         /\ \A i \in 1 .. n : SubSeq(b, 1, n)[i] = b[i]
         /\ SubSeq(SubSeq(b, 1, n), 1, m) = SubSeq(b, 1, m)
<1>1. SubSeq(b, 1, n) \in Seq(Byte) /\ Len(SubSeq(b, 1, n)) = n
  OBVIOUS
<1>2. \A i \in 1 .. n : SubSeq(b, 1, n)[i] = b[i]
  OBVIOUS
<1>3. SubSeq(SubSeq(b, 1, n), 1, m) = SubSeq(b, 1, m)
  OBVIOUS
<1> QED BY <1>1, <1>2, <1>3

LEMMA Rest ==
  ASSUME NEW b \in Seq(Byte), NEW n \in 0 .. Len(b)
  PROVE  /\ SubSeq(b, n + 1, Len(b)) \in Seq(Byte)
         /\ Len(SubSeq(b, n + 1, Len(b))) = Len(b) - n
OBVIOUS

LEMMA InitInv == Init => Inv
<1> SUFFICES ASSUME Init PROVE Inv
  OBVIOUS
<1>1. TypeOK
  <2>1. stream \in Seq(Byte) /\ arrived \in 0 .. Len(stream)
    BY DEF Init
  <2>2. head \in {0} \cup {3 + Width[m] : m \in DOMAIN Width}
    BY DEF Init
  <2>3. failures \in 0 .. Patience
    BY DEF Init
  <2>4. pc = "idle" /\ dir \in Dir /\ stage = "watch" /\ sockname = FALSE /\ server = FALSE
        /\ socket = "none" /\ garbage = FALSE
    BY DEF Init
  <2> QED BY <2>1, <2>2, <2>3, <2>4 DEF TypeOK
<1>2. Sized
  BY DEF Init, Sized
<1>3. Aligned
  BY DEF Init, Aligned, Waiting
<1>4. Connected
  BY DEF Init, Connected
<1> QED BY <1>1, <1>2, <1>3, <1>4 DEF Inv

\* After a failure Sized and Aligned claim nothing.
LEMMA Stale ==
  ASSUME failures' > 0
  PROVE  Sized' /\ Aligned'
BY DEF Sized, Aligned, Fresh

LEMMA TypeFailed ==
  ASSUME TypeOK, Failed, pc \notin {"idle", "dead"}, socket' \in {"none", "open", "broken"},
         server' = server, stream' \in Seq(Byte), arrived' \in 0 .. Len(stream')
  PROVE  TypeOK' /\ failures' > 0
<1>1. failures \in 0 .. Patience /\ failures < Patience
  BY DEF TypeOK
<1>2. failures' \in 0 .. Patience /\ failures' > 0
  BY <1>1 DEF Failed
<1>3. pc' \in {"idle", "dead"} /\ garbage' \in BOOLEAN
  BY DEF TypeOK, Failed
<1>4. head' \in {0} \cup {3 + Width[m] : m \in DOMAIN Width}
  BY DEF TypeOK, Failed
<1> QED BY <1>2, <1>3, <1>4 DEF TypeOK, Failed

LEMMA ConsumeType ==
  ASSUME TypeOK, NEW n \in Nat, n <= arrived, Consume(n)
  PROVE  /\ socket' = socket /\ server' = server
         /\ stream' \in Seq(Byte) /\ arrived' \in 0 .. Len(stream')
<1>1. n \in 0 .. Len(stream) /\ stream \in Seq(Byte) /\ arrived \in 0 .. Len(stream)
  BY DEF TypeOK
<1>2. stream' \in Seq(Byte) /\ Len(stream') = Len(stream) - n
  BY <1>1, Rest DEF Consume
<1> QED BY <1>1, <1>2 DEF Consume

LEMMA FailInv ==
  ASSUME Inv, SendFails \/ SniffFails \/ PeekFails \/ ReadFails \/ Interrupted
  PROVE  Inv'
<1>1. /\ TypeOK /\ Failed /\ pc \notin {"idle", "dead"}
      /\ socket' \in {"none", "open", "broken"} /\ server' = server
      /\ stream' \in Seq(Byte) /\ arrived' \in 0 .. Len(stream')
  <2>1. TypeOK
    BY DEF Inv
  <2>2. CASE UNCHANGED conn /\ Failed /\ pc \notin {"idle", "dead"}
    BY <2>1, <2>2 DEF TypeOK, conn
  <2>3. CASE Consume(arrived) /\ Failed /\ pc \notin {"idle", "dead"}
    BY <2>1, <2>3, ConsumeType DEF TypeOK
  <2> QED BY <2>2, <2>3 DEF SendFails, SniffFails, PeekFails, ReadFails, Interrupted
<1>2. Connected'
  BY <1>1 DEF Failed, Connected
<1> QED BY <1>1, <1>2, TypeFailed, Stale DEF Inv

---------------------------------------------------------------------------
(* The client's other steps.                                               *)

LEMMA ScanInv == ASSUME NEW d \in Dir, Inv, Scan(d) PROVE Inv'
<1>1. TypeOK'
  BY DEF Inv, TypeOK, Scan
<1>2. Connected'
  BY DEF Scan, Connected
<1>3. Sized'
  BY DEF Scan, Sized
<1>4. Aligned'
  BY DEF Inv, Aligned, Waiting, Scan
<1> QED BY <1>1, <1>2, <1>3, <1>4 DEF Inv

LEMMA ConnectInv == ASSUME Inv, Connect PROVE Inv'
<1>1. TypeOK'
  BY DEF Inv, TypeOK, Connect
<1>2. Connected'
  BY DEF Connect, Connected
<1>3. Sized'
  BY DEF Connect, Sized
<1>4. Aligned'
  BY DEF Inv, Aligned, Waiting, Connect
<1> QED BY <1>1, <1>2, <1>3, <1>4 DEF Inv

LEMMA SendInv == ASSUME Inv, Send PROVE Inv'
<1>1. TypeOK'
  BY DEF Inv, TypeOK, Send
<1>2. Connected'
  BY DEF Send, Connected
<1>3. Sized'
  BY DEF Send, Sized
<1>4. Aligned'
  <2> SUFFICES ASSUME failures = 0 PROVE Aligned'
    BY DEF Aligned, Send
  <2>1. requests = << >> /\ stream = << >>
    BY DEF Inv, Aligned, Waiting, Send
  <2>2. requests' = <<request.payload>>
    BY <2>1 DEF Send
  <2> QED BY <2>1, <2>2 DEF Send, Aligned, Waiting
<1> QED BY <1>1, <1>2, <1>3, <1>4 DEF Inv

LEMMA SniffInv == ASSUME Inv, Sniff PROVE Inv'
<1>1. TypeOK'
  <2>1. head' \in {0} \cup {3 + Width[m] : m \in DOMAIN Width}
    BY DEF Sniff, HeadSize
  <2> QED BY <2>1 DEF Inv, TypeOK, Sniff, conn
<1>2. Connected'
  BY DEF Inv, Sniff, conn, Connected
<1>3. Sized'
  BY DEF Sniff, Sized, Fresh, HeadSize, conn
<1>4. Aligned'
  BY DEF Inv, Aligned, Waiting, Sniff, conn
<1> QED BY <1>1, <1>2, <1>3, <1>4 DEF Inv

LEMMA PeekInv == ASSUME Inv, Peek PROVE Inv'
<1>0. pc' \in {"read", "dead"} /\ (pc' = "read" => size' \in Nat)
  BY DEF Peek
<1>1. TypeOK'
  BY <1>0 DEF Inv, TypeOK, Peek, conn
<1>2. Connected'
  BY <1>0 DEF Inv, Peek, conn, Connected
<1>3. Sized'
  BY <1>0 DEF Inv, Peek, Sized, Fresh, HeadSize, PayloadSize, conn
<1>4. Aligned'
  BY <1>0 DEF Inv, Aligned, Waiting, Peek, conn
<1> QED BY <1>1, <1>2, <1>3, <1>4 DEF Inv

\* The size is that of the response, the last one given, which is waited for.
LEMMA SizeIs ==
  ASSUME Inv, Fresh, pc \in {"peek", "read"}, arrived >= head
  PROVE  /\ requests = << >>
         /\ \E reply \in Reply :
              /\ PayloadSize = Len(reply.bytes) /\ reply.bytes \in Seq(Byte)
              /\ \/ stream = reply.bytes
                 \/ arrived < Len(reply.bytes) /\ stream = SubSeq(reply.bytes, 1, arrived)
              /\ Responds(request.payload, reply) /\ said = reply.says
<1>1. arrived >= 3 /\ head = HeadSize
  BY DEF Inv, Sized
<1>2. arrived \in 0 .. Len(stream) /\ head \in Nat
  BY HeadType DEF Inv, TypeOK
<1>3. stream # << >>
  BY <1>1, <1>2
<1>4. requests = << >>
  BY <1>3 DEF Inv, Aligned, Fresh
<1>5. PICK reply \in Reply :
        /\ \/ stream = reply.bytes
           \/ arrived < Len(reply.bytes) /\ stream = SubSeq(reply.bytes, 1, arrived)
        /\ Responds(request.payload, reply) /\ said = reply.says
  BY <1>3 DEF Inv, Aligned, Fresh
<1>6. reply.bytes \in Seq(Byte)
  BY <1>5, ReplyAssumption DEF ReplyAssumption
<1>7. stream[3] = reply.bytes[3] /\ SubSeq(stream, 1, head) = SubSeq(reply.bytes, 1, head)
  <2>1. CASE stream = reply.bytes
    BY <2>1
  <2>2. CASE arrived < Len(reply.bytes) /\ stream = SubSeq(reply.bytes, 1, arrived)
    <3>1. arrived \in 0 .. Len(reply.bytes) /\ head \in 0 .. arrived /\ 3 \in 1 .. arrived
      BY <1>1, <1>2, <1>6, <2>2
    <3> QED BY <3>1, <1>6, <2>2, FrontOf
  <2> QED BY <1>5, <2>1, <2>2
<1>8. PayloadSize = Len(reply.bytes)
  BY <1>1, <1>5, <1>7, ReplyAssumption DEF ReplyAssumption, HeadSize, PayloadSize
<1> QED BY <1>4, <1>5, <1>6, <1>8

\* What is read then is the whole response.
LEMMA Whole ==
  ASSUME Inv, Fresh, pc = "read", arrived >= size
  PROVE  /\ requests = << >> /\ size = Len(stream) /\ head = HeadSize
         /\ \E reply \in Reply : /\ stream = reply.bytes /\ said = reply.says
                                /\ Responds(request.payload, reply)
<1>1. head = HeadSize /\ arrived >= head /\ size = PayloadSize
  BY DEF Inv, Sized
<1>2. requests = << >>
  BY <1>1, SizeIs
<1>3. PICK reply \in Reply :
        /\ size = Len(reply.bytes) /\ reply.bytes \in Seq(Byte)
        /\ \/ stream = reply.bytes
           \/ arrived < Len(reply.bytes) /\ stream = SubSeq(reply.bytes, 1, arrived)
        /\ Responds(request.payload, reply) /\ said = reply.says
  BY <1>1, SizeIs
<1>4. arrived \in Nat
  BY DEF Inv, TypeOK
<1>5. ~ arrived < Len(reply.bytes)
  BY <1>3, <1>4
<1> QED BY <1>1, <1>2, <1>3, <1>5

LEMMA ReadInv == ASSUME Inv, Read PROVE Inv'
<1>0. pc' \in {"send", "dead", "idle"} /\ stage' \in {"query", stage}
  BY DEF Read
<1>1. size \in Nat /\ size <= arrived /\ Consume(size)
  BY DEF Inv, TypeOK, Read
<1>2. TypeOK'
  <2>1. /\ socket' = socket /\ server' = server
        /\ stream' \in Seq(Byte) /\ arrived' \in 0 .. Len(stream')
    BY <1>1, ConsumeType DEF Inv
  <2> QED BY <1>0, <2>1 DEF Inv, TypeOK, Read
<1>3. Connected'
  BY <1>0, <1>1 DEF Inv, Connected, Read, Consume
<1>4. Sized'
  BY <1>0 DEF Sized
<1>5. Aligned'
  <2> SUFFICES ASSUME failures = 0 PROVE Aligned'
    BY DEF Aligned, Read
  <2>1. requests = << >> /\ size = Len(stream)
    BY Whole DEF Fresh, Read
  <2>2. stream \in Seq(Byte) /\ Len(stream) \in 0 .. Len(stream)
    BY DEF Inv, TypeOK
  <2>3. stream' \in Seq(Byte) /\ Len(stream') = Len(stream) - Len(stream)
    BY <1>1, <2>1, <2>2, Rest DEF Consume
  <2>4. stream' = << >>
    BY <2>2, <2>3
  <2>5. requests' = << >>
    BY <1>1, <2>1 DEF Consume
  <2> QED BY <1>0, <2>4, <2>5 DEF Aligned, Waiting
<1> QED BY <1>2, <1>3, <1>4, <1>5 DEF Inv

LEMMA CollectInv == ASSUME Inv, Collect PROVE Inv'
<1>1. TypeOK'
  BY DEF Inv, TypeOK, Collect, conn
<1>2. Connected' /\ Sized' /\ Aligned'
  BY DEF Collect, Connected, Sized, Fresh, Aligned
<1> QED BY <1>1, <1>2 DEF Inv

LEMMA RestartInv == ASSUME Inv, Restart PROVE Inv'
<1>1. TypeOK'
  <2>1. stream' \in Seq(Byte) /\ arrived' \in 0 .. Len(stream')
    BY DEF Restart
  <2>2. head' \in {0} \cup {3 + Width[m] : m \in DOMAIN Width} /\ failures' \in 0 .. Patience
    BY DEF Restart
  <2>3. pc' = "idle" /\ stage' = "watch" /\ sockname' = FALSE /\ socket' = "none"
        /\ garbage' = FALSE /\ dir' = dir /\ server' = server
    BY DEF Restart
  <2> QED BY <2>1, <2>2, <2>3 DEF Inv, TypeOK
<1>2. Connected' /\ Sized' /\ Aligned'
  BY DEF Restart, Connected, Sized, Aligned, Waiting
<1> QED BY <1>1, <1>2 DEF Inv

---------------------------------------------------------------------------
(* The environment's steps.                                                *)

LEMMA ServeInv == ASSUME Inv, Serve PROVE Inv'
<1>1. PICK reply \in Reply : /\ Responds(Head(requests), reply)
                             /\ stream' = stream \o reply.bytes
                             /\ said' = reply.says
  BY DEF Serve
<1>2. reply.bytes \in Seq(Byte)
  BY <1>1, ReplyAssumption DEF ReplyAssumption
<1>3. UNCHANGED <<pc, dir, stage, request, sockname, head, size, garbage, failures,
                  socket, server, arrived>>
  BY DEF Serve, client
<1>4. TypeOK'
  <2>1. stream' \in Seq(Byte) /\ arrived' \in 0 .. Len(stream')
    BY <1>1, <1>2, <1>3 DEF Inv, TypeOK
  <2> QED BY <1>3, <2>1 DEF Inv, TypeOK
<1>5. Connected'
  BY <1>3 DEF Inv, Connected
<1>6. Fresh => Sized' /\ Aligned'
  <2> SUFFICES ASSUME Fresh PROVE Sized' /\ Aligned'
    OBVIOUS
  <2>1. Waiting /\ requests = <<request.payload>> /\ stream = << >>
    BY DEF Inv, Aligned, Fresh, Serve
  <2>2. pc \notin {"peek", "read"}
    BY <2>1 DEF Inv, Sized, TypeOK
  <2>3. stream' = reply.bytes
    BY <1>1, <1>2, <2>1
  <2>4. requests' = << >> /\ Responds(request'.payload, reply)
    BY <1>1, <1>3, <2>1 DEF Serve
  <2> QED BY <1>1, <1>3, <2>1, <2>2, <2>3, <2>4 DEF Sized, Aligned, Waiting
<1>7. ~ Fresh => Sized' /\ Aligned'
  BY <1>3 DEF Sized, Aligned, Fresh
<1> QED BY <1>4, <1>5, <1>6, <1>7 DEF Inv

LEMMA ArriveInv == ASSUME Inv, Arrive PROVE Inv'
<1>1. arrived \in Nat /\ arrived' \in 0 .. Len(stream) /\ arrived < arrived'
  <2>1. arrived \in 0 .. Len(stream) /\ Len(stream) \in Nat
    BY DEF Inv, TypeOK
  <2>2. PICK n \in Cuts \cup {Len(stream)} : arrived < n /\ n <= Len(stream) /\ arrived' = n
    BY DEF Arrive
  <2>3. n \in Nat
    BY <2>1, <2>2
  <2> QED BY <2>1, <2>2, <2>3
<1>2. UNCHANGED <<pc, dir, stage, request, sockname, head, size, garbage, failures,
                  socket, server, requests, stream, said>>
  BY DEF Arrive, client
<1>3. TypeOK'
  BY <1>1, <1>2 DEF Inv, TypeOK
<1>4. Connected'
  BY <1>2 DEF Inv, Connected
<1>5. Sized'
  BY <1>1, <1>2, HeadType DEF Inv, Sized, Fresh, HeadSize, PayloadSize
<1>6. Aligned'
  <2> SUFFICES ASSUME Fresh PROVE Aligned'
    BY <1>2 DEF Aligned, Fresh
  <2>1. stream # << >>
    BY <1>1
  <2>2. PICK reply \in Reply :
          /\ \/ stream = reply.bytes
             \/ arrived < Len(reply.bytes) /\ stream = SubSeq(reply.bytes, 1, arrived)
          /\ Responds(request.payload, reply) /\ said = reply.says
          /\ Waiting /\ requests = << >>
    BY <2>1 DEF Inv, Aligned, Fresh
  <2>3. stream = reply.bytes
    <3> SUFFICES ASSUME arrived < Len(reply.bytes), stream = SubSeq(reply.bytes, 1, arrived)
                 PROVE  FALSE
      BY <2>2
    <3>1. reply.bytes \in Seq(Byte) /\ arrived \in 0 .. Len(reply.bytes)
      BY <1>1, <2>2, ReplyAssumption DEF ReplyAssumption
    <3>2. Len(stream) = arrived
      BY <3>1, FrontOf
    <3> QED BY <1>1, <3>2
  <2> QED BY <1>2, <2>2, <2>3 DEF Aligned, Waiting
<1> QED BY <1>3, <1>4, <1>5, <1>6 DEF Inv

LEMMA ServerEndsInv == ASSUME Inv, ServerEnds PROVE Inv'
<1>1. UNCHANGED <<pc, dir, stage, request, sockname, head, size, garbage, failures, arrived,
                  said>>
  BY DEF ServerEnds, client
<1>2. /\ stream \in Seq(Byte) /\ arrived \in 0 .. Len(stream)
      /\ stream' = SubSeq(stream, 1, arrived)
  BY DEF Inv, TypeOK, ServerEnds
<1>3. /\ stream' \in Seq(Byte) /\ Len(stream') = arrived
      /\ \A i \in 1 .. arrived : stream'[i] = stream[i]
      /\ \A m \in 0 .. arrived : SubSeq(stream', 1, m) = SubSeq(stream, 1, m)
  BY <1>2, FrontOf
<1>4. TypeOK'
  <2>1. arrived' \in 0 .. Len(stream')
    BY <1>1, <1>2, <1>3
  <2>2. socket' \in {"none", "open", "broken"} /\ server' = FALSE
    BY DEF Inv, TypeOK, ServerEnds
  <2> QED BY <1>1, <1>3, <2>1, <2>2 DEF Inv, TypeOK
<1>5. Connected'
  BY <1>1 DEF Inv, Connected, ServerEnds
<1>6. Sized'
  <2> SUFFICES ASSUME Fresh PROVE Sized'
    BY <1>1 DEF Sized, Fresh
  <2>1. CASE pc \in {"peek", "read"}
    <3>1. arrived >= 3 /\ stream[3] \in DOMAIN Width /\ head = HeadSize
      BY <2>1 DEF Inv, Sized
    <3>2. stream'[3] = stream[3]
      BY <1>2, <1>3, <3>1
    <3>3. pc = "read" => arrived >= head /\ size = PayloadSize
      BY DEF Inv, Sized
    <3>4. pc = "read" => SubSeq(stream', 1, head) = SubSeq(stream, 1, head)
      <4>1. pc = "read" => head \in 0 .. arrived
        BY <1>2, <3>3, HeadType DEF Inv
      <4> QED BY <1>3, <4>1
    <3> QED BY <1>1, <3>1, <3>2, <3>3, <3>4 DEF Sized, HeadSize, PayloadSize
  <2>2. CASE pc \notin {"peek", "read"}
    BY <1>1, <2>2 DEF Sized
  <2> QED BY <2>1, <2>2
<1>7. Aligned'
  <2> SUFFICES ASSUME Fresh PROVE Aligned'
    BY <1>1 DEF Aligned, Fresh
  <2>0. requests' = << >> /\ (Waiting => socket' = "broken")
    BY DEF Inv, TypeOK, Connected, Waiting, ServerEnds
  <2>1. CASE stream = << >>
    <3>1. stream' = << >>
      BY <1>2, <1>3, <2>1
    <3> QED BY <1>1, <2>0, <3>1 DEF Aligned, Waiting
  <2>2. CASE stream # << >>
    <3>1. PICK reply \in Reply :
            /\ \/ stream = reply.bytes
               \/ arrived < Len(reply.bytes) /\ stream = SubSeq(reply.bytes, 1, arrived)
            /\ Responds(request.payload, reply) /\ said = reply.says /\ Waiting
      BY <2>2 DEF Inv, Aligned, Fresh
    <3>2. reply.bytes \in Seq(Byte) /\ arrived \in 0 .. Len(reply.bytes)
      BY <1>2, <3>1, ReplyAssumption DEF ReplyAssumption
    <3>3. stream' = SubSeq(reply.bytes, 1, arrived)
      <4>1. SubSeq(SubSeq(reply.bytes, 1, arrived), 1, arrived) = SubSeq(reply.bytes, 1, arrived)
        BY <3>2, FrontOf
      <4> QED BY <1>2, <3>1, <4>1
    <3>4. arrived = Len(reply.bytes) => stream' = reply.bytes
      BY <3>2, <3>3
    <3>5. \/ stream' = reply.bytes
          \/ arrived < Len(reply.bytes) /\ stream' = SubSeq(reply.bytes, 1, arrived)
      BY <3>2, <3>3, <3>4
    <3> QED BY <1>1, <2>0, <3>1, <3>5 DEF Aligned, Waiting
  <2> QED BY <2>1, <2>2
<1> QED BY <1>4, <1>5, <1>6, <1>7 DEF Inv

LEMMA ServerStartsInv == ASSUME Inv, ServerStarts PROVE Inv'
<1>1. TypeOK'
  BY DEF Inv, TypeOK, ServerStarts, client
<1>2. Connected' /\ Sized' /\ Aligned'
  BY DEF Inv, Connected, Sized, Fresh, HeadSize, PayloadSize, Aligned, Waiting,
         ServerStarts, client
<1> QED BY <1>1, <1>2 DEF Inv

---------------------------------------------------------------------------

LEMMA StutterInv == ASSUME Inv, UNCHANGED vars PROVE Inv'
<1>1. TypeOK'
  BY DEF Inv, TypeOK, vars, conn
<1>2. Connected' /\ Sized' /\ Aligned'
  BY DEF Inv, Connected, Sized, Fresh, HeadSize, PayloadSize, Aligned, Waiting, vars, conn
<1> QED BY <1>1, <1>2 DEF Inv

LEMMA NextInv == Inv /\ [Next]_vars => Inv'
<1> SUFFICES ASSUME Inv, [Next]_vars PROVE Inv'
  OBVIOUS
<1>1. CASE \E d \in Dir : Scan(d)
  BY <1>1, ScanInv
<1>2. CASE Client
  BY <1>2, ConnectInv, SendInv, SniffInv, PeekInv, ReadInv, FailInv DEF Client
<1>3. CASE Interrupted
  BY <1>3, FailInv
<1>4. CASE Collect \/ Restart
  BY <1>4, CollectInv, RestartInv
<1>5. CASE Environment
  BY <1>5, ServeInv, ArriveInv, ServerEndsInv, ServerStartsInv DEF Environment
<1>6. CASE UNCHANGED vars
  BY <1>6, StutterInv
<1> QED BY <1>1, <1>2, <1>3, <1>4, <1>5, <1>6 DEF Next

\* The variables keep their types: no part of a response is ever counted as
\* arrived or consumed that has not come (watchman_send()).
THEOREM TypeCorrect == Spec => []TypeOK
<1>1. Inv => TypeOK
  BY DEF Inv
<1> QED BY <1>1, InitInv, NextInv, PTL DEF Spec

\* The request the client has composed lies within its room and was never written past
\* it; what is read of a response, of which a query is made, is TypeOK's to say.
Composed == TypeOK /\ request \in Roomy

LEMMA InitComposed == Init => Composed
<1>1. Request(<< >>) \in Roomy
  BY PiecesAre, RequestRoomy
<1> QED
  BY <1>1, InitInv DEF Inv, Init, Composed

LEMMA ReadComposed == ASSUME Composed, Read PROVE request' \in Roomy
<1>1. stream \in Seq(Byte) /\ size \in 0 .. Len(stream)
  BY DEF Composed, TypeOK, Read
<1>2. head \in Nat
  BY HeadType DEF Composed
<1>3. PICK pdu, got :
        /\ pdu = SubSeq(stream, 1, size)
        /\ got \in Outcomes(Parsed(stage, pdu, head))
        /\ request' = IF got.how = "ok" /\ stage = "watch" THEN Query(got.val) ELSE request
  BY DEF Read
<1>4. CASE got.how = "ok" /\ stage = "watch"
  <2>1. pdu \in Seq(Byte)
    BY <1>1, <1>3
  <2>2. PICK taken \in Parsing(stage, pdu, { fields \in FieldsOf(stage) :
                                              Wanted(stage) \in DOMAIN fields }) :
          taken = Parsed(stage, pdu, head)
    BY <1>2, <2>1, ResponseRead
  <2>3. PICK e, project :
          project \in FieldsOf(stage) /\ Wanted(stage) \in DOMAIN project /\ got = Ok(e, project)
    <3>1. taken.how # "wild"
      BY <1>4, <2>2, OutcomesDiffer DEF Parsing
    <3>2. got = taken
      BY <1>3, <2>2, <3>1 DEF Outcomes
    <3> QED
      BY <1>4, <2>2, <3>2, OutcomesDiffer DEF Parsing
  <2>4. project \in FieldsOf("watch") /\ Word.watch \in DOMAIN project
    BY <1>4, <2>3 DEF Wanted
  <2>5. got.val = project
    BY <2>3, OutcomesDiffer
  <2> QED
    BY <1>3, <1>4, <2>4, <2>5, QueryRoomy
<1>5. CASE ~ (got.how = "ok" /\ stage = "watch")
  BY <1>3, <1>5 DEF Composed
<1> QED
  BY <1>4, <1>5

LEMMA NextComposed == Composed /\ [Next]_vars => request' \in Roomy
<1> SUFFICES ASSUME Composed, [Next]_vars PROVE request' \in Roomy
  OBVIOUS
<1>1. ASSUME NEW d \in Dir, Scan(d) PROVE request' \in Roomy
  BY <1>1, WatchRoomy DEF Scan
<1>2. CASE Read
  BY <1>2, ReadComposed
<1>3. CASE Restart
  BY <1>3, PiecesAre, RequestRoomy DEF Restart
<1>4. CASE \/ Connect \/ Send \/ SendFails \/ Sniff \/ SniffFails \/ Peek \/ PeekFails
           \/ ReadFails \/ Interrupted \/ Collect
  <2>1. request' = request
    BY <1>4 DEF Connect, Send, SendFails, Sniff, SniffFails, Peek, PeekFails, ReadFails,
                Interrupted, Collect, Failed
  <2> QED
    BY <2>1 DEF Composed
<1>5. CASE Environment \/ UNCHANGED vars
  <2>1. request' = request
    BY <1>5 DEF Environment, Serve, Arrive, ServerEnds, ServerStarts, client, vars
  <2> QED
    BY <2>1 DEF Composed
<1> QED
  BY <1>1, <1>2, <1>3, <1>4, <1>5 DEF Next, Client

\* No request is ever written past the room it has, however long the directory's path
\* and whatever project the server says it lies in (watchman_append() and its callers).
THEOREM NeverPastItsRoom == Spec => []RequestFits
<1>1. Inv /\ Composed /\ [Next]_vars => Composed'
  BY NextInv, NextComposed DEF Inv, Composed
<1>2. Composed => RequestFits
  BY DEF Composed, Roomy, RequestFits
<1> QED
  BY <1>1, <1>2, InitInv, InitComposed, NextInv, PTL DEF Spec

\* Until a request fails on the socket, requests and responses stay in step:
\* what watchman_send() hands back is the response to what it sent, whole,
\* whatever the server responds and in whatever pieces that arrives.
THEOREM InStep == Spec => []Aligned
<1>1. Inv => Aligned
  BY DEF Inv
<1> QED BY <1>1, InitInv, NextInv, PTL DEF Spec

---------------------------------------------------------------------------
(* What a scan gives is what the server said, if each response by itself is *)
(* taken as it is meant.                                                   *)

\* What a response gives that is read by itself, whole.
Taken(asked, reply) == Parsed(asked, reply.bytes, 3 + Width[reply.bytes[3]])

\* That is what it says of the directory; the process only ends of its having no files, and
\* reading it stays within it.
Meant(asked, d, reply) ==
  LET taken == Taken(asked, reply)
  IN  /\ taken.how # "wild"
      /\ taken.how = "died" => reply.says.gives = Found(<< >>)
      /\ taken.how = "error" => reply.says = [about |-> d, gives |-> Refused]
      /\ taken.how = "ok" /\ asked = "query" =>
           reply.says = [about |-> d, gives |-> Found(taken.val[Word.files])]

\* The queries for the files of a directory, one for each project that the server may say
\* it lies in.
Queries(d) ==
  LET replies == { reply \in Reply : Responds(WatchProject[d].payload, reply) }
  IN  { Query(Taken("watch", reply).val).payload :
          reply \in { r \in replies : Taken("watch", r).how = "ok" } }

\* Read whole and by itself, every response to one of the two requests of a scan is taken
\* as it is meant.
ReadAsMeant ==
  \A d \in Dir, reply \in Reply :
    /\ Responds(WatchProject[d].payload, reply) => Meant("watch", d, reply)
    /\ \A query \in Queries(d) : Responds(query, reply) => Meant("query", d, reply)

Asking == pc \in {"connect", "send", "sniff", "peek", "read"}

\* The request is about the directory scanned.
Posed ==
  failures = 0 /\ Asking =>
    \/ stage = "watch" /\ request = WatchProject[dir]
    \/ stage = "query" /\ request.payload \in Queries(dir)

\* What is left of a scan before a request has failed.
Ended ==
  /\ pc = "connect" => socket = "none"
  /\ garbage => failures > 0
  /\ pc = "dead" /\ failures = 0 => requests = << >>

Faithful == Posed /\ Ended /\ Truthful /\ Survives

LEMMA InitFaithful == Init => Faithful
BY DEF Init, Faithful, Posed, Asking, Ended, Truthful, Survives

LEMMA FailFaithful ==
  ASSUME Inv, Faithful, SendFails \/ SniffFails \/ PeekFails \/ ReadFails \/ Interrupted
  PROVE  Faithful'
<1>1. Failed /\ failures \in Nat
  BY DEF Inv, TypeOK, SendFails, SniffFails, PeekFails, ReadFails, Interrupted
<1>2. failures' > 0 /\ failures' # 0 /\ pc' \in {"idle", "dead"}
  BY <1>1 DEF Failed
<1> QED
  BY <1>2 DEF Faithful, Posed, Ended, Truthful, Survives

LEMMA PeekFaithful == ASSUME Inv, Faithful, Peek PROVE Faithful'
<1>1. UNCHANGED <<dir, stage, request, socket, requests, said, answer, garbage, failures>>
  BY DEF Peek, conn
<1>2. CASE failures # 0
  BY <1>1, <1>2 DEF Faithful, Posed, Ended, Truthful, Survives, Peek, Inv, TypeOK
<1>3. CASE failures = 0
  <2>1. Fresh /\ arrived >= head
    BY <1>3 DEF Fresh, Peek
  <2>2. PICK reply \in Reply : PayloadSize = Len(reply.bytes) /\ reply.bytes \in Seq(Byte)
    BY <2>1, SizeIs DEF Peek
  <2>3. pc' = "read"
    BY <2>2 DEF Peek
  <2>4. Posed'
    BY <1>1, <2>3 DEF Faithful, Posed, Asking, Peek, Queries
  <2> QED
    BY <1>1, <2>3, <2>4 DEF Faithful, Ended, Truthful, Survives
<1> QED
  BY <1>2, <1>3

LEMMA ReadFaithful == ASSUME ReadAsMeant, Inv, Faithful, Read PROVE Faithful'
<1>1. UNCHANGED <<dir, socket, requests, said, garbage, failures>> /\ pc' # "connect"
  BY DEF Read, Consume
<1>2. CASE failures # 0
  BY <1>1, <1>2 DEF Faithful, Posed, Ended, Truthful, Survives
<1>3. CASE failures = 0
  <2>1. Fresh /\ pc = "read" /\ arrived >= size
    BY <1>3 DEF Fresh, Read
  <2>2. requests = << >> /\ size = Len(stream) /\ head = HeadSize
    BY <2>1, Whole
  <2>3. PICK reply \in Reply : /\ stream = reply.bytes /\ said = reply.says
                              /\ Responds(request.payload, reply)
    BY <2>1, Whole
  <2>4. SubSeq(stream, 1, size) = stream
    BY <2>2 DEF Inv, TypeOK
  <2>5. PICK got : got = Taken(stage, reply)
    OBVIOUS
  <2>6. got = Parsed(stage, SubSeq(stream, 1, size), head)
    BY <2>2, <2>3, <2>4, <2>5 DEF Taken, HeadSize
  <2>8. stage \in {"watch", "query"} /\ dir \in Dir
    BY DEF Inv, TypeOK
  <2>9. \/ stage = "watch" /\ request = WatchProject[dir]
        \/ stage = "query" /\ request.payload \in Queries(dir)
    BY <1>3, <2>1 DEF Faithful, Posed, Asking
  <2>10. Meant(stage, dir, reply) /\ got.how # "wild"
    BY <2>3, <2>5, <2>8, <2>9 DEF ReadAsMeant, Meant
  <2>7. LET goesOn == got.how = "ok" /\ stage = "watch"
        IN  /\ answer' = CASE got.how = "error" -> Refused
                           [] got.how = "ok" /\ ~ goesOn -> Found(got.val[Word.files])
                           [] OTHER -> answer
            /\ pc' = IF goesOn THEN "send" ELSE IF got.how = "died" THEN "dead" ELSE "idle"
            /\ stage' = IF goesOn THEN "query" ELSE stage
            /\ request' = IF goesOn THEN Query(got.val) ELSE request
    BY <2>6, <2>10 DEF Read, Outcomes
  <2>11. /\ got.how = "died" => said.gives = Found(<< >>)
         /\ got.how = "error" => said = [about |-> dir, gives |-> Refused]
         /\ got.how = "ok" /\ stage = "query" =>
              said = [about |-> dir, gives |-> Found(got.val[Word.files])]
    BY <2>3, <2>5, <2>10 DEF Meant
  <2>12. got.how \in {"ok", "error", "died"}
    <3>1. stream \in Seq(Byte) /\ head \in Nat
      BY HeadType DEF Inv, TypeOK
    <3>2. got \in Parsing(stage, stream, { fields \in FieldsOf(stage) :
                                              Wanted(stage) \in DOMAIN fields })
      BY <2>4, <2>6, <3>1, ResponseRead
    <3> QED
      BY <2>10, <3>2, OutcomesDiffer DEF Parsing
  <2>13. CASE got.how = "ok" /\ stage = "watch"
    <3>1. pc' = "send" /\ stage' = "query" /\ request' = Query(got.val)
      BY <2>7, <2>13
    <3>2. request'.payload \in Queries(dir)
      BY <2>3, <2>5, <2>9, <2>13, <3>1 DEF Queries
    <3>3. Posed'
      BY <1>1, <3>1, <3>2 DEF Posed, Queries
    <3> QED
      BY <1>1, <3>1, <3>3 DEF Faithful, Ended, Truthful, Survives
  <2>14. CASE got.how = "ok" /\ stage = "query"
    <3>1. pc' = "idle" /\ answer' = Found(got.val[Word.files])
      BY <2>7, <2>14
    <3>2. Truthful'
      BY <1>1, <2>11, <2>14, <3>1 DEF Truthful
    <3> QED
      BY <1>1, <3>1, <3>2 DEF Faithful, Posed, Asking, Ended, Survives
  <2>15. CASE got.how = "error"
    <3>1. pc' = "idle" /\ answer' = Refused
      BY <2>7, <2>15
    <3>2. Truthful'
      BY <1>1, <2>11, <2>15, <3>1 DEF Truthful
    <3> QED
      BY <1>1, <3>1, <3>2 DEF Faithful, Posed, Asking, Ended, Survives
  <2>16. CASE got.how = "died"
    <3>1. pc' = "dead"
      BY <2>7, <2>16
    <3>2. Survives' /\ requests' = << >>
      BY <1>1, <2>2, <2>11, <2>16 DEF Survives
    <3> QED
      BY <1>1, <3>1, <3>2 DEF Faithful, Posed, Asking, Ended, Truthful
  <2> QED
    BY <2>8, <2>12, <2>13, <2>14, <2>15, <2>16
<1> QED
  BY <1>2, <1>3

\* Serving never changes what was last said of a scan that has come to its end.
LEMMA ServeFaithful == ASSUME Inv, Faithful, Serve PROVE Faithful'
<1>1. UNCHANGED <<pc, dir, stage, request, answer, garbage, failures, socket>>
  BY DEF Serve, client
<1>2. failures = 0 => Waiting
  BY DEF Serve, Inv, Aligned, Faithful, Ended
<1>3. Posed'
  BY <1>1 DEF Faithful, Posed, Asking, Queries
<1>4. failures = 0 => pc' \notin {"idle", "dead"}
  BY <1>1, <1>2 DEF Waiting
<1> QED
  BY <1>1, <1>3, <1>4 DEF Faithful, Ended, Truthful, Survives

LEMMA NextFaithful == ReadAsMeant /\ Inv /\ Faithful /\ [Next]_vars => Faithful'
<1> SUFFICES ASSUME ReadAsMeant, Inv, Faithful, [Next]_vars PROVE Faithful'
  OBVIOUS
<1>1. ASSUME NEW d \in Dir, Scan(d) PROVE Faithful'
  <2>1. /\ pc' \in {"connect", "send"} /\ (pc' = "connect" => socket' = "none")
        /\ stage' = "watch" /\ request' = WatchProject[dir']
        /\ garbage' = garbage /\ failures' = failures
    BY <1>1 DEF Scan
  <2> QED
    BY <2>1 DEF Faithful, Posed, Ended, Truthful, Survives
<1>2. CASE Connect
  <2>1. /\ UNCHANGED <<dir, stage, request, garbage, failures>>
        /\ \/ pc' = "send"
           \/ pc' = "idle" /\ socket' = "none"
    BY <1>2 DEF Connect, Faithful, Ended
  <2>2. Posed'
    BY <1>2, <2>1 DEF Connect, Faithful, Posed, Asking, Queries
  <2> QED
    BY <2>1, <2>2 DEF Faithful, Ended, Truthful, Survives
<1>3. CASE Send \/ Sniff
  <2>1. /\ UNCHANGED <<dir, stage, request, garbage, failures>>
        /\ Asking /\ pc' \in {"sniff", "peek"}
    BY <1>3 DEF Send, Sniff, Asking
  <2>2. Posed'
    BY <2>1 DEF Faithful, Posed, Queries
  <2> QED
    BY <2>1, <2>2 DEF Faithful, Ended, Truthful, Survives
<1>4. CASE SendFails \/ SniffFails \/ PeekFails \/ ReadFails \/ Interrupted
  BY <1>4, FailFaithful
<1>5. CASE Peek
  BY <1>5, PeekFaithful
<1>6. CASE Read
  BY <1>6, ReadFaithful
<1>7. CASE Collect
  <2>1. failures' > 0 /\ failures' # 0 /\ pc' = "dead"
    BY <1>7 DEF Collect, Faithful, Ended, Inv, TypeOK
  <2> QED
    BY <2>1 DEF Faithful, Posed, Ended, Truthful, Survives
<1>8. CASE Restart
  <2>1. pc' = "idle" /\ answer' = NoAnswer /\ garbage' = FALSE
    BY <1>8 DEF Restart
  <2> QED
    BY <2>1 DEF Faithful, Posed, Asking, Ended, Truthful, Survives
<1>9. CASE Serve
  BY <1>9, ServeFaithful
<1>10. CASE Arrive \/ ServerEnds \/ ServerStarts \/ UNCHANGED vars
  <2>1. /\ UNCHANGED <<pc, dir, stage, request, answer, said, garbage, failures>>
        /\ requests' \in {requests, << >>}
        /\ socket' = "none" <=> socket = "none"
    BY <1>10 DEF Arrive, ServerEnds, ServerStarts, client, vars, conn
  <2>2. Posed'
    BY <2>1 DEF Faithful, Posed, Asking, Queries
  <2> QED
    BY <2>1, <2>2 DEF Faithful, Ended, Truthful, Survives
<1> QED
  BY <1>1, <1>2, <1>3, <1>4, <1>5, <1>6, <1>7, <1>8, <1>9, <1>10
  DEF Next, Client, Environment

\* If each response by itself is taken as it is meant, no order of scans, arrivals, ends
\* and starts of the server makes a scan give anything but what the server said about its
\* directory, before a request has failed on the socket (scanners/watchman.lua).
THEOREM ScanTruthful == ASSUME ReadAsMeant PROVE Spec => []Truthful
<1>1. Faithful => Truthful
  BY DEF Faithful
<1>2. Inv /\ Faithful /\ [Next]_vars => Faithful'
  BY NextFaithful
<1> QED BY <1>1, <1>2, InitInv, NextInv, InitFaithful, PTL DEF Spec

\* And the editor survives every such order that does not come to a directory without
\* files.
THEOREM EditorSurvives == ASSUME ReadAsMeant PROVE Spec => []Survives
<1>1. Faithful => Survives
  BY DEF Faithful
<1>2. Inv /\ Faithful /\ [Next]_vars => Faithful'
  BY NextFaithful
<1> QED BY <1>1, <1>2, InitInv, NextInv, InitFaithful, PTL DEF Spec

=============================================================================
