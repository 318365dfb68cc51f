-------------------------------- MODULE Bser --------------------------------
(***************************************************************************)
(* Watchman's binary protocol as watchman.c writes and reads it.           *)
(*                                                                         *)
(* A byte is a digit of base `Base`, an integer of marker m is Width[m]    *)
(* digits, lowest first, in two's complement: the code has base 256 and    *)
(* widths 1, 2, 4 and 8; the markers' values are the code's.               *)
(***************************************************************************)
EXTENDS Integers, Sequences, TLC

CONSTANTS Base, Width, DoubleWidth,
          Storage    \* WATCHMAN_DEFAULT_STORAGE

ARRAY == 0
OBJECT == 1
BYTES == 2     \* WATCHMAN_STRING_MARKER
INT8 == 3
INT64 == 6
DOUBLE == 7
TEMPLATE == 11
Single == {8, 9, 10, 12}   \* true, false, nil, skip: a marker and nothing else

ASSUME BserAssumption == /\ Base \in Nat /\ Base > 12 /\ Base % 2 = 0
                         /\ Width \in [INT8 .. INT64 -> Nat \ {0}]
                         /\ DoubleWidth \in Nat \ {0}
                         /\ Storage \in Nat \ {0}

Byte == 0 .. (Base - 1)

---------------------------------------------------------------------------
(* Writing: a request is its payload so far, the room allocated for it and *)
(* whether it was ever written past that room (history);                   *)
(* watchman_append_char() appends like watchman_append().                  *)

\* The data copied behind the payload, into the given capacity.
Filled(w, data, capacity) ==
  [payload  |-> w.payload \o data,
   capacity |-> capacity,
   past     |-> w.past \/ Len(w.payload) + Len(data) > capacity]

\* Mutant: the room grows by one step however much is appended.
watchman_append_one_step(w, data) ==
  Filled(w, data, IF Len(w.payload) + Len(data) <= w.capacity THEN w.capacity
                  ELSE w.capacity + Storage)

watchman_append(w, data) ==
  Filled(w, data, IF Len(w.payload) + Len(data) <= w.capacity THEN w.capacity
                  ELSE IF Len(data) <= Storage THEN w.capacity + Storage
                  ELSE w.capacity + Len(data) + Storage)

Digits(num, n) == [i \in 1 .. n |-> (num \div (Base ^ (i - 1))) % Base]

FitsIn(num, n) == 2 * num < Base ^ n /\ 2 * num >= - (Base ^ n)

\* Mutant: the integer is taken for unsigned.
NarrowestUnsigned(num) ==
  CHOOSE m \in INT8 .. INT64 :
    /\ num < Base ^ Width[m] \/ m = INT64
    /\ \A k \in INT8 .. (m - 1) : ~ num < Base ^ Width[k]

\* The narrowest integer that holds num.
Narrowest(num) ==
  CHOOSE m \in INT8 .. INT64 :
    /\ FitsIn(num, Width[m]) \/ m = INT64
    /\ \A k \in INT8 .. (m - 1) : ~ FitsIn(num, Width[k])

\* What is appended for a value, in the order it is appended.
watchman_write_int(num) ==
  << <<Narrowest(num)>> \o Digits(num, Width[Narrowest(num)]) >>

watchman_write_array(length) == << <<ARRAY>> >> \o watchman_write_int(length)

watchman_write_object(size) == << <<OBJECT>> >> \o watchman_write_int(size)

watchman_write_string(string) ==
  << <<BYTES>> >> \o watchman_write_int(Len(string)) \o <<string>>

\* WATCHMAN_HEADER: the size in it is 0, and nothing fills it in later.
Header == <<0, 1, INT64>> \o Digits(0, Width[INT64])

Writer == [payload : Seq(Byte), capacity : Nat, past : BOOLEAN]

watchman_request_init ==
  watchman_append([payload |-> << >>, capacity |-> Storage, past |-> FALSE], Header)

\* The request with the given pieces appended behind its header.
Request(pieces) ==
  LET append[i \in 1 .. (Len(pieces) + 1)] ==
        [w \in Writer |-> IF i > Len(pieces) THEN w
                          ELSE append[i + 1][watchman_append(w, pieces[i])]]
  IN  append[1][watchman_request_init]

---------------------------------------------------------------------------
(* Reading from the bytes b at offset p.  The outcome has the offset the   *)
(* pointer is left at and the value read; or it is an error; or reading    *)
(* it ends the process; or the pointer leaves the bytes, and what comes of *)
(* that is undefined.  Every reader checks for the end of the bytes before *)
(* it looks at them, and none for their beginning.                         *)

Ok(p, v) == [how |-> "ok", ptr |-> p, val |-> v]
Error == [how |-> "error"]
Died == [how |-> "died"]
Wild == [how |-> "wild"]

\* What comes of going on from r at its offset and with its value, unless it
\* is an error.
Then(r, GoOn(_, _)) ==
  CHOOSE s \in { IF x.how = "ok" THEN GoOn(x.ptr, x.val) ELSE x : x \in {r} } : TRUE

SignedValue(digits) ==
  LET n == Len(digits)
      value[i \in 1 .. (n + 1)] ==
        IF i <= n THEN digits[i] + Base * value[i + 1]
        ELSE IF 2 * digits[n] >= Base THEN -1 ELSE 0
  IN  value[1]

watchman_read_int(b, p) ==
  IF p + 1 >= Len(b) THEN Error
  ELSE IF b[p + 1] \notin DOMAIN Width THEN Error
  ELSE LET end == p + 1 + Width[b[p + 1]]
       IN  IF end > Len(b) THEN Error
           ELSE Ok(end, SignedValue(SubSeq(b, p + 2, end)))

\* The count of what follows the marker.
ReadCount(marker, b, p) ==
  IF p >= Len(b) THEN Error
  ELSE IF b[p + 1] # marker \/ p + 3 > Len(b) THEN Error
  ELSE Then(watchman_read_int(b, p + 1),
            LAMBDA q, count : IF count < 0 THEN Error ELSE Ok(q, count))

watchman_read_array(b, p) == ReadCount(ARRAY, b, p)
watchman_read_object(b, p) == ReadCount(OBJECT, b, p)

\* A double's value is of no use to anyone.
watchman_read_double(b, p) ==
  IF p + 1 + DoubleWidth > Len(b) THEN Error ELSE Ok(p + 1 + DoubleWidth, << >>)

\* The length of the string whose marker is at p.
ReadLength(b, p) ==
  IF p >= Len(b) THEN Error
  ELSE IF b[p + 1] # BYTES \/ p + 1 >= Len(b) THEN Error
  ELSE watchman_read_int(b, p + 1)

\* The string is copied: a negative length asks for more memory than there is.
watchman_read_string(b, p) ==
  Then(ReadLength(b, p), LAMBDA q, length :
       IF q + length > Len(b) THEN Error
       ELSE IF length < 0 THEN Died
       ELSE Ok(q + length, SubSeq(b, q + 1, q + length)))

\* A string of negative length.
Unreadable == <<-1>>

\* The string stays where it is: a negative length is taken, and moves the pointer back,
\* over bytes already read or out of the bytes.
watchman_read_string_no_copy(b, p) ==
  Then(ReadLength(b, p), LAMBDA q, length :
       IF q + length > Len(b) THEN Error
       ELSE IF q + length < 0 THEN Wild
       ELSE Ok(q + length, IF length < 0 THEN Unreadable ELSE SubSeq(b, q + 1, q + length)))

\* Mutant: the values of an object are forgotten.
SkipKeysOnly(b, p) ==
  LET skip[q \in Nat] == [n \in Nat |->
        IF n = 0 THEN Ok(q, << >>)
        ELSE IF q >= Len(b) THEN Error
        ELSE IF b[q + 1] \in {ARRAY, OBJECT}
             THEN Then(ReadCount(b[q + 1], b, q), LAMBDA r, count : skip[r][count + n - 1])
             ELSE skip[q + 1][n - 1]]
  IN  skip[p][1]

\* What was read holds no values, or as many pairs as its count says.
Alone(r) == Then(r, LAMBDA q, value : Ok(q, 0))
Pairs(r) == Then(r, LAMBDA q, count : Ok(q, 2 * count))

\* Reads what comes before the values a value holds, and how many they are.
Opened(b, q) ==
  CASE b[q + 1] = ARRAY          -> watchman_read_array(b, q)
    [] b[q + 1] = OBJECT         -> Pairs(watchman_read_object(b, q))
    [] b[q + 1] = BYTES          -> Alone(watchman_read_string(b, q))
    [] b[q + 1] \in DOMAIN Width -> Alone(watchman_read_int(b, q))
    [] b[q + 1] = DOUBLE         -> Alone(watchman_read_double(b, q))
    [] b[q + 1] \in Single       -> Ok(q + 1, 0)
    [] OTHER                     -> Error

\* Skips n values from offset q on, where skip[r][k] skips k values from a later
\* offset r on.  To skip an array is to skip as many values as it has; a template is
\* an array of keys, a count of rows and as many values in each row as there are keys.
\* The code's loops over arrays and objects go on behind an error in a value, until it
\* is returned or the process ends; here it is returned at once.
SkipRows(b, skip, n, q, width) ==
  Then(watchman_read_array(b, q), LAMBDA r, height : skip[r][height * width + n - 1])

SkipTemplate(b, skip, n, q) ==
  Then(watchman_read_array(b, q + 1), LAMBDA keys, width :
  Then(skip[keys][width],             LAMBDA rows, done : SkipRows(b, skip, n, rows, width)))

SkipValues(b, skip, n, q) ==
  IF n = 0 THEN Ok(q, << >>)
  ELSE IF q >= Len(b) THEN Error
  ELSE IF b[q + 1] = TEMPLATE THEN SkipTemplate(b, skip, n, q)
  ELSE Then(Opened(b, q), LAMBDA r, count : skip[r][count + n - 1])

watchman_skip_value(b, p) ==
  LET skip[q \in Nat] == [n \in Nat |-> SkipValues(b, skip, n, q)]
  IN  skip[p][1]

\* As many strings as there are names, each from where the one before left the pointer.
Names(b, p, count) ==
  LET names[i \in 0 .. count] ==
        IF i = 0 THEN Ok(p, << >>)
        ELSE Then(names[i - 1],                       LAMBDA q, before :
             Then(watchman_read_string_no_copy(b, q), LAMBDA next, name :
                  Ok(next, Append(before, name))))
  IN  names[count]

\* Mutant: room is made for one name too few.
ReadFilesOneShort(b, p) ==
  Then(watchman_read_array(b, p),
       LAMBDA q, count : IF count <= 1 THEN Died ELSE Names(b, q, count))

\* The array of names under "files".  Room for none of them cannot be mapped:
\* xmap(0) aborts.
ReadFiles(b, p) ==
  Then(watchman_read_array(b, p),
       LAMBDA q, count : IF count = 0 THEN Died ELSE Names(b, q, count))

=============================================================================
