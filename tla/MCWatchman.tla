----------------------------- MODULE MCWatchman -----------------------------
(***************************************************************************)
(* Watchman with a base of 16: integers of 1, 2, 3 and 4 digits.  Two      *)
(* directories: one is the root of a project, one lies inside a project    *)
(* whose path is longer than WATCHMAN_DEFAULT_STORAGE and needs a length   *)
(* of two digits.  The server's responses use every width of header, every *)
(* type of value and keys before and behind the ones that are wanted.      *)
(***************************************************************************)
EXTENDS Watchman

MCDir == {"top", "inner"}
MCWidth == (3 :> 1) @@ (4 :> 2) @@ (5 :> 3) @@ (6 :> 4)

MCWord == [query |-> <<1>>, watchProject |-> <<2>>, expression |-> <<3>>, type |-> <<4>>,
           f |-> <<5>>, fields |-> <<6>>, name |-> <<7>>, relativeRoot |-> <<8>>,
           files |-> <<9>>, error |-> <<10>>, watch |-> <<11>>, relativePath |-> <<12>>]

LongRoot == [i \in 1 .. 15 |-> 15]
MCPath == [top |-> <<13>>, inner |-> <<14, 14>>]

---------------------------------------------------------------------------
(* What the server writes.                                                 *)

IntOf(m, num) == <<m>> \o Digits(num, MCWidth[m])
Str(s) == <<BYTES>> \o (IF Len(s) < 8 THEN IntOf(3, Len(s)) ELSE IntOf(4, Len(s))) \o s
Obj(n) == <<OBJECT>> \o IntOf(3, n)
Arr(m, n) == <<ARRAY>> \o IntOf(m, n)
Pdu(m, payload) == <<0, 1>> \o IntOf(m, Len(payload)) \o payload

Key(k) == Str(MCWord[k])
Other == Str(<<0>>)

\* An array of a double, a nested object and a template of two rows.
Nested == Arr(3, 3) \o <<DOUBLE, 15, 15>>
            \o Obj(1) \o Str(<< >>) \o <<10>>
            \o <<TEMPLATE>> \o Arr(3, 2) \o Str(<<2>>) \o Str(<<3>>)
            \o Arr(3, 2) \o <<8, 9, 12>> \o IntOf(6, -1)

Says(d, result) == [about |-> d, gives |-> result]
Project == Says("project", NoAnswer)

Files(d) == IF d = "top" THEN << <<1, 2>>, <<3>>, << >> >> ELSE << <<4>> >>

\* Responses: to which request ("watch" or "query"), about which directory.
MCResponse == {
  [to |-> "watch", d |-> "top", says |-> Project,
   bytes |-> Pdu(4, Obj(2) \o Other \o Nested \o Key("watch") \o Str(<<13>>))],
  [to |-> "watch", d |-> "inner", says |-> Project,
   bytes |-> Pdu(5, Obj(2) \o Key("watch") \o Str(LongRoot) \o Key("relativePath") \o Str(<<0, 7>>))],
  [to |-> "watch", d |-> "inner", says |-> Says("inner", Refused),
   bytes |-> Pdu(6, Obj(2) \o Key("error") \o Str(<<1>>) \o Other \o <<9>>)],
  [to |-> "query", d |-> "top", says |-> Says("top", Found(Files("top"))),
   bytes |-> Pdu(4, Obj(3) \o Other \o IntOf(5, -3) \o Key("files") \o Arr(4, 3)
                      \o Str(<<1, 2>>) \o Str(<<3>>) \o Str(<< >>) \o Other \o Nested)],
  [to |-> "query", d |-> "inner", says |-> Says("inner", Found(Files("inner"))),
   bytes |-> Pdu(4, Obj(1) \o Key("files") \o Arr(3, 1) \o Str(<<4>>))],
  [to |-> "query", d |-> "inner", says |-> Says("inner", Refused),
   bytes |-> Pdu(3, Obj(0))],
  \* The root of a project that has no files.
  [to |-> "query", d |-> "top", says |-> Says("top", Found(<< >>)),
   bytes |-> Pdu(4, Obj(1) \o Key("files") \o Arr(3, 0))] }

MCReply == { [bytes |-> r.bytes, says |-> r.says] : r \in MCResponse }

---------------------------------------------------------------------------
(* The requests the server understands, as it expects to find them.        *)

WatchBytes(d) == <<0, 1>> \o IntOf(6, 0) \o Arr(3, 2) \o Key("watchProject") \o Str(MCPath[d])

QueryBytes(root, n, more) ==
  <<0, 1>> \o IntOf(6, 0) \o Arr(3, 3) \o Key("query") \o Str(root)
    \o Obj(n) \o Key("expression") \o Arr(3, 2) \o Key("type") \o Key("f")
    \o Key("fields") \o Arr(3, 1) \o Key("name") \o more

Understood == {
  [to |-> "watch", d |-> "top", bytes |-> WatchBytes("top")],
  [to |-> "watch", d |-> "inner", bytes |-> WatchBytes("inner")],
  [to |-> "query", d |-> "top", bytes |-> QueryBytes(<<13>>, 2, << >>)],
  [to |-> "query", d |-> "inner",
   bytes |-> QueryBytes(LongRoot, 3, Key("relativeRoot") \o Str(<<0, 7>>))] }

MCResponds(q, reply) ==
  \E u \in Understood, r \in MCResponse :
    /\ u.bytes = q
    /\ u.to = r.to /\ u.d = r.d
    /\ r.bytes = reply.bytes /\ r.says = reply.says

=============================================================================
