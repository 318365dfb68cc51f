------------------------------ MODULE UIProofs ------------------------------
(***************************************************************************)
(* Proofs about UI, for all finders, queries, fleeting windows and numbers *)
(* of shows, and wherever Neovim may fail, when no UI is started over      *)
(* another (~ Over): between two keys all of a UI is there or nothing, the *)
(* setting is the user's own when none is and none ended half way, each    *)
(* pushd() has had its one popd() unless its finder met an error, and what *)
(* is opened is what was lit.                                              *)
(*                                                                         *)
(* The stack of calls may be any number of half-done _close() deep.  What  *)
(* makes this provable is that all a UI still has open is named by a step  *)
(* that some call on the stack has yet to take (GoneInv), that the steps   *)
(* of a call are in order, so that an error at the window cuts off only    *)
(* the step that pops the directory (Sorted), and that a UI whose setting  *)
(* is overridden can be left or closed only by way of a _close() that is   *)
(* at its first step (Way).                                                *)
(*                                                                         *)
(* A UI whose show() ended half way is outside of all this: no call is its *)
(* own any more (HalfInv) and its prompt cannot be reached (BehindInv).    *)
(* Nothing that the calls on the stack owe (Owes) is its, enters a listing *)
(* or shows a UI a second time (Harmless, NextOwes).  With that, the       *)
(* setting's value is accounted for (SettingInv), so is the one push that  *)
(* the stack has more than at the last start (DirInv), and the view of a   *)
(* UI that is closed stays what it was when its key was pressed (Settled,  *)
(* PendingInv).                                                            *)
(***************************************************************************)
EXTENDS UI, SequenceTheorems, TLAPS

---------------------------------------------------------------------------
(* Calls.                                                                  *)

CloseName == {"hlsearch", "listing", "prompt", "shut", "autocmd", "window", "on_close", "open"}
ShowName == {"build", "settings", "windows", "focus", "watch"}
Name == CloseName \cup ShowName \cup {"enter"}

Rank(n) ==
  CASE n \in {"build", "hlsearch"}          -> 1
    [] n \in {"settings", "listing"}        -> 2
    [] n \in {"windows", "prompt", "shut"}  -> 3
    [] n = "autocmd"                        -> 4
    [] n \in {"focus", "enter", "window"}   -> 5
    [] n \in {"watch", "on_close"}          -> 6
    [] OTHER                                -> 7

Window == UserWindow \cup {Listing(u) : u \in Nat} \cup {Prompt(u) : u \in Nat} \cup {NoWindow}

StepType == { s \in [name : Name, to : Window \cup Finder] :
                /\ s.name = "build" => s.to \in Finder
                /\ s.name # "build" => s.to \in Window }

CallType == [ui : Nat, steps : Seq(StepType), nested : BOOLEAN]

\* The call has yet to take the step n.
Has(c, n) == \E j \in DOMAIN c.steps : c.steps[j].name = n

Sorted(c) == \A j, k \in DOMAIN c.steps : j < k => Rank(c.steps[j].name) < Rank(c.steps[k].name)

\* A call that has its first step yet to take has all the others.
Whole(c) ==
  /\ Has(c, "hlsearch") => \A n \in {"listing", "prompt", "autocmd", "on_close"} : Has(c, n)
  /\ Has(c, "build") => Has(c, "settings")
  /\ Has(c, "settings") => Has(c, "windows")
  /\ Has(c, "windows") => Has(c, "focus")
  /\ Has(c, "focus") => Has(c, "watch")

Apart(c) == \A m \in CloseName, n \in ShowName : ~ (Has(c, m) /\ Has(c, n))

GoodCall(c) == c.steps # << >> /\ Sorted(c) /\ Whole(c) /\ Apart(c)

\* Whose call it is: that of a UI that exists, or is about to, or of none.
Owned(c) ==
  \/ c.ui \in Id /\ ~ Has(c, "build")
  \/ c.ui = Len(ui) + 1 /\ Has(c, "build")
  \/ \A n \in Name \ {"enter"} : ~ Has(c, n)

CallsInv ==
  /\ calls \in Seq(CallType)
  /\ \A i \in DOMAIN calls : GoodCall(calls[i]) /\ Owned(calls[i])

Pending(u, n) == \E i \in DOMAIN calls : calls[i].ui = u /\ Has(calls[i], n)

Showing == \E i \in DOMAIN calls : \E n \in ShowName : Has(calls[i], n)

---------------------------------------------------------------------------
(* UIs.                                                                    *)

Field == {"finder", "current_window", "saved", "on_close", "match_listing", "prompt",
          "cmdline_enter_autocmd", "buffer", "half", "shown"}

GoodUI(r) ==
  /\ Field \subseteq DOMAIN r
  /\ {"pushes", "found"} \subseteq DOMAIN r.finder
  /\ r.finder.pushes \in BOOLEAN /\ r.on_close \in BOOLEAN /\ r.half \in BOOLEAN
  /\ r.current_window \in Window

TypeInv ==
  /\ \E S : ui \in Seq(S)
  /\ \A u \in Id : GoodUI(ui[u])
  /\ windows \subseteq Window /\ current \in Window
  /\ closing \subseteq Id /\ leave \subseteq Id
  /\ \A u \in Nat : Listing(u) \in windows \/ Prompt(u) \in windows => u \in Id

\* The UIs whose setting is overridden, and those that are closed or not yet shown,
\* without those whose show() ended half way.
Saved == {u \in Id : ~ ui[u].half /\ ui[u].saved # {}}
Gone == {u \in Id : ~ ui[u].half /\ ui[u].saved = {}}

\* Where the stack may be while u has the setting overridden.
Way(u) ==
  \/ calls = << >>
  \/ Showing
  \/ At("hlsearch") /\ Me = u
  \/ /\ Len(calls) = 1 /\ Head(calls).nested
     /\ \/ At("enter") /\ Now.to \in UserWindow
        \/ (At("prompt") \/ At("shut")) /\ Me = u

SavedInv ==
  /\ \A u, v \in Saved : u = v
  /\ \A u \in Saved :
       /\ ui[u].prompt \/ Pending(u, "windows")
       /\ ui[u].match_listing \/ Pending(u, "windows")
       /\ ui[u].cmdline_enter_autocmd \/ Pending(u, "watch")
       /\ current = Prompt(u) \/ Pending(u, "focus") \/ (Showing /\ At("enter"))
       /\ Showing /\ At("enter") => Now.to = Prompt(u)
       /\ ui[u].prompt => /\ u \in leave \/ (At("hlsearch") /\ Me = u)
                          /\ {Listing(u), Prompt(u)} \subseteq windows
       /\ ui[u].on_close = ui[u].finder.pushes
       /\ Way(u)

GoneInv ==
  /\ \A u \in Gone :
       /\ ui[u].prompt \/ Prompt(u) \in windows => Pending(u, "prompt") \/ Pending(u, "shut")
       /\ ui[u].match_listing => Pending(u, "listing")
       /\ ui[u].cmdline_enter_autocmd => Pending(u, "autocmd")
  /\ \A u \in Id :
       /\ Listing(u) \in windows => ui[u].match_listing
       /\ Prompt(u) \in windows => ui[u].half \/ ui[u].prompt \/ u \in closing
       /\ u \in leave => Prompt(u) \in windows
       /\ u \in closing => Pending(u, "shut")

ShowInv ==
  Showing => /\ Len(calls) = 1
             /\ Has(calls[1], "settings") => Saved = {}
             /\ ~ Has(calls[1], "settings") => calls[1].ui \in Saved

\* No call is that of a UI whose show() ended half way, nor comes to be.
HalfInv ==
  \A u \in Half : /\ ~ ui[u].cmdline_enter_autocmd
                 /\ \A i \in DOMAIN calls : calls[i].ui # u

HalfBehind == \A u \in Half : current # Prompt(u)

Inv == CallsInv /\ TypeInv /\ SavedInv /\ GoneInv /\ ShowInv

---------------------------------------------------------------------------
(* What the operators on calls do.                                         *)

LEMMA WindowsDiffer ==
  /\ \A u, v \in Nat : /\ Listing(u) # Prompt(v)
                       /\ Prompt(u) = Prompt(v) => u = v
                       /\ Listing(u) = Listing(v) => u = v
                       /\ {Listing(u), Prompt(u)} \cap UserWindow = {}
                       /\ NoWindow \notin {Listing(u), Prompt(u)}
  /\ NoWindow \notin UserWindow
BY DEF Listing, Prompt, UserWindow, NoWindow

LEMMA DoType == \A n \in Name \ {"build"} : Do(n) \in StepType /\ Do(n).name = n
BY DEF Do, StepType, Window

LEMMA EnterType == \A w \in Window : /\ Enter(w) \in StepType
                                     /\ Enter(w).name = "enter" /\ Enter(w).to = w
BY DEF Enter, StepType, Name

\* The call of _close(), and what it has before it.
LEMMA CloseCall ==
  ASSUME NEW u \in Nat, NEW nested \in BOOLEAN
  PROVE  LET c == Call(u, _close, nested)
             d == Call(u, Append(_close, Do("open")), nested)
         IN  /\ c \in CallType /\ GoodCall(c) /\ Head(c.steps).name = "hlsearch"
             /\ d \in CallType /\ GoodCall(d) /\ Head(d.steps).name = "hlsearch"
             /\ \A n \in {"hlsearch", "listing", "prompt", "autocmd", "window", "on_close"} :
                  Has(c, n) /\ Has(d, n)
             /\ \A n \in ShowName : ~ Has(c, n) /\ ~ Has(d, n)
<1> DEFINE c == Call(u, _close, nested)
           d == Call(u, Append(_close, Do("open")), nested)
           Nth(i) == CASE i = 1 -> "hlsearch" [] i = 2 -> "listing"  [] i = 3 -> "prompt"
                       [] i = 4 -> "autocmd"  [] i = 5 -> "window"   [] i = 6 -> "on_close"
                       [] OTHER -> "open"
<1>1. _close \in Seq(StepType) /\ Len(_close) = 6 /\ \A i \in 1 .. 6 : _close[i].name = Nth(i)
  <2>1. /\ Len(_close) = 6 /\ DOMAIN _close = 1 .. 6
        /\ _close[1] = Do("hlsearch") /\ _close[2] = Do("listing") /\ _close[3] = Do("prompt")
        /\ _close[4] = Do("autocmd") /\ _close[5] = Do("window") /\ _close[6] = Do("on_close")
    BY DEF _close, All
  <2>2. \A i \in 1 .. 6 : _close[i] \in StepType /\ _close[i].name = Nth(i)
    <3> TAKE i \in 1 .. 6
    <3>1. i = 1 \/ i = 2 \/ i = 3 \/ i = 4 \/ i = 5 \/ i = 6
      OBVIOUS
    <3> QED BY <3>1, <2>1, DoType DEF Name, CloseName
  <2>3. _close = [i \in 1 .. 6 |-> _close[i]]
    BY DEF _close, All
  <2> QED BY <2>1, <2>2, <2>3
<1>2. Do("open") \in StepType /\ Do("open").name = "open"
  BY DoType DEF Name, CloseName
<1>3. /\ Append(_close, Do("open")) \in Seq(StepType) /\ Len(Append(_close, Do("open"))) = 7
      /\ \A i \in 1 .. 6 : Append(_close, Do("open"))[i] = _close[i]
      /\ Append(_close, Do("open"))[7] = Do("open")
  <2> HIDE DEF Nth, c, d
  <2>1. _close \in Seq(StepType) /\ Do("open") \in StepType
    BY <1>1, <1>2
  <2>2. /\ Append(_close, Do("open")) \in Seq(StepType)
        /\ Len(Append(_close, Do("open"))) = Len(_close) + 1
        /\ \A i \in 1 .. Len(_close) : Append(_close, Do("open"))[i] = _close[i]
        /\ Append(_close, Do("open"))[Len(_close) + 1] = Do("open")
    BY <2>1
  <2>3. Len(_close) = 6
    BY <1>1
  <2> QED BY <2>2, <2>3
<1>4. c \in CallType /\ c.steps = _close /\ d \in CallType /\ d.steps = Append(_close, Do("open"))
  BY <1>1, <1>3 DEF Call, CallType
<1>a. DOMAIN c.steps = 1 .. 6 /\ DOMAIN d.steps = 1 .. 7
  BY <1>1, <1>3, <1>4
<1>b. /\ \A i \in 1 .. 6 : c.steps[i].name = Nth(i) /\ d.steps[i].name = Nth(i)
      /\ d.steps[7].name = "open"
  <2> HIDE DEF Nth, c, d
  <2> QED BY <1>1, <1>2, <1>3, <1>4
<1> HIDE DEF c, d
<1>5. \A n \in {"hlsearch", "listing", "prompt", "autocmd", "window", "on_close"} :
        Has(c, n) /\ Has(d, n)
  <2>1. Nth(1) = "hlsearch" /\ Nth(2) = "listing" /\ Nth(3) = "prompt" /\ Nth(4) = "autocmd"
        /\ Nth(5) = "window" /\ Nth(6) = "on_close"
    OBVIOUS
  <2> QED BY <1>a, <1>b, <2>1 DEF Has
<1>6. \A n \in ShowName : ~ Has(c, n) /\ ~ Has(d, n)
  <2>1. \A i \in 1 .. 7 : Nth(i) \notin ShowName
    BY DEF ShowName
  <2> QED BY <1>a, <1>b, <2>1 DEF Has, ShowName
<1>7. Sorted(c) /\ Sorted(d)
  <2>1. Rank("hlsearch") = 1 /\ Rank("listing") = 2 /\ Rank("prompt") = 3 /\ Rank("autocmd") = 4
        /\ Rank("window") = 5 /\ Rank("on_close") = 6 /\ Rank("open") = 7
    BY DEF Rank
  <2>2. \A i \in 1 .. 7 : Rank(Nth(i)) = i
    <3> TAKE i \in 1 .. 7
    <3>1. i = 1 \/ i = 2 \/ i = 3 \/ i = 4 \/ i = 5 \/ i = 6 \/ i = 7
      OBVIOUS
    <3> QED BY <3>1, <2>1
  <2>3. \A i \in DOMAIN c.steps : Rank(c.steps[i].name) = i
    BY <1>a, <1>b, <2>2
  <2>4. \A i \in DOMAIN d.steps : Rank(d.steps[i].name) = i
    <3> TAKE i \in DOMAIN d.steps
    <3>1. i \in 1 .. 6 \/ i = 7
      BY <1>a
    <3> QED BY <3>1, <1>b, <2>1, <2>2
  <2> QED BY <1>a, <2>3, <2>4 DEF Sorted
<1>8. GoodCall(c) /\ GoodCall(d)
  <2>1. c.steps # << >> /\ d.steps # << >>
    BY <1>1, <1>3, <1>4
  <2>2. Whole(c) /\ Whole(d)
    BY <1>5, <1>6 DEF Whole, ShowName
  <2>3. Apart(c) /\ Apart(d)
    BY <1>6 DEF Apart
  <2> QED BY <1>7, <2>1, <2>2, <2>3 DEF GoodCall
<1>9. Head(c.steps).name = "hlsearch" /\ Head(d.steps).name = "hlsearch"
  <2>1. Head(c.steps) = c.steps[1] /\ Head(d.steps) = d.steps[1] /\ Nth(1) = "hlsearch"
    OBVIOUS
  <2> QED BY <1>b, <2>1
<1> QED BY <1>4, <1>5, <1>6, <1>8, <1>9 DEF c, d

\* The call of show() by a finder.
LEMMA ShowCall ==
  ASSUME NEW u \in Nat, NEW f \in Finder
  PROVE  LET c == Call(u, [show EXCEPT ![1].to = f], TRUE)
         IN  /\ c \in CallType /\ GoodCall(c) /\ Head(c.steps).name = "build"
             /\ \A n \in ShowName : Has(c, n)
             /\ \A n \in CloseName : ~ Has(c, n)
<1> DEFINE steps == [show EXCEPT ![1].to = f]
           c == Call(u, steps, TRUE)
           Nth(i) == CASE i = 1 -> "build" [] i = 2 -> "settings"  [] i = 3 -> "windows"
                       [] i = 4 -> "focus" [] OTHER -> "watch"
<1>1. steps \in Seq(StepType) /\ Len(steps) = 5 /\ \A i \in 1 .. 5 : steps[i].name = Nth(i)
  <2>1. /\ Len(show) = 5 /\ DOMAIN show = 1 .. 5
        /\ show[1] = Do("build") /\ show[2] = Do("settings") /\ show[3] = Do("windows")
        /\ show[4] = Do("focus") /\ show[5] = Do("watch")
    BY DEF show, All
  <2>2. show = [i \in 1 .. 5 |-> show[i]]
    BY DEF show, All
  <2>3. /\ DOMAIN steps = 1 .. 5 /\ steps = [i \in 1 .. 5 |-> steps[i]]
        /\ steps[1] = [Do("build") EXCEPT !.to = f]
        /\ \A i \in 2 .. 5 : steps[i] = show[i]
    BY <2>1, <2>2
  <2>4. [Do("build") EXCEPT !.to = f] = [name |-> "build", to |-> f]
    BY DEF Do
  <2>5. steps[1] \in StepType /\ steps[1].name = "build"
    BY <2>3, <2>4 DEF StepType, Name, ShowName
  <2>6. \A i \in 1 .. 5 : steps[i] \in StepType /\ steps[i].name = Nth(i)
    <3> TAKE i \in 1 .. 5
    <3>1. i = 1 \/ i = 2 \/ i = 3 \/ i = 4 \/ i = 5
      OBVIOUS
    <3> HIDE DEF steps
    <3> QED BY <3>1, <2>1, <2>3, <2>5, DoType DEF Name, ShowName
  <2> HIDE DEF steps
  <2>7. steps \in Seq(StepType) /\ Len(steps) = 5
    BY <2>3, <2>6
  <2> QED BY <2>6, <2>7
<1>2. c \in CallType /\ c.steps = steps
  <2> HIDE DEF steps
  <2> QED BY <1>1 DEF Call, CallType
<1>3. DOMAIN c.steps = 1 .. 5 /\ \A i \in 1 .. 5 : c.steps[i].name = Nth(i)
  <2> HIDE DEF steps, c, Nth
  <2> QED BY <1>1, <1>2
<1> HIDE DEF c
<1>4. \A n \in ShowName : Has(c, n)
  <2>1. Nth(1) = "build" /\ Nth(2) = "settings" /\ Nth(3) = "windows" /\ Nth(4) = "focus"
        /\ Nth(5) = "watch"
    OBVIOUS
  <2> QED BY <1>3, <2>1 DEF Has, ShowName
<1>5. \A n \in CloseName : ~ Has(c, n)
  <2>1. \A i \in 1 .. 5 : Nth(i) \notin CloseName
    BY DEF CloseName
  <2> QED BY <1>3, <2>1 DEF Has, CloseName
<1>6. Sorted(c)
  <2>1. Rank("build") = 1 /\ Rank("settings") = 2 /\ Rank("windows") = 3 /\ Rank("focus") = 5
        /\ Rank("watch") = 6
    BY DEF Rank
  <2>2. \A i \in 1 .. 5 : Rank(Nth(i)) = IF i >= 4 THEN i + 1 ELSE i
    <3> TAKE i \in 1 .. 5
    <3>1. i = 1 \/ i = 2 \/ i = 3 \/ i = 4 \/ i = 5
      OBVIOUS
    <3> QED BY <3>1, <2>1
  <2>3. \A i \in 1 .. 5 : Rank(c.steps[i].name) = IF i >= 4 THEN i + 1 ELSE i
    BY <1>3, <2>2
  <2> QED BY <1>3, <2>3 DEF Sorted
<1>7. GoodCall(c)
  <2>1. c.steps # << >> /\ Apart(c)
    BY <1>3, <1>5 DEF Apart
  <2>2. Whole(c)
    BY <1>4, <1>5 DEF Whole, CloseName, ShowName
  <2> QED BY <1>6, <2>1, <2>2 DEF GoodCall
<1>8. Head(c.steps).name = "build"
  <2>1. Head(c.steps) = c.steps[1] /\ Nth(1) = "build"
    OBVIOUS
  <2> QED BY <1>3, <2>1
<1> QED BY <1>2, <1>4, <1>5, <1>7, <1>8 DEF c

---------------------------------------------------------------------------
(* One step of a call: taken, or replaced by another one of the same rank. *)

LEMMA RankType == \A n : Rank(n) \in 1 .. 7
BY DEF Rank

LEMMA FirstStep ==
  ASSUME NEW c \in CallType, GoodCall(c)
  PROVE  LET n == Head(c.steps).name
         IN  /\ n \in Name /\ Has(c, n) /\ Head(c.steps) \in StepType
             /\ 1 \in DOMAIN c.steps /\ Head(c.steps) = c.steps[1]
             /\ \A m : Has(c, m) /\ m # n => Rank(n) < Rank(m)
<1>1. c.steps \in Seq(StepType) /\ c.steps # << >>
  BY DEF CallType, GoodCall
<1>2. /\ 1 \in DOMAIN c.steps /\ Head(c.steps) = c.steps[1] /\ c.steps[1] \in StepType
      /\ \A j \in DOMAIN c.steps : j = 1 \/ 1 < j
  BY <1>1
<1>3. Head(c.steps).name \in Name
  BY <1>2 DEF StepType
<1> QED BY <1>2, <1>3 DEF Has, Sorted, GoodCall

LEMMA OneTaken ==
  ASSUME NEW c \in CallType, GoodCall(c), Tail(c.steps) # << >>
  PROVE  LET d == [c EXCEPT !.steps = Tail(c.steps)]
         IN  /\ d \in CallType /\ GoodCall(d) /\ d.ui = c.ui /\ d.nested = c.nested
             /\ \A n : Has(d, n) <=> Has(c, n) /\ n # Head(c.steps).name
<1> DEFINE d == [c EXCEPT !.steps = Tail(c.steps)]
           first == Head(c.steps).name
<1>1. c.steps \in Seq(StepType) /\ c.steps # << >>
  BY DEF CallType, GoodCall
<1>2. /\ Tail(c.steps) \in Seq(StepType)
      /\ Len(Tail(c.steps)) = Len(c.steps) - 1 /\ Len(c.steps) \in Nat
      /\ \A i \in 1 .. Len(Tail(c.steps)) : Tail(c.steps)[i] = c.steps[i + 1]
  BY <1>1
<1>3. d \in CallType /\ d.ui = c.ui /\ d.nested = c.nested /\ d.steps = Tail(c.steps)
  BY <1>2 DEF CallType
<1> HIDE DEF d
<1>4. /\ DOMAIN c.steps = 1 .. Len(c.steps) /\ DOMAIN d.steps = 1 .. Len(c.steps) - 1
      /\ \A i \in DOMAIN d.steps : d.steps[i] = c.steps[i + 1] /\ i + 1 \in DOMAIN c.steps
      /\ \A i \in DOMAIN c.steps : i # 1 => i - 1 \in DOMAIN d.steps /\ c.steps[i] = d.steps[i - 1]
  BY <1>1, <1>2, <1>3
<1>5. \A i \in DOMAIN c.steps : i # 1 => Rank(first) < Rank(c.steps[i].name)
  <2> TAKE i \in DOMAIN c.steps
  <2> HAVE i # 1
  <2>1. 1 \in DOMAIN c.steps /\ 1 < i /\ first = c.steps[1].name
    BY <1>1, <1>4, FirstStep
  <2>2. Sorted(c)
    BY DEF GoodCall
  <2> QED BY <2>1, <2>2 DEF Sorted
<1>6. \A n : Has(d, n) <=> Has(c, n) /\ n # first
  <2> TAKE n
  <2>1. ASSUME Has(d, n) PROVE Has(c, n) /\ n # first
    <3>1. PICK i \in DOMAIN d.steps : d.steps[i].name = n
      BY <2>1 DEF Has
    <3>2. i + 1 \in DOMAIN c.steps /\ c.steps[i + 1].name = n /\ i + 1 # 1
      BY <3>1, <1>4
    <3>3. Rank(first) < Rank(n)
      BY <3>2, <1>5
    <3> QED BY <3>2, <3>3, RankType DEF Has
  <2>2. ASSUME Has(c, n), n # first PROVE Has(d, n)
    <3>1. PICK i \in DOMAIN c.steps : c.steps[i].name = n
      BY <2>2 DEF Has
    <3>2. i # 1
      BY <3>1, <2>2, FirstStep
    <3> QED BY <3>1, <3>2, <1>4 DEF Has
  <2> QED BY <2>1, <2>2
<1>7. Sorted(d)
  <2> SUFFICES ASSUME NEW j \in DOMAIN d.steps, NEW k \in DOMAIN d.steps, j < k
               PROVE  Rank(d.steps[j].name) < Rank(d.steps[k].name)
    BY DEF Sorted
  <2>1. j + 1 \in DOMAIN c.steps /\ k + 1 \in DOMAIN c.steps /\ j + 1 < k + 1
    BY <1>2, <1>4
  <2>2. Rank(c.steps[j + 1].name) < Rank(c.steps[k + 1].name)
    BY <2>1 DEF GoodCall, Sorted
  <2> QED BY <2>2, <1>4
<1>8. \A n : Has(d, n) => Rank(first) < Rank(n)
  BY <1>6, FirstStep
<1>9. ~ Has(d, "hlsearch") /\ ~ Has(d, "build")
  <2>1. Rank("hlsearch") = 1 /\ Rank("build") = 1
    BY DEF Rank
  <2> QED BY <1>8, <2>1, RankType
<1>10. /\ Has(d, "settings") => Has(d, "windows")
       /\ Has(d, "windows") => Has(d, "focus")
       /\ Has(d, "focus") => Has(d, "watch")
  <2>1. /\ Rank("settings") < Rank("windows") /\ Rank("windows") < Rank("focus")
        /\ Rank("focus") < Rank("watch")
    BY DEF Rank
  <2> QED BY <1>6, <1>8, <2>1, RankType DEF GoodCall, Whole
<1>11. Apart(d)
  BY <1>6 DEF GoodCall, Apart
<1>12. GoodCall(d)
  BY <1>3, <1>7, <1>9, <1>10, <1>11 DEF GoodCall, Whole
<1> QED BY <1>3, <1>6, <1>12 DEF d

LEMMA OneReplaced ==
  ASSUME NEW c \in CallType, GoodCall(c), NEW s \in StepType,
         \/ s.name = "shut" /\ Head(c.steps).name = "prompt"
         \/ s.name = "enter" /\ Head(c.steps).name \in {"focus", "window"}
  PROVE  LET d == [c EXCEPT !.steps = <<s>> \o Tail(c.steps)]
         IN  /\ d \in CallType /\ GoodCall(d) /\ d.ui = c.ui /\ d.nested = c.nested
             /\ Head(d.steps) = s
             /\ \A n : Has(d, n) <=> (Has(c, n) /\ n # Head(c.steps).name) \/ n = s.name
             /\ <<s>> \o Tail(c.steps) # << >>
<1> DEFINE left == <<s>> \o Tail(c.steps)
           d == [c EXCEPT !.steps = left]
           first == Head(c.steps).name
<1>1. c.steps \in Seq(StepType) /\ c.steps # << >>
  BY DEF CallType, GoodCall
<1>2. /\ left \in Seq(StepType) /\ left # << >> /\ Head(left) = s
      /\ Len(left) = Len(c.steps) /\ Len(c.steps) \in Nat
      /\ left[1] = s
      /\ \A i \in 2 .. Len(c.steps) : left[i] = c.steps[i]
  BY <1>1
<1> HIDE DEF left
<1>3. d \in CallType /\ d.ui = c.ui /\ d.nested = c.nested /\ d.steps = left
  BY <1>2 DEF CallType
<1> HIDE DEF d
<1>4. /\ DOMAIN c.steps = 1 .. Len(c.steps) /\ DOMAIN d.steps = 1 .. Len(c.steps)
      /\ 1 \in DOMAIN c.steps /\ d.steps[1] = s
      /\ \A i \in DOMAIN d.steps : i # 1 => d.steps[i] = c.steps[i] /\ 1 < i
  BY <1>1, <1>2, <1>3
<1>5. Rank(s.name) = Rank(first)
  BY DEF Rank
<1>6. c.steps[1].name = first
  BY FirstStep
<1>7. Sorted(c)
  BY DEF GoodCall
<1>8. \A i \in DOMAIN c.steps : i # 1 => Rank(first) < Rank(c.steps[i].name)
  BY <1>4, <1>6, <1>7 DEF Sorted
<1>9. \A n : Has(d, n) <=> (Has(c, n) /\ n # first) \/ n = s.name
  <2> TAKE n
  <2>1. ASSUME Has(d, n) PROVE (Has(c, n) /\ n # first) \/ n = s.name
    <3>1. PICK i \in DOMAIN d.steps : d.steps[i].name = n
      BY <2>1 DEF Has
    <3>2. CASE i = 1
      BY <3>1, <3>2, <1>4
    <3>3. CASE i # 1
      <4>1. i \in DOMAIN c.steps /\ c.steps[i].name = n
        BY <3>1, <3>3, <1>4
      <4>2. Rank(first) < Rank(n)
        BY <4>1, <3>3, <1>8
      <4> QED BY <4>1, <4>2, RankType DEF Has
    <3> QED BY <3>2, <3>3
  <2>2. ASSUME Has(c, n), n # first PROVE Has(d, n)
    <3>1. PICK i \in DOMAIN c.steps : c.steps[i].name = n
      BY <2>2 DEF Has
    <3> QED BY <3>1, <2>2, <1>4, <1>6 DEF Has
  <2>3. ASSUME n = s.name PROVE Has(d, n)
    BY <2>3, <1>4 DEF Has
  <2> QED BY <2>1, <2>2, <2>3
<1>10. Sorted(d)
  <2> SUFFICES ASSUME NEW j \in DOMAIN d.steps, NEW k \in DOMAIN d.steps, j < k
               PROVE  Rank(d.steps[j].name) < Rank(d.steps[k].name)
    BY DEF Sorted
  <2>1. k # 1 /\ d.steps[k] = c.steps[k] /\ k \in DOMAIN c.steps /\ j \in DOMAIN c.steps
    BY <1>4
  <2>2. CASE j = 1
    BY <2>1, <2>2, <1>4, <1>5, <1>8
  <2>3. CASE j # 1
    BY <2>1, <2>3, <1>4, <1>7 DEF Sorted
  <2> QED BY <2>2, <2>3
<1>11. Rank(first) > 2 /\ first \notin {"hlsearch", "build", "settings", "windows"}
  BY DEF Rank
<1>12. \A n \in {"hlsearch", "build", "settings", "windows"} : ~ Has(d, n)
  <2> TAKE n \in {"hlsearch", "build", "settings", "windows"}
  <2>1. Rank(n) <= 3 /\ n # s.name /\ n # first
    BY <1>11 DEF Rank
  <2>2. Has(c, n) => Rank(first) < Rank(n)
    BY <2>1, FirstStep
  <2> QED BY <2>1, <2>2, <1>9, <1>11, RankType
<1>a. ~ Has(d, "focus")
  <2>1. Has(c, first) /\ Apart(c)
    BY FirstStep DEF GoodCall
  <2>2. first = "focus" \/ first \in CloseName
    BY DEF CloseName
  <2>3. first \in CloseName => ~ Has(c, "focus")
    BY <2>1 DEF Apart, ShowName
  <2> QED BY <1>9, <2>2, <2>3
<1>13. Apart(d)
  <2>1. Has(c, first)
    BY FirstStep
  <2>2. \A n \in ShowName : n # s.name
    BY DEF ShowName
  <2>3. \A n \in CloseName : Has(d, n) => \A m \in ShowName : ~ Has(c, m)
    <3> SUFFICES ASSUME NEW n \in CloseName, Has(d, n), NEW m \in ShowName, Has(c, m)
                 PROVE  FALSE
      OBVIOUS
    <3>1. Has(c, n) \/ (s.name = "shut" /\ first = "prompt")
      BY <1>9 DEF CloseName
    <3> QED BY <3>1, <2>1 DEF GoodCall, Apart, CloseName
  <2> QED BY <1>9, <2>2, <2>3 DEF Apart
<1>14. GoodCall(d)
  <2>1. d.steps # << >>
    BY <1>2, <1>3
  <2> QED BY <2>1, <1>10, <1>12, <1>a, <1>13 DEF GoodCall, Whole
<1> QED BY <1>2, <1>3, <1>9, <1>14 DEF d, left

---------------------------------------------------------------------------
(* The stack of calls.                                                     *)

CallsOK == calls \in Seq(CallType) /\ \A i \in DOMAIN calls : GoodCall(calls[i])

\* The innermost call takes its step and has that of M, if any, to take instead.
Advance(M) ==
  /\ CallsOK'
  /\ \A u, n : Pending(u, n) /\ ~ (u = Me /\ n = Now.name) => Pending(u, n)'
  /\ \A u, n : u = Me /\ n \in M => Pending(u, n)'
  /\ \A i \in DOMAIN calls' : \E k \in DOMAIN calls :
       /\ calls'[i].ui = calls[k].ui
       /\ \A n : Has(calls'[i], n) => Has(calls[k], n) \/ (k = 1 /\ n \in M)
       /\ Has(calls[k], "build") /\ Now.name # "build" => Has(calls'[i], "build")
  /\ Len(calls) = 1 =>
       \/ calls' = << >>
       \/ /\ Len(calls') = 1 /\ calls'[1].ui = Me /\ calls'[1].nested = Head(calls).nested
          /\ \A n : Has(calls'[1], n) <=> (Has(calls[1], n) /\ n # Now.name) \/ n \in M

LEMMA Innermost ==
  ASSUME CallsOK, calls # << >>
  PROVE  /\ 1 \in DOMAIN calls /\ Head(calls) = calls[1] /\ Head(calls) \in CallType
         /\ GoodCall(Head(calls)) /\ Me = calls[1].ui /\ Me \in Nat
         /\ Now = calls[1].steps[1] /\ Now.name \in Name /\ Now \in StepType
         /\ Has(calls[1], Now.name)
         /\ \A n : Has(calls[1], n) /\ n # Now.name => Rank(Now.name) < Rank(n)
<1>1. 1 \in DOMAIN calls /\ Head(calls) = calls[1] /\ calls[1] \in CallType
  BY DEF CallsOK
<1>2. GoodCall(calls[1])
  BY <1>1 DEF CallsOK
<1>3. calls[1].ui \in Nat
  BY <1>1 DEF CallType
<1> QED BY <1>1, <1>2, <1>3, FirstStep DEF Now, Me

LEMMA Returned ==
  ASSUME CallsOK, calls # << >>, calls' = Tail(calls)
  PROVE  /\ CallsOK' /\ Len(calls') = Len(calls) - 1
         /\ \A i \in DOMAIN calls' : i + 1 \in DOMAIN calls /\ calls'[i] = calls[i + 1]
         /\ \A k \in DOMAIN calls : k # 1 => k - 1 \in DOMAIN calls' /\ calls[k] = calls'[k - 1]
<1>1. calls \in Seq(CallType)
  BY DEF CallsOK
<1>2. /\ Tail(calls) \in Seq(CallType)
      /\ Len(Tail(calls)) = Len(calls) - 1 /\ Len(calls) \in Nat /\ DOMAIN calls = 1 .. Len(calls)
      /\ DOMAIN Tail(calls) = 1 .. Len(calls) - 1
      /\ \A i \in 1 .. Len(calls) - 1 : Tail(calls)[i] = calls[i + 1]
  BY <1>1
<1>3. \A i \in DOMAIN calls' : i + 1 \in DOMAIN calls /\ calls'[i] = calls[i + 1]
  BY <1>2
<1>4. \A k \in DOMAIN calls : k # 1 => k - 1 \in DOMAIN calls' /\ calls[k] = calls'[k - 1]
  BY <1>2
<1> QED BY <1>2, <1>3, <1>4 DEF CallsOK

LEMMA Changed ==
  ASSUME CallsOK, calls # << >>, NEW d \in CallType, GoodCall(d), calls' = <<d>> \o Tail(calls)
  PROVE  /\ CallsOK' /\ Len(calls') = Len(calls) /\ DOMAIN calls' = DOMAIN calls
         /\ calls'[1] = d /\ Head(calls') = d /\ 1 \in DOMAIN calls'
         /\ \A i \in DOMAIN calls : i # 1 => calls'[i] = calls[i]
<1>1. calls \in Seq(CallType)
  BY DEF CallsOK
<1>2. /\ calls' \in Seq(CallType)
      /\ Len(calls') = Len(calls) /\ Len(calls) \in Nat /\ 1 \in DOMAIN calls
      /\ DOMAIN calls = 1 .. Len(calls) /\ DOMAIN calls' = 1 .. Len(calls)
      /\ calls'[1] = d /\ Head(calls') = d
      /\ \A i \in 2 .. Len(calls) : calls'[i] = calls[i]
  BY <1>1
<1>3. \A i \in DOMAIN calls : i # 1 => calls'[i] = calls[i]
  BY <1>2
<1>4. \A i \in DOMAIN calls' : GoodCall(calls'[i])
  BY <1>2, <1>3 DEF CallsOK
<1> QED BY <1>2, <1>3, <1>4 DEF CallsOK

LEMMA Called ==
  ASSUME CallsOK, NEW d \in CallType, GoodCall(d), calls' = <<d>> \o calls
  PROVE  /\ CallsOK' /\ Len(calls') = Len(calls) + 1
         /\ calls'[1] = d /\ Head(calls') = d /\ 1 \in DOMAIN calls' /\ calls' # << >>
         /\ \A i \in DOMAIN calls' : i # 1 => i - 1 \in DOMAIN calls /\ calls'[i] = calls[i - 1]
         /\ \A k \in DOMAIN calls : k + 1 \in DOMAIN calls' /\ calls[k] = calls'[k + 1]
<1>1. calls \in Seq(CallType)
  BY DEF CallsOK
<1>2. /\ calls' \in Seq(CallType)
      /\ Len(calls') = Len(calls) + 1 /\ Len(calls) \in Nat /\ calls' # << >>
      /\ DOMAIN calls = 1 .. Len(calls) /\ DOMAIN calls' = 1 .. Len(calls) + 1
      /\ calls'[1] = d /\ Head(calls') = d
      /\ \A i \in 2 .. Len(calls) + 1 : calls'[i] = calls[i - 1]
  BY <1>1
<1>3. \A i \in DOMAIN calls' : i # 1 => i - 1 \in DOMAIN calls /\ calls'[i] = calls[i - 1]
  BY <1>2
<1>4. \A k \in DOMAIN calls : k + 1 \in DOMAIN calls' /\ calls[k] = calls'[k + 1]
  BY <1>2
<1>5. \A i \in DOMAIN calls' : GoodCall(calls'[i])
  BY <1>2, <1>3 DEF CallsOK
<1> QED BY <1>2, <1>3, <1>4, <1>5 DEF CallsOK

LEMMA StepTaken ==
  ASSUME CallsOK, ~ Idle, Continue
  PROVE  Advance({})
<1> DEFINE c == Head(calls)
           left == Tail(c.steps)
           d == [c EXCEPT !.steps = left]
<1>1. calls # << >> /\ c = calls[1] /\ c \in CallType /\ GoodCall(c) /\ 1 \in DOMAIN calls
  BY Innermost DEF Idle
<1>2. c.steps \in Seq(StepType) /\ c.steps # << >> /\ << >> \o left = left
  BY <1>1 DEF CallType, GoodCall
<1>3. calls' = IF left = << >> THEN Tail(calls) ELSE <<d>> \o Tail(calls)
  BY <1>2 DEF Continue, Then
<1>4. CASE left = << >>
  <2>1. calls' = Tail(calls)
    BY <1>3, <1>4
  <2>2. /\ CallsOK' /\ Len(calls') = Len(calls) - 1
        /\ \A i \in DOMAIN calls' : i + 1 \in DOMAIN calls /\ calls'[i] = calls[i + 1]
        /\ \A k \in DOMAIN calls : k # 1 => k - 1 \in DOMAIN calls' /\ calls[k] = calls'[k - 1]
    BY <1>1, <2>1, Returned
  <2>3. \A n : Has(c, n) => n = Now.name
    <3>1. /\ Len(left) = Len(c.steps) - 1 /\ Len(c.steps) \in Nat
          /\ DOMAIN c.steps = 1 .. Len(c.steps)
      BY <1>2
    <3>2. DOMAIN c.steps = {1}
      <4> HIDE DEF left
      <4>1. Len(left) = 0
        BY <1>4
      <4> QED BY <3>1, <4>1
    <3> QED BY <3>2, <1>1, Innermost DEF Has
  <2>4. \A u, n : Pending(u, n) /\ ~ (u = Me /\ n = Now.name) => Pending(u, n)'
    <3> SUFFICES ASSUME NEW u, NEW n, Pending(u, n), ~ (u = Me /\ n = Now.name)
                 PROVE  Pending(u, n)'
      OBVIOUS
    <3>1. PICK k \in DOMAIN calls : calls[k].ui = u /\ Has(calls[k], n)
      BY DEF Pending
    <3>2. k # 1
      BY <3>1, <1>1, <2>3 DEF Me
    <3>3. k - 1 \in DOMAIN calls' /\ calls'[k - 1].ui = u /\ Has(calls'[k - 1], n)
      BY <2>2, <3>1, <3>2
    <3>4. \E i \in DOMAIN calls' : calls'[i].ui = u /\ Has(calls'[i], n)
      BY <3>3
    <3> QED BY <3>4 DEF Pending, Has
  <2>5. \A i \in DOMAIN calls' : \E k \in DOMAIN calls : calls'[i] = calls[k]
    BY <2>2
  <2>6. Len(calls) = 1 => calls' = << >>
    BY <2>1, <1>1 DEF CallsOK
  <2> QED BY <2>2, <2>4, <2>5, <2>6 DEF Advance
<1>5. CASE left # << >>
  <2>1. /\ d \in CallType /\ GoodCall(d) /\ d.ui = c.ui /\ d.nested = c.nested
        /\ \A n : Has(d, n) <=> Has(c, n) /\ n # Now.name
    BY <1>1, <1>5, OneTaken DEF Now
  <2>2. calls' = <<d>> \o Tail(calls)
    BY <1>3, <1>5
  <2> HIDE DEF d
  <2>3. /\ CallsOK' /\ Len(calls') = Len(calls) /\ DOMAIN calls' = DOMAIN calls
        /\ calls'[1] = d /\ 1 \in DOMAIN calls'
        /\ \A i \in DOMAIN calls : i # 1 => calls'[i] = calls[i]
    BY <1>1, <2>1, <2>2, Changed
  <2>4. \A u, n : Pending(u, n) /\ ~ (u = Me /\ n = Now.name) => Pending(u, n)'
    <3> SUFFICES ASSUME NEW u, NEW n, Pending(u, n), ~ (u = Me /\ n = Now.name)
                 PROVE  Pending(u, n)'
      OBVIOUS
    <3>1. PICK k \in DOMAIN calls : calls[k].ui = u /\ Has(calls[k], n)
      BY DEF Pending
    <3>2. calls'[k].ui = u /\ Has(calls'[k], n) /\ k \in DOMAIN calls'
      BY <3>1, <1>1, <2>1, <2>3 DEF Me
    <3>3. \E i \in DOMAIN calls' : calls'[i].ui = u /\ Has(calls'[i], n)
      BY <3>2
    <3> QED BY <3>3 DEF Pending, Has
  <2>5. \A i \in DOMAIN calls' : \E k \in DOMAIN calls :
          /\ calls'[i].ui = calls[k].ui
          /\ \A n : Has(calls'[i], n) => Has(calls[k], n)
          /\ Has(calls[k], "build") /\ Now.name # "build" => Has(calls'[i], "build")
    BY <1>1, <2>1, <2>3
  <2>6. /\ calls'[1].ui = Me /\ calls'[1].nested = Head(calls).nested
        /\ \A n : Has(calls'[1], n) <=> Has(calls[1], n) /\ n # Now.name
    BY <1>1, <2>1, <2>3 DEF Me
  <2> QED BY <2>3, <2>4, <2>5, <2>6 DEF Advance
<1> QED BY <1>4, <1>5

LEMMA StepReplaced ==
  ASSUME CallsOK, ~ Idle, NEW s \in StepType, calls' = Then(<<s>>),
         \/ s.name = "shut" /\ Now.name = "prompt"
         \/ s.name = "enter" /\ Now.name \in {"focus", "window"}
  PROVE  /\ Advance({s.name})
         /\ calls' # << >> /\ Now' = s /\ Me' = Me /\ Head(calls').nested = Head(calls).nested
         /\ Len(calls') = Len(calls)
<1> DEFINE c == Head(calls)
           left == <<s>> \o Tail(c.steps)
           d == [c EXCEPT !.steps = left]
<1>1. calls # << >> /\ c = calls[1] /\ c \in CallType /\ GoodCall(c) /\ 1 \in DOMAIN calls
  BY Innermost DEF Idle
<1>2. /\ d \in CallType /\ GoodCall(d) /\ d.ui = c.ui /\ d.nested = c.nested
      /\ Head(d.steps) = s
      /\ \A n : Has(d, n) <=> (Has(c, n) /\ n # Now.name) \/ n = s.name
      /\ left # << >>
  BY <1>1, OneReplaced DEF Now
<1>3. calls' = <<d>> \o Tail(calls)
  BY <1>2 DEF Then
<1> HIDE DEF d
<1>4. /\ CallsOK' /\ Len(calls') = Len(calls) /\ DOMAIN calls' = DOMAIN calls
      /\ calls'[1] = d /\ 1 \in DOMAIN calls' /\ Head(calls') = d
      /\ \A i \in DOMAIN calls : i # 1 => calls'[i] = calls[i]
  BY <1>1, <1>2, <1>3, Changed
<1>5. \A u, n : Pending(u, n) /\ ~ (u = Me /\ n = Now.name) => Pending(u, n)'
  <2> SUFFICES ASSUME NEW u, NEW n, Pending(u, n), ~ (u = Me /\ n = Now.name)
               PROVE  Pending(u, n)'
    OBVIOUS
  <2>1. PICK k \in DOMAIN calls : calls[k].ui = u /\ Has(calls[k], n)
    BY DEF Pending
  <2>2. calls'[k].ui = u /\ Has(calls'[k], n) /\ k \in DOMAIN calls'
    BY <2>1, <1>1, <1>2, <1>4 DEF Me
  <2>3. \E i \in DOMAIN calls' : calls'[i].ui = u /\ Has(calls'[i], n)
    BY <2>2
  <2> QED BY <2>3 DEF Pending, Has
<1>6. \A u, n : u = Me /\ n = s.name => Pending(u, n)'
  <2>1. calls'[1].ui = Me /\ Has(calls'[1], s.name)
    BY <1>1, <1>2, <1>4 DEF Me
  <2> QED BY <1>4, <2>1 DEF Pending, Has
<1>7. \A i \in DOMAIN calls' : \E k \in DOMAIN calls :
        /\ calls'[i].ui = calls[k].ui
        /\ \A n : Has(calls'[i], n) => Has(calls[k], n) \/ (k = 1 /\ n \in {s.name})
        /\ Has(calls[k], "build") /\ Now.name # "build" => Has(calls'[i], "build")
  BY <1>1, <1>2, <1>4
<1>8. /\ calls'[1].ui = Me /\ calls'[1].nested = Head(calls).nested
      /\ \A n : Has(calls'[1], n) <=> (Has(calls[1], n) /\ n # Now.name) \/ n \in {s.name}
  BY <1>1, <1>2, <1>4 DEF Me
<1>9. Now' = s /\ Me' = Me /\ Head(calls').nested = Head(calls).nested /\ calls' # << >>
  BY <1>1, <1>2, <1>4 DEF Now, Me
<1>10. Advance({s.name})
  BY <1>4, <1>5, <1>6, <1>7, <1>8 DEF Advance
<1> QED BY <1>4, <1>9, <1>10

---------------------------------------------------------------------------
(* What a step leaves of the UIs.                                          *)

Keeps(u, fields) ==
  /\ "saved" \in fields => ui'[u].saved = ui[u].saved
  /\ "prompt" \in fields => ui'[u].prompt = ui[u].prompt
  /\ "match_listing" \in fields => ui'[u].match_listing = ui[u].match_listing
  /\ "cmdline_enter_autocmd" \in fields =>
       ui'[u].cmdline_enter_autocmd = ui[u].cmdline_enter_autocmd
  /\ "on_close" \in fields => ui'[u].on_close = ui[u].on_close
  /\ "current_window" \in fields => ui'[u].current_window = ui[u].current_window
  /\ "half" \in fields => ui'[u].half = ui[u].half
  /\ ui'[u].finder.pushes = ui[u].finder.pushes

Kept == {"saved", "prompt", "match_listing", "cmdline_enter_autocmd", "on_close",
         "current_window", "half"}

SameUIs ==
  /\ Id' = Id /\ Len(ui') = Len(ui)
  /\ \E S : ui' \in Seq(S)

OneUI(u, fields) ==
  /\ SameUIs
  /\ \A v \in Id : Keeps(v, IF v = u THEN Kept \ fields ELSE Kept)

LEMMA Indices ==
  ASSUME TypeInv
  PROVE  Id = 1 .. Len(ui) /\ Len(ui) \in Nat
<1>1. PICK S : ui \in Seq(S)
  BY DEF TypeInv
<1> QED BY <1>1 DEF Id

LEMMA Same ==
  ASSUME TypeInv, NEW u \in Id, NEW r, ui' = [ui EXCEPT ![u] = r]
  PROVE  SameUIs /\ ui'[u] = r /\ \A v \in Id : v # u => ui'[v] = ui[v]
<1>1. PICK S : ui \in Seq(S)
  BY DEF TypeInv
<1>2. ui \in Seq(S \cup {r})
  BY <1>1
<1>3. u \in 1 .. Len(ui) /\ DOMAIN ui = 1 .. Len(ui)
  BY <1>1 DEF Id
<1>4. ui' \in Seq(S \cup {r}) /\ Len(ui') = Len(ui)
  BY <1>2, <1>3
<1>5. Id' = Id
  BY <1>2, <1>4 DEF Id
<1> QED BY <1>3, <1>4, <1>5 DEF SameUIs, Id

LEMMA SetSaved ==
  ASSUME TypeInv, NEW u \in Id, NEW v, ui' = [ui EXCEPT ![u].saved = v]
  PROVE  OneUI(u, {"saved"}) /\ ui'[u].saved = v /\ \A w \in Id : GoodUI(ui'[w])
<1> DEFINE r == [ui[u] EXCEPT !.saved = v]
<1>1. SameUIs /\ ui'[u] = r /\ \A w \in Id : w # u => ui'[w] = ui[w]
  BY Same
<1>2. GoodUI(ui[u])
  BY DEF TypeInv
<1>3. GoodUI(r) /\ r.saved = v /\ r.prompt = ui[u].prompt /\ r.match_listing = ui[u].match_listing
      /\ r.cmdline_enter_autocmd = ui[u].cmdline_enter_autocmd
      /\ r.on_close = ui[u].on_close /\ r.current_window = ui[u].current_window
      /\ r.finder = ui[u].finder /\ r.half = ui[u].half
  BY <1>2 DEF GoodUI, Field
<1> HIDE DEF r
<1> QED BY <1>1, <1>3 DEF OneUI, Keeps, Kept, TypeInv

LEMMA SetPrompt ==
  ASSUME TypeInv, NEW u \in Id, ui' = [ui EXCEPT ![u].prompt = FALSE]
  PROVE  OneUI(u, {"prompt"}) /\ ui'[u].prompt = FALSE /\ \A w \in Id : GoodUI(ui'[w])
<1> DEFINE r == [ui[u] EXCEPT !.prompt = FALSE]
<1>1. SameUIs /\ ui'[u] = r /\ \A w \in Id : w # u => ui'[w] = ui[w]
  BY Same
<1>2. GoodUI(ui[u])
  BY DEF TypeInv
<1>3. GoodUI(r) /\ r.prompt = FALSE
      /\ r.finder = ui[u].finder /\ r.half = ui[u].half
      /\ r.saved = ui[u].saved
      /\ r.match_listing = ui[u].match_listing
      /\ r.cmdline_enter_autocmd = ui[u].cmdline_enter_autocmd
      /\ r.on_close = ui[u].on_close
      /\ r.current_window = ui[u].current_window
  BY <1>2 DEF GoodUI, Field
<1> HIDE DEF r
<1> QED BY <1>1, <1>3 DEF OneUI, Keeps, Kept, TypeInv

LEMMA SetListing ==
  ASSUME TypeInv, NEW u \in Id, NEW b,
         ui' = [ui EXCEPT ![u].match_listing = FALSE, ![u].buffer = b]
  PROVE  OneUI(u, {"match_listing"}) /\ ui'[u].match_listing = FALSE /\ \A w \in Id : GoodUI(ui'[w])
<1> DEFINE r == [ui[u] EXCEPT !.match_listing = FALSE, !.buffer = b]
<1>1. SameUIs /\ ui'[u] = r /\ \A w \in Id : w # u => ui'[w] = ui[w]
  <2>1. ui' = [ui EXCEPT ![u] = r]
    OBVIOUS
  <2> HIDE DEF r
  <2> QED BY <2>1, Same
<1>2. GoodUI(ui[u])
  BY DEF TypeInv
<1>3. GoodUI(r) /\ r.match_listing = FALSE
      /\ r.finder = ui[u].finder /\ r.half = ui[u].half
      /\ r.saved = ui[u].saved
      /\ r.prompt = ui[u].prompt
      /\ r.cmdline_enter_autocmd = ui[u].cmdline_enter_autocmd
      /\ r.on_close = ui[u].on_close
      /\ r.current_window = ui[u].current_window
  BY <1>2 DEF GoodUI, Field
<1> HIDE DEF r
<1> QED BY <1>1, <1>3 DEF OneUI, Keeps, Kept, TypeInv

LEMMA SetAutocmd ==
  ASSUME TypeInv, NEW u \in Id, ui' = [ui EXCEPT ![u].cmdline_enter_autocmd = FALSE]
  PROVE  OneUI(u, {"cmdline_enter_autocmd"}) /\ ui'[u].cmdline_enter_autocmd = FALSE /\ \A w \in Id : GoodUI(ui'[w])
<1> DEFINE r == [ui[u] EXCEPT !.cmdline_enter_autocmd = FALSE]
<1>1. SameUIs /\ ui'[u] = r /\ \A w \in Id : w # u => ui'[w] = ui[w]
  BY Same
<1>2. GoodUI(ui[u])
  BY DEF TypeInv
<1>3. GoodUI(r) /\ r.cmdline_enter_autocmd = FALSE
      /\ r.finder = ui[u].finder /\ r.half = ui[u].half
      /\ r.saved = ui[u].saved
      /\ r.prompt = ui[u].prompt
      /\ r.match_listing = ui[u].match_listing
      /\ r.on_close = ui[u].on_close
      /\ r.current_window = ui[u].current_window
  BY <1>2 DEF GoodUI, Field
<1> HIDE DEF r
<1> QED BY <1>1, <1>3 DEF OneUI, Keeps, Kept, TypeInv

LEMMA SetOnClose ==
  ASSUME TypeInv, NEW u \in Id, ui' = [ui EXCEPT ![u].on_close = FALSE]
  PROVE  OneUI(u, {"on_close"}) /\ ui'[u].on_close = FALSE /\ \A w \in Id : GoodUI(ui'[w])
<1> DEFINE r == [ui[u] EXCEPT !.on_close = FALSE]
<1>1. SameUIs /\ ui'[u] = r /\ \A w \in Id : w # u => ui'[w] = ui[w]
  BY Same
<1>2. GoodUI(ui[u])
  BY DEF TypeInv
<1>3. GoodUI(r) /\ r.on_close = FALSE
      /\ r.finder = ui[u].finder /\ r.half = ui[u].half
      /\ r.saved = ui[u].saved
      /\ r.prompt = ui[u].prompt
      /\ r.match_listing = ui[u].match_listing
      /\ r.cmdline_enter_autocmd = ui[u].cmdline_enter_autocmd
      /\ r.current_window = ui[u].current_window
  BY <1>2 DEF GoodUI, Field
<1> HIDE DEF r
<1> QED BY <1>1, <1>3 DEF OneUI, Keeps, Kept, TypeInv

LEMMA SetNoWindow ==
  ASSUME TypeInv, NEW u \in Id, ui' = [ui EXCEPT ![u].current_window = NoWindow]
  PROVE  OneUI(u, {"current_window"}) /\ ui'[u].current_window = NoWindow /\ \A w \in Id : GoodUI(ui'[w])
<1> DEFINE r == [ui[u] EXCEPT !.current_window = NoWindow]
<1>1. SameUIs /\ ui'[u] = r /\ \A w \in Id : w # u => ui'[w] = ui[w]
  BY Same
<1>2. GoodUI(ui[u])
  BY DEF TypeInv
<1>3. GoodUI(r) /\ r.current_window = NoWindow
      /\ r.finder = ui[u].finder /\ r.half = ui[u].half
      /\ r.saved = ui[u].saved
      /\ r.prompt = ui[u].prompt
      /\ r.match_listing = ui[u].match_listing
      /\ r.cmdline_enter_autocmd = ui[u].cmdline_enter_autocmd
      /\ r.on_close = ui[u].on_close
  BY <1>2 DEF GoodUI, Field, Window
<1> HIDE DEF r
<1>4. \A w \in Id : GoodUI(ui'[w])
  BY <1>1, <1>3 DEF TypeInv
<1>5. \A w \in Id : Keeps(w, IF w = u THEN Kept \ {"current_window"} ELSE Kept)
  <2> TAKE w \in Id
  <2>1. CASE w = u
    BY <2>1, <1>1, <1>3 DEF Keeps, Kept
  <2>2. CASE w # u
    BY <2>2, <1>1 DEF Keeps
  <2> QED BY <2>1, <2>2
<1> QED BY <1>1, <1>3, <1>4, <1>5 DEF OneUI

---------------------------------------------------------------------------
(* What follows for most steps.                                            *)

LEMMA MeExists ==
  ASSUME Inv, ~ Idle, Now.name \notin {"enter", "build"}
  PROVE  Me \in Id /\ Me \in Nat
<1>1. CallsOK /\ calls # << >>
  BY DEF Inv, CallsInv, CallsOK, Idle
<1>2. 1 \in DOMAIN calls /\ Me = calls[1].ui /\ Owned(calls[1]) /\ Has(calls[1], Now.name) /\ Me \in Nat
      /\ Now.name \in Name
  BY <1>1, Innermost DEF Inv, CallsInv
<1>3. ~ Has(calls[1], "build")
  <2>1. Rank("build") = 1
    BY DEF Rank
  <2> QED BY <1>1, <2>1, Innermost, RankType
<1> QED BY <1>2, <1>3 DEF Owned

LEMMA CallsStay ==
  ASSUME Inv, ~ Idle, NEW M, Advance(M), SameUIs, Now.name # "build",
         "build" \notin M, M = {} \/ Now.name # "enter"
  PROVE  CallsInv'
<1>1. CallsOK /\ calls # << >>
  BY DEF Inv, CallsInv, CallsOK, Idle
<1>2. CallsOK'
  BY DEF Advance
<1>3. ASSUME NEW i \in DOMAIN calls' PROVE Owned(calls[i])'
  <2>1. PICK k \in DOMAIN calls :
          /\ calls'[i].ui = calls[k].ui
          /\ \A n : Has(calls'[i], n) => Has(calls[k], n) \/ (k = 1 /\ n \in M)
          /\ Has(calls[k], "build") => Has(calls'[i], "build")
    BY DEF Advance
  <2>2. Owned(calls[k])
    BY DEF Inv, CallsInv
  <2>3. CASE calls[k].ui \in Id /\ ~ Has(calls[k], "build")
    BY <2>1, <2>3 DEF Owned, SameUIs
  <2>4. CASE calls[k].ui = Len(ui) + 1 /\ Has(calls[k], "build")
    BY <2>1, <2>4 DEF Owned, SameUIs
  <2>5. CASE \A n \in Name \ {"enter"} : ~ Has(calls[k], n)
    <3>1. \A n \in Name \ {"enter"} : ~ Has(calls'[i], n)
      BY <1>1, <2>1, <2>5, Innermost
    <3> QED BY <3>1 DEF Owned
  <2> QED BY <2>2, <2>3, <2>4, <2>5 DEF Owned
<1> QED BY <1>2, <1>3 DEF CallsInv, CallsOK

LEMMA NotShowing ==
  ASSUME Inv, ~ Idle, Now.name \in CloseName
  PROVE  ~ Showing
<1>1. CallsOK /\ calls # << >>
  BY DEF Inv, CallsInv, CallsOK, Idle
<1>2. Has(calls[1], Now.name) /\ 1 \in DOMAIN calls /\ GoodCall(calls[1])
  BY <1>1, Innermost
<1>3. SUFFICES ASSUME Showing PROVE FALSE
  OBVIOUS
<1>4. Len(calls) = 1
  BY <1>3 DEF Inv, ShowInv
<1>5. DOMAIN calls = {1}
  BY <1>1, <1>4 DEF CallsOK
<1>6. PICK n \in ShowName : Has(calls[1], n)
  BY <1>3, <1>5 DEF Showing
<1> QED BY <1>2, <1>6 DEF GoodCall, Apart

LEMMA NotShowingYet ==
  ASSUME Inv, ~ Idle, ~ Showing, NEW M, Advance(M), \A n \in M : n \notin ShowName
  PROVE  ~ Showing'
<1>1. SUFFICES ASSUME NEW i \in DOMAIN calls', NEW n \in ShowName, Has(calls'[i], n)
               PROVE  FALSE
  BY DEF Showing, Has
<1>2. \E k \in DOMAIN calls : Has(calls[k], n)
  BY <1>1 DEF Advance
<1> QED BY <1>2 DEF Showing

LEMMA Closing ==
  ASSUME Inv, ~ Idle, Now.name \in CloseName, Saved = {},
         NEW M, Advance(M), \A n \in M : n \notin ShowName,
         SameUIs, \A u \in Id : ui'[u].saved = ui[u].saved /\ ui'[u].half = ui[u].half
  PROVE  CallsInv' /\ SavedInv' /\ ShowInv' /\ ~ Showing /\ ~ Showing' /\ Saved' = {}
<1>1. Now.name # "build" /\ Now.name # "enter" /\ "build" \notin M
  BY DEF CloseName, ShowName
<1>2. CallsInv'
  BY <1>1, CallsStay
<1>3. ~ Showing
  BY NotShowing
<1>4. ~ Showing'
  BY <1>3, NotShowingYet
<1>5. Saved' = {}
  BY DEF SameUIs, Saved
<1>6. SavedInv'
  BY <1>5 DEF SavedInv
<1> QED BY <1>2, <1>3, <1>4, <1>5, <1>6 DEF ShowInv

LEMMA Unsaved ==
  ASSUME Inv, ~ Idle, Now.name \in {"listing", "autocmd", "window", "on_close", "open"}
  PROVE  Saved = {}
<1>1. SUFFICES ASSUME NEW u \in Saved PROVE FALSE
  OBVIOUS
<1>2. Way(u)
  BY DEF Inv, SavedInv
<1>3. ~ Showing
  BY NotShowing DEF CloseName
<1> QED BY <1>2, <1>3 DEF Way, At, Idle

LEMMA WindowsStay ==
  ASSUME Inv, SameUIs, windows' \subseteq windows, current' \in Window,
         closing' \subseteq Id, leave' \subseteq Id, \A u \in Id : GoodUI(ui'[u])
  PROVE  TypeInv'
<1>1. /\ windows \subseteq Window
      /\ \A u \in Nat : Listing(u) \in windows \/ Prompt(u) \in windows => u \in Id
  BY DEF Inv, TypeInv
<1>2. \A u \in Nat : Listing(u) \in windows' \/ Prompt(u) \in windows' => u \in Id'
  BY <1>1 DEF SameUIs
<1>3. (\A u \in Id : GoodUI(ui[u]))'
  BY DEF SameUIs, GoodUI
<1> QED BY <1>1, <1>2, <1>3 DEF TypeInv, SameUIs

---------------------------------------------------------------------------
(* The steps of _close().                                                  *)

LEMMA CloseListingKeeps ==
  ASSUME Inv, CloseListing
  PROVE  Inv'
<1>1. ~ Idle /\ Now.name = "listing" /\ Continue
  BY DEF CloseListing, At
<1>2. CallsOK /\ TypeInv /\ Me \in Id /\ Me \in Nat /\ Saved = {}
  BY <1>1, MeExists, Unsaved DEF Inv, CallsInv, CallsOK
<1>3. Advance({})
  BY <1>1, <1>2, StepTaken
<1>4. /\ OneUI(Me, {"match_listing"}) /\ ui'[Me].match_listing = FALSE
      /\ \A w \in Id : GoodUI(ui'[w])
  <2>1. PICK b : ui' = [ui EXCEPT ![Me].match_listing = FALSE, ![Me].buffer = b]
    BY DEF CloseListing
  <2> QED BY <1>2, <2>1, SetListing
<1>5. /\ SameUIs
      /\ \A u \in Id : /\ ui'[u].saved = ui[u].saved /\ ui'[u].half = ui[u].half
                       /\ ui'[u].prompt = ui[u].prompt
                       /\ ui'[u].cmdline_enter_autocmd = ui[u].cmdline_enter_autocmd
                       /\ ui'[u].on_close = ui[u].on_close
                       /\ u # Me => ui'[u].match_listing = ui[u].match_listing
  BY <1>4 DEF OneUI, Keeps, Kept
<1>6. CallsInv' /\ SavedInv' /\ ShowInv' /\ ~ Showing /\ ~ Showing' /\ Saved' = {}
  BY <1>1, <1>2, <1>3, <1>5, Closing DEF CloseListing, CloseName
<1>7. TypeInv'
  BY <1>2, <1>4, <1>5, WindowsStay DEF CloseListing, TypeInv
<1>8. GoneInv'
  <2>1. \A u, n : Pending(u, n) /\ (u # Me \/ n # "listing") => Pending(u, n)'
    BY <1>1, <1>3 DEF Advance
  <2>2. /\ \A u \in Id : Prompt(u) \in windows' <=> Prompt(u) \in windows
        /\ \A u \in Id : Listing(u) \in windows' => Listing(u) \in windows
        /\ \A u \in Id : u \in Nat
        /\ Listing(Me) \notin windows'
    BY <1>2, Indices, WindowsDiffer DEF CloseListing, Inv, GoneInv
  <2>3. Id' = Id /\ closing' = closing /\ leave' = leave /\ raised' = raised
    BY <1>5 DEF SameUIs, CloseListing
  <2>4. GoneInv
    BY DEF Inv
  <2>9. Gone' = Gone /\ Gone \subseteq Id
    BY <1>5, <2>3 DEF Gone
  <2> QED BY <1>2, <1>4, <1>5, <1>6, <2>1, <2>2, <2>3, <2>4, <2>9 DEF GoneInv
<1> QED BY <1>6, <1>7, <1>8 DEF Inv

LEMMA DeleteAutocmdKeeps ==
  ASSUME Inv, DeleteAutocmd
  PROVE  Inv'
<1>1. ~ Idle /\ Now.name = "autocmd" /\ Continue
  BY DEF DeleteAutocmd, At
<1>2. CallsOK /\ TypeInv /\ Me \in Id /\ Me \in Nat /\ Saved = {}
  BY <1>1, MeExists, Unsaved DEF Inv, CallsInv, CallsOK
<1>3. Advance({})
  BY <1>1, <1>2, StepTaken
<1>4. /\ OneUI(Me, {"cmdline_enter_autocmd"}) /\ ui'[Me].cmdline_enter_autocmd = FALSE
      /\ \A w \in Id : GoodUI(ui'[w])
  BY <1>2, SetAutocmd DEF DeleteAutocmd
<1>5. /\ SameUIs
      /\ \A u \in Id : /\ ui'[u].saved = ui[u].saved /\ ui'[u].half = ui[u].half
                       /\ ui'[u].prompt = ui[u].prompt
                       /\ ui'[u].match_listing = ui[u].match_listing
                       /\ ui'[u].on_close = ui[u].on_close
                       /\ u # Me => ui'[u].cmdline_enter_autocmd = ui[u].cmdline_enter_autocmd
  BY <1>4 DEF OneUI, Keeps, Kept
<1>6. CallsInv' /\ SavedInv' /\ ShowInv' /\ ~ Showing /\ ~ Showing' /\ Saved' = {}
  BY <1>1, <1>2, <1>3, <1>5, Closing DEF DeleteAutocmd, CloseName
<1>7. TypeInv'
  BY <1>2, <1>4, <1>5, WindowsStay DEF DeleteAutocmd, TypeInv, editor
<1>8. GoneInv'
  <2>1. \A u, n : Pending(u, n) /\ (u # Me \/ n # "autocmd") => Pending(u, n)'
    BY <1>1, <1>3 DEF Advance
  <2>2. /\ Id' = Id /\ closing' = closing /\ leave' = leave /\ raised' = raised
        /\ windows' = windows
    BY <1>5 DEF SameUIs, DeleteAutocmd, editor
  <2>3. GoneInv
    BY DEF Inv
  <2>9. Gone' = Gone /\ Gone \subseteq Id
    BY <1>5, <2>2 DEF Gone
  <2> QED BY <1>2, <1>4, <1>5, <1>6, <2>1, <2>2, <2>3, <2>9 DEF GoneInv
<1> QED BY <1>6, <1>7, <1>8 DEF Inv

LEMMA PopKeeps ==
  ASSUME Inv, Pop
  PROVE  Inv'
<1>1. ~ Idle /\ Now.name = "on_close" /\ Continue
  BY DEF Pop, At
<1>2. CallsOK /\ TypeInv /\ Me \in Id /\ Me \in Nat /\ Saved = {}
  BY <1>1, MeExists, Unsaved DEF Inv, CallsInv, CallsOK
<1>3. Advance({})
  BY <1>1, <1>2, StepTaken
<1>4. /\ SameUIs
      /\ \A u \in Id : /\ ui'[u].saved = ui[u].saved /\ ui'[u].half = ui[u].half
                       /\ ui'[u].prompt = ui[u].prompt
                       /\ ui'[u].match_listing = ui[u].match_listing
                       /\ ui'[u].cmdline_enter_autocmd = ui[u].cmdline_enter_autocmd
                       /\ u # Me => ui'[u].on_close = ui[u].on_close
                       /\ GoodUI(ui'[u])
      /\ ui'[Me].on_close = FALSE
  <2>1. CASE OnClose(Me)
    <3>1. /\ OneUI(Me, {"on_close"}) /\ ui'[Me].on_close = FALSE
          /\ \A w \in Id : GoodUI(ui'[w])
      BY <1>2, <2>1, SetOnClose DEF OnClose
    <3> QED BY <3>1 DEF OneUI, Keeps, Kept
  <2>2. CASE ~ ui[Me].on_close /\ UNCHANGED <<ui, cwd, stack>>
    BY <1>2, <2>2 DEF SameUIs, TypeInv, GoodUI, Id
  <2> QED BY <2>1, <2>2 DEF Pop
<1>5. CallsInv' /\ SavedInv' /\ ShowInv' /\ ~ Showing /\ ~ Showing' /\ Saved' = {}
  BY <1>1, <1>2, <1>3, <1>4, Closing DEF Pop, CloseName
<1>6. TypeInv'
  BY <1>2, <1>4, WindowsStay DEF Pop, TypeInv, editor
<1>7. GoneInv'
  <2>1. \A u, n : Pending(u, n) /\ (u # Me \/ n # "on_close") => Pending(u, n)'
    BY <1>1, <1>3 DEF Advance
  <2>2. /\ Id' = Id /\ closing' = closing /\ leave' = leave /\ raised' = raised
        /\ windows' = windows
    BY <1>4 DEF SameUIs, Pop, editor
  <2>3. GoneInv
    BY DEF Inv
  <2>9. Gone' = Gone /\ Gone \subseteq Id
    BY <1>4, <2>2 DEF Gone
  <2> QED BY <1>2, <1>4, <1>5, <2>1, <2>2, <2>3, <2>9 DEF GoneInv
<1> QED BY <1>5, <1>6, <1>7 DEF Inv

LEMMA OpenKeeps ==
  ASSUME Inv, _open
  PROVE  Inv'
<1>1. ~ Idle /\ Now.name = "open" /\ Continue
  BY DEF _open, At
<1>2. CallsOK /\ TypeInv /\ Saved = {}
  BY <1>1, Unsaved DEF Inv, CallsInv, CallsOK
<1>3. Advance({})
  BY <1>1, <1>2, StepTaken
<1>4. SameUIs /\ ui' = ui
  BY <1>2 DEF SameUIs, TypeInv, Id, _open
<1>5. CallsInv' /\ SavedInv' /\ ShowInv' /\ ~ Showing /\ ~ Showing' /\ Saved' = {}
  BY <1>1, <1>2, <1>3, <1>4, Closing DEF _open, CloseName
<1>6. TypeInv'
  BY <1>2, <1>4, WindowsStay DEF _open, TypeInv, editor
<1>7. GoneInv'
  <2>1. \A u, n : Pending(u, n) /\ n # "open" => Pending(u, n)'
    BY <1>1, <1>3 DEF Advance
  <2>2. /\ Id' = Id /\ closing' = closing /\ leave' = leave /\ raised' = raised
        /\ windows' = windows
    BY <1>4 DEF SameUIs, _open, editor
  <2>3. GoneInv
    BY DEF Inv
  <2>9. Gone' = Gone /\ Gone \subseteq Id
    BY <1>4, <2>2 DEF Gone
  <2> QED BY <1>2, <1>4, <1>5, <2>1, <2>2, <2>3, <2>9 DEF GoneInv
<1> QED BY <1>5, <1>6, <1>7 DEF Inv

LEMMA UnsetKeeps ==
  ASSUME Inv, Unset
  PROVE  Inv'
<1>1. ~ Idle /\ Now.name = "hlsearch" /\ Continue
  BY DEF Unset, At
<1>2. CallsOK /\ TypeInv /\ Me \in Id /\ Me \in Nat
  BY <1>1, MeExists DEF Inv, CallsInv, CallsOK
<1>3. Advance({})
  BY <1>1, <1>2, StepTaken
<1>4. OneUI(Me, {"saved"}) /\ ui'[Me].saved = {} /\ \A w \in Id : GoodUI(ui'[w])
  BY <1>2, SetSaved DEF Unset
<1>5. /\ SameUIs
      /\ \A u \in Id : /\ u # Me => ui'[u].saved = ui[u].saved
                       /\ ui'[u].half = ui[u].half /\ ui'[u].prompt = ui[u].prompt
                       /\ ui'[u].cmdline_enter_autocmd = ui[u].cmdline_enter_autocmd
                       /\ ui'[u].on_close = ui[u].on_close
                       /\ ui'[u].match_listing = ui[u].match_listing
  BY <1>4 DEF OneUI, Keeps, Kept
<1>6. CallsInv'
  BY <1>1, <1>3, <1>5, CallsStay
<1>7. ~ Showing /\ ~ Showing'
  BY <1>1, <1>3, NotShowing, NotShowingYet DEF CloseName
<1>8. \A u \in Saved : u = Me
  BY <1>1, <1>7 DEF Inv, SavedInv, Way, At, Idle
<1>9. Saved' = {}
  BY <1>4, <1>5, <1>8 DEF Saved, SameUIs
<1>11. SavedInv' /\ ShowInv'
  BY <1>7, <1>9 DEF SavedInv, ShowInv
<1>12. TypeInv'
  BY <1>2, <1>4, <1>5, WindowsStay DEF Unset, TypeInv, editor
<1>13. GoneInv'
  <2>1. \A u, n : Pending(u, n) /\ n # "hlsearch" => Pending(u, n)'
    BY <1>1, <1>3 DEF Advance
  <2>2. /\ Id' = Id /\ closing' = closing /\ leave' = leave /\ raised' = raised
        /\ windows' = windows
    BY <1>5 DEF SameUIs, Unset, editor
  <2>3. \A n \in {"prompt", "listing", "autocmd", "on_close"} : Pending(Me, n)
    <3>1. 1 \in DOMAIN calls /\ GoodCall(calls[1]) /\ Has(calls[1], "hlsearch") /\ Me = calls[1].ui
      BY <1>1, <1>2, Innermost DEF Idle
    <3> QED BY <3>1 DEF GoodCall, Whole, Pending
  <2>4. GoneInv
    BY DEF Inv
  <2>5. \A u \in Gone' : u = Me \/ u \in Gone
    BY <1>5, <1>8, <2>2 DEF Saved, Gone
  <2>6. \A u \in Gone' : u \in Id
    BY <2>2 DEF Gone
  <2> QED BY <1>2, <1>5, <2>1, <2>2, <2>3, <2>4, <2>5, <2>6 DEF GoneInv
<1> QED BY <1>6, <1>11, <1>12, <1>13 DEF Inv

\* At the prompt's steps a UI that is saved is whole, and in front.
LEMMA SavedAtPrompt ==
  ASSUME Inv, ~ Idle, Now.name \in {"prompt", "shut"}, NEW u \in Saved
  PROVE  /\ Me = u /\ Len(calls) = 1 /\ Head(calls).nested /\ ~ Showing
         /\ ui[u].prompt /\ ui[u].match_listing /\ ui[u].cmdline_enter_autocmd
         /\ current = Prompt(u) /\ u \in leave /\ {Listing(u), Prompt(u)} \subseteq windows
<1>1. ~ Showing
  BY NotShowing DEF CloseName
<1>2. \A n \in ShowName : ~ Pending(u, n)
  BY <1>1 DEF Pending, Showing
<1>3. Way(u)
  BY DEF Inv, SavedInv
<1>4. Me = u /\ Len(calls) = 1 /\ Head(calls).nested
  BY <1>1, <1>3 DEF Way, At, Idle
<1>5. ui[u].prompt /\ ui[u].match_listing /\ ui[u].cmdline_enter_autocmd /\ current = Prompt(u)
  BY <1>1, <1>2 DEF Inv, SavedInv, ShowName
<1>6. u \in leave /\ {Listing(u), Prompt(u)} \subseteq windows
  BY <1>5 DEF Inv, SavedInv, At
<1> QED BY <1>1, <1>4, <1>5, <1>6

LEMMA ClosePromptKeeps ==
  ASSUME Inv, ClosePrompt
  PROVE  Inv'
<1> DEFINE toDo == ui[Me].prompt /\ Prompt(Me) \in windows /\ Me \notin closing
<1>1. ~ Idle /\ Now.name = "prompt"
  BY DEF ClosePrompt, At
<1>2. CallsOK /\ TypeInv /\ Me \in Id /\ Me \in Nat /\ calls # << >>
  BY <1>1, MeExists DEF Inv, CallsInv, CallsOK, Idle
<1>3. ~ Showing
  BY <1>1, NotShowing DEF CloseName
<1>4. CASE toDo
  <2>1. calls' = Then(<<Do("shut")>>) /\ closing' = closing \cup {Me} /\ ui' = ui
    BY <1>4 DEF ClosePrompt
  <2>2. Do("shut") \in StepType /\ Do("shut").name = "shut"
    BY DoType DEF Name, CloseName
  <2>3. /\ Advance({"shut"}) /\ calls' # << >> /\ Now' = Do("shut") /\ Me' = Me
        /\ Head(calls').nested = Head(calls).nested /\ Len(calls') = Len(calls)
    BY <1>1, <1>2, <2>1, <2>2, StepReplaced
  <2>4. SameUIs
    BY <1>2, <2>1 DEF SameUIs, TypeInv, Id
  <2>5. CallsInv'
    BY <1>1, <2>3, <2>4, CallsStay
  <2>6. ~ Showing'
    BY <1>1, <1>3, <2>3, NotShowingYet DEF ShowName
  <2>7. Saved' = Saved /\ Gone' = Gone
    BY <2>1 DEF Saved, Gone, Id
  <2>8. SavedInv'
    <3>1. \A u, v \in Saved' : u = v
      BY <2>7 DEF ClosePrompt, Inv, SavedInv
    <3>2. ASSUME NEW u \in Saved
          PROVE  /\ ui[u].prompt /\ ui[u].match_listing
                 /\ ui[u].cmdline_enter_autocmd /\ current = Prompt(u) /\ u \in leave
                 /\ {Listing(u), Prompt(u)} \subseteq windows
                 /\ ui[u].on_close = ui[u].finder.pushes /\ Way(u)'
      <4>1. /\ Me = u /\ Len(calls) = 1 /\ Head(calls).nested
            /\ ui[u].prompt /\ ui[u].match_listing /\ ui[u].cmdline_enter_autocmd
            /\ current = Prompt(u) /\ u \in leave /\ {Listing(u), Prompt(u)} \subseteq windows
        BY <1>1, SavedAtPrompt
      <4>2. Way(u)'
        BY <2>2, <2>3, <4>1 DEF Way, At, Idle
      <4> QED BY <4>1, <4>2 DEF Inv, SavedInv
    <3> QED BY <2>1, <2>6, <2>7, <3>1, <3>2 DEF ClosePrompt, SavedInv
  <2>9. TypeInv'
    BY <1>2, <2>1, <2>4, WindowsStay DEF ClosePrompt, TypeInv
  <2>10. GoneInv'
    <3>1. /\ \A u, n : Pending(u, n) /\ (u # Me \/ n # "prompt") => Pending(u, n)'
          /\ \A u : u = Me => Pending(u, "shut")'
      BY <1>1, <2>3 DEF Advance
    <3>2. /\ Id' = Id /\ leave' = leave /\ raised' = raised /\ windows' = windows
      BY <2>4 DEF SameUIs, ClosePrompt
    <3>3. GoneInv
      BY DEF Inv
    <3> QED BY <2>1, <2>7, <3>1, <3>2, <3>3 DEF GoneInv
  <2> QED BY <2>5, <2>6, <2>8, <2>9, <2>10 DEF Inv, ShowInv
<1>5. CASE ~ toDo
  <2>1. Saved = {}
    <3>1. SUFFICES ASSUME NEW u \in Saved PROVE FALSE
      OBVIOUS
    <3>2. /\ Me = u /\ Len(calls) = 1 /\ ui[u].prompt /\ {Listing(u), Prompt(u)} \subseteq windows
      BY <1>1, SavedAtPrompt
    <3>3. u \in closing
      BY <1>5, <3>2
    <3>4. Pending(u, "shut")
      BY <1>2, <3>2, <3>3 DEF Inv, GoneInv
    <3>5. DOMAIN calls = {1}
      BY <1>2, <3>2 DEF CallsOK
    <3>6. Has(calls[1], "shut")
      BY <3>4, <3>5 DEF Pending
    <3>7. Rank("prompt") < Rank("shut")
      BY <1>1, <1>2, <3>6, Innermost
    <3> QED BY <3>7 DEF Rank
  <2>2. Continue /\ closing' = closing
    BY <1>5 DEF ClosePrompt, Continue
  <2>3. Advance({})
    BY <1>1, <1>2, <2>2, StepTaken
  <2>4. OneUI(Me, {"prompt"}) /\ ui'[Me].prompt = FALSE /\ \A w \in Id : GoodUI(ui'[w])
    BY <1>2, <1>5, SetPrompt DEF ClosePrompt
  <2>5. /\ SameUIs
        /\ \A u \in Id : /\ ui'[u].saved = ui[u].saved /\ ui'[u].half = ui[u].half
                         /\ u # Me => ui'[u].prompt = ui[u].prompt
                         /\ ui'[u].cmdline_enter_autocmd = ui[u].cmdline_enter_autocmd
                         /\ ui'[u].on_close = ui[u].on_close
                         /\ ui'[u].match_listing = ui[u].match_listing
    BY <2>4 DEF OneUI, Keeps, Kept
  <2>6. CallsInv' /\ SavedInv' /\ ShowInv' /\ ~ Showing' /\ Saved' = {}
    BY <1>1, <2>1, <2>3, <2>5, Closing DEF ClosePrompt, CloseName
  <2>7. TypeInv'
    BY <1>2, <2>2, <2>4, <2>5, WindowsStay DEF ClosePrompt, TypeInv
  <2>8. GoneInv'
    <3>1. \A u, n : Pending(u, n) /\ (u # Me \/ n # "prompt") => Pending(u, n)'
      BY <1>1, <2>3 DEF Advance
    <3>2. Id' = Id /\ leave' = leave /\ raised' = raised /\ windows' = windows
      BY <2>5 DEF SameUIs, ClosePrompt
    <3>3. GoneInv
      BY DEF Inv
    <3>4. Prompt(Me) \in windows => ui[Me].half \/ (Me \in closing /\ Pending(Me, "shut"))
      BY <1>2, <1>5, <3>3 DEF GoneInv
    <3>5. Gone' = Gone /\ Gone \subseteq Id /\ \A u \in Gone : ~ ui[u].half
      BY <2>5, <3>2 DEF Gone
    <3>6. ASSUME NEW u \in Gone
          PROVE  /\ ui'[u].prompt \/ Prompt(u) \in windows' =>
                      Pending(u, "prompt")' \/ Pending(u, "shut")'
                 /\ ui'[u].match_listing => Pending(u, "listing")'
                 /\ ui'[u].cmdline_enter_autocmd => Pending(u, "autocmd")'
      BY <2>4, <2>5, <3>1, <3>2, <3>3, <3>4, <3>5 DEF GoneInv
    <3>7. ASSUME NEW u \in Id
          PROVE  /\ Listing(u) \in windows' => ui'[u].match_listing
                 /\ Prompt(u) \in windows' => ui'[u].half \/ ui'[u].prompt \/ u \in closing'
                 /\ u \in leave' => Prompt(u) \in windows'
                 /\ u \in closing' => Pending(u, "shut")'
      BY <2>2, <2>5, <3>1, <3>2, <3>3, <3>4 DEF GoneInv
    <3> QED BY <3>2, <3>5, <3>6, <3>7 DEF GoneInv
  <2> QED BY <2>6, <2>7, <2>8 DEF Inv
<1> QED BY <1>4, <1>5

\* Leaving a prompt starts a _close() on top of what is under way.
LEMMA WinLeaveKeeps ==
  ASSUME Inv, ~ Idle, ~ Showing, NEW v \in leave, \A u \in Saved : u = v, WinLeave(v),
         UNCHANGED <<ui, windows, current, closing, hlsearch, cwd, stack, pending, raised>>
  PROVE  Inv'
<1> DEFINE c == Call(v, _close, TRUE)
<1>1. CallsOK /\ TypeInv /\ v \in Id /\ v \in Nat
  BY Indices DEF Inv, CallsInv, CallsOK, TypeInv
<1>2. /\ c \in CallType /\ GoodCall(c) /\ Head(c.steps).name = "hlsearch" /\ c.ui = v
      /\ Has(c, "hlsearch") /\ \A n \in ShowName : ~ Has(c, n)
  BY <1>1, CloseCall DEF Call
<1> HIDE DEF c
<1>3. calls' = <<c>> \o calls
  BY DEF WinLeave, c
<1>4. /\ CallsOK' /\ calls'[1] = c /\ Head(calls') = c /\ 1 \in DOMAIN calls' /\ calls' # << >>
      /\ \A i \in DOMAIN calls' : i # 1 => i - 1 \in DOMAIN calls /\ calls'[i] = calls[i - 1]
      /\ \A k \in DOMAIN calls : k + 1 \in DOMAIN calls' /\ calls[k] = calls'[k + 1]
  BY <1>1, <1>2, <1>3, Called
<1>5. SameUIs /\ Id' = Id
  BY <1>1 DEF SameUIs, TypeInv, Id
<1>6. CallsInv'
  <2>1. ASSUME NEW i \in DOMAIN calls' PROVE Owned(calls[i])'
    <3>1. CASE i = 1
      BY <1>1, <1>2, <1>4, <1>5, <3>1 DEF Owned, ShowName
    <3>2. CASE i # 1
      <4>1. i - 1 \in DOMAIN calls /\ calls'[i] = calls[i - 1]
        BY <1>4, <3>2
      <4>2. Owned(calls[i - 1])
        BY <4>1 DEF Inv, CallsInv
      <4> QED BY <4>1, <4>2, <1>5 DEF Owned, SameUIs
    <3> QED BY <3>1, <3>2
  <2> QED BY <1>4, <2>1 DEF CallsInv, CallsOK
<1>7. \A u, n : Pending(u, n) => Pending(u, n)'
  <2> SUFFICES ASSUME NEW u, NEW n, Pending(u, n) PROVE Pending(u, n)'
    OBVIOUS
  <2>1. PICK k \in DOMAIN calls : calls[k].ui = u /\ Has(calls[k], n)
    BY DEF Pending
  <2>2. \E i \in DOMAIN calls' : calls'[i].ui = u /\ Has(calls'[i], n)
    BY <1>4, <2>1
  <2> QED BY <2>2 DEF Pending, Has
<1>8. ~ Showing'
  <2>1. SUFFICES ASSUME NEW i \in DOMAIN calls', NEW n \in ShowName, Has(calls'[i], n)
                 PROVE  FALSE
    BY DEF Showing, Has
  <2>2. i # 1
    BY <1>2, <1>4, <2>1
  <2> QED BY <1>4, <2>1, <2>2 DEF Showing
<1>9. Now'.name = "hlsearch" /\ Me' = v
  BY <1>2, <1>4 DEF Now, Me
<1>10. Saved' = Saved /\ Gone' = Gone
  BY DEF Saved, Gone, Id
<1>11. SavedInv'
  <2>1. \A a, b \in Saved' : a = b
    BY <1>10 DEF Inv, SavedInv
  <2>2. ASSUME NEW u \in Saved
        PROVE  /\ ui[u].prompt /\ ui[u].match_listing
               /\ ui[u].cmdline_enter_autocmd /\ current = Prompt(u)
               /\ {Listing(u), Prompt(u)} \subseteq windows
               /\ ui[u].on_close = ui[u].finder.pushes /\ At("hlsearch")' /\ Me' = u
    <3>1. \A n \in ShowName : ~ Pending(u, n)
      BY DEF Pending, Showing
    <3>2. ui[u].prompt /\ ui[u].match_listing /\ ui[u].cmdline_enter_autocmd /\ current = Prompt(u)
      BY <3>1 DEF Inv, SavedInv, ShowName
    <3>3. {Listing(u), Prompt(u)} \subseteq windows
      BY <3>2 DEF Inv, SavedInv
    <3>4. At("hlsearch")' /\ Me' = u
      BY <1>4, <1>9 DEF At, Idle
    <3> QED BY <3>2, <3>3, <3>4 DEF Inv, SavedInv
  <2> QED BY <1>8, <1>10, <2>1, <2>2 DEF SavedInv, Way
<1>12. TypeInv'
  BY <1>1, <1>5, WindowsStay DEF TypeInv, WinLeave
<1>13. GoneInv'
  BY <1>5, <1>7, <1>10 DEF Inv, GoneInv, WinLeave
<1> QED BY <1>6, <1>8, <1>11, <1>12, <1>13 DEF Inv, ShowInv

LEMMA ShutKeeps ==
  ASSUME Inv, Shut
  PROVE  Inv'
<1>1. ~ Idle /\ Now.name = "shut"
  BY DEF Shut, At
<1>2. CallsOK /\ TypeInv /\ Me \in Id /\ Me \in Nat /\ calls # << >>
  BY <1>1, MeExists DEF Inv, CallsInv, CallsOK, Idle
<1>3. ~ Showing
  BY <1>1, NotShowing DEF CloseName
<1>4. \A u \in Saved : u \in Leaves /\ current = Prompt(u)
  BY <1>1, SavedAtPrompt DEF Leaves
<1>5. CASE Leaves # {}
  <2>1. PICK v \in Leaves : WinLeave(v)
    BY <1>5 DEF Shut
  <2>2. v \in leave /\ current = Prompt(v)
    BY <2>1 DEF Leaves
  <2>3. \A u \in Saved : u = v
    <3>1. \A u \in Id : u \in Nat
      BY <1>2, Indices
    <3> QED BY <1>2, <1>4, <2>2, <3>1, WindowsDiffer DEF TypeInv, Saved
  <2> QED BY <1>1, <1>3, <1>5, <2>1, <2>2, <2>3, WinLeaveKeeps DEF Shut
<1>6. CASE Leaves = {}
  <2>1. Saved = {}
    BY <1>4, <1>6
  <2>2. /\ Continue /\ windows' = windows \ {Prompt(Me)} /\ closing' = closing \ {Me}
        /\ leave' = leave \ {Me} /\ (current' \in UserWindow \/ current' = current)
        /\ ui' = [ui EXCEPT ![Me].prompt = FALSE]
    BY <1>6 DEF Shut
  <2>3. Advance({})
    BY <1>1, <1>2, <2>2, StepTaken
  <2>4. OneUI(Me, {"prompt"}) /\ ui'[Me].prompt = FALSE /\ \A w \in Id : GoodUI(ui'[w])
    BY <1>2, <2>2, SetPrompt
  <2>5. /\ SameUIs
        /\ \A u \in Id : /\ ui'[u].saved = ui[u].saved /\ ui'[u].half = ui[u].half
                         /\ u # Me => ui'[u].prompt = ui[u].prompt
                         /\ ui'[u].cmdline_enter_autocmd = ui[u].cmdline_enter_autocmd
                         /\ ui'[u].on_close = ui[u].on_close
                         /\ ui'[u].match_listing = ui[u].match_listing
    BY <2>4 DEF OneUI, Keeps, Kept
  <2>6. CallsInv' /\ SavedInv' /\ ShowInv' /\ ~ Showing' /\ Saved' = {}
    BY <1>1, <2>1, <2>3, <2>5, Closing DEF Shut, CloseName
  <2>7. TypeInv'
    BY <1>2, <2>2, <2>4, <2>5, WindowsStay DEF TypeInv, Window
  <2>8. GoneInv'
    <3>1. \A u, n : Pending(u, n) /\ (u # Me \/ n # "shut") => Pending(u, n)'
      BY <1>1, <2>3 DEF Advance
    <3>2. Id' = Id /\ raised' = raised
      BY <2>5 DEF SameUIs, Shut
    <3>3. GoneInv
      BY DEF Inv
    <3>4. /\ \A u \in Id : u # Me => Prompt(u) # Prompt(Me)
          /\ \A u \in Id : Listing(u) # Prompt(Me)
      <4>1. \A u \in Id : u \in Nat
        BY <1>2, Indices
      <4> QED BY <1>2, <4>1, WindowsDiffer
    <3>5. Gone' = Gone /\ Gone \subseteq Id
      BY <2>5, <3>2 DEF Gone
    <3> QED BY <1>2, <2>2, <2>4, <2>5, <3>1, <3>2, <3>3, <3>4, <3>5 DEF GoneInv
  <2> QED BY <2>6, <2>7, <2>8 DEF Inv
<1> QED BY <1>5, <1>6

LEMMA SetWindowKeeps ==
  ASSUME Inv, SetWindow
  PROVE  Inv'
<1> DEFINE w == ui[Me].current_window
<1>1. ~ Idle /\ Now.name = "window"
  BY DEF SetWindow, At
<1>2. CallsOK /\ TypeInv /\ Me \in Id /\ Me \in Nat /\ calls # << >> /\ Saved = {}
  BY <1>1, MeExists, Unsaved DEF Inv, CallsInv, CallsOK, Idle
<1>3. ~ Showing
  BY <1>1, NotShowing DEF CloseName
<1>4. OneUI(Me, {"current_window"}) /\ \A v \in Id : GoodUI(ui'[v])
  BY <1>2, SetNoWindow DEF SetWindow
<1>5. /\ SameUIs
      /\ \A u \in Id : /\ ui'[u].saved = ui[u].saved /\ ui'[u].half = ui[u].half
                       /\ ui'[u].prompt = ui[u].prompt
                       /\ ui'[u].cmdline_enter_autocmd = ui[u].cmdline_enter_autocmd
                       /\ ui'[u].on_close = ui[u].on_close
                       /\ ui'[u].match_listing = ui[u].match_listing
  BY <1>4 DEF OneUI, Keeps, Kept
<1>6. TypeInv'
  BY <1>2, <1>4, <1>5, WindowsStay DEF SetWindow, TypeInv, editor
<1>7. /\ Id' = Id /\ closing' = closing /\ leave' = leave /\ windows' = windows
      /\ stack' = stack /\ cwd' = cwd /\ hlsearch' = hlsearch
  BY <1>5 DEF SameUIs, SetWindow, editor
<1>8. ASSUME \A u : \A n \in {"prompt", "shut", "listing", "autocmd"} :
               Pending(u, n) => Pending(u, n)'
      PROVE  GoneInv'
  <2>1. GoneInv
    BY DEF Inv
  <2>2. Gone' = Gone /\ Gone \subseteq Id
    BY <1>5, <1>7 DEF Gone
  <2> QED BY <1>2, <1>5, <1>7, <1>8, <2>1, <2>2 DEF GoneInv
<1>9. ASSUME NEW M, Advance(M), \A n \in M : n \notin ShowName, raised' = raised
      PROVE  Inv'
  <2>1. CallsInv' /\ SavedInv' /\ ShowInv' /\ ~ Showing' /\ Saved' = {}
    BY <1>1, <1>2, <1>5, <1>7, <1>9, Closing DEF CloseName
  <2>2. \A u, n : Pending(u, n) /\ n # "window" => Pending(u, n)'
    BY <1>1, <1>9 DEF Advance
  <2>3. GoneInv'
    BY <1>8, <2>2
  <2> QED BY <1>6, <2>1, <2>3 DEF Inv
<1>10. CASE w = NoWindow
  <2>1. Continue /\ raised' = raised
    BY <1>10 DEF SetWindow, Continue
  <2>2. Advance({})
    BY <1>1, <1>2, <2>1, StepTaken
  <2> QED BY <1>9, <2>1, <2>2
<1>11. CASE w # NoWindow /\ w \in windows
  <2>1. calls' = Then(<<Enter(w)>>) /\ raised' = raised
    BY <1>11 DEF SetWindow
  <2>2. Enter(w) \in StepType /\ Enter(w).name = "enter"
    BY <1>2, EnterType DEF TypeInv, GoodUI
  <2>3. Advance({"enter"})
    BY <1>1, <1>2, <2>1, <2>2, StepReplaced
  <2> QED BY <1>9, <2>1, <2>3 DEF ShowName
<1>12. CASE w # NoWindow /\ w \notin windows
  <2>1. calls' = Tail(calls) /\ raised' = TRUE
    BY <1>12 DEF SetWindow, Raise
  <2>2. /\ CallsOK'
        /\ \A i \in DOMAIN calls' : i + 1 \in DOMAIN calls /\ calls'[i] = calls[i + 1]
        /\ \A k \in DOMAIN calls : k # 1 => k - 1 \in DOMAIN calls' /\ calls[k] = calls'[k - 1]
    BY <1>2, <2>1, Returned
  <2>3. CallsInv'
    <3>1. ASSUME NEW i \in DOMAIN calls' PROVE Owned(calls[i])'
      <4>1. Owned(calls[i + 1])
        BY <2>2 DEF Inv, CallsInv
      <4> QED BY <2>2, <4>1, <1>5 DEF Owned, SameUIs
    <3> QED BY <2>2, <3>1 DEF CallsInv, CallsOK
  <2>4. ~ Showing'
    <3>1. SUFFICES ASSUME NEW i \in DOMAIN calls', NEW n \in ShowName, Has(calls'[i], n)
                   PROVE  FALSE
      BY DEF Showing, Has
    <3> QED BY <1>3, <2>2, <3>1 DEF Showing
  <2>5. Saved' = {}
    BY <1>2, <1>5 DEF Saved, SameUIs
  <2>6. ASSUME NEW u, NEW n \in {"prompt", "shut", "listing", "autocmd"}, Pending(u, n)
        PROVE  Pending(u, n)'
    <3>1. PICK k \in DOMAIN calls : calls[k].ui = u /\ Has(calls[k], n)
      BY <2>6 DEF Pending
    <3>2. k # 1
      <4>1. Rank(n) < Rank("window") /\ n # "window"
        BY DEF Rank
      <4> QED BY <1>1, <1>2, <3>1, <4>1, Innermost, RankType
    <3>3. \E i \in DOMAIN calls' : calls'[i].ui = u /\ Has(calls'[i], n)
      BY <2>2, <3>1, <3>2
    <3> QED BY <3>3 DEF Pending, Has
  <2>7. GoneInv'
    BY <1>8, <2>6
  <2>8. SavedInv' /\ ShowInv'
    BY <1>7, <2>1, <2>4, <2>5 DEF SavedInv, ShowInv
  <2> QED BY <1>6, <2>3, <2>7, <2>8 DEF Inv
<1> QED BY <1>10, <1>11, <1>12

LEMMA EnterWindowKeeps ==
  ASSUME Inv, HalfBehind, EnterWindow
  PROVE  Inv'
<1>1. ~ Idle /\ Now.name = "enter" /\ calls # << >>
  BY DEF EnterWindow, At, Idle
<1>2. CallsOK /\ TypeInv
  BY DEF Inv, CallsInv, CallsOK
<1>3. /\ GoodCall(calls[1]) /\ Has(calls[1], "enter") /\ 1 \in DOMAIN calls /\ Me = calls[1].ui
      /\ \A n \in {"settings", "windows", "focus", "prompt", "shut"} : ~ Has(calls[1], n)
  <2>1. \A n \in {"settings", "windows", "focus", "prompt", "shut"} :
          n # "enter" /\ ~ Rank("enter") < Rank(n)
    BY DEF Rank
  <2> QED BY <1>1, <1>2, <2>1, Innermost
<1>4. Showing => /\ DOMAIN calls = {1} /\ Saved = {Me}
                 /\ \A u : \A n \in CloseName \cup {"windows", "focus"} : ~ Pending(u, n)
                 /\ Now.to = Prompt(Me)
  <2> SUFFICES ASSUME Showing
               PROVE  /\ DOMAIN calls = {1} /\ Saved = {Me}
                      /\ \A u : \A n \in CloseName \cup {"windows", "focus"} : ~ Pending(u, n)
                      /\ Now.to = Prompt(Me)
    OBVIOUS
  <2>1. Len(calls) = 1 /\ calls[1].ui \in Saved
    BY <1>3 DEF Inv, ShowInv
  <2>2. DOMAIN calls = {1}
    BY <1>2, <2>1 DEF CallsOK
  <2>3. \A u, v \in Saved : u = v
    BY DEF Inv, SavedInv
  <2>4. \A n \in CloseName : ~ Has(calls[1], n)
    BY <1>3, <2>2 DEF Showing, GoodCall, Apart
  <2>5. Now.to = Prompt(Me)
    BY <1>1, <1>3, <2>1 DEF Inv, SavedInv, At, Idle
  <2> QED BY <1>3, <2>1, <2>2, <2>3, <2>4, <2>5 DEF Pending
<1>5. CASE Leaves # {} /\ current # Now.to
  <2>1. PICK v \in Leaves : WinLeave(v)
    BY <1>5 DEF EnterWindow
  <2>2. v \in leave /\ current = Prompt(v) /\ v \in Id /\ v \in Nat
    BY <1>2, <2>1, Indices DEF Leaves, TypeInv
  <2>3. ~ Showing
    <3>1. SUFFICES ASSUME Showing PROVE FALSE
      OBVIOUS
    <3>2. Prompt(v) \in windows
      BY <2>2 DEF Inv, GoneInv
    <3>3. v \in Saved
      <4>1. v \notin Gone
        BY <1>4, <3>1, <3>2 DEF Inv, GoneInv, CloseName
      <4> QED BY <2>2, <4>1 DEF HalfBehind, Half, Saved, Gone
    <3> QED BY <1>4, <1>5, <2>2, <3>1, <3>3
  <2>4. \A u \in Saved : u = v
    <3> SUFFICES ASSUME NEW u \in Saved PROVE u = v
      OBVIOUS
    <3>1. ~ Pending(u, "focus")
      BY <2>3 DEF Pending, Showing, ShowName
    <3>2. current = Prompt(u)
      BY <2>3, <3>1 DEF Inv, SavedInv
    <3>3. u \in Nat
      BY <1>2, Indices DEF Saved
    <3> QED BY <2>2, <3>2, <3>3, WindowsDiffer
  <2> QED BY <1>1, <1>5, <2>1, <2>2, <2>3, <2>4, WinLeaveKeeps DEF EnterWindow
<1>6. CASE ~ (Leaves # {} /\ current # Now.to)
  <2>1. /\ Continue /\ leave' = leave
        /\ IF Now.to \in windows \ {current}
           THEN current' = Now.to /\ windows' = windows \ ({current} \cap Fleeting)
           ELSE current' = current /\ windows' = windows
        /\ UNCHANGED <<ui, closing, hlsearch, cwd, stack, pending, raised>>
    BY <1>6 DEF EnterWindow, Continue
  <2>2. Advance({})
    BY <1>1, <1>2, <2>1, StepTaken
  <2>3. SameUIs /\ Id' = Id /\ Saved' = Saved /\ Gone' = Gone /\ Gone \subseteq Id
    BY <1>2, <2>1 DEF SameUIs, TypeInv, Id, Saved, Gone
  <2>4. CallsInv'
    BY <1>1, <2>2, <2>3, CallsStay
  <2>5. /\ windows' \subseteq windows
        /\ \A u \in Id : /\ Prompt(u) \in windows' <=> Prompt(u) \in windows
                         /\ Listing(u) \in windows' <=> Listing(u) \in windows
    <3>1. \A u \in Id : Prompt(u) \notin Fleeting /\ Listing(u) \notin Fleeting
      BY <1>2, Indices, WindowsDiffer, FleetingAssumption DEF FleetingAssumption
    <3> QED BY <2>1, <3>1
  <2>6. TypeInv'
    BY <1>2, <2>1, <2>3, <2>5, WindowsStay DEF TypeInv
  <2>7. \A u, n : Pending(u, n) /\ n # "enter" => Pending(u, n)'
    BY <1>1, <2>2 DEF Advance
  <2>8. GoneInv'
    BY <2>1, <2>3, <2>5, <2>7 DEF Inv, GoneInv
  <2>9. CASE ~ Showing
    <3>1. ~ Showing'
      BY <1>1, <2>2, <2>9, NotShowingYet
    <3>2. Saved = {}
      <4>1. SUFFICES ASSUME NEW u \in Saved PROVE FALSE
        OBVIOUS
      <4>2. \A n \in ShowName : ~ Pending(u, n)
        BY <2>9 DEF Pending, Showing
      <4>3. Head(calls).nested /\ Now.to \in UserWindow
        BY <1>1, <2>9 DEF Inv, SavedInv, Way, At, Idle
      <4>4. current = Prompt(u) /\ ui[u].prompt
        BY <2>9, <4>2 DEF Inv, SavedInv, ShowName
      <4>5. u \in leave
        BY <1>1, <4>4 DEF Inv, SavedInv, At
      <4>6. u \in Leaves
        BY <4>3, <4>4, <4>5 DEF Leaves
      <4>7. current # Now.to
        BY <1>2, <4>3, <4>4, Indices, WindowsDiffer DEF Saved
      <4> QED BY <1>6, <4>6, <4>7
    <3>3. SavedInv'
      BY <2>1, <2>3, <3>2 DEF Inv, SavedInv
    <3> QED BY <2>4, <2>6, <2>8, <3>1, <3>3 DEF Inv, ShowInv
  <2>10. CASE Showing
    <3>1. /\ DOMAIN calls = {1} /\ Len(calls) = 1 /\ Saved = {Me} /\ Now.to = Prompt(Me)
          /\ ~ Pending(Me, "windows") /\ ~ Pending(Me, "focus")
      BY <1>4, <2>10 DEF Inv, ShowInv
    <3>2. ui[Me].prompt /\ ui[Me].match_listing
      BY <3>1 DEF Inv, SavedInv
    <3>3. Me \in leave /\ {Listing(Me), Prompt(Me)} \subseteq windows
      BY <1>1, <3>1, <3>2 DEF Inv, SavedInv, At
    <3>4. current' = Prompt(Me) /\ {Listing(Me), Prompt(Me)} \subseteq windows'
      BY <2>1, <2>5, <3>1, <3>3 DEF Saved
    <3>5. PICK n \in ShowName : Has(calls[1], n)
      BY <2>10, <3>1 DEF Showing
    <3>6. /\ Len(calls') = 1 /\ calls'[1].ui = Me /\ Has(calls'[1], n)
          /\ \A m : Has(calls'[1], m) <=> Has(calls[1], m) /\ m # "enter"
      <4>1. n # "enter"
        BY DEF ShowName
      <4>2. \E u : Pending(u, n)'
        <5>1. Pending(Me, n)
          BY <1>3, <3>5 DEF Pending
        <5> QED BY <5>1, <2>7, <4>1
      <4>3. calls' # << >>
        BY <4>2 DEF Pending
      <4> QED BY <1>1, <2>2, <3>1, <3>5, <4>1, <4>3 DEF Advance
    <3>7. DOMAIN calls' = {1}
      BY <2>2, <3>6 DEF Advance, CallsOK
    <3>8. Showing'
      BY <3>6, <3>7 DEF Showing, Has
    <3>9. ~ At("enter")'
      <4>1. SUFFICES ASSUME At("enter")' PROVE FALSE
        OBVIOUS
      <4>2. CallsOK' /\ calls' # << >> /\ Now'.name = "enter"
        BY <2>2, <4>1 DEF Advance, At, Idle
      <4>3. Has(calls'[1], "enter")
        <5>1. GoodCall(calls'[1]) /\ calls'[1] \in CallType /\ Head(calls') = calls'[1]
          BY <3>7, <4>2 DEF CallsOK
        <5>2. Head(calls'[1].steps).name = "enter"
          BY <4>2, <5>1 DEF Now
        <5> QED BY <5>1, <5>2, FirstStep
      <4> QED BY <3>6, <4>3
    <3>10. SavedInv'
      <4>1. \A u, v \in Saved' : u = v
        BY <2>1, <2>3 DEF Inv, SavedInv
      <4>2. ASSUME NEW u \in Saved
            PROVE  /\ ui[u].prompt /\ ui[u].match_listing
                   /\ ui[u].cmdline_enter_autocmd \/ Pending(u, "watch")'
                   /\ current' = Prompt(u) /\ u \in leave
                   /\ {Listing(u), Prompt(u)} \subseteq windows'
                   /\ ui[u].on_close = ui[u].finder.pushes
        <5>1. u = Me
          BY <3>1
        <5>2. /\ ui[u].on_close = ui[u].finder.pushes
              /\ ui[u].cmdline_enter_autocmd \/ Pending(u, "watch")
          BY DEF Inv, SavedInv
        <5> QED BY <2>7, <3>2, <3>3, <3>4, <5>1, <5>2
      <4> QED BY <2>1, <2>3, <3>8, <3>9, <4>1, <4>2 DEF SavedInv, Way
    <3>11. ShowInv'
      BY <1>3, <2>3, <3>1, <3>6 DEF ShowInv
    <3> QED BY <2>4, <2>6, <2>8, <3>10, <3>11 DEF Inv
  <2> QED BY <2>9, <2>10
<1> QED BY <1>5, <1>6

---------------------------------------------------------------------------
(* The steps of show().                                                    *)

\* While a UI is being shown no other call is under way, and nothing is left of
\* an earlier UI.
LEMMA ShowAlone ==
  ASSUME Inv, ~ Idle, Now.name \in ShowName
  PROVE  /\ Showing /\ Len(calls) = 1 /\ DOMAIN calls = {1} /\ CallsOK /\ TypeInv
         /\ Me = calls[1].ui /\ Me \in Nat /\ GoodCall(calls[1]) /\ Owned(calls[1])
         /\ Has(calls[1], Now.name)
         /\ \A n : Has(calls[1], n) /\ n # Now.name => Rank(Now.name) < Rank(n)
         /\ \A n \in CloseName : ~ Has(calls[1], n) /\ \A u : ~ Pending(u, n)
         /\ closing = {}
         /\ Has(calls[1], "settings") => Saved = {}
         /\ ~ Has(calls[1], "settings") => Saved = {Me}
         /\ \A u \in Gone :
              /\ ~ ui[u].prompt /\ Prompt(u) \notin windows /\ Listing(u) \notin windows
              /\ u \notin leave /\ ~ ui[u].match_listing /\ ~ ui[u].cmdline_enter_autocmd
<1>1. CallsOK /\ TypeInv /\ calls # << >>
  BY DEF Inv, CallsInv, CallsOK, Idle
<1>2. /\ 1 \in DOMAIN calls /\ Me = calls[1].ui /\ Me \in Nat /\ GoodCall(calls[1])
      /\ Has(calls[1], Now.name)
      /\ \A n : Has(calls[1], n) /\ n # Now.name => Rank(Now.name) < Rank(n)
  BY <1>1, Innermost
<1>3. Showing
  BY <1>2 DEF Showing
<1>4. Len(calls) = 1
  BY <1>3 DEF Inv, ShowInv
<1>5. DOMAIN calls = {1}
  BY <1>1, <1>4 DEF CallsOK
<1>6. \A n \in CloseName : ~ Has(calls[1], n) /\ \A u : ~ Pending(u, n)
  <2>1. \A n \in CloseName : ~ Has(calls[1], n)
    BY <1>2 DEF GoodCall, Apart
  <2> QED BY <1>5, <2>1 DEF Pending
<1>7. \A n \in {"prompt", "shut", "listing", "autocmd", "on_close"} : \A u : ~ Pending(u, n)
  BY <1>6 DEF CloseName
<1>8. closing = {}
  BY <1>1, <1>7 DEF Inv, GoneInv, TypeInv
<1>9. \A u \in Gone :
        /\ ~ ui[u].prompt /\ Prompt(u) \notin windows /\ Listing(u) \notin windows
        /\ u \notin leave /\ ~ ui[u].match_listing /\ ~ ui[u].cmdline_enter_autocmd
  BY <1>7 DEF Inv, GoneInv, Gone
<1>10. /\ Has(calls[1], "settings") => Saved = {}
       /\ ~ Has(calls[1], "settings") => Saved = {Me}
  <2>1. \A u, v \in Saved : u = v
    BY DEF Inv, SavedInv
  <2> QED BY <1>2, <1>3, <2>1 DEF Inv, ShowInv
<1>11. Owned(calls[1])
  BY <1>2 DEF Inv, CallsInv
<1> QED BY <1>1, <1>2, <1>3, <1>4, <1>5, <1>6, <1>8, <1>9, <1>10, <1>11

\* The call of show() after a step.
LEMMA ShowGoesOn ==
  ASSUME Inv, ~ Idle, Now.name \in ShowName, NEW M, Advance(M)
  PROVE  \/ calls' = << >> /\ ~ Showing'
         \/ /\ Len(calls') = 1 /\ DOMAIN calls' = {1} /\ calls'[1].ui = Me
            /\ GoodCall(calls'[1]) /\ Head(calls') = calls'[1] /\ calls'[1] \in CallType
            /\ Has(calls'[1], Now'.name)
            /\ \A n : Has(calls'[1], n) <=> (Has(calls[1], n) /\ n # Now.name) \/ n \in M
            /\ \A n : Has(calls'[1], n) /\ n # Now'.name => Rank(Now'.name) < Rank(n)
            /\ \A u, n : Pending(u, n)' <=> u = Me /\ Has(calls'[1], n)
            /\ Showing' <=> \E n \in ShowName : Has(calls'[1], n)
<1>1. Len(calls) = 1
  BY ShowAlone
<1>2. CASE calls' = << >>
  BY <1>2 DEF Showing
<1>3. CASE calls' # << >>
  <2>1. /\ Len(calls') = 1 /\ calls'[1].ui = Me
        /\ \A n : Has(calls'[1], n) <=> (Has(calls[1], n) /\ n # Now.name) \/ n \in M
    BY <1>1, <1>3 DEF Advance
  <2>2. CallsOK'
    BY DEF Advance
  <2>3. DOMAIN calls' = {1} /\ Head(calls') = calls'[1] /\ calls'[1] \in CallType
        /\ GoodCall(calls'[1])
    BY <1>3, <2>1, <2>2 DEF CallsOK
  <2>4. Now' = Head(calls'[1].steps)
    BY <2>3 DEF Now
  <2>5. /\ Has(calls'[1], Now'.name)
        /\ \A n : Has(calls'[1], n) /\ n # Now'.name => Rank(Now'.name) < Rank(n)
    BY <2>3, <2>4, FirstStep
  <2>6. /\ \A u, n : Pending(u, n)' <=> u = Me /\ Has(calls'[1], n)
        /\ Showing' <=> \E n \in ShowName : Has(calls'[1], n)
    <3>1. ASSUME NEW u, NEW n PROVE Pending(u, n)' <=> u = Me /\ Has(calls'[1], n)
      BY <2>1, <2>3 DEF Pending, Has
    <3>2. Showing' <=> \E n \in ShowName : Has(calls'[1], n)
      BY <2>3 DEF Showing, Has
    <3> QED BY <3>1, <3>2
  <2> QED BY <2>1, <2>3, <2>5, <2>6
<1> QED BY <1>2, <1>3

LEMMA BuildKeeps ==
  ASSUME Inv, Build
  PROVE  Inv'
<1> DEFINE f == Now.to
<1>1. ~ Idle /\ Now.name = "build" /\ calls # << >> /\ Now.name \in ShowName
  BY DEF Build, At, Idle, ShowName
<1>2. /\ CallsOK /\ TypeInv /\ Len(calls) = 1 /\ closing = {} /\ Showing
      /\ Has(calls[1], "build") /\ Has(calls[1], "settings") /\ Saved = {}
      /\ \A n \in CloseName : ~ Has(calls[1], n)
  BY <1>1, ShowAlone DEF GoodCall, Whole
<1>3. Me = Len(ui) + 1
  <2>1. Owned(calls[1]) /\ Me = calls[1].ui
    BY <1>1, ShowAlone
  <2> QED BY <1>2, <2>1 DEF Owned, Name, ShowName
<1>4. f \in Finder
  <2>1. Now \in StepType
    BY <1>1, <1>2, Innermost
  <2> QED BY <1>1, <2>1 DEF StepType
<1>5. f.pushes \in BOOLEAN /\ {"pushes", "found"} \subseteq DOMAIN f
  BY <1>4, UIAssumption DEF UIAssumption
<1>7. /\ Gone \subseteq Id
      /\ \A u \in Gone :
           /\ ~ ui[u].prompt /\ Prompt(u) \notin windows /\ Listing(u) \notin windows
           /\ u \notin leave /\ ~ ui[u].match_listing /\ ~ ui[u].cmdline_enter_autocmd
  BY <1>1, ShowAlone DEF Gone
<1>a. \A u \in Id : /\ Listing(u) \in windows => ui[u].match_listing
                    /\ Prompt(u) \in windows => ui[u].half \/ ui[u].prompt
                    /\ u \in leave => Prompt(u) \in windows
  BY <1>2 DEF Inv, GoneInv
<1>8. CASE f.builds /\ ~ (f.pushes /\ f.missing)
  <2>1. /\ Continue /\ raised' = raised /\ ui' = Append(ui, New(f))
        /\ windows' = windows /\ current' = current /\ closing' = closing /\ leave' = leave
    BY <1>8 DEF Build, editor, Continue
  <2>2. Advance({})
    BY <1>1, <1>2, <2>1, StepTaken
  <2>3. /\ DOMAIN calls' = {1} /\ Len(calls') = 1 /\ calls'[1].ui = Me
        /\ \A n : Has(calls'[1], n) <=> Has(calls[1], n) /\ n # "build"
        /\ Showing' /\ Has(calls'[1], "settings")
    <3>1. \E u : Pending(u, "settings")'
      <4>1. Pending(Me, "settings")
        BY <1>1, <1>2, ShowAlone DEF Pending
      <4> QED BY <1>1, <2>2, <4>1 DEF Advance
    <3>2. calls' # << >>
      BY <3>1 DEF Pending
    <3> QED BY <1>1, <1>2, <2>2, <3>2, ShowGoesOn DEF ShowName
  <2>4. /\ Id' = Id \cup {Me} /\ Len(ui') = Len(ui) + 1 /\ Me \notin Id
        /\ ui'[Me] = New(f) /\ \A u \in Id : ui'[u] = ui[u]
        /\ \E S : ui' \in Seq(S)
    <3>1. PICK S : ui \in Seq(S)
      BY <1>2 DEF TypeInv
    <3>2. ui \in Seq(S \cup {New(f)}) /\ New(f) \in S \cup {New(f)}
      BY <3>1
    <3> HIDE DEF f
    <3>3. /\ ui' \in Seq(S \cup {New(f)}) /\ Len(ui') = Len(ui) + 1
          /\ ui'[Len(ui) + 1] = New(f)
          /\ \A u \in 1 .. Len(ui) : ui'[u] = ui[u]
      BY <2>1, <3>2
    <3>4. Id = 1 .. Len(ui) /\ Id' = 1 .. Len(ui) + 1 /\ Len(ui) \in Nat
      BY <3>1, <3>3 DEF Id
    <3> QED BY <1>3, <3>3, <3>4
  <2>5. /\ ui'[Me].saved = {} /\ ~ ui'[Me].half /\ ~ ui'[Me].prompt /\ ~ ui'[Me].match_listing
        /\ ~ ui'[Me].cmdline_enter_autocmd /\ ~ ui'[Me].on_close
        /\ ui'[Me].finder = f
        /\ GoodUI(New(f)) /\ Me \in Nat
    <3>1. Me \in Nat
      BY <1>1, ShowAlone
    <3> QED BY <1>5, <2>4, <3>1 DEF New, GoodUI, Field, Window
  <2>6. Saved' = {} /\ Gone' = Gone \cup {Me}
    <3>1. \A u : u \in Saved' <=> u \in Saved
      BY <2>4, <2>5 DEF Saved
    <3>2. \A u : u \in Gone' <=> u \in Gone \/ u = Me
      BY <2>4, <2>5 DEF Gone
    <3> QED BY <1>2, <3>1, <3>2
  <2>7. CallsInv'
    <3>1. CallsOK'
      BY <2>2 DEF Advance
    <3>2. ASSUME NEW i \in DOMAIN calls' PROVE Owned(calls[i])'
      <4>1. i = 1
        BY <2>3
      <4>2. calls'[i].ui \in Id' /\ ~ Has(calls'[i], "build")
        BY <2>3, <2>4, <4>1
      <4> QED BY <4>2 DEF Owned
    <3> QED BY <3>1, <3>2 DEF CallsInv, CallsOK
  <2>8. SavedInv' /\ ShowInv'
    <3>1. SavedInv'
      BY <2>6 DEF SavedInv
    <3>2. ShowInv'
      BY <2>3, <2>6 DEF ShowInv
    <3> QED BY <3>1, <3>2
  <2>9. TypeInv'
    <3>1. (\A u \in Id : GoodUI(ui[u]))'
      <4>1. \A u \in Id' : GoodUI(ui'[u])
        BY <1>2, <2>4, <2>5 DEF TypeInv
      <4> QED BY <4>1 DEF GoodUI
    <3>2. \A u \in Nat : Listing(u) \in windows' \/ Prompt(u) \in windows' => u \in Id'
      BY <1>2, <2>1, <2>4 DEF TypeInv
    <3> QED BY <1>2, <2>1, <2>4, <3>1, <3>2 DEF TypeInv
  <2>10. GoneInv'
    <3>1. Prompt(Me) \notin windows /\ Listing(Me) \notin windows /\ Me \notin leave
      BY <1>2, <2>4, <2>5 DEF TypeInv
    <3>2. \A u \in Gone : u # Me /\ ui'[u] = ui[u]
      BY <1>7, <2>4
    <3>3. \A u \in Gone' :
            /\ ~ ui'[u].prompt /\ Prompt(u) \notin windows' /\ ~ ui'[u].match_listing
            /\ ~ ui'[u].cmdline_enter_autocmd
      BY <1>7, <2>1, <2>5, <2>6, <3>1, <3>2
    <3>4. \A u \in Id' :
            /\ Listing(u) \in windows' => ui'[u].match_listing
            /\ Prompt(u) \in windows' => ui'[u].half \/ ui'[u].prompt
            /\ u \in leave' => Prompt(u) \in windows'
            /\ u \notin closing'
      BY <1>2, <1>a, <2>1, <2>4, <3>1
    <3> QED BY <3>3, <3>4 DEF GoneInv
  <2> QED BY <2>7, <2>8, <2>9, <2>10 DEF Inv
<1>9. CASE ~ (f.builds /\ ~ (f.pushes /\ f.missing))
  <2>1. /\ calls' = Tail(calls) /\ raised' = TRUE /\ ui' = ui
        /\ windows' = windows /\ current' = current /\ closing' = closing /\ leave' = leave
    BY <1>9 DEF Build, editor, Raise
  <2>2. CallsOK' /\ Len(calls') = 0 /\ calls' = << >>
    <3>1. CallsOK' /\ Len(calls') = Len(calls) - 1
      BY <1>1, <1>2, <2>1, Returned
    <3>2. Len(calls') = 0
      BY <1>2, <3>1
    <3> QED BY <3>1, <3>2 DEF CallsOK
  <2>3. CallsInv' /\ ~ Showing'
    BY <2>2 DEF CallsInv, CallsOK, Showing
  <2>4. Saved' = {} /\ Id' = Id /\ Gone' = Gone
    BY <1>2, <2>1 DEF Saved, Gone, Id
  <2>5. SavedInv' /\ ShowInv'
    BY <2>1, <2>3, <2>4 DEF SavedInv, ShowInv
  <2>6. TypeInv'
    BY <1>2, <2>1, <2>4 DEF TypeInv
  <2>7. GoneInv'
    BY <1>2, <1>7, <1>a, <2>1, <2>4 DEF GoneInv
  <2> QED BY <2>3, <2>5, <2>6, <2>7 DEF Inv
<1> QED BY <1>8, <1>9

LEMMA OverrideKeeps ==
  ASSUME Inv, HalfInv, Override
  PROVE  Inv'
<1>1. ~ Idle /\ Now.name = "settings" /\ Now.name \in ShowName /\ Now.name # "build" /\ Continue
  BY DEF Override, At, ShowName
<1>2. /\ CallsOK /\ TypeInv /\ Len(calls) = 1 /\ closing = {} /\ Showing
      /\ Has(calls[1], "settings") /\ Saved = {} /\ Me \in Id /\ Me \in Nat
      /\ GoodCall(calls[1]) /\ Me = calls[1].ui
      /\ \A n \in CloseName : ~ Has(calls[1], n)
      /\ ~ ui[Me].half
  <2>1. Me \in Id /\ Me = calls[1].ui /\ 1 \in DOMAIN calls
    BY <1>1, ShowAlone, MeExists
  <2>2. ~ ui[Me].half
    BY <2>1 DEF HalfInv, Half
  <2> QED BY <1>1, <2>2, ShowAlone, MeExists
<1>3. Advance({})
  BY <1>1, <1>2, StepTaken
<1> DEFINE r == [ui[Me] EXCEPT !.current_window = current, !.on_close = ui[Me].finder.pushes,
                               !.saved = {hlsearch}]
<1>4. GoodUI(ui[Me]) /\ current \in Window
  BY <1>2 DEF TypeInv
<1>6. /\ GoodUI(r) /\ r.saved # {} /\ r.half = ui[Me].half
      /\ r.on_close = ui[Me].finder.pushes
      /\ r.finder = ui[Me].finder /\ r.prompt = ui[Me].prompt
      /\ r.match_listing = ui[Me].match_listing
      /\ r.cmdline_enter_autocmd = ui[Me].cmdline_enter_autocmd
  BY <1>4 DEF GoodUI, Field
<1>7. SameUIs /\ ui'[Me] = r /\ \A u \in Id : u # Me => ui'[u] = ui[u]
  <2>1. ui' = [ui EXCEPT ![Me] = r]
    BY DEF Override
  <2> HIDE DEF r
  <2> QED BY <1>2, <2>1, Same
<1> HIDE DEF r
<1>8. Id' = Id /\ Saved' = {Me} /\ Me \in Gone /\ Gone \subseteq Id /\ Gone' = Gone \ {Me}
  <2>1. Id' = Id
    BY <1>7 DEF SameUIs
  <2>2. \A u : u \in Saved' <=> u = Me
    <3>1. \A u \in Id : u # Me => (u \in Saved' <=> u \in Saved)
      BY <1>7, <2>1 DEF Saved
    <3> QED BY <1>2, <1>6, <1>7, <2>1, <3>1 DEF Saved
  <2>3. \A u : u \in Gone' <=> u \in Gone /\ u # Me
    BY <1>2, <1>6, <1>7, <2>1 DEF Gone
  <2>4. Me \in Gone /\ Gone \subseteq Id
    BY <1>2 DEF Saved, Gone
  <2> QED BY <2>1, <2>2, <2>3, <2>4
<1>9. /\ \A u \in Gone :
           /\ ~ ui[u].prompt /\ Prompt(u) \notin windows /\ Listing(u) \notin windows
           /\ u \notin leave /\ ~ ui[u].match_listing /\ ~ ui[u].cmdline_enter_autocmd
      /\ \A u \in Id : /\ Listing(u) \in windows => ui[u].match_listing
                       /\ Prompt(u) \in windows => ui[u].half \/ ui[u].prompt
                       /\ u \in leave => Prompt(u) \in windows
  BY <1>1, <1>2, ShowAlone DEF Inv, GoneInv
<1>10. /\ \A n \in {"windows", "focus", "watch"} : Has(calls[1], n) /\ Pending(Me, n)
       /\ ~ Has(calls[1], "build")
  <2>1. \A n \in {"windows", "focus", "watch"} : Has(calls[1], n)
    BY <1>2 DEF GoodCall, Whole
  <2>2. Rank("build") = 1 /\ Rank("settings") = 2
    BY DEF Rank
  <2>3. ~ Has(calls[1], "build")
    BY <1>1, <2>2, ShowAlone
  <2>4. 1 \in DOMAIN calls
    BY <1>1, ShowAlone
  <2> QED BY <1>2, <2>1, <2>3, <2>4 DEF Pending
<1>11. /\ DOMAIN calls' = {1} /\ Len(calls') = 1 /\ calls'[1].ui = Me
       /\ \A n : Has(calls'[1], n) <=> Has(calls[1], n) /\ n # "settings"
       /\ \A n : Has(calls'[1], n) /\ n # Now'.name => Rank(Now'.name) < Rank(n)
       /\ \A u, n : Pending(u, n)' <=> u = Me /\ Has(calls'[1], n)
       /\ Showing'
  <2>1. \E u : Pending(u, "windows")'
    BY <1>1, <1>3, <1>10 DEF Advance
  <2>2. calls' # << >>
    BY <2>1 DEF Pending
  <2>3. Has(calls[1], "windows") /\ "windows" # "settings" /\ "windows" \in ShowName
    BY <1>10 DEF ShowName
  <2>4. \A n : n \notin {}
    OBVIOUS
  <2> QED BY <1>1, <1>3, <2>2, <2>3, <2>4, ShowGoesOn
<1>12. ~ At("enter")'
  <2>1. Rank("windows") = 3 /\ Rank("enter") = 5
    BY DEF Rank
  <2>2. Has(calls'[1], "windows")
    BY <1>10, <1>11
  <2> QED BY <1>11, <2>1, <2>2 DEF At
<1>13. CallsInv'
  BY <1>1, <1>3, <1>7, CallsStay
<1>14. TypeInv'
  <2>1. \A u \in Id : GoodUI(ui'[u])
    BY <1>2, <1>6, <1>7 DEF TypeInv
  <2> QED BY <1>2, <1>7, <2>1, WindowsStay DEF Override, editor, TypeInv
<1>15. SavedInv'
  <2>2. \A u \in Saved' : /\ u = Me /\ ~ ui'[u].prompt
                          /\ ui'[u].on_close = ui'[u].finder.pushes
    BY <1>2, <1>6, <1>7, <1>8, <1>9
  <2>3. \A u : u = Me => Pending(u, "windows")' /\ Pending(u, "focus")' /\ Pending(u, "watch")'
    BY <1>10, <1>11
  <2> QED BY <1>11, <1>12, <2>2, <2>3 DEF SavedInv, Way
<1>16. ShowInv'
  BY <1>8, <1>11 DEF ShowInv
<1>17. GoneInv'
  <2>1. UNCHANGED <<windows, current, closing, leave>>
    BY DEF Override, editor
  <2>2. \A u \in Gone' : u \in Gone /\ ui'[u] = ui[u]
    BY <1>7, <1>8
  <2>3. \A u \in Id : /\ ui'[u].match_listing = ui[u].match_listing
                      /\ ui'[u].prompt = ui[u].prompt /\ ui'[u].half = ui[u].half
    BY <1>6, <1>7
  <2> QED BY <1>2, <1>8, <1>9, <2>1, <2>2, <2>3 DEF GoneInv
<1> QED BY <1>13, <1>14, <1>15, <1>16, <1>17 DEF Inv

\* The frame of the steps after the setting has been overridden: the call goes
\* on with what is left, and the one saved UI is its own.
LEMMA ShowFrame ==
  ASSUME Inv, ~ Idle, Now.name \in {"windows", "focus", "watch"}, NEW M, Advance(M),
         \A n \in M : n = "enter", SameUIs,
         \A u \in Id : /\ ui'[u].saved = ui[u].saved /\ ui'[u].on_close = ui[u].on_close
                       /\ ui'[u].half = ui[u].half
                       /\ ui'[u].finder.pushes = ui[u].finder.pushes
  PROVE  /\ Id' = Id /\ Saved = {Me} /\ Saved' = {Me} /\ Me \in Id /\ closing = {}
         /\ CallsInv' /\ ShowInv'
         /\ ui[Me].on_close = ui[Me].finder.pushes
         /\ Gone' = Gone /\ Gone \subseteq Id /\ Me \notin Gone
         /\ \A u \in Gone :
              /\ ~ ui[u].prompt /\ Prompt(u) \notin windows /\ Listing(u) \notin windows
              /\ u \notin leave /\ ~ ui[u].match_listing /\ ~ ui[u].cmdline_enter_autocmd
<1>1. Now.name \in ShowName /\ Now.name # "build" /\ Now.name # "enter"
  BY DEF ShowName
<1>2. Me \in Id /\ TypeInv
  BY <1>1, MeExists DEF Inv
<1>3. CallsInv'
  BY <1>1, CallsStay
<1>4. ~ Has(calls[1], "settings") /\ ~ Has(calls[1], "build")
  <2>1. \A n \in {"settings", "build"} : n # Now.name /\ ~ Rank(Now.name) < Rank(n)
    BY DEF Rank
  <2> QED BY <1>1, <2>1, ShowAlone
<1>5. Saved = {Me} /\ closing = {}
  BY <1>1, <1>4, ShowAlone
<1>6. Saved' = {Me}
  BY <1>5 DEF Saved, SameUIs
<1>7. Showing' => /\ Len(calls') = 1 /\ calls'[1].ui = Me
                  /\ ~ Has(calls'[1], "settings") /\ ~ Has(calls'[1], "build")
  BY <1>1, <1>4, ShowGoesOn
<1>8. ShowInv'
  BY <1>6, <1>7 DEF ShowInv
<1>12. ui[Me].on_close = ui[Me].finder.pushes
  BY <1>5 DEF Inv, SavedInv
<1>13. \A u \in Gone :
         /\ ~ ui[u].prompt /\ Prompt(u) \notin windows /\ Listing(u) \notin windows
         /\ u \notin leave /\ ~ ui[u].match_listing /\ ~ ui[u].cmdline_enter_autocmd
  BY <1>1, ShowAlone
<1>14. Id' = Id /\ Gone' = Gone /\ Gone \subseteq Id /\ Me \notin Gone
  BY <1>5 DEF SameUIs, Saved, Gone
<1> QED BY <1>2, <1>3, <1>5, <1>6, <1>8, <1>12, <1>13, <1>14

LEMMA OpenWindowsKeeps ==
  ASSUME Inv, OpenWindows
  PROVE  Inv'
<1>1. ~ Idle /\ Now.name = "windows" /\ Now.name \in ShowName /\ Continue
  BY DEF OpenWindows, At, ShowName
<1>2. /\ CallsOK /\ TypeInv /\ Me \in Id /\ Me \in Nat /\ GoodCall(calls[1]) /\ Me = calls[1].ui
      /\ Has(calls[1], "windows") /\ 1 \in DOMAIN calls
  BY <1>1, ShowAlone, MeExists
<1>3. Advance({})
  BY <1>1, <1>2, StepTaken
<1> DEFINE r == [ui[Me] EXCEPT !.match_listing = TRUE, !.prompt = TRUE, !.buffer = {cwd}]
<1>4. GoodUI(ui[Me])
  BY <1>2 DEF TypeInv
<1>5. /\ GoodUI(r) /\ r.saved = ui[Me].saved /\ r.on_close = ui[Me].on_close
      /\ r.half = ui[Me].half /\ r.finder = ui[Me].finder /\ r.prompt = TRUE /\ r.match_listing = TRUE
      /\ r.cmdline_enter_autocmd = ui[Me].cmdline_enter_autocmd
  BY <1>4 DEF GoodUI, Field
<1>6. SameUIs /\ ui'[Me] = r /\ \A u \in Id : u # Me => ui'[u] = ui[u]
  <2>1. ui' = [ui EXCEPT ![Me] = r]
    BY DEF OpenWindows
  <2> HIDE DEF r
  <2> QED BY <1>2, <2>1, Same
<1> HIDE DEF r
<1>7. /\ windows' = windows \cup {Listing(Me), Prompt(Me)} /\ leave' = leave \cup {Me}
      /\ current' = current /\ closing' = closing /\ raised' = raised
  BY DEF OpenWindows
<1>8. /\ Id' = Id /\ Saved = {Me} /\ Saved' = {Me} /\ closing = {}
      /\ CallsInv' /\ ShowInv'
      /\ ui[Me].on_close = ui[Me].finder.pushes
      /\ Gone' = Gone /\ Gone \subseteq Id /\ Me \notin Gone
      /\ \A u \in Gone :
           /\ ~ ui[u].prompt /\ Prompt(u) \notin windows /\ Listing(u) \notin windows
           /\ u \notin leave /\ ~ ui[u].match_listing /\ ~ ui[u].cmdline_enter_autocmd
  <2>1. \A u \in Id : /\ ui'[u].saved = ui[u].saved /\ ui'[u].on_close = ui[u].on_close
                      /\ ui'[u].half = ui[u].half
                      /\ ui'[u].finder.pushes = ui[u].finder.pushes
    BY <1>5, <1>6
  <2> QED BY <1>1, <1>3, <1>6, <2>1, ShowFrame
<1>9. /\ \A u, n : Pending(u, n) /\ n # "windows" => Pending(u, n)'
      /\ Pending(Me, "focus") /\ Pending(Me, "watch")
  BY <1>1, <1>2, <1>3 DEF Advance, GoodCall, Whole, Pending
<1>10. Showing' /\ ~ At("enter")'
  <2>1. \E u : Pending(u, "focus")'
    BY <1>9
  <2>2. calls' # << >> /\ Has(calls'[1], "focus") /\ "focus" \in ShowName
    BY <1>1, <1>3, <2>1, ShowGoesOn DEF ShowName, Pending
  <2>3. Showing'
    BY <1>1, <1>3, <2>2, ShowGoesOn
  <2>4. Rank("focus") = 5 /\ Rank("enter") = 5
    BY DEF Rank
  <2>5. Now'.name = "focus" \/ Rank(Now'.name) < Rank("focus")
    BY <1>1, <1>3, <2>2, ShowGoesOn
  <2>6. ~ At("enter")'
    BY <2>4, <2>5 DEF At
  <2> QED BY <2>3, <2>6
<1>11. TypeInv'
  <2>1. \A u \in Id : GoodUI(ui'[u])
    BY <1>2, <1>5, <1>6 DEF TypeInv
  <2>2. (\A u \in Id : GoodUI(ui[u]))'
    BY <1>8, <2>1 DEF GoodUI
  <2>3. \A u \in Nat : Listing(u) \in windows' \/ Prompt(u) \in windows' => u \in Id'
    BY <1>2, <1>7, <1>8, WindowsDiffer DEF TypeInv
  <2>4. windows' \subseteq Window
    BY <1>2, <1>7 DEF TypeInv, Window
  <2> QED BY <1>2, <1>6, <1>7, <1>8, <2>2, <2>3, <2>4 DEF TypeInv, SameUIs
<1>12. SavedInv'
  <2>1. /\ ui[Me].cmdline_enter_autocmd \/ Pending(Me, "watch")
        /\ current = Prompt(Me) \/ Pending(Me, "focus")
    BY <1>9
  <2>2. \A u : u = Me => Pending(u, "watch")' /\ Pending(u, "focus")'
    BY <1>9
  <2>3. \A u \in Saved' :
          /\ u = Me /\ ui'[u].prompt /\ ui'[u].match_listing
          /\ ui'[u].on_close = ui'[u].finder.pushes
    BY <1>5, <1>6, <1>8
  <2> QED BY <1>7, <1>8, <1>10, <2>2, <2>3 DEF SavedInv, Way
<1>13. GoneInv'
  <2>1. \A u \in Id : u \in Nat
    BY <1>2, Indices
  <2>2. \A u \in Id : u # Me => /\ Prompt(u) \in windows' <=> Prompt(u) \in windows
                                /\ Listing(u) \in windows' <=> Listing(u) \in windows
                                /\ u \in leave' <=> u \in leave
    BY <1>2, <1>7, <2>1, WindowsDiffer
  <2>3. \A u \in Gone : u # Me
    BY <1>8
  <2>4. GoneInv /\ closing' = {}
    BY <1>7, <1>8 DEF Inv
  <2>5. \A u \in Gone' :
          /\ ~ ui'[u].prompt /\ Prompt(u) \notin windows' /\ ~ ui'[u].match_listing
          /\ ~ ui'[u].cmdline_enter_autocmd
    BY <1>6, <1>8, <2>2, <2>3
  <2>6. \A u \in Id' :
          /\ Listing(u) \in windows' => ui'[u].match_listing
          /\ Prompt(u) \in windows' => ui'[u].half \/ ui'[u].prompt
          /\ u \in leave' => Prompt(u) \in windows'
    BY <1>5, <1>6, <1>7, <1>8, <2>2, <2>4 DEF GoneInv
  <2> QED BY <2>4, <2>5, <2>6 DEF GoneInv
<1> QED BY <1>8, <1>11, <1>12, <1>13 DEF Inv

\* A show() that ends half way leaves no call, and a UI that is neither shown nor gone.
LEMMA OpenHalfKeeps ==
  ASSUME Inv, OpenHalf
  PROVE  Inv'
<1>1. ~ Idle /\ Now.name = "windows" /\ Now.name \in ShowName
  BY DEF OpenHalf, At, ShowName
<1>2. ~ Has(calls[1], "settings")
  <2>1. "settings" # Now.name /\ ~ Rank(Now.name) < Rank("settings")
    BY <1>1 DEF Rank
  <2> QED BY <1>1, <2>1, ShowAlone
<1>3. /\ CallsOK /\ TypeInv /\ Me \in Id /\ Me \in Nat /\ Len(calls) = 1 /\ calls # << >>
      /\ Saved = {Me} /\ closing = {}
      /\ \A u \in Gone : /\ ~ ui[u].prompt /\ Prompt(u) \notin windows
                         /\ ~ ui[u].match_listing /\ ~ ui[u].cmdline_enter_autocmd
  BY <1>1, <1>2, ShowAlone, MeExists DEF Idle
<1>4. PICK opened \in {{}, {Listing(Me)}, {Listing(Me), Prompt(Me)}}, named \in {{}, {cwd}} :
        /\ windows' = windows \cup opened
        /\ leave' = IF Prompt(Me) \in opened THEN leave \cup {Me} ELSE leave
        /\ ui' = [ui EXCEPT ![Me].match_listing = TRUE, ![Me].prompt = opened # {},
                            ![Me].buffer = named, ![Me].half = TRUE]
  BY DEF OpenHalf
<1>5. current' = current /\ closing' = closing /\ calls' = Tail(calls)
  BY DEF OpenHalf, Raise
<1> DEFINE r == [ui[Me] EXCEPT !.match_listing = TRUE, !.prompt = opened # {},
                               !.buffer = named, !.half = TRUE]
<1>6. GoodUI(ui[Me])
  BY <1>3 DEF TypeInv
<1>7. GoodUI(r) /\ r.half = TRUE /\ r.match_listing = TRUE /\ r.prompt = (opened # {})
  BY <1>6 DEF GoodUI, Field
<1>8. SameUIs /\ ui'[Me] = r /\ \A u \in Id : u # Me => ui'[u] = ui[u]
  <2>1. ui' = [ui EXCEPT ![Me] = r]
    BY <1>4
  <2> HIDE DEF r
  <2> QED BY <1>3, <2>1, Same
<1> HIDE DEF r
<1>9. CallsOK' /\ calls' = << >>
  <2>1. CallsOK' /\ Len(calls') = Len(calls) - 1
    BY <1>3, <1>5, Returned
  <2>2. Len(calls') = 0
    BY <1>3, <2>1
  <2> QED BY <2>1, <2>2 DEF CallsOK
<1>10. CallsInv' /\ ~ Showing'
  BY <1>9 DEF CallsInv, CallsOK, Showing
<1>11. Id' = Id /\ Saved' = {} /\ Gone' = Gone /\ Gone \subseteq Id /\ Me \notin Gone
  <2>1. Id' = Id
    BY <1>8 DEF SameUIs
  <2>2. \A u : u \notin Saved'
    <3>1. \A u \in Id : u # Me => ui'[u].half \/ ui'[u].saved = {}
      BY <1>3, <1>8 DEF Saved
    <3> QED BY <1>7, <1>8, <2>1, <3>1 DEF Saved
  <2>3. Me \notin Gone
    BY <1>3 DEF Saved, Gone
  <2>4. \A u : u \in Gone' <=> u \in Gone
    BY <1>7, <1>8, <2>1, <2>3 DEF Gone
  <2>5. Gone \subseteq Id
    BY DEF Gone
  <2> QED BY <2>1, <2>2, <2>3, <2>4, <2>5
<1>12. SavedInv' /\ ShowInv'
  BY <1>10, <1>11 DEF SavedInv, ShowInv
<1>13. \A u \in Id : u \in Nat
  BY <1>3, Indices
<1>14. TypeInv'
  <2>1. \A u \in Id : GoodUI(ui'[u])
    BY <1>3, <1>7, <1>8 DEF TypeInv
  <2>2. (\A u \in Id : GoodUI(ui[u]))'
    BY <1>11, <2>1 DEF GoodUI
  <2>3. opened \subseteq Window /\ \A u \in Nat : Listing(u) \in opened \/ Prompt(u) \in opened => u = Me
    BY <1>3, WindowsDiffer DEF Window
  <2>4. windows' \subseteq Window
    BY <1>3, <1>4, <2>3 DEF TypeInv
  <2>5. \A u \in Nat : Listing(u) \in windows' \/ Prompt(u) \in windows' => u \in Id'
    BY <1>3, <1>4, <1>11, <2>3 DEF TypeInv
  <2> QED BY <1>3, <1>4, <1>5, <1>8, <1>11, <2>2, <2>4, <2>5 DEF TypeInv, SameUIs
<1>15. GoneInv'
  <2>1. \A u \in Id : u # Me => /\ Prompt(u) \in windows' <=> Prompt(u) \in windows
                                /\ Listing(u) \in windows' <=> Listing(u) \in windows
                                /\ u \in leave' <=> u \in leave
    BY <1>3, <1>4, <1>13, WindowsDiffer
  <2>2. Prompt(Me) \notin windows /\ Listing(Me) \notin windows => Me \notin leave
    BY <1>3 DEF Inv, GoneInv
  <2>3. \A u \in Gone' :
          /\ ~ ui'[u].prompt /\ Prompt(u) \notin windows' /\ ~ ui'[u].match_listing
          /\ ~ ui'[u].cmdline_enter_autocmd
    BY <1>3, <1>8, <1>11, <2>1
  <2>4. GoneInv
    BY DEF Inv
  <2>5. \A u \in Id : u # Me =>
          /\ Listing(u) \in windows' => ui'[u].match_listing
          /\ Prompt(u) \in windows' => ui'[u].half \/ ui'[u].prompt
          /\ u \in leave' => Prompt(u) \in windows'
    BY <1>3, <1>8, <2>1, <2>4 DEF GoneInv
  <2>6. /\ ui'[Me].match_listing /\ ui'[Me].half
        /\ Me \in leave' => Prompt(Me) \in windows'
    <3>1. Me \in leave => Prompt(Me) \in windows
      BY <1>3, <2>4 DEF GoneInv
    <3> QED BY <1>3, <1>4, <1>7, <1>8, <3>1
  <2> QED BY <1>3, <1>5, <1>11, <2>3, <2>5, <2>6 DEF GoneInv
<1> QED BY <1>10, <1>12, <1>14, <1>15 DEF Inv

LEMMA FocusKeeps ==
  ASSUME Inv, Focus
  PROVE  Inv'
<1>1. ~ Idle /\ Now.name = "focus" /\ Now.name \in ShowName
  BY DEF Focus, At, ShowName
<1>2. /\ CallsOK /\ TypeInv /\ Me \in Id /\ Me \in Nat /\ GoodCall(calls[1]) /\ Me = calls[1].ui
      /\ Has(calls[1], "focus") /\ 1 \in DOMAIN calls /\ Len(calls) = 1
  BY <1>1, ShowAlone, MeExists
<1> DEFINE s == Enter(Prompt(Me))
<1>3. s \in StepType /\ s.name = "enter" /\ s.to = Prompt(Me)
  <2>1. Prompt(Me) \in Window
    BY <1>2 DEF Window
  <2> QED BY <2>1, EnterType
<1>4. calls' = Then(<<s>>)
  BY DEF Focus
<1> HIDE DEF s
<1>5. /\ Advance({"enter"}) /\ calls' # << >> /\ Now' = s /\ Me' = Me
  BY <1>1, <1>2, <1>3, <1>4, StepReplaced
<1>6. /\ ui' = ui /\ windows' = windows /\ leave' = leave /\ current' = current
      /\ closing' = closing /\ raised' = raised /\ hlsearch' = hlsearch
      /\ cwd' = cwd /\ stack' = stack
  BY DEF Focus, editor
<1>7. SameUIs
  BY <1>2, <1>6 DEF SameUIs, TypeInv, Id
<1>8. /\ Id' = Id /\ Saved = {Me} /\ Saved' = {Me} /\ closing = {}
      /\ CallsInv' /\ ShowInv'
      /\ Gone' = Gone /\ Gone \subseteq Id /\ Me \notin Gone
      /\ \A u \in Gone :
           /\ ~ ui[u].prompt /\ Prompt(u) \notin windows /\ Listing(u) \notin windows
           /\ u \notin leave /\ ~ ui[u].match_listing /\ ~ ui[u].cmdline_enter_autocmd
  BY <1>1, <1>5, <1>6, <1>7, ShowFrame
<1>9. /\ \A u, n : Pending(u, n) /\ n # "focus" => Pending(u, n)'
      /\ Pending(Me, "watch")
  BY <1>1, <1>2, <1>5 DEF Advance, GoodCall, Whole, Pending
<1>10. Showing' /\ At("enter")' /\ Now'.to = Prompt(Me)
  <2>1. \E u : Pending(u, "watch")'
    BY <1>9
  <2>2. Has(calls'[1], "watch") /\ "watch" \in ShowName
    BY <1>1, <1>5, <2>1, ShowGoesOn DEF ShowName
  <2>3. Showing'
    BY <1>1, <1>5, <2>2, ShowGoesOn
  <2>4. At("enter")' /\ Now'.to = Prompt(Me)
    BY <1>3, <1>5 DEF At, Idle
  <2> QED BY <2>3, <2>4
<1>11. TypeInv'
  BY <1>2, <1>6, <1>7, WindowsStay DEF TypeInv
<1>12. SavedInv'
  <2>1. ASSUME NEW u \in Saved'
        PROVE  /\ u = Me /\ ui[u].prompt /\ ui[u].match_listing
               /\ ui[u].cmdline_enter_autocmd \/ Pending(u, "watch")'
               /\ u \in leave /\ {Listing(u), Prompt(u)} \subseteq windows
               /\ ui[u].on_close = ui[u].finder.pushes
    <3>1. u = Me /\ u \in Saved
      BY <1>8
    <3>2. ~ Pending(u, "windows")
      <4>1. "windows" # "focus" /\ ~ Rank("focus") < Rank("windows")
        BY DEF Rank
      <4>2. ~ Has(calls[1], "windows")
        BY <1>1, <4>1, ShowAlone
      <4>3. DOMAIN calls = {1}
        BY <1>1, ShowAlone
      <4> QED BY <4>2, <4>3 DEF Pending
    <3>3. /\ ui[u].prompt /\ ui[u].match_listing
          /\ ui[u].on_close = ui[u].finder.pushes
          /\ ui[u].cmdline_enter_autocmd \/ Pending(u, "watch")
      BY <3>1, <3>2 DEF Inv, SavedInv
    <3>4. u \in leave /\ {Listing(u), Prompt(u)} \subseteq windows
      BY <1>1, <3>1, <3>3 DEF Inv, SavedInv, At
    <3> QED BY <1>9, <3>1, <3>3, <3>4
  <2> QED BY <1>6, <1>8, <1>10, <2>1 DEF SavedInv, Way
<1>13. GoneInv'
  <2>1. GoneInv
    BY DEF Inv
  <2> QED BY <1>6, <1>8, <2>1 DEF GoneInv
<1> QED BY <1>8, <1>11, <1>12, <1>13 DEF Inv

LEMMA WatchKeeps ==
  ASSUME Inv, Watch
  PROVE  Inv'
<1>1. ~ Idle /\ Now.name = "watch" /\ Now.name \in ShowName /\ Continue
  BY DEF Watch, At, ShowName
<1>2. /\ CallsOK /\ TypeInv /\ Me \in Id /\ Me \in Nat /\ Me = calls[1].ui
      /\ DOMAIN calls = {1} /\ Len(calls) = 1
  BY <1>1, ShowAlone, MeExists
<1>3. Advance({})
  BY <1>1, <1>2, StepTaken
<1>4. /\ OneUI(Me, {"cmdline_enter_autocmd"}) /\ ui'[Me].cmdline_enter_autocmd = TRUE
      /\ \A w \in Id : GoodUI(ui'[w])
  <2> DEFINE r == [ui[Me] EXCEPT !.cmdline_enter_autocmd = TRUE]
  <2>1. GoodUI(ui[Me])
    BY <1>2 DEF TypeInv
  <2>2. /\ GoodUI(r) /\ r.saved = ui[Me].saved /\ r.on_close = ui[Me].on_close
        /\ r.finder = ui[Me].finder /\ r.prompt = ui[Me].prompt
        /\ r.match_listing = ui[Me].match_listing /\ r.half = ui[Me].half
        /\ r.current_window = ui[Me].current_window /\ r.cmdline_enter_autocmd = TRUE
    BY <2>1 DEF GoodUI, Field
  <2>3. SameUIs /\ ui'[Me] = r /\ \A u \in Id : u # Me => ui'[u] = ui[u]
    <3>1. ui' = [ui EXCEPT ![Me] = r]
      BY DEF Watch
    <3> HIDE DEF r
    <3> QED BY <1>2, <3>1, Same
  <2> HIDE DEF r
  <2>4. \A w \in Id : GoodUI(ui'[w])
    BY <1>2, <2>2, <2>3 DEF TypeInv
  <2>5. \A w \in Id : Keeps(w, IF w = Me THEN Kept \ {"cmdline_enter_autocmd"} ELSE Kept)
    <3> TAKE w \in Id
    <3>1. CASE w = Me
      BY <3>1, <2>2, <2>3 DEF Keeps, Kept
    <3>2. CASE w # Me
      BY <3>2, <2>3 DEF Keeps
    <3> QED BY <3>1, <3>2
  <2> QED BY <2>2, <2>3, <2>4, <2>5 DEF OneUI
<1>5. /\ SameUIs
      /\ \A u \in Id : /\ ui'[u].saved = ui[u].saved /\ ui'[u].half = ui[u].half
                       /\ ui'[u].prompt = ui[u].prompt
                       /\ u # Me => ui'[u].cmdline_enter_autocmd = ui[u].cmdline_enter_autocmd
                       /\ ui'[u].on_close = ui[u].on_close
                       /\ ui'[u].match_listing = ui[u].match_listing
                       /\ ui'[u].finder.pushes = ui[u].finder.pushes
  BY <1>4 DEF OneUI, Keeps, Kept
<1>6. /\ windows' = windows /\ leave' = leave /\ current' = current
      /\ closing' = closing /\ raised' = raised /\ hlsearch' = hlsearch
      /\ cwd' = cwd /\ stack' = stack
  BY DEF Watch, editor
<1>7. /\ Id' = Id /\ Saved = {Me} /\ Saved' = {Me} /\ closing = {}
      /\ CallsInv' /\ ShowInv'
      /\ Gone' = Gone /\ Gone \subseteq Id /\ Me \notin Gone
      /\ \A u \in Gone :
           /\ ~ ui[u].prompt /\ Prompt(u) \notin windows /\ Listing(u) \notin windows
           /\ u \notin leave /\ ~ ui[u].match_listing /\ ~ ui[u].cmdline_enter_autocmd
  BY <1>1, <1>3, <1>5, <1>6, ShowFrame
<1>8. calls' = << >> /\ \A n \in {"windows", "focus"} : ~ Pending(Me, n)
  <2>1. Rank("watch") = 6 /\ Rank("windows") = 3 /\ Rank("focus") = 5
        /\ \A n \in Name \ CloseName : Rank(n) <= 6
    BY DEF Rank, Name, ShowName
  <2>2. \A n : Has(calls[1], n) => n = "watch" \/ Rank(n) > 6
    BY <1>1, <2>1, ShowAlone, RankType
  <2>3. \A n \in {"windows", "focus"} : ~ Has(calls[1], n)
    BY <2>1, <2>2
  <2>4. SUFFICES ASSUME calls' # << >> PROVE FALSE
    BY <1>2, <2>3 DEF Pending
  <2>5. /\ Has(calls'[1], Now'.name) /\ Has(calls[1], Now'.name) /\ Now'.name # "watch"
    BY <1>1, <1>3, <2>4, ShowGoesOn
  <2>6. Now'.name \in Name
    <3>1. CallsOK'
      BY <1>3 DEF Advance
    <3>2. Head(calls') \in CallType /\ GoodCall(Head(calls'))
      BY <1>1, <1>3, <2>4, ShowGoesOn
    <3> QED BY <3>2, FirstStep DEF Now
  <2>7. Now'.name \in CloseName
    <3>1. Rank(Now'.name) > 6
      BY <2>2, <2>5
    <3>2. \A n \in Name : Rank(n) > 6 => n \in CloseName
      <4> TAKE n \in Name
      <4>1. Rank(n) \in 1 .. 7
        BY RankType
      <4>2. n \notin CloseName => Rank(n) <= 6
        BY <2>1
      <4> QED BY <4>1, <4>2
    <3> HIDE DEF Now
    <3> QED BY <2>6, <3>1, <3>2
  <2> QED BY <1>1, <2>5, <2>7, ShowAlone
<1>9. TypeInv'
  BY <1>2, <1>4, <1>5, <1>6, WindowsStay DEF TypeInv
<1>10. SavedInv'
  <2>1. ASSUME NEW u \in Saved'
        PROVE  /\ u = Me /\ ui'[u].prompt /\ ui'[u].match_listing /\ ui'[u].cmdline_enter_autocmd
               /\ current' = Prompt(u) /\ u \in leave
               /\ {Listing(u), Prompt(u)} \subseteq windows
               /\ ui'[u].on_close = ui'[u].finder.pushes
    <3>1. u = Me /\ u \in Saved /\ u \in Id
      BY <1>2, <1>7
    <3>2. ~ Pending(u, "windows") /\ ~ Pending(u, "focus") /\ ~ At("enter") /\ ~ At("hlsearch")
      BY <1>1, <1>8, <3>1 DEF At
    <3>3. /\ ui[u].prompt /\ ui[u].match_listing
          /\ ui[u].on_close = ui[u].finder.pushes /\ current = Prompt(u)
      BY <3>1, <3>2 DEF Inv, SavedInv
    <3>4. u \in leave /\ {Listing(u), Prompt(u)} \subseteq windows
      BY <3>1, <3>2, <3>3 DEF Inv, SavedInv
    <3> QED BY <1>4, <1>5, <1>6, <3>1, <3>3, <3>4
  <2>2. ~ Showing'
    BY <1>8 DEF Showing
  <2> QED BY <1>6, <1>7, <1>8, <2>1, <2>2 DEF SavedInv, Way
<1>11. GoneInv'
  <2>1. GoneInv
    BY DEF Inv
  <2>2. \A u \in Gone' :
          ~ ui'[u].prompt /\ Prompt(u) \notin windows' /\ ~ ui'[u].match_listing
          /\ ~ ui'[u].cmdline_enter_autocmd
    BY <1>5, <1>6, <1>7
  <2>3. \A u \in Id' :
          /\ Listing(u) \in windows' => ui'[u].match_listing
          /\ Prompt(u) \in windows' => ui'[u].half \/ ui'[u].prompt
          /\ u \in leave' => Prompt(u) \in windows'
    BY <1>5, <1>6, <1>7, <2>1 DEF GoneInv
  <2> QED BY <1>6, <1>7, <2>2, <2>3 DEF GoneInv
<1> QED BY <1>7, <1>9, <1>10, <1>11 DEF Inv

---------------------------------------------------------------------------
(* What the user does.                                                     *)

LEMMA AtRest ==
  ASSUME Inv, Idle
  PROVE  /\ ~ Showing /\ closing = {} /\ \A u, n : ~ Pending(u, n)
         /\ \A u \in Saved :
              /\ ui[u].prompt /\ ui[u].match_listing
              /\ ui[u].cmdline_enter_autocmd /\ current = Prompt(u) /\ u \in leave
              /\ {Listing(u), Prompt(u)} \subseteq windows
              /\ ui[u].on_close = ui[u].finder.pushes
         /\ \A u \in Gone :
              /\ ~ ui[u].prompt /\ ~ ui[u].match_listing /\ ~ ui[u].cmdline_enter_autocmd
              /\ Prompt(u) \notin windows /\ Listing(u) \notin windows /\ u \notin leave
         /\ Live = Saved /\ Closers \subseteq Saved \cup Half
<1>1. DOMAIN calls = {} /\ \A n : ~ At(n)
  BY DEF Idle, At
<1>2. ~ Showing /\ \A u, n : ~ Pending(u, n)
  BY <1>1 DEF Showing, Pending
<1>3. closing = {}
  BY <1>2 DEF Inv, GoneInv, TypeInv
<1>4. ASSUME NEW u \in Saved
      PROVE  /\ ui[u].prompt /\ ui[u].match_listing
             /\ ui[u].cmdline_enter_autocmd /\ current = Prompt(u) /\ u \in leave
             /\ {Listing(u), Prompt(u)} \subseteq windows
             /\ ui[u].on_close = ui[u].finder.pushes
  <2>1. /\ ui[u].prompt /\ ui[u].match_listing
        /\ ui[u].cmdline_enter_autocmd /\ current = Prompt(u)
        /\ ui[u].on_close = ui[u].finder.pushes
    BY <1>2 DEF Inv, SavedInv
  <2>2. u \in leave /\ {Listing(u), Prompt(u)} \subseteq windows
    BY <1>1, <2>1 DEF Inv, SavedInv
  <2> QED BY <2>1, <2>2
<1>5. ASSUME NEW u \in Gone
      PROVE  /\ ~ ui[u].prompt /\ ~ ui[u].match_listing /\ ~ ui[u].cmdline_enter_autocmd
             /\ Prompt(u) \notin windows /\ Listing(u) \notin windows /\ u \notin leave
  BY <1>2 DEF Inv, GoneInv, Gone
<1>6. Live = Saved /\ Closers \subseteq Saved \cup Half
  <2>1. \A u \in Id : u \in Half \/ u \in Saved \/ u \in Gone
    BY DEF Half, Saved, Gone
  <2>2. \A u \in Saved : u \in Id \ Half
    BY DEF Half, Saved
  <2>3. \A u : u \in Live <=> u \in Saved
    BY <1>4, <1>5, <2>1, <2>2 DEF Live
  <2>4. \A u : u \in Closers => u \in Saved \/ u \in Half
    BY <1>5, <2>1 DEF Closers
  <2> QED BY <2>3, <2>4
<1> QED BY <1>2, <1>3, <1>4, <1>5, <1>6

\* Between two calls the UIs and the user's windows may change in what Inv does not see.
LEMMA Resting ==
  ASSUME Inv, Idle, calls' = calls, SameUIs, \A u \in Id : Keeps(u, Kept) /\ GoodUI(ui'[u]),
         windows' \subseteq Window,
         \A u \in Nat : /\ Listing(u) \in windows' <=> Listing(u) \in windows
                        /\ Prompt(u) \in windows' <=> Prompt(u) \in windows,
         UNCHANGED <<current, closing, leave>>
  PROVE  Inv'
<1>1. /\ ~ Showing /\ closing = {} /\ \A u, n : ~ Pending(u, n)
      /\ \A u \in Saved :
           /\ ui[u].prompt /\ ui[u].match_listing
           /\ ui[u].cmdline_enter_autocmd /\ current = Prompt(u) /\ u \in leave
           /\ {Listing(u), Prompt(u)} \subseteq windows
           /\ ui[u].on_close = ui[u].finder.pushes
      /\ \A u \in Gone :
           /\ ~ ui[u].prompt /\ ~ ui[u].match_listing /\ ~ ui[u].cmdline_enter_autocmd
           /\ Prompt(u) \notin windows /\ Listing(u) \notin windows /\ u \notin leave
  BY AtRest
<1>2. calls' = << >> /\ DOMAIN calls' = {} /\ Idle'
  BY DEF Idle
<1>3. ~ Showing' /\ CallsInv' /\ ShowInv'
  BY <1>2 DEF Showing, CallsInv, ShowInv
<1>4. /\ Id' = Id /\ Len(ui') = Len(ui)
      /\ \A u \in Id : /\ u \in Nat
                       /\ ui'[u].saved = ui[u].saved /\ ui'[u].half = ui[u].half
                       /\ ui'[u].prompt = ui[u].prompt
                       /\ ui'[u].match_listing = ui[u].match_listing
                       /\ ui'[u].cmdline_enter_autocmd = ui[u].cmdline_enter_autocmd
                       /\ ui'[u].on_close = ui[u].on_close
                       /\ ui'[u].finder.pushes = ui[u].finder.pushes
  BY Indices DEF SameUIs, Keeps, Kept, Inv
<1>5. TypeInv'
  <2>1. \A u \in Nat : Listing(u) \in windows' \/ Prompt(u) \in windows' => u \in Id'
    BY <1>4 DEF Inv, TypeInv
  <2>2. (\A u \in Id : GoodUI(ui[u]))'
    BY <1>4 DEF GoodUI
  <2>3. current' \in Window /\ closing' \subseteq Id' /\ leave' \subseteq Id'
    BY <1>4 DEF Inv, TypeInv
  <2> QED BY <2>1, <2>2, <2>3 DEF TypeInv, SameUIs
<1>6. Saved' = Saved /\ Gone' = Gone
  BY <1>4 DEF Saved, Gone
<1>7. SavedInv'
  <2>1. \A a, b \in Saved' : a = b
    BY <1>6 DEF Inv, SavedInv
  <2>2. ASSUME NEW u \in Saved
        PROVE  /\ ui'[u].prompt /\ ui'[u].match_listing
               /\ ui'[u].cmdline_enter_autocmd /\ current' = Prompt(u)
               /\ u \in leave' /\ {Listing(u), Prompt(u)} \subseteq windows'
               /\ ui'[u].on_close = ui'[u].finder.pushes
    BY <1>1, <1>4 DEF Saved
  <2> QED BY <1>2, <1>3, <1>6, <2>1, <2>2 DEF SavedInv, Way
<1>8. GoneInv'
  <2>1. GoneInv
    BY DEF Inv
  <2>2. closing' = {}
    BY <1>1
  <2>3. \A u \in Gone : u \in Id
    BY DEF Gone
  <2>4. \A u \in Gone' :
          ~ ui'[u].prompt /\ Prompt(u) \notin windows' /\ ~ ui'[u].match_listing
          /\ ~ ui'[u].cmdline_enter_autocmd
    BY <1>1, <1>4, <1>6, <2>3
  <2>5. \A u \in Id' :
          /\ Listing(u) \in windows' => ui'[u].match_listing
          /\ Prompt(u) \in windows' => ui'[u].half \/ ui'[u].prompt
          /\ u \in leave' => Prompt(u) \in windows'
    BY <1>1, <1>4, <2>1 DEF GoneInv
  <2> QED BY <2>2, <2>4, <2>5 DEF GoneInv
<1> QED BY <1>3, <1>5, <1>7, <1>8 DEF Inv

\* A call begins when none is under way.
LEMMA Begun ==
  ASSUME Inv, Idle, NEW c \in CallType, GoodCall(c), Owned(c), calls' = <<c>>,
         \/ \A n \in ShowName : ~ Has(c, n)
         \/ Saved = {} /\ Has(c, "build") /\ Has(c, "settings"),
         \A u \in Saved : Way(u)',
         UNCHANGED <<ui, editor>>
  PROVE  Inv'
<1>1. /\ ~ Showing /\ closing = {} /\ \A u, n : ~ Pending(u, n)
      /\ \A u \in Saved :
           /\ ui[u].prompt /\ ui[u].match_listing
           /\ ui[u].cmdline_enter_autocmd /\ current = Prompt(u) /\ u \in leave
           /\ {Listing(u), Prompt(u)} \subseteq windows
           /\ ui[u].on_close = ui[u].finder.pushes
      /\ \A u \in Gone :
           /\ ~ ui[u].prompt /\ ~ ui[u].match_listing /\ ~ ui[u].cmdline_enter_autocmd
           /\ Prompt(u) \notin windows /\ Listing(u) \notin windows /\ u \notin leave
  BY AtRest
<1>2. /\ calls' \in Seq(CallType) /\ Len(calls') = 1 /\ DOMAIN calls' = {1} /\ calls'[1] = c
      /\ calls' # << >>
  OBVIOUS
<1>3. /\ windows' = windows /\ current' = current /\ closing' = {} /\ leave' = leave
      /\ Id' = Id /\ Saved' = Saved /\ Gone' = Gone /\ Len(ui') = Len(ui)
  BY <1>1 DEF editor, Id, Saved, Gone
<1>4. CallsInv'
  <2>1. Owned(calls[1])'
    BY <1>2, <1>3 DEF Owned, Has
  <2>2. GoodCall(calls[1])'
    BY <1>2 DEF GoodCall, Sorted, Whole, Apart, Has
  <2> QED BY <1>2, <2>1, <2>2 DEF CallsInv
<1>5. Showing' => Saved = {} /\ Has(c, "build") /\ Has(c, "settings")
  BY <1>2 DEF Showing, Has
<1>6. TypeInv'
  BY <1>3 DEF Inv, TypeInv, GoodUI
<1>7. SavedInv'
  <2>1. \A a, b \in Saved' : a = b
    BY <1>3 DEF Inv, SavedInv
  <2>2. \A u \in Saved' : ~ Showing'
    BY <1>3, <1>5
  <2> QED BY <1>1, <1>3, <2>1, <2>2 DEF SavedInv
<1>8. GoneInv'
  <2>1. GoneInv
    BY DEF Inv
  <2> QED BY <1>1, <1>3, <2>1 DEF GoneInv
<1>9. ShowInv'
  BY <1>2, <1>3, <1>5 DEF ShowInv, Has
<1> QED BY <1>4, <1>6, <1>7, <1>8, <1>9 DEF Inv

\* A call of one step.
LEMMA OneStepCall ==
  ASSUME NEW u \in Nat, NEW s \in StepType,
         s.name \notin ShowName, s.name # "hlsearch"
  PROVE  LET c == Call(u, <<s>>, TRUE)
         IN  /\ c \in CallType /\ GoodCall(c) /\ c.ui = u /\ c.nested = TRUE
             /\ Head(c.steps) = s /\ \A n : Has(c, n) <=> n = s.name
<1> DEFINE c == Call(u, <<s>>, TRUE)
<1>1. c \in CallType /\ c.ui = u /\ c.nested = TRUE /\ c.steps = <<s>>
  BY DEF Call, CallType
<1> HIDE DEF c
<1>2. DOMAIN c.steps = {1} /\ c.steps[1] = s /\ c.steps # << >> /\ Head(c.steps) = s
  BY <1>1
<1>3. \A n : Has(c, n) <=> n = s.name
  BY <1>2 DEF Has
<1>4. Sorted(c)
  BY <1>2 DEF Sorted
<1>5. Whole(c)
  BY <1>3 DEF Whole, ShowName
<1>6. Apart(c)
  BY <1>3 DEF Apart
<1> QED BY <1>1, <1>2, <1>3, <1>4, <1>5, <1>6 DEF GoodCall, c

LEMMA CommandLineKeeps ==
  ASSUME Inv, HalfInv, CommandLine
  PROVE  Inv'
<1>1. Idle /\ Closers \subseteq Saved
  BY AtRest DEF CommandLine, HalfInv, Closers
<1>2. PICK u \in Closers : calls' = <<Call(u, _close, FALSE)>>
  BY DEF CommandLine
<1> DEFINE c == Call(u, _close, FALSE)
<1>3. u \in Id /\ u \in Nat /\ \A v \in Saved : v = u
  BY <1>1, Indices DEF Closers, Inv, SavedInv
<1>4. /\ c \in CallType /\ GoodCall(c) /\ Head(c.steps).name = "hlsearch" /\ c.ui = u
      /\ \A n \in ShowName : ~ Has(c, n)
  BY <1>3, CloseCall DEF Call
<1> HIDE DEF c
<1>5. calls' = <<c>> /\ Owned(c)
  BY <1>2, <1>3, <1>4 DEF c, Owned, ShowName
<1>6. At("hlsearch")' /\ Me' = u
  BY <1>4, <1>5 DEF At, Idle, Now, Me
<1> QED BY <1>1, <1>3, <1>4, <1>5, <1>6, Begun DEF Way, CommandLine

LEMMA StartKeeps ==
  ASSUME Inv, ~ Over, NEW f \in Finder, Start(f)
  PROVE  Inv'
<1> DEFINE u == Len(ui) + 1
           c == Call(u, [show EXCEPT ![1].to = f], TRUE)
<1>1. Idle /\ Saved = {}
  BY AtRest DEF Start
<1>2. u \in Nat
  BY Indices DEF Inv
<1>3. /\ c \in CallType /\ GoodCall(c) /\ c.ui = u
      /\ \A n \in ShowName : Has(c, n)
  BY <1>2, ShowCall DEF Call
<1>4. calls' = <<c>>
  BY DEF Start
<1> HIDE DEF c
<1>5. Owned(c) /\ Has(c, "build") /\ Has(c, "settings")
  BY <1>3 DEF Owned, ShowName
<1> QED BY <1>1, <1>3, <1>4, <1>5, Begun DEF Start

LEMMA GotoKeeps ==
  ASSUME Inv, NEW w \in UserWindow, Goto(w)
  PROVE  Inv'
<1> DEFINE c == Call(0, <<Enter(w)>>, TRUE)
<1>1. /\ c \in CallType /\ GoodCall(c) /\ c.ui = 0 /\ c.nested = TRUE
      /\ Head(c.steps) = Enter(w) /\ Enter(w).name = "enter" /\ Enter(w).to = w
      /\ \A n : Has(c, n) <=> n = "enter"
  <2>1. Enter(w) \in StepType /\ Enter(w).name = "enter" /\ Enter(w).to = w
    BY EnterType DEF Window
  <2>2. PICK s : s = Enter(w)
    OBVIOUS
  <2>3. 0 \in Nat /\ s \in StepType /\ s.name \notin ShowName /\ s.name # "hlsearch"
    BY <2>1, <2>2 DEF ShowName
  <2>4. /\ Call(0, <<s>>, TRUE) \in CallType /\ GoodCall(Call(0, <<s>>, TRUE))
        /\ Call(0, <<s>>, TRUE).ui = 0 /\ Call(0, <<s>>, TRUE).nested = TRUE
        /\ Head(Call(0, <<s>>, TRUE).steps) = s
        /\ \A n : Has(Call(0, <<s>>, TRUE), n) <=> n = s.name
    BY <2>3, OneStepCall
  <2> QED BY <2>1, <2>2, <2>4
<1>2. Idle /\ calls' = <<c>>
  BY DEF Goto
<1> HIDE DEF c
<1>3. Owned(c) /\ \A n \in ShowName : ~ Has(c, n)
  BY <1>1 DEF Owned, ShowName
<1>4. Len(calls') = 1 /\ Head(calls').nested /\ At("enter")' /\ Now'.to \in UserWindow
  BY <1>1, <1>2 DEF At, Idle, Now
<1>5. \A u \in Saved : Way(u)'
  BY <1>4 DEF Way
<1> QED BY <1>1, <1>2, <1>3, <1>5, Begun DEF Goto

LEMMA CloseKeeps ==
  ASSUME Inv, NEW u \in Id, close(u)
  PROVE  Inv'
<1> DEFINE c == Call(u, <<Do("prompt")>>, TRUE)
<1>1. Idle /\ u \in Nat /\ \A v \in Saved : v = u
  <2>1. Idle /\ u \in Live
    BY DEF close, Typing
  <2>2. u \in Saved
    BY <2>1, AtRest
  <2>3. u \in Nat
    BY Indices DEF Inv
  <2> QED BY <2>1, <2>2, <2>3 DEF Inv, SavedInv
<1>2. /\ c \in CallType /\ GoodCall(c) /\ c.ui = u /\ c.nested = TRUE
      /\ Head(c.steps).name = "prompt" /\ \A n : Has(c, n) <=> n = "prompt"
  <2>1. Do("prompt") \in StepType /\ Do("prompt").name = "prompt"
    BY DoType DEF Name, CloseName
  <2>2. PICK s : s = Do("prompt")
    OBVIOUS
  <2>3. s \in StepType /\ s.name \notin ShowName /\ s.name # "hlsearch"
    BY <2>1, <2>2 DEF ShowName
  <2>4. /\ Call(u, <<s>>, TRUE) \in CallType /\ GoodCall(Call(u, <<s>>, TRUE))
        /\ Call(u, <<s>>, TRUE).ui = u /\ Call(u, <<s>>, TRUE).nested = TRUE
        /\ Head(Call(u, <<s>>, TRUE).steps) = s
        /\ \A n : Has(Call(u, <<s>>, TRUE), n) <=> n = s.name
    BY <1>1, <2>3, OneStepCall
  <2> QED BY <2>1, <2>2, <2>4
<1>3. calls' = <<c>>
  BY DEF close
<1> HIDE DEF c
<1>4. Owned(c) /\ \A n \in ShowName : ~ Has(c, n)
  BY <1>2 DEF Owned, ShowName
<1>5. Len(calls') = 1 /\ Head(calls').nested /\ At("prompt")' /\ Me' = u
  BY <1>2, <1>3 DEF At, Idle, Now, Me
<1>6. \A v \in Saved : Way(v)'
  BY <1>1, <1>5 DEF Way
<1> QED BY <1>1, <1>2, <1>3, <1>4, <1>6, Begun DEF close

LEMMA OnOpenKeeps ==
  ASSUME Inv, NEW u \in Id, on_open(u)
  PROVE  Inv'
<1> DEFINE c == Call(u, Append(_close, Do("open")), TRUE)
<1>1. Idle /\ u \in Nat /\ \A v \in Saved : v = u
  <2>1. Idle /\ u \in Live
    BY DEF on_open, Typing
  <2>2. u \in Saved
    BY <2>1, AtRest
  <2>3. u \in Nat
    BY Indices DEF Inv
  <2> QED BY <2>1, <2>2, <2>3 DEF Inv, SavedInv
<1>2. /\ c \in CallType /\ GoodCall(c) /\ Head(c.steps).name = "hlsearch" /\ c.ui = u
      /\ \A n \in ShowName : ~ Has(c, n)
  BY <1>1, CloseCall DEF Call
<1>3. calls' = <<c>>
  BY DEF on_open
<1> HIDE DEF c
<1>4. Owned(c)
  BY <1>2 DEF Owned, ShowName
<1>5. At("hlsearch")' /\ Me' = u
  BY <1>2, <1>3 DEF At, Idle, Now, Me
<1>6. \A v \in Saved : Way(v)'
  BY <1>1, <1>5 DEF Way
<1> QED BY <1>1, <1>2, <1>3, <1>4, <1>6, Begun DEF on_open

\* A UI whose prompt, listing and finder change in what Inv does not see.
LEMMA Edited ==
  ASSUME Inv, Idle, NEW u \in Id, NEW r, ui' = [ui EXCEPT ![u] = r], GoodUI(r),
         r.saved = ui[u].saved, r.prompt = ui[u].prompt, r.match_listing = ui[u].match_listing,
         r.cmdline_enter_autocmd = ui[u].cmdline_enter_autocmd,
         r.on_close = ui[u].on_close, r.current_window = ui[u].current_window,
         r.finder.pushes = ui[u].finder.pushes, r.half = ui[u].half,
         UNCHANGED <<calls, editor>>
  PROVE  Inv'
<1>1. TypeInv
  BY DEF Inv
<1>2. SameUIs /\ ui'[u] = r /\ \A v \in Id : v # u => ui'[v] = ui[v]
  BY <1>1, Same
<1>3. \A v \in Id : Keeps(v, Kept) /\ GoodUI(ui'[v])
  <2> TAKE v \in Id
  <2>1. CASE v = u
    BY <2>1, <1>2 DEF Keeps, Kept
  <2>2. CASE v # u
    BY <2>2, <1>1, <1>2 DEF Keeps, TypeInv
  <2> QED BY <2>1, <2>2
<1>4. windows' \subseteq Window
  BY <1>1 DEF TypeInv, editor
<1> QED BY <1>2, <1>3, <1>4, Resting DEF editor

LEMMA TypeKeeps ==
  ASSUME Inv, NEW u \in Id, NEW q \in Query, Type(u, q)
  PROVE  Inv'
<1> DEFINE r == [ui[u] EXCEPT !.text = q, !.changed = TRUE]
<1>1. GoodUI(ui[u]) /\ Idle
  BY DEF Inv, TypeInv, Type, Typing
<1>2. /\ GoodUI(r) /\ r.saved = ui[u].saved /\ r.prompt = ui[u].prompt
      /\ r.match_listing = ui[u].match_listing
      /\ r.cmdline_enter_autocmd = ui[u].cmdline_enter_autocmd
      /\ r.on_close = ui[u].on_close /\ r.current_window = ui[u].current_window
      /\ r.finder = ui[u].finder /\ r.half = ui[u].half
  BY <1>1 DEF GoodUI, Field
<1>3. ui' = [ui EXCEPT ![u] = r]
  BY DEF Type
<1> HIDE DEF r
<1> QED BY <1>1, <1>2, <1>3, Edited DEF Type

LEMMA OnChangeKeeps ==
  ASSUME Inv, NEW u \in Id, on_change(u)
  PROVE  Inv'
<1>1. PICK finder, scanned, results, selected, shown :
        /\ finder = ui[u].finder \/ finder = Fallback(ui[u].finder)
        /\ ui' = [ui EXCEPT ![u].changed = FALSE, ![u].finder = finder, ![u].fallback = FALSE,
                            ![u].scanned = scanned, ![u].results = results,
                            ![u].selected = selected, ![u].shown = shown]
  BY DEF on_change
<1> DEFINE r == [ui[u] EXCEPT !.changed = FALSE, !.finder = finder, !.fallback = FALSE,
                              !.scanned = scanned, !.results = results,
                              !.selected = selected, !.shown = shown]
<1>2. GoodUI(ui[u]) /\ Idle
  BY DEF Inv, TypeInv, on_change, Typing
<1>3. /\ finder.pushes = ui[u].finder.pushes
      /\ {"pushes", "found"} \subseteq DOMAIN finder
  BY <1>1, <1>2 DEF Fallback, GoodUI
<1>4. /\ GoodUI(r) /\ r.saved = ui[u].saved /\ r.prompt = ui[u].prompt
      /\ r.match_listing = ui[u].match_listing
      /\ r.cmdline_enter_autocmd = ui[u].cmdline_enter_autocmd
      /\ r.on_close = ui[u].on_close /\ r.current_window = ui[u].current_window
      /\ r.finder.pushes = ui[u].finder.pushes /\ r.half = ui[u].half
  <2>1. r.finder = finder
    BY <1>2 DEF GoodUI, Field
  <2> QED BY <1>2, <1>3, <2>1 DEF GoodUI, Field
<1>5. ui' = [ui EXCEPT ![u] = r]
  BY <1>1
<1> HIDE DEF r
<1> QED BY <1>2, <1>4, <1>5, Edited DEF on_change

LEMMA OnSelectKeeps ==
  ASSUME Inv, NEW u \in Id, NEW choice \in Choice, on_select(u, choice)
  PROVE  Inv'
<1>1. PICK selected : ui' = [ui EXCEPT ![u].selected = selected, ![u].shown.selected = selected]
  BY DEF on_select, Highlight
<1> DEFINE r == [ui[u] EXCEPT !.selected = selected, !.shown.selected = selected]
<1>2. GoodUI(ui[u]) /\ Idle
  BY DEF Inv, TypeInv, on_select, Typing
<1>3. /\ GoodUI(r) /\ r.saved = ui[u].saved /\ r.prompt = ui[u].prompt
      /\ r.match_listing = ui[u].match_listing
      /\ r.cmdline_enter_autocmd = ui[u].cmdline_enter_autocmd
      /\ r.on_close = ui[u].on_close /\ r.current_window = ui[u].current_window
      /\ r.finder = ui[u].finder /\ r.half = ui[u].half
  BY <1>2 DEF GoodUI, Field
<1>4. ui' = [ui EXCEPT ![u] = r]
  BY <1>1
<1> HIDE DEF r
<1> QED BY <1>2, <1>3, <1>4, Edited DEF on_select

LEMMA SplitKeeps ==
  ASSUME Inv, NEW w \in UserWindow, Split(w)
  PROVE  Inv'
<1>1. Idle /\ calls' = calls /\ ui' = ui /\ TypeInv
  BY DEF Split, Inv
<1>2. SameUIs /\ \A u \in Id : Keeps(u, Kept) /\ GoodUI(ui'[u])
  BY <1>1 DEF SameUIs, TypeInv, Id, Keeps
<1>3. windows' \subseteq Window
  BY <1>1 DEF Split, TypeInv, Window
<1>4. \A u \in Nat : /\ Listing(u) \in windows' <=> Listing(u) \in windows
                     /\ Prompt(u) \in windows' <=> Prompt(u) \in windows
  BY WindowsDiffer DEF Split
<1> QED BY <1>1, <1>2, <1>3, <1>4, Resting DEF Split

LEMMA Unseen ==
  ASSUME Inv, UNCHANGED <<ui, calls, editor>>
  PROVE  Inv'
<1>1. /\ ui' = ui /\ calls' = calls /\ windows' = windows /\ current' = current
      /\ closing' = closing /\ leave' = leave
  BY DEF editor
<1>2. /\ Id' = Id /\ Saved' = Saved /\ Gone' = Gone /\ Showing' = Showing
      /\ Now' = Now /\ Me' = Me /\ \A n : At(n)' = At(n)
      /\ \A u, n : Pending(u, n)' = Pending(u, n)
  BY <1>1 DEF Id, Saved, Gone, Showing, Has, Now, Me, At, Idle, Pending
<1>3. CallsInv'
  BY <1>1 DEF Inv, CallsInv, GoodCall, Owned, Sorted, Whole, Apart, Has, Id
<1>4. TypeInv'
  BY <1>1 DEF Inv, TypeInv, GoodUI, Id
<1>5. SavedInv'
  <2>1. \A u : Way(u)' = Way(u)
    BY <1>1, <1>2 DEF Way
  <2> QED BY <1>1, <1>2, <2>1 DEF Inv, SavedInv
<1>6. GoneInv'
  BY <1>1, <1>2 DEF Inv, GoneInv
<1>7. ShowInv'
  BY <1>1, <1>2 DEF Inv, ShowInv, Has
<1> QED BY <1>3, <1>4, <1>5, <1>6, <1>7 DEF Inv

---------------------------------------------------------------------------
(* The first invariant.                                                    *)

\* At first there is no UI and no call.
THEOREM Initially == Init => Inv
<1> SUFFICES ASSUME Init PROVE Inv
  OBVIOUS
<1>1. Id = {} /\ DOMAIN calls = {} /\ calls = << >> /\ ui = << >>
  BY DEF Init, Id
<1>2. ~ Showing /\ \A n : ~ At(n)
  BY <1>1 DEF Showing, At, Idle
<1>3. CallsInv /\ ShowInv
  BY <1>1, <1>2 DEF CallsInv, ShowInv
<1>4. TypeInv
  <2>1. \A u \in Nat : Listing(u) \notin windows /\ Prompt(u) \notin windows
    BY WindowsDiffer DEF Init
  <2>2. ui \in Seq({})
    BY <1>1
  <2> QED BY <1>1, <2>1, <2>2 DEF Init, TypeInv, Window
<1>5. Saved = {} /\ Gone = {}
  BY <1>1 DEF Saved, Gone
<1>6. SavedInv /\ GoneInv
  BY <1>1, <1>5 DEF SavedInv, GoneInv, Init
<1> QED BY <1>3, <1>4, <1>6 DEF Inv

\* Every step of every call, and every key, keeps the invariant.
THEOREM Inductive ==
  ASSUME ~ Over, Inv, HalfInv, HalfBehind, [Next]_vars
  PROVE  Inv'
<1>1. CASE Step
  BY <1>1, UnsetKeeps, CloseListingKeeps, ClosePromptKeeps, ShutKeeps, DeleteAutocmdKeeps,
     SetWindowKeeps, EnterWindowKeeps, PopKeeps, BuildKeeps, OverrideKeeps, OpenWindowsKeeps,
     OpenHalfKeeps, FocusKeeps, WatchKeeps, OpenKeeps DEF Step
<1>2. ASSUME NEW u \in Id, Keys(u) PROVE Inv'
  BY <1>2, TypeKeeps, OnChangeKeeps, OnSelectKeeps, CloseKeeps, OnOpenKeeps DEF Keys
<1>3. ASSUME NEW f \in Finder, Start(f) PROVE Inv'
  BY <1>3, StartKeeps
<1>4. CASE CommandLine
  BY <1>4, CommandLineKeeps
<1>5. ASSUME NEW w \in UserWindow, Goto(w) \/ Split(w) PROVE Inv'
  BY <1>5, GotoKeeps, SplitKeeps
<1>6. CASE OpenDeferred
  BY <1>6, Unseen DEF OpenDeferred
<1>7. CASE UNCHANGED vars
  BY <1>7, Unseen DEF vars
<1> QED BY <1>1, <1>2, <1>3, <1>4, <1>5, <1>6, <1>7 DEF Next

---------------------------------------------------------------------------
(* What each kind of step leaves alone.                                    *)

LEMMA StepFrame ==
  ASSUME Step
  PROVE  /\ pending' = pending \/ _open
         /\ (cwd' = cwd /\ stack' = stack) \/ Build \/ Pop
         /\ hlsearch' = hlsearch \/ Unset \/ Override
         /\ (raised' = raised /\ last' = last) \/ Raise
         /\ \/ windows' = windows /\ current' = current
            \/ CloseListing \/ Shut \/ EnterWindow \/ OpenWindows \/ OpenHalf
         /\ leave' \subseteq leave \/ OpenWindows \/ OpenHalf
<1>1. CASE Unset \/ CloseListing \/ ClosePrompt \/ DeleteAutocmd
  BY <1>1 DEF Unset, CloseListing, ClosePrompt, DeleteAutocmd, editor
<1>2. CASE Shut \/ EnterWindow
  BY <1>2 DEF Shut, EnterWindow, WinLeave
<1>3. CASE OpenWindows \/ OpenHalf
  BY <1>3 DEF OpenWindows, OpenHalf
<1>4. CASE SetWindow \/ Build
  BY <1>4 DEF SetWindow, Build, editor
<1>5. CASE Pop \/ Override \/ Focus \/ Watch \/ _open
  BY <1>5 DEF Pop, Override, Focus, Watch, _open, editor
<1> QED BY <1>1, <1>2, <1>3, <1>4, <1>5 DEF Step

LEMMA KeysFrame ==
  ASSUME NEW u \in Id, Keys(u)
  PROVE  /\ Idle /\ pending' = pending /\ cwd' = cwd /\ stack' = stack
         /\ hlsearch' = hlsearch /\ raised' = raised /\ last' = last
         /\ windows' = windows /\ current' = current /\ leave' = leave
         /\ calls' = calls \/ close(u) \/ on_open(u)
<1>1. /\ Idle /\ UNCHANGED <<editor, pending, cwd, stack, hlsearch, raised, last>>
      /\ calls' = calls \/ close(u) \/ on_open(u)
  BY DEF Keys, Type, on_change, on_select, close, on_open, Typing
<1> QED BY <1>1 DEF editor

LEMMA RestFrame ==
  ASSUME [Next]_vars, ~ Step, ~ \E u \in Id : Keys(u)
  PROVE  /\ pending' = pending \/ Opens
         /\ cwd' = cwd /\ stack' = stack /\ hlsearch' = hlsearch
         /\ raised' = raised /\ ui' = ui /\ leave' = leave
         /\ last' = last \/ \E f \in Finder : Start(f)
         /\ \/ windows' = windows /\ current' = current
            \/ \E w \in UserWindow : Split(w)
         /\ \/ calls' = calls
            \/ CommandLine \/ (\E f \in Finder : Start(f)) \/ (\E w \in UserWindow : Goto(w))
<1>1. ASSUME NEW f \in Finder, Start(f)
      PROVE  UNCHANGED <<ui, windows, current, leave, hlsearch, cwd, stack, pending, raised>>
  BY <1>1 DEF Start, editor
<1>2. ASSUME NEW w \in UserWindow, Goto(w)
      PROVE  UNCHANGED <<ui, windows, current, leave, hlsearch, cwd, stack, pending, raised, last>>
  BY <1>2 DEF Goto, editor
<1>3. ASSUME NEW w \in UserWindow, Split(w)
      PROVE  UNCHANGED <<ui, calls, leave, hlsearch, cwd, stack, pending, raised, last>>
  BY <1>3 DEF Split
<1>4. CASE CommandLine
  BY <1>4 DEF CommandLine, editor
<1>5. CASE OpenDeferred
  BY <1>5 DEF OpenDeferred, editor
<1>6. CASE UNCHANGED vars
  BY <1>6 DEF vars, editor
<1> QED BY <1>1, <1>2, <1>3, <1>4, <1>5, <1>6 DEF Next

---------------------------------------------------------------------------
(* What is on the screen, and what the calls have yet to do.               *)

NotListing(w) == \A u \in Nat : w # Listing(u)

\* A call of u has yet to take the step s.
Owes(u, s) ==
  \E i \in DOMAIN calls : calls[i].ui = u /\ \E j \in DOMAIN calls[i].steps : calls[i].steps[j] = s

\* A listing is never the current window, nor a window to go to.
FrontInv ==
  /\ NoWindow \notin windows /\ <<"user", 1>> \in windows
  /\ current \in windows /\ NotListing(current)
  /\ \A u \in Id : NotListing(ui[u].current_window)
  /\ \A u, s : Owes(u, s) /\ s.name = "enter" => NotListing(s.to)
  /\ raised \in BOOLEAN

\* The prompt of w is the current window, or one that a step or a UI may go to.
Reached(w) ==
  \/ current = Prompt(w)
  \/ \E u \in Id : ui[u].current_window = Prompt(w)
  \/ \E u, s : Owes(u, s) /\ s.name = "enter" /\ s.to = Prompt(w)

\* What a call may come to have to do: nothing for a UI whose show() ended half way; it
\* enters no listing, and a prompt that is not reached only when that is shown; it shows
\* no UI that is there; and it closes only one that has not been closed.
Harmless(u, s) ==
  /\ u \notin Half
  /\ s.name = "enter" => /\ NotListing(s.to)
                         /\ \A w \in Nat : s.to = Prompt(w) => Reached(w) \/ (Focus /\ w = Me)
  /\ s.name \in ShowName => u \notin Id /\ \E f \in Finder : Start(f)
  /\ s.name = "on_close" => u \in Saved \cup leave

LEMMA StepUnderWay ==
  ASSUME Inv, Step
  PROVE  ~ Idle /\ CallsOK /\ calls # << >> /\ TypeInv
<1>1. ~ Idle
  BY DEF Step, Unset, CloseListing, ClosePrompt, Shut, DeleteAutocmd, SetWindow, EnterWindow,
         Pop, Build, Override, OpenWindows, OpenHalf, Focus, Watch, _open, At
<1> QED BY <1>1 DEF Inv, CallsInv, CallsOK, Idle

LEMMA MeWhole ==
  ASSUME Inv, HalfInv, ~ Idle
  PROVE  Me \notin Half
<1>1. 1 \in DOMAIN calls /\ Me = calls[1].ui
  BY Innermost DEF Inv, CallsInv, CallsOK, Idle
<1> QED BY <1>1 DEF HalfInv

---------------------------------------------------------------------------
(* What a step adds to what is owed.                                       *)

LEMMA OwedReturned ==
  ASSUME CallsOK, calls # << >>, calls' = Tail(calls)
  PROVE  \A u, s : Owes(u, s)' => Owes(u, s)
<1> SUFFICES ASSUME NEW u, NEW s, Owes(u, s)' PROVE Owes(u, s)
  OBVIOUS
<1>1. PICK i \in DOMAIN calls' :
           calls'[i].ui = u /\ \E j \in DOMAIN calls'[i].steps : calls'[i].steps[j] = s
  BY DEF Owes
<1>2. i + 1 \in DOMAIN calls /\ calls'[i] = calls[i + 1]
  BY Returned
<1> QED BY <1>1, <1>2 DEF Owes

LEMMA OwedThen ==
  ASSUME CallsOK, ~ Idle, NEW x \in Seq(StepType), calls' = Then(x)
  PROVE  \A u, s : Owes(u, s)' => Owes(u, s) \/ (u = Me /\ \E k \in DOMAIN x : x[k] = s)
<1> DEFINE c == Head(calls)
           left == x \o Tail(c.steps)
           d == [c EXCEPT !.steps = left]
<1>1. calls # << >> /\ c = calls[1] /\ c \in CallType /\ GoodCall(c) /\ 1 \in DOMAIN calls /\ Me = c.ui
  BY Innermost DEF Idle, Me
<1>2. calls' = IF left = << >> THEN Tail(calls) ELSE <<d>> \o Tail(calls)
  BY DEF Then
<1>3. CASE left = << >>
  BY <1>1, <1>2, <1>3, OwedReturned
<1>4. CASE left # << >>
  <2>1. c.steps \in Seq(StepType) /\ c.steps # << >>
    BY <1>1 DEF CallType, GoodCall
  <2>2. /\ left \in Seq(StepType)
        /\ \A j \in DOMAIN left : \/ \E k \in DOMAIN x : left[j] = x[k]
                                  \/ \E k \in DOMAIN c.steps : left[j] = c.steps[k]
    <3>1. PICK t : t = Tail(c.steps)
      OBVIOUS
    <3>2. /\ t \in Seq(StepType) /\ Len(t) = Len(c.steps) - 1 /\ Len(c.steps) \in Nat
          /\ \A k \in 1 .. Len(t) : t[k] = c.steps[k + 1] /\ k + 1 \in DOMAIN c.steps
      BY <2>1, <3>1
    <3>3. /\ x \o t \in Seq(StepType) /\ Len(x \o t) = Len(x) + Len(t) /\ Len(x) \in Nat
          /\ \A j \in 1 .. Len(x) + Len(t) : (x \o t)[j] = IF j <= Len(x) THEN x[j] ELSE t[j - Len(x)]
      <4>1. x \in Seq(StepType) /\ t \in Seq(StepType)
        BY <3>2
      <4>2. /\ x \o t \in Seq(StepType) /\ Len(x \o t) = Len(x) + Len(t)
            /\ \A j \in 1 .. Len(x) + Len(t) : (x \o t)[j] = IF j <= Len(x) THEN x[j] ELSE t[j - Len(x)]
        BY <4>1, ConcatProperties, Zenon
      <4>3. Len(x) \in Nat
        BY <4>1
      <4> QED BY <4>2, <4>3
    <3>4. ASSUME NEW j \in DOMAIN (x \o t)
          PROVE  \/ \E k \in DOMAIN x : (x \o t)[j] = x[k]
                 \/ \E k \in DOMAIN c.steps : (x \o t)[j] = c.steps[k]
      <4>1. j \in 1 .. Len(x) + Len(t)
        BY <3>3
      <4>2. CASE j <= Len(x)
        BY <3>3, <4>1, <4>2
      <4>3. CASE ~ j <= Len(x)
        <5>1. j - Len(x) \in 1 .. Len(t) /\ (x \o t)[j] = t[j - Len(x)]
          BY <3>2, <3>3, <4>1, <4>3
        <5> QED BY <3>2, <5>1
      <4> QED BY <4>2, <4>3
    <3> QED BY <3>1, <3>3, <3>4
  <2> HIDE DEF left
  <2>3. d \in CallType /\ d.ui = c.ui /\ d.steps = left
    BY <1>1, <2>2 DEF CallType
  <2> HIDE DEF d
  <2>4. /\ DOMAIN calls' = DOMAIN calls /\ calls'[1] = d
        /\ \A i \in DOMAIN calls : i # 1 => calls'[i] = calls[i]
    <3>1. calls \in Seq(CallType) /\ calls' = <<d>> \o Tail(calls)
      BY <1>2, <1>4 DEF CallsOK
    <3>2. /\ Len(calls') = Len(calls) /\ Len(calls) \in Nat /\ DOMAIN calls' = 1 .. Len(calls)
          /\ calls'[1] = d /\ \A i \in 2 .. Len(calls) : calls'[i] = calls[i]
      BY <1>1, <2>3, <3>1
    <3> QED BY <3>1, <3>2
  <2> SUFFICES ASSUME NEW u, NEW s, Owes(u, s)', ~ Owes(u, s)
               PROVE  u = Me /\ \E k \in DOMAIN x : x[k] = s
    OBVIOUS
  <2>5. PICK i \in DOMAIN calls' :
             calls'[i].ui = u /\ \E j \in DOMAIN calls'[i].steps : calls'[i].steps[j] = s
    BY DEF Owes
  <2>6. i = 1
    BY <2>4, <2>5 DEF Owes
  <2>7. u = Me /\ \E j \in DOMAIN left : left[j] = s
    BY <1>1, <2>3, <2>4, <2>5, <2>6
  <2>8. \A k \in DOMAIN c.steps : c.steps[k] # s
    BY <1>1, <2>7 DEF Owes
  <2> QED BY <2>2, <2>7, <2>8
<1> QED BY <1>3, <1>4

LEMMA OwedLess ==
  ASSUME CallsOK, ~ Idle, Continue
  PROVE  \A u, s : Owes(u, s)' => Owes(u, s)
<1>1. PICK x : x = << >>
  OBVIOUS
<1>2. x \in Seq(StepType) /\ DOMAIN x = {} /\ calls' = Then(x)
  BY <1>1 DEF Continue
<1> QED BY <1>2, OwedThen

LEMMA OwedNow ==
  ASSUME CallsOK, ~ Idle, NEW y \in StepType, calls' = Then(<<y>>)
  PROVE  \A u, s : Owes(u, s)' => Owes(u, s) \/ (s = y /\ u = Me)
<1>1. PICK x : x = <<y>>
  OBVIOUS
<1>2. x \in Seq(StepType) /\ \A k \in DOMAIN x : x[k] = y
  BY <1>1
<1>3. calls' = Then(x)
  BY <1>1
<1>4. \A u, s : Owes(u, s)' => Owes(u, s) \/ (u = Me /\ \E k \in DOMAIN x : x[k] = s)
  BY <1>2, <1>3, OwedThen
<1> QED BY <1>2, <1>4

LEMMA OwedCalled ==
  ASSUME CallsOK, NEW c \in CallType, calls' = <<c>> \o calls
  PROVE  \A u, s : Owes(u, s)' =>
           Owes(u, s) \/ (u = c.ui /\ \E j \in DOMAIN c.steps : c.steps[j] = s)
<1>1. calls \in Seq(CallType)
  BY DEF CallsOK
<1>2. /\ calls'[1] = c /\ Len(calls) \in Nat /\ DOMAIN calls' = 1 .. Len(calls) + 1
      /\ DOMAIN calls = 1 .. Len(calls)
      /\ \A i \in 2 .. Len(calls) + 1 : calls'[i] = calls[i - 1]
  BY <1>1
<1> SUFFICES ASSUME NEW u, NEW s, Owes(u, s)', ~ Owes(u, s)
             PROVE  u = c.ui /\ \E j \in DOMAIN c.steps : c.steps[j] = s
  OBVIOUS
<1>3. PICK i \in DOMAIN calls' :
           calls'[i].ui = u /\ \E j \in DOMAIN calls'[i].steps : calls'[i].steps[j] = s
  BY DEF Owes
<1>4. CASE i = 1
  BY <1>2, <1>3, <1>4
<1>5. CASE i # 1
  <2>1. i - 1 \in DOMAIN calls /\ calls'[i] = calls[i - 1]
    BY <1>2, <1>5
  <2> QED BY <1>3, <2>1 DEF Owes
<1> QED BY <1>4, <1>5

\* A call has one step of each rank.
LEMMA OneOfARank ==
  ASSUME NEW c \in CallType, GoodCall(c), NEW m, NEW n, Has(c, m), Has(c, n), Rank(m) = Rank(n)
  PROVE  m = n
<1>1. PICK j \in DOMAIN c.steps : c.steps[j].name = m
  BY DEF Has
<1>2. PICK k \in DOMAIN c.steps : c.steps[k].name = n
  BY DEF Has
<1>3. j \in Nat /\ k \in Nat
  <2>1. c.steps \in Seq(StepType)
    BY DEF CallType
  <2> QED BY <2>1
<1>4. ~ j < k /\ ~ k < j
  <2>1. Sorted(c) /\ Rank(m) \in Nat
    BY RankType DEF GoodCall
  <2> QED BY <1>1, <1>2, <2>1 DEF Sorted
<1> QED BY <1>1, <1>2, <1>3, <1>4

\* No call of _close() enters a window or shows a UI.
LEMMA CloseIsHarmless ==
  ASSUME NEW u \in Nat, NEW nested \in BOOLEAN
  PROVE  \A n \in ShowName \cup {"enter"} :
           /\ ~ Has(Call(u, _close, nested), n)
           /\ ~ Has(Call(u, Append(_close, Do("open")), nested), n)
<1>1. PICK c : c = Call(u, _close, nested)
  OBVIOUS
<1>2. PICK d : d = Call(u, Append(_close, Do("open")), nested)
  OBVIOUS
<1>3. /\ GoodCall(c) /\ GoodCall(d) /\ Has(c, "window") /\ Has(d, "window")
      /\ \A n \in ShowName : ~ Has(c, n) /\ ~ Has(d, n)
      /\ c \in CallType /\ d \in CallType
  BY <1>1, <1>2, CloseCall
<1>4. Rank("window") = Rank("enter")
  BY DEF Rank
<1>5. ~ Has(c, "enter") /\ ~ Has(d, "enter")
  BY <1>3, <1>4, OneOfARank
<1> QED BY <1>1, <1>2, <1>3, <1>4, <1>5

\* A call that begins, or is begun in the midst of others, with nothing but harmless steps.
LEMMA OwedBegun ==
  ASSUME CallsOK, NEW c \in CallType, calls' = <<c>> \o calls,
         \A j \in DOMAIN c.steps : Harmless(c.ui, c.steps[j])
  PROVE  \A u, s : Owes(u, s)' => Owes(u, s) \/ Harmless(u, s)
BY OwedCalled

LEMMA OwedFirst ==
  ASSUME Idle, NEW c \in CallType, calls' = <<c>>,
         \A j \in DOMAIN c.steps : Harmless(c.ui, c.steps[j])
  PROVE  \A u, s : Owes(u, s)' => Owes(u, s) \/ Harmless(u, s)
<1>1. DOMAIN calls' = {1} /\ calls'[1] = c
  OBVIOUS
<1> QED BY <1>1 DEF Owes

LEMMA StepHarmless ==
  ASSUME NEW c, c.ui \notin Half, \A n \in ShowName \cup {"enter"} : ~ Has(c, n),
         Has(c, "on_close") => c.ui \in Saved \cup leave
  PROVE  \A j \in DOMAIN c.steps : Harmless(c.ui, c.steps[j])
BY DEF Has, Harmless

LEMMA OwedWinLeave ==
  ASSUME Inv, HalfBehind, NEW v \in Id, v \in Leaves, WinLeave(v)
  PROVE  \A u, s : Owes(u, s)' => Owes(u, s) \/ Harmless(u, s)
<1>1. v \in Nat /\ CallsOK
  BY Indices DEF Inv, CallsInv, CallsOK
<1>2. PICK c : c = Call(v, _close, TRUE)
  OBVIOUS
<1>3. c \in CallType /\ calls' = <<c>> \o calls
  BY <1>1, <1>2, CloseCall DEF WinLeave
<1>4. c.ui = v /\ v \notin Half /\ v \in leave
  BY <1>2 DEF Call, HalfBehind, Leaves
<1>5. \A j \in DOMAIN c.steps : Harmless(c.ui, c.steps[j])
  BY <1>1, <1>2, <1>4, CloseIsHarmless, StepHarmless
<1> QED BY <1>1, <1>3, <1>5, OwedBegun

\* What the steps of the calls under way add.
LEMMA StepOwes ==
  ASSUME Inv, HalfInv, HalfBehind, FrontInv, Step
  PROVE  \A u, s : Owes(u, s)' => Owes(u, s) \/ Harmless(u, s)
<1>1. ~ Idle /\ CallsOK /\ calls # << >> /\ TypeInv /\ Me \notin Half
  BY StepUnderWay, MeWhole
<1>2. leave \subseteq Id
  BY <1>1 DEF TypeInv
<1>3. CASE Continue
  BY <1>1, <1>3, OwedLess
<1>4. CASE Raise
  BY <1>1, <1>4, OwedReturned DEF Raise
<1>5. CASE \E v \in Leaves : WinLeave(v)
  <2>1. PICK v \in Leaves : WinLeave(v)
    BY <1>5
  <2>2. v \in Id
    BY <1>2, <2>1 DEF Leaves
  <2> QED BY <2>1, <2>2, OwedWinLeave
<1>6. CASE ClosePrompt
  <2>1. calls' = Then(<<Do("shut")>>) \/ Continue
    BY <1>6 DEF ClosePrompt, Continue
  <2>2. CASE calls' = Then(<<Do("shut")>>)
    <3>1. PICK y : y = Do("shut")
      OBVIOUS
    <3>2. y \in StepType /\ y.name = "shut"
      BY <3>1, DoType DEF Name, CloseName
    <3>3. \A u, s : Owes(u, s)' => Owes(u, s) \/ (s = y /\ u = Me)
      BY <1>1, <2>2, <3>1, <3>2, OwedNow
    <3> QED BY <1>1, <3>2, <3>3 DEF Harmless, ShowName
  <2> QED BY <1>3, <2>1, <2>2
<1>7. CASE SetWindow
  <2>1. PICK w : w = ui[Me].current_window
    OBVIOUS
  <2>2. Continue \/ Raise \/ calls' = Then(<<Enter(w)>>)
    BY <1>7, <2>1 DEF SetWindow
  <2>3. CASE calls' = Then(<<Enter(w)>>)
    <3>1. Me \in Id
      BY <1>1, <1>7, MeExists DEF SetWindow, At
    <3>2. w \in Window /\ NotListing(w)
      BY <1>1, <2>1, <3>1 DEF FrontInv, TypeInv, GoodUI
    <3>3. PICK y : y = Enter(w)
      OBVIOUS
    <3>4. y \in StepType /\ y.name = "enter" /\ y.to = w
      BY <3>2, <3>3, EnterType
    <3>5. \A u, s : Owes(u, s)' => Owes(u, s) \/ (s = y /\ u = Me)
      BY <1>1, <2>3, <3>3, <3>4, OwedNow
    <3>6. \A v \in Nat : w = Prompt(v) => Reached(v)
      BY <2>1, <3>1 DEF Reached
    <3> QED BY <1>1, <3>2, <3>4, <3>5, <3>6 DEF Harmless, ShowName
  <2> QED BY <1>3, <1>4, <2>2, <2>3
<1>8. CASE Focus
  <2>1. Me \in Nat /\ calls' = Then(<<Enter(Prompt(Me))>>)
    BY <1>1, <1>8, Innermost DEF Focus
  <2>2. PICK w : w = Prompt(Me)
    OBVIOUS
  <2>3. w \in Window /\ NotListing(w)
    BY <2>1, <2>2, WindowsDiffer DEF Window, NotListing
  <2>4. PICK y : y = Enter(w)
    OBVIOUS
  <2>5. y \in StepType /\ y.name = "enter" /\ y.to = w
    BY <2>3, <2>4, EnterType
  <2>6. \A u, s : Owes(u, s)' => Owes(u, s) \/ (s = y /\ u = Me)
    BY <1>1, <2>1, <2>2, <2>4, <2>5, OwedNow
  <2>7. \A v \in Nat : w = Prompt(v) => v = Me
    BY <2>1, <2>2, WindowsDiffer
  <2> QED BY <1>1, <1>8, <2>3, <2>5, <2>6, <2>7 DEF Harmless, ShowName
<1>9. \/ Continue \/ Raise \/ (\E v \in Leaves : WinLeave(v))
      \/ ClosePrompt \/ SetWindow \/ Focus
  BY DEF Step, Unset, CloseListing, Shut, DeleteAutocmd, EnterWindow, Pop, Build, Override,
         OpenWindows, OpenHalf, Watch, _open
<1> QED BY <1>3, <1>4, <1>5, <1>6, <1>7, <1>8, <1>9

\* What the user's keys and commands add.
LEMMA NextOwes ==
  ASSUME Inv, HalfInv, HalfBehind, FrontInv, [Next]_vars
  PROVE  \A u, s : Owes(u, s)' => Owes(u, s) \/ Harmless(u, s)
<1>0. /\ \A u \in Id : u \in Nat
      /\ \A u : u \in Live \cup Closers /\ Idle => u \in Saved /\ u \notin Half
      /\ \A u : u \in Half => u \in Id
      /\ 0 \notin Id
  <2>1. Id = 1 .. Len(ui) /\ Len(ui) \in Nat
    BY Indices DEF Inv
  <2>2. \A u : u \in Live \cup Closers /\ Idle => u \in Saved
    BY AtRest DEF HalfInv, Closers
  <2> QED BY <2>1, <2>2 DEF Saved, Half
<1>1. CASE Step
  BY <1>1, StepOwes
<1>2. CASE calls' = calls
  BY <1>2 DEF Owes
<1>3. ASSUME NEW v \in Id, close(v) PROVE \A u, s : Owes(u, s)' => Owes(u, s) \/ Harmless(u, s)
  <2>1. PICK y : y = Do("prompt")
    OBVIOUS
  <2>2. y \in StepType /\ y.name = "prompt" /\ v \in Nat
    BY <1>0, <2>1, DoType DEF Name, CloseName
  <2>3. PICK c : c = Call(v, <<y>>, TRUE)
    OBVIOUS
  <2>4. c \in CallType /\ \A n : Has(c, n) <=> n = "prompt"
    <3>1. y.name \notin ShowName /\ y.name # "hlsearch"
      BY <2>2 DEF ShowName
    <3>2. /\ Call(v, <<y>>, TRUE) \in CallType
          /\ \A n : Has(Call(v, <<y>>, TRUE), n) <=> n = y.name
      BY <2>2, <3>1, OneStepCall
    <3> QED BY <2>2, <2>3, <3>2
  <2>5. Idle /\ calls' = <<c>> /\ c.ui = v /\ v \notin Half
    BY <1>0, <1>3, <2>1, <2>3 DEF close, Typing, Call
  <2>6. \A n \in ShowName \cup {"enter"} : ~ Has(c, n)
    BY <2>4 DEF ShowName
  <2> QED BY <2>4, <2>5, <2>6, OwedFirst, StepHarmless
<1>4. ASSUME NEW v \in Id, on_open(v) PROVE \A u, s : Owes(u, s)' => Owes(u, s) \/ Harmless(u, s)
  <2>1. PICK c : c = Call(v, Append(_close, Do("open")), TRUE)
    OBVIOUS
  <2>2. c \in CallType /\ \A n \in ShowName \cup {"enter"} : ~ Has(c, n)
    BY <1>0, <2>1, CloseCall, CloseIsHarmless
  <2>3. Idle /\ calls' = <<c>> /\ c.ui = v /\ v \in Saved /\ v \notin Half
    BY <1>0, <1>4, <2>1 DEF on_open, Typing, Call
  <2> QED BY <2>2, <2>3, OwedFirst, StepHarmless
<1>5. CASE CommandLine
  <2>1. PICK v \in Closers : calls' = <<Call(v, _close, FALSE)>>
    BY <1>5 DEF CommandLine
  <2>2. PICK c : c = Call(v, _close, FALSE)
    OBVIOUS
  <2>3. v \in Nat
    BY <1>0, <2>1 DEF Closers
  <2>4. c \in CallType /\ \A n \in ShowName \cup {"enter"} : ~ Has(c, n)
    BY <2>2, <2>3, CloseCall, CloseIsHarmless
  <2>5. Idle /\ calls' = <<c>> /\ c.ui = v /\ v \in Saved /\ v \notin Half
    BY <1>0, <1>5, <2>1, <2>2 DEF CommandLine, Call
  <2> QED BY <2>4, <2>5, OwedFirst, StepHarmless
<1>6. ASSUME NEW f \in Finder, Start(f) PROVE \A u, s : Owes(u, s)' => Owes(u, s) \/ Harmless(u, s)
  <2>1. PICK v \in Nat : v = Len(ui) + 1 /\ v \notin Id
    <3>1. Id = 1 .. Len(ui) /\ Len(ui) \in Nat
      BY Indices DEF Inv
    <3> QED BY <3>1
  <2>2. PICK c : c = Call(v, [show EXCEPT ![1].to = f], TRUE)
    OBVIOUS
  <2>3. /\ c \in CallType /\ GoodCall(c) /\ c.ui = v
        /\ \A n \in ShowName : Has(c, n)
    BY <2>2, ShowCall DEF Call
  <2>4. ~ Has(c, "enter") /\ ~ Has(c, "on_close")
    <3>1. Rank("focus") = Rank("enter") /\ "focus" \in ShowName
          /\ Rank("watch") = Rank("on_close") /\ "watch" \in ShowName
      BY DEF Rank, ShowName
    <3> QED BY <2>3, <3>1, OneOfARank
  <2>5. \A j \in DOMAIN c.steps : Harmless(c.ui, c.steps[j])
    BY <1>0, <1>6, <2>1, <2>3, <2>4 DEF Has, Harmless
  <2>6. Idle /\ calls' = <<c>>
    BY <1>6, <2>1, <2>2 DEF Start
  <2> QED BY <2>3, <2>5, <2>6, OwedFirst
<1>7. ASSUME NEW w \in UserWindow, Goto(w) PROVE \A u, s : Owes(u, s)' => Owes(u, s) \/ Harmless(u, s)
  <2>1. PICK y : y = Enter(w)
    OBVIOUS
  <2>2. y \in StepType /\ y.name = "enter" /\ y.to = w
    BY <2>1, EnterType DEF Window
  <2>3. PICK o \in Nat : o = 0
    OBVIOUS
  <2>4. PICK c : c = Call(o, <<y>>, TRUE)
    OBVIOUS
  <2>5. c \in CallType /\ c.steps = <<y>>
    BY <2>2, <2>3, <2>4 DEF Call, CallType
  <2>6. NotListing(w) /\ \A v \in Nat : w # Prompt(v)
    BY WindowsDiffer DEF NotListing
  <2>7. \A j \in DOMAIN c.steps : Harmless(c.ui, c.steps[j])
    <3>1. c.ui = 0 /\ \A j \in DOMAIN c.steps : c.steps[j] = y
      BY <2>3, <2>4, <2>5 DEF Call
    <3> QED BY <1>0, <2>2, <2>6, <3>1 DEF Harmless, ShowName
  <2>8. Idle /\ calls' = <<c>>
    BY <1>7, <2>1, <2>3, <2>4 DEF Goto
  <2> QED BY <2>5, <2>7, <2>8, OwedFirst
<1>8. \/ Step \/ calls' = calls
      \/ (\E v \in Id : close(v)) \/ (\E v \in Id : on_open(v)) \/ CommandLine
      \/ (\E f \in Finder : Start(f)) \/ (\E w \in UserWindow : Goto(w))
  BY KeysFrame, RestFrame
<1> QED BY <1>1, <1>2, <1>3, <1>4, <1>5, <1>6, <1>7, <1>8

---------------------------------------------------------------------------
(* What a step changes in a UI.                                            *)

GoodFinder(f) ==
  /\ {"dir", "pushes", "missing", "found"} \subseteq DOMAIN f
  /\ f.found \in [Query -> Seq(Item)]

\* A selection within the results, and a listing that shows both.
GoodView(r) ==
  /\ {"scanned", "text", "changed", "results", "selected", "fallback"} \subseteq DOMAIN r
  /\ GoodFinder(r.finder)
  /\ r.text \in Query
  /\ r.results \in Seq(Item)
  /\ r.selected \in 0 .. Len(r.results) /\ (r.results # << >> => r.selected > 0)
  /\ r.shown = [results |-> r.results, selected |-> r.selected, by |-> r.finder]

ViewInv == \A u \in Id : GoodView(ui[u])

Alike(r, q) ==
  /\ {"scanned", "text", "changed", "results", "selected", "fallback"} \subseteq DOMAIN r
  /\ r.finder = q.finder /\ r.scanned = q.scanned /\ r.text = q.text
  /\ r.results = q.results /\ r.selected = q.selected /\ r.shown = q.shown

Windowed(r, q) == r.current_window = q.current_window \/ r.current_window \in {NoWindow, current}

\* Which steps change what else a UI keeps.
Minded(r, u) ==
  /\ r.saved = ui[u].saved \/ ((Unset \/ Override) /\ Me = u)
  /\ r.saved # {} => ui[u].saved # {} \/ (Override /\ Me = u)
  /\ r.half = ui[u].half \/ (OpenHalf /\ Me = u /\ r.half)
  /\ r.cmdline_enter_autocmd => ui[u].cmdline_enter_autocmd \/ (Watch /\ Me = u)
  /\ r.on_close = ui[u].on_close \/ ((Pop \/ Override) /\ Me = u)

Held(u) ==
  u \in Id' /\ Alike(ui'[u], ui[u]) /\ Windowed(ui'[u], ui[u]) /\ Minded(ui'[u], u)

LEMMA AllHeld ==
  ASSUME TypeInv, ViewInv, NEW v \in Id, NEW r, ui' = [ui EXCEPT ![v] = r],
         Alike(r, ui[v]), Windowed(r, ui[v]), Minded(r, v)
  PROVE  \A u \in Id : Held(u)
<1>1. SameUIs /\ ui'[v] = r /\ \A u \in Id : u # v => ui'[u] = ui[u]
  BY Same
<1> TAKE u \in Id
<1>2. CASE u = v
  BY <1>1, <1>2 DEF Held, SameUIs
<1>3. CASE u # v
  BY <1>1, <1>3 DEF Held, SameUIs, Alike, Windowed, Minded, ViewInv, GoodView
<1> QED BY <1>2, <1>3

LEMMA NoneChanged ==
  ASSUME ViewInv, ui' = ui
  PROVE  \A u \in Id : Held(u)
BY DEF Id, Held, Alike, Windowed, Minded, ViewInv, GoodView

LEMMA StepHolds ==
  ASSUME Inv, ViewInv, Step
  PROVE  \A u \in Id : Held(u)
<1>1. ~ Idle /\ TypeInv
  BY StepUnderWay
<1>2. CASE ui' = ui
  BY <1>2, NoneChanged
<1>3. ASSUME NEW u \in Id
      PROVE  Field \subseteq DOMAIN ui[u] /\ {"scanned", "text", "changed", "results", "selected",
                                              "fallback"} \subseteq DOMAIN ui[u]
  BY <1>1 DEF TypeInv, GoodUI, ViewInv, GoodView
<1>4. CASE Unset
  <2> DEFINE r == [ui[Me] EXCEPT !.saved = {}]
  <2>1. Me \in Id
    BY <1>1, <1>4, MeExists DEF Unset, At
  <2>2. Alike(r, ui[Me]) /\ Windowed(r, ui[Me]) /\ Minded(r, Me)
    BY <1>4, <1>3, <2>1 DEF Alike, Windowed, Minded, Field
  <2>3. ui' = [ui EXCEPT ![Me] = r]
    BY <1>4 DEF Unset
  <2> HIDE DEF r
  <2> QED BY <1>1, <2>1, <2>2, <2>3, AllHeld
<1>5. CASE CloseListing
  <2>0. PICK b : ui' = [ui EXCEPT ![Me].match_listing = FALSE, ![Me].buffer = b]
    BY <1>5 DEF CloseListing
  <2> DEFINE r == [ui[Me] EXCEPT !.match_listing = FALSE, !.buffer = b]
  <2>1. Me \in Id
    BY <1>1, <1>5, MeExists DEF CloseListing, At
  <2>2. Alike(r, ui[Me]) /\ Windowed(r, ui[Me]) /\ Minded(r, Me)
    BY <1>5, <1>3, <2>1 DEF Alike, Windowed, Minded, Field
  <2>3. ui' = [ui EXCEPT ![Me] = r]
    BY <2>0
  <2> HIDE DEF r
  <2> QED BY <1>1, <2>1, <2>2, <2>3, AllHeld
<1>6. CASE DeleteAutocmd
  <2> DEFINE r == [ui[Me] EXCEPT !.cmdline_enter_autocmd = FALSE]
  <2>1. Me \in Id
    BY <1>1, <1>6, MeExists DEF DeleteAutocmd, At
  <2>2. Alike(r, ui[Me]) /\ Windowed(r, ui[Me]) /\ Minded(r, Me)
    BY <1>6, <1>3, <2>1 DEF Alike, Windowed, Minded, Field
  <2>3. ui' = [ui EXCEPT ![Me] = r]
    BY <1>6 DEF DeleteAutocmd
  <2> HIDE DEF r
  <2> QED BY <1>1, <2>1, <2>2, <2>3, AllHeld
<1>7. CASE SetWindow
  <2> DEFINE r == [ui[Me] EXCEPT !.current_window = NoWindow]
  <2>1. Me \in Id
    BY <1>1, <1>7, MeExists DEF SetWindow, At
  <2>2. Alike(r, ui[Me]) /\ Windowed(r, ui[Me]) /\ Minded(r, Me)
    BY <1>7, <1>3, <2>1 DEF Alike, Windowed, Minded, Field
  <2>3. ui' = [ui EXCEPT ![Me] = r]
    BY <1>7 DEF SetWindow
  <2> HIDE DEF r
  <2> QED BY <1>1, <2>1, <2>2, <2>3, AllHeld
<1>8. CASE Override
  <2> DEFINE r == [ui[Me] EXCEPT !.current_window = current, !.on_close = ui[Me].finder.pushes,
                                 !.saved = {hlsearch}]
  <2>1. Me \in Id
    BY <1>1, <1>8, MeExists DEF Override, At
  <2>2. Alike(r, ui[Me]) /\ Windowed(r, ui[Me]) /\ Minded(r, Me)
    BY <1>8, <1>3, <2>1 DEF Alike, Windowed, Minded, Field
  <2>3. ui' = [ui EXCEPT ![Me] = r]
    BY <1>8 DEF Override
  <2> HIDE DEF r
  <2> QED BY <1>1, <2>1, <2>2, <2>3, AllHeld
<1>9. CASE OpenWindows
  <2> DEFINE r == [ui[Me] EXCEPT !.match_listing = TRUE, !.prompt = TRUE, !.buffer = {cwd}]
  <2>1. Me \in Id
    BY <1>1, <1>9, MeExists DEF OpenWindows, At
  <2>2. Alike(r, ui[Me]) /\ Windowed(r, ui[Me]) /\ Minded(r, Me)
    BY <1>9, <1>3, <2>1 DEF Alike, Windowed, Minded, Field
  <2>3. ui' = [ui EXCEPT ![Me] = r]
    BY <1>9 DEF OpenWindows
  <2> HIDE DEF r
  <2> QED BY <1>1, <2>1, <2>2, <2>3, AllHeld
<1>10. CASE Watch
  <2> DEFINE r == [ui[Me] EXCEPT !.cmdline_enter_autocmd = TRUE]
  <2>1. Me \in Id
    BY <1>1, <1>10, MeExists DEF Watch, At
  <2>2. Alike(r, ui[Me]) /\ Windowed(r, ui[Me]) /\ Minded(r, Me)
    BY <1>10, <1>3, <2>1 DEF Alike, Windowed, Minded, Field
  <2>3. ui' = [ui EXCEPT ![Me] = r]
    BY <1>10 DEF Watch
  <2> HIDE DEF r
  <2> QED BY <1>1, <2>1, <2>2, <2>3, AllHeld
<1>11. CASE ClosePrompt /\ ui' # ui
  <2> DEFINE r == [ui[Me] EXCEPT !.prompt = FALSE]
  <2>1. Me \in Id
    BY <1>1, <1>11, MeExists DEF ClosePrompt, At
  <2>2. Alike(r, ui[Me]) /\ Windowed(r, ui[Me]) /\ Minded(r, Me)
    BY <1>11, <1>3, <2>1 DEF Alike, Windowed, Minded, Field
  <2>3. ui' = [ui EXCEPT ![Me] = r]
    BY <1>11 DEF ClosePrompt
  <2> HIDE DEF r
  <2> QED BY <1>1, <2>1, <2>2, <2>3, AllHeld
<1>12. CASE Shut /\ ui' # ui
  <2> DEFINE r == [ui[Me] EXCEPT !.prompt = FALSE]
  <2>1. Me \in Id
    BY <1>1, <1>12, MeExists DEF Shut, At
  <2>2. Alike(r, ui[Me]) /\ Windowed(r, ui[Me]) /\ Minded(r, Me)
    BY <1>12, <1>3, <2>1 DEF Alike, Windowed, Minded, Field
  <2>3. ui' = [ui EXCEPT ![Me] = r]
    BY <1>12 DEF Shut
  <2> HIDE DEF r
  <2> QED BY <1>1, <2>1, <2>2, <2>3, AllHeld
<1>13. CASE Pop /\ ui' # ui
  <2> DEFINE r == [ui[Me] EXCEPT !.on_close = FALSE]
  <2>1. Me \in Id
    BY <1>1, <1>13, MeExists DEF Pop, At
  <2>2. Alike(r, ui[Me]) /\ Windowed(r, ui[Me]) /\ Minded(r, Me)
    BY <1>13, <1>3, <2>1 DEF Alike, Windowed, Minded, Field
  <2>3. ui' = [ui EXCEPT ![Me] = r]
    BY <1>13 DEF Pop, OnClose
  <2> HIDE DEF r
  <2> QED BY <1>1, <2>1, <2>2, <2>3, AllHeld
<1>14. CASE Build /\ ui' # ui
  <2>1. ui' = Append(ui, New(Now.to))
    BY <1>14 DEF Build
  <2>2. PICK S : ui \in Seq(S)
    BY <1>1 DEF TypeInv
  <2>3. PICK r : r = New(Now.to)
    OBVIOUS
  <2>4. ui \in Seq(S \cup {r}) /\ r \in S \cup {r}
    BY <2>2
  <2>5. \A u \in Id : u \in Id' /\ ui'[u] = ui[u]
    BY <2>1, <2>3, <2>4 DEF Id
  <2> QED BY <2>5 DEF Held, Alike, Windowed, Minded, ViewInv, GoodView
<1>15. CASE OpenHalf
  <2>0. PICK prompt, named :
          ui' = [ui EXCEPT ![Me].match_listing = TRUE, ![Me].prompt = prompt,
                           ![Me].buffer = named, ![Me].half = TRUE]
    BY <1>15 DEF OpenHalf
  <2> DEFINE r == [ui[Me] EXCEPT !.match_listing = TRUE, !.prompt = prompt,
                                 !.buffer = named, !.half = TRUE]
  <2>1. Me \in Id
    BY <1>1, <1>15, MeExists DEF OpenHalf, At
  <2>2. Alike(r, ui[Me]) /\ Windowed(r, ui[Me]) /\ Minded(r, Me)
    BY <1>15, <1>3, <2>1 DEF Alike, Windowed, Minded, Field
  <2>3. ui' = [ui EXCEPT ![Me] = r]
    BY <2>0
  <2> HIDE DEF r
  <2> QED BY <1>1, <2>1, <2>2, <2>3, AllHeld
<1> QED BY <1>2, <1>4, <1>5, <1>6, <1>7, <1>8, <1>9, <1>10, <1>11, <1>12, <1>13, <1>14, <1>15
     DEF Step, EnterWindow, Focus, _open

---------------------------------------------------------------------------
(* What the keys change in a UI.                                           *)

LEMMA OrderedIs ==
  ASSUME NEW found \in Seq(Item)
  PROVE  /\ Ordered(found) \in Seq(Item)
         /\ FirstSelected(Ordered(found)) \in 0 .. Len(Ordered(found))
         /\ Ordered(found) # << >> => FirstSelected(Ordered(found)) > 0
<1>1. Ordered(found) \in Seq(Item)
  BY DEF Ordered, Reverse
<1>2. PICK r \in Seq(Item) : r = Ordered(found)
  BY <1>1
<1>3. Len(r) \in Nat /\ (r = << >> <=> Len(r) = 0)
  OBVIOUS
<1> QED BY <1>2, <1>3 DEF FirstSelected

LEMMA SelectedIs ==
  ASSUME NEW choice \in Choice, NEW selected \in Int, NEW n \in Nat, n > 0
  PROVE  Selected(choice, selected, n) \in 1 .. n
<1>1. \A a, b \in Int : Max({a, b}) \in Int /\ Max({a, b}) >= a
  <2> TAKE a, b \in Int
  <2>1. \E x \in {a, b} : \A y \in {a, b} : x >= y
    BY DEF Max
  <2> QED BY <2>1 DEF Max
<1>2. \A a, b \in Int : Min({a, b}) \in {a, b} /\ Min({a, b}) <= a /\ Min({a, b}) <= b
  <2> TAKE a, b \in Int
  <2>1. \E x \in {a, b} : \A y \in {a, b} : x <= y
    OBVIOUS
  <2> QED BY <2>1 DEF Min
<1>3. SelectedPastEnd(choice, selected, n) \in Int
  BY DEF SelectedPastEnd, Choice
<1>4. PICK past \in Int : past = SelectedPastEnd(choice, selected, n)
  BY <1>3
<1>5. PICK one \in Int : one = 1
  OBVIOUS
<1>6. PICK least : least = Max({one, past})
  OBVIOUS
<1>7. least \in Int /\ least >= 1
  BY <1>1, <1>5, <1>6
<1>8. Selected(choice, selected, n) = Min({n, least})
  BY <1>4, <1>5, <1>6 DEF Selected
<1>9. Min({n, least}) \in {n, least} /\ Min({n, least}) <= n
  BY <1>2, <1>7
<1> QED BY <1>7, <1>8, <1>9

\* A key changes the view of a UI that is in front; a fallback looks in the working directory.
Revised(u) ==
  /\ u \in Id' /\ GoodView(ui'[u])
  /\ ui'[u].saved = ui[u].saved /\ Minded(ui'[u], u)
  /\ ui'[u].current_window = ui[u].current_window
  /\ u \notin Saved => Alike(ui'[u], ui[u])
  /\ ui'[u].finder.dir = ui[u].finder.dir
  /\ ui'[u].finder.pushes = ui[u].finder.pushes /\ ui'[u].finder.missing = ui[u].finder.missing
  /\ ui'[u].scanned = ui[u].scanned \/ (u \in Saved /\ ui'[u].scanned = cwd)

LEMMA OneRevised ==
  ASSUME TypeInv, ViewInv, NEW v \in Saved, NEW r, ui' = [ui EXCEPT ![v] = r], GoodView(r),
         r.saved = ui[v].saved, r.half = ui[v].half, r.on_close = ui[v].on_close,
         r.cmdline_enter_autocmd = ui[v].cmdline_enter_autocmd,
         r.current_window = ui[v].current_window,
         r.finder.dir = ui[v].finder.dir, r.finder.pushes = ui[v].finder.pushes,
         r.finder.missing = ui[v].finder.missing,
         r.scanned = ui[v].scanned \/ r.scanned = cwd
  PROVE  \A u \in Id : Revised(u)
<1>0. v \in Id
  BY DEF Saved
<1>1. SameUIs /\ ui'[v] = r /\ \A u \in Id : u # v => ui'[u] = ui[u]
  BY <1>0, Same
<1> TAKE u \in Id
<1>2. CASE u = v
  BY <1>1, <1>2 DEF Revised, Minded, SameUIs
<1>3. CASE u # v
  BY <1>1, <1>3 DEF Revised, Minded, SameUIs, Alike, ViewInv, GoodView
<1> QED BY <1>2, <1>3

LEMMA TypeRevises ==
  ASSUME Inv, ViewInv, NEW v \in Id, NEW q \in Query, Type(v, q)
  PROVE  \A u \in Id : Revised(u)
<1> DEFINE r == [ui[v] EXCEPT !.text = q, !.changed = TRUE]
<1>1. v \in Saved /\ TypeInv
  BY AtRest DEF Type, Typing, Inv
<1>2. GoodUI(ui[v]) /\ GoodView(ui[v])
  BY <1>1 DEF TypeInv, ViewInv
<1>3. /\ GoodView(r) /\ r.finder = ui[v].finder /\ r.scanned = ui[v].scanned
      /\ r.saved = ui[v].saved /\ r.half = ui[v].half /\ r.on_close = ui[v].on_close
      /\ r.cmdline_enter_autocmd = ui[v].cmdline_enter_autocmd
      /\ r.current_window = ui[v].current_window
  BY <1>2 DEF GoodView, GoodUI, Field
<1>4. ui' = [ui EXCEPT ![v] = r]
  BY DEF Type
<1> HIDE DEF r
<1> QED BY <1>1, <1>3, <1>4, OneRevised

LEMMA OnChangeRevises ==
  ASSUME Inv, ViewInv, NEW v \in Id, on_change(v)
  PROVE  \A u \in Id : Revised(u)
<1>1. v \in Saved /\ TypeInv
  BY AtRest DEF on_change, Typing, Inv
<1>2. GoodUI(ui[v]) /\ GoodView(ui[v])
  BY <1>1 DEF TypeInv, ViewInv
<1>3. PICK finder, scanned, results, selected, shown :
        /\ finder = ui[v].finder \/ finder = Fallback(ui[v].finder)
        /\ scanned = ui[v].scanned \/ scanned = cwd
        /\ results = Ordered(finder.found[ui[v].text])
        /\ selected = FirstSelected(results)
        /\ shown = [results |-> results, selected |-> selected, by |-> finder]
        /\ ui' = [ui EXCEPT ![v].changed = FALSE, ![v].finder = finder, ![v].fallback = FALSE,
                            ![v].scanned = scanned, ![v].results = results,
                            ![v].selected = selected, ![v].shown = shown]
  BY DEF on_change
<1> DEFINE r == [ui[v] EXCEPT !.changed = FALSE, !.finder = finder, !.fallback = FALSE,
                              !.scanned = scanned, !.results = results,
                              !.selected = selected, !.shown = shown]
<1>4. /\ GoodFinder(finder) /\ finder.dir = ui[v].finder.dir
      /\ finder.pushes = ui[v].finder.pushes /\ finder.missing = ui[v].finder.missing
  <2>1. GoodFinder(ui[v].finder) /\ FallbackFound \in [Query -> Seq(Item)]
    BY <1>2, UIAssumption DEF GoodView, UIAssumption
  <2> QED BY <1>3, <2>1 DEF Fallback, GoodFinder
<1>5. finder.found[ui[v].text] \in Seq(Item)
  BY <1>2, <1>4 DEF GoodFinder, GoodView
<1>6. /\ results \in Seq(Item) /\ selected \in 0 .. Len(results)
      /\ results # << >> => selected > 0
  BY <1>3, <1>5, OrderedIs
<1>7. /\ r.finder = finder /\ r.scanned = scanned /\ r.saved = ui[v].saved
      /\ r.half = ui[v].half /\ r.on_close = ui[v].on_close
      /\ r.cmdline_enter_autocmd = ui[v].cmdline_enter_autocmd
      /\ r.current_window = ui[v].current_window /\ r.text = ui[v].text
      /\ r.results = results /\ r.selected = selected /\ r.shown = shown
      /\ DOMAIN r = DOMAIN ui[v]
  BY <1>2 DEF GoodView, GoodUI, Field
<1>8. ui' = [ui EXCEPT ![v] = r]
  BY <1>3
<1> HIDE DEF r
<1>9. GoodView(r)
  BY <1>2, <1>3, <1>4, <1>6, <1>7 DEF GoodView
<1> QED BY <1>1, <1>3, <1>4, <1>7, <1>8, <1>9, OneRevised

LEMMA OnSelectRevises ==
  ASSUME Inv, ViewInv, NEW v \in Id, NEW choice \in Choice, on_select(v, choice)
  PROVE  \A u \in Id : Revised(u)
<1>1. v \in Saved /\ TypeInv
  BY AtRest DEF on_select, Typing, Inv
<1>2. GoodUI(ui[v]) /\ GoodView(ui[v])
  BY <1>1 DEF TypeInv, ViewInv
<1>3. PICK n \in Nat : n = Len(ui[v].results) /\ n > 0
  <2>1. PICK results \in Seq(Item) : results = ui[v].results /\ results # << >>
    BY <1>2 DEF GoodView, on_select
  <2> QED BY <2>1
<1>4. PICK selected : selected = Selected(choice, ui[v].selected, n)
  OBVIOUS
<1>5. selected \in 1 .. n
  BY <1>2, <1>3, <1>4, SelectedIs DEF GoodView
<1> DEFINE r == [ui[v] EXCEPT !.selected = selected, !.shown.selected = selected]
<1>6. ui' = [ui EXCEPT ![v] = r]
  BY <1>3, <1>4 DEF on_select, Highlight
<1>7. /\ r.finder = ui[v].finder /\ r.scanned = ui[v].scanned /\ r.saved = ui[v].saved
      /\ r.half = ui[v].half /\ r.on_close = ui[v].on_close
      /\ r.cmdline_enter_autocmd = ui[v].cmdline_enter_autocmd
      /\ r.current_window = ui[v].current_window /\ r.text = ui[v].text
      /\ r.results = ui[v].results /\ r.selected = selected
      /\ r.shown = [ui[v].shown EXCEPT !.selected = selected]
      /\ DOMAIN r = DOMAIN ui[v]
  BY <1>2 DEF GoodView, GoodUI, Field
<1>8. r.shown = [results |-> ui[v].results, selected |-> selected, by |-> ui[v].finder]
  BY <1>2, <1>7 DEF GoodView
<1> HIDE DEF r
<1>9. GoodView(r)
  BY <1>2, <1>3, <1>5, <1>7, <1>8 DEF GoodView
<1> QED BY <1>1, <1>6, <1>7, <1>9, OneRevised

LEMMA NextHolds ==
  ASSUME Inv, ViewInv, [Next]_vars
  PROVE  \A u \in Id : Held(u) \/ Revised(u)
<1>1. CASE Step
  BY <1>1, StepHolds
<1>2. CASE ui' = ui
  BY <1>2, NoneChanged
<1>3. ASSUME NEW v \in Id, NEW q \in Query, Type(v, q) PROVE \A u \in Id : Revised(u)
  BY <1>3, TypeRevises
<1>4. ASSUME NEW v \in Id, on_change(v) PROVE \A u \in Id : Revised(u)
  BY <1>4, OnChangeRevises
<1>5. ASSUME NEW v \in Id, NEW choice \in Choice, on_select(v, choice) PROVE \A u \in Id : Revised(u)
  BY <1>5, OnSelectRevises
<1>6. \/ Step \/ ui' = ui
      \/ (\E v \in Id : \E q \in Query : Type(v, q)) \/ (\E v \in Id : on_change(v))
      \/ (\E v \in Id : \E choice \in Choice : on_select(v, choice))
  BY DEF Next, Keys, close, on_open, Start, CommandLine, Goto, Split, OpenDeferred, vars
<1> QED BY <1>1, <1>2, <1>3, <1>4, <1>5, <1>6

---------------------------------------------------------------------------
(* What is to be opened, and where.                                        *)

\* u is being shown: its finder is built, and it is not closed.
Active(u) == u \in Saved \/ Pending(u, "settings")

\* While a UI is being shown the user is where its finder went, and there it was built.
PlaceInv ==
  \A u \in Id : ui[u].finder.pushes =>
    /\ ui[u].scanned = ui[u].finder.dir
    /\ Active(u) => cwd = ui[u].finder.dir

\* What is to be opened is lit, in a UI that is never shown again.
Settled(e) ==
  /\ e.ui \in Id /\ ~ Active(e.ui)
  /\ e.item = ui[e.ui].shown.results[ui[e.ui].shown.selected]

PendingInv ==
  /\ pending \in Seq([ui : Nat, item : Item])
  /\ \A k \in DOMAIN pending : Settled(pending[k])

\* Only the UI that is being built comes to be shown.
LEMMA ActiveLess ==
  ASSUME Inv, HalfInv, HalfBehind, FrontInv, ViewInv, [Next]_vars, NEW u \in Id, Active(u)'
  PROVE  Active(u)
<1>1. CASE u \in Saved'
  <2>1. ui'[u].saved # {} /\ ~ ui'[u].half
    BY <1>1 DEF Saved
  <2>2. Minded(ui'[u], u)
    BY NextHolds DEF Held, Revised
  <2>3. CASE ui[u].saved # {}
    BY <2>1, <2>2, <2>3 DEF Minded, Active, Saved
  <2>4. CASE Override /\ Me = u
    <3>1. CallsOK /\ calls # << >> /\ Now.name = "settings"
      BY <2>4 DEF Inv, CallsInv, CallsOK, At, Idle, Override
    <3>2. 1 \in DOMAIN calls /\ calls[1].ui = u /\ Has(calls[1], "settings")
      BY <2>4, <3>1, Innermost
    <3> QED BY <3>2 DEF Active, Pending
  <2> QED BY <2>1, <2>2, <2>3, <2>4 DEF Minded
<1>2. CASE Pending(u, "settings")'
  <2>1. PICK i \in DOMAIN calls' : calls'[i].ui = u /\ Has(calls[i], "settings")'
    BY <1>2 DEF Pending
  <2>2. PICK j \in DOMAIN calls'[i].steps : calls'[i].steps[j].name = "settings"
    BY <2>1 DEF Has
  <2>3. PICK s : s = calls'[i].steps[j]
    OBVIOUS
  <2>4. Owes(u, s)'
    BY <2>1, <2>2, <2>3 DEF Owes
  <2>5. s.name = "settings"
    BY <2>2, <2>3
  <2>6. Owes(u, s)
    <3>1. s.name \in ShowName
      BY <2>5 DEF ShowName
    <3>2. Owes(u, s) \/ Harmless(u, s)
      BY <2>4, NextOwes
    <3> QED BY <3>1, <3>2 DEF Harmless
  <2> QED BY <2>5, <2>6 DEF Owes, Active, Pending, Has
<1> QED BY <1>1, <1>2 DEF Active

\* A UI that is new has just been built, by the finder that its call was for.
LEMMA NewUI ==
  ASSUME Inv, [Next]_vars, NEW u \in Id', u \notin Id
  PROVE  /\ Build /\ Now.to \in Finder /\ ui'[u] = New(Now.to) /\ u = Len(ui) + 1 /\ Continue
         /\ cwd' = IF Now.to.pushes THEN Now.to.dir ELSE cwd
<1>1. Build /\ ui' # ui
  <2>1. CASE Step /\ ~ Build
    BY <2>1 DEF Step, Unset, CloseListing, ClosePrompt, Shut, DeleteAutocmd, SetWindow, EnterWindow,
         Pop, OnClose, Override, OpenWindows, OpenHalf, Focus, Watch, _open, Id
  <2>2. CASE ui' = ui
    BY <2>2 DEF Id
  <2>3. CASE \E v \in Id : Keys(v)
    <3>1. PICK v \in Id : Keys(v)
      BY <2>3
    <3>2. ASSUME NEW q \in Query, Type(v, q) PROVE FALSE
      BY <3>2 DEF Type, Id
    <3>3. CASE on_change(v)
      <4>1. PICK finder, scanned, results, selected, shown :
              ui' = [ui EXCEPT ![v].changed = FALSE, ![v].finder = finder, ![v].fallback = FALSE,
                               ![v].scanned = scanned, ![v].results = results,
                               ![v].selected = selected, ![v].shown = shown]
        BY <3>3 DEF on_change
      <4> QED BY <4>1 DEF Id
    <3>4. ASSUME NEW choice \in Choice, on_select(v, choice) PROVE FALSE
      <4>1. PICK selected :
              ui' = [ui EXCEPT ![v].selected = selected, ![v].shown.selected = selected]
        BY <3>4 DEF on_select, Highlight
      <4> QED BY <4>1 DEF Id
    <3> QED BY <2>2, <3>1, <3>2, <3>3, <3>4 DEF Keys, close, on_open
  <2> QED BY <2>1, <2>2, <2>3, RestFrame
<1>2. PICK f : f = Now.to
  OBVIOUS
<1>3. ui' = Append(ui, New(f)) /\ Continue /\ ~ (f.pushes /\ f.missing)
  BY <1>1, <1>2 DEF Build
<1>4. f \in Finder
  <2>1. Now \in StepType /\ Now.name = "build"
    BY <1>1, StepUnderWay, Innermost DEF Build, Step, At
  <2> QED BY <1>2, <2>1 DEF StepType
<1>5. ui'[u] = New(f) /\ u = Len(ui) + 1
  <2>1. PICK S : ui \in Seq(S)
    BY DEF Inv, TypeInv
  <2>2. PICK r : r = New(f)
    OBVIOUS
  <2>3. ui \in Seq(S \cup {r}) /\ r \in S \cup {r} /\ ui' = Append(ui, r)
    BY <1>3, <2>1, <2>2
  <2>4. Id = 1 .. Len(ui) /\ Id' = 1 .. Len(ui) + 1 /\ Len(ui) \in Nat /\ ui'[Len(ui) + 1] = r
    BY <2>3 DEF Id
  <2>5. u = Len(ui) + 1
    BY <2>4
  <2> QED BY <2>2, <2>4, <2>5
<1>6. cwd' = IF f.pushes THEN f.dir ELSE cwd
  <2>1. IF f.pushes THEN pushd(f) ELSE UNCHANGED <<cwd, stack>>
    BY <1>1, <1>2 DEF Build
  <2>2. {f.pushes, f.missing} \subseteq BOOLEAN
    BY <1>4, UIAssumption DEF UIAssumption
  <2> QED BY <1>3, <2>1, <2>2 DEF pushd
<1> QED BY <1>1, <1>2, <1>3, <1>4, <1>5, <1>6

LEMMA ViewKept ==
  ASSUME Inv, ViewInv, [Next]_vars
  PROVE  ViewInv'
<1> SUFFICES ASSUME NEW u \in Id' PROVE GoodView(ui'[u])
  BY DEF ViewInv, GoodView, GoodFinder
<1>1. CASE u \in Id
  <2>1. CASE Held(u)
    BY <1>1, <2>1 DEF Held, Alike, ViewInv, GoodView
  <2>2. CASE Revised(u)
    BY <2>2 DEF Revised
  <2> QED BY <1>1, <2>1, <2>2, NextHolds
<1>2. CASE u \notin Id
  <2>1. PICK f \in Finder : ui'[u] = New(f)
    BY <1>2, NewUI
  <2>2. GoodFinder(f) /\ Empty \in Query
    BY UIAssumption DEF UIAssumption, GoodFinder
  <2>3. PICK none \in Seq(Item) : none = << >>
    <3>1. << >> \in Seq(Item)
      OBVIOUS
    <3> QED BY <3>1
  <2>4. Len(none) = 0
    BY <2>3
  <2>5. /\ New(f).finder = f /\ New(f).text = Empty /\ New(f).results = none
        /\ New(f).selected = 0
        /\ New(f).shown = [results |-> none, selected |-> 0, by |-> f]
        /\ {"scanned", "text", "changed", "results", "selected", "fallback"} \subseteq DOMAIN New(f)
    BY <2>3 DEF New
  <2> QED BY <2>1, <2>2, <2>3, <2>4, <2>5 DEF GoodView
<1> QED BY <1>1, <1>2

\* The working directory changes only when no UI is being shown.
LEMMA DirectoryKept ==
  ASSUME Inv, [Next]_vars, NEW u \in Id, Active(u)
  PROVE  cwd' = cwd
<1>1. CASE Build
  <2>1. ~ Idle /\ Now.name = "build" /\ Now.name \in ShowName
    BY <1>1 DEF Build, At, ShowName
  <2>2. /\ Len(calls) = 1 /\ DOMAIN calls = {1} /\ GoodCall(calls[1]) /\ Owned(calls[1])
        /\ Has(calls[1], "build") /\ Has(calls[1], "settings") /\ Saved = {}
    BY <2>1, ShowAlone DEF GoodCall, Whole
  <2>3. calls[1].ui = u
    BY <2>2 DEF Active, Pending
  <2>4. u # Len(ui) + 1
    BY Indices DEF Inv
  <2> QED BY <2>2, <2>3, <2>4 DEF Owned, Name, ShowName
<1>2. CASE Pop
  <2>1. ~ Idle /\ Now.name = "on_close"
    BY <1>2 DEF Pop, At
  <2>2. Saved = {} /\ ~ Showing
    BY <2>1, Unsaved, NotShowing DEF CloseName
  <2> QED BY <2>2 DEF Active, Pending, Showing, ShowName
<1> QED BY <1>1, <1>2, StepFrame, KeysFrame, RestFrame

LEMMA PlaceKept ==
  ASSUME Inv, HalfInv, HalfBehind, FrontInv, ViewInv, PlaceInv, [Next]_vars
  PROVE  PlaceInv'
<1> SUFFICES ASSUME NEW u \in Id', ui'[u].finder.pushes
             PROVE  /\ ui'[u].scanned = ui'[u].finder.dir
                    /\ Active(u)' => cwd' = ui'[u].finder.dir
  BY DEF PlaceInv
<1>2. CASE u \in Id
  <2>1. Active(u)' => Active(u) /\ cwd' = cwd
    BY <1>2, ActiveLess, DirectoryKept
  <2>2. CASE Held(u)
    BY <1>2, <2>1, <2>2 DEF Held, Alike, PlaceInv
  <2>3. CASE Revised(u)
    <3>1. ui[u].finder.pushes /\ ui'[u].finder.dir = ui[u].finder.dir
      BY <2>3 DEF Revised
    <3>2. /\ ui[u].scanned = ui[u].finder.dir
          /\ Active(u) => cwd = ui[u].finder.dir
      BY <1>2, <3>1 DEF PlaceInv
    <3>3. u \in Saved => Active(u)
      BY DEF Active
    <3>4. ui'[u].scanned = ui[u].scanned \/ (u \in Saved /\ ui'[u].scanned = cwd)
      BY <2>3 DEF Revised
    <3> QED BY <2>1, <3>1, <3>2, <3>3, <3>4
  <2> QED BY <1>2, <2>2, <2>3, NextHolds
<1>3. CASE u \notin Id
  <2>1. PICK f : ui'[u] = New(f) /\ cwd' = IF f.pushes THEN f.dir ELSE cwd
    BY <1>3, NewUI
  <2>2. New(f).finder = f /\ New(f).scanned = cwd'
    BY DEF New
  <2> QED BY <2>1, <2>2
<1> QED BY <1>2, <1>3

\* What is settled stays so.
LEMMA SettledKept ==
  ASSUME Inv, HalfInv, HalfBehind, FrontInv, ViewInv, [Next]_vars, NEW e, Settled(e)
  PROVE  Settled(e)'
<1>1. e.ui \in Id /\ e.ui \notin Saved
  BY DEF Settled, Active
<1>2. e.ui \in Id' /\ Alike(ui'[e.ui], ui[e.ui])
  BY <1>1, NextHolds DEF Held, Revised
<1>3. ~ Active(e.ui)'
  BY <1>1, ActiveLess DEF Settled
<1> QED BY <1>2, <1>3 DEF Settled, Alike

LEMMA PendingKept ==
  ASSUME Inv, HalfInv, HalfBehind, FrontInv, ViewInv, PendingInv, [Next]_vars
  PROVE  PendingInv'
<1>0. PICK T : T = [ui : Nat, item : Item]
  OBVIOUS
<1>1. pending \in Seq(T)
  BY <1>0 DEF PendingInv
<1>2. \A e : Settled(e) => Settled(e)'
  BY SettledKept
<1>3. CASE pending' = pending
  BY <1>2, <1>3 DEF PendingInv
<1>4. CASE Opens
  <2>1. pending # << >> /\ pending' = Tail(pending)
    BY <1>4 DEF Opens
  <2>2. /\ pending' \in Seq(T)
        /\ \A k \in DOMAIN pending' : k + 1 \in DOMAIN pending /\ pending'[k] = pending[k + 1]
    BY <1>1, <2>1
  <2> QED BY <1>0, <1>2, <2>2 DEF PendingInv
<1>5. CASE _open /\ pending' # pending
  <2>1. ~ Idle /\ Now.name = "open" /\ ui' = ui /\ ui[Me].results # << >>
    BY <1>5 DEF _open, At
  <2>2. Me \in Id /\ Me \in Nat /\ Saved = {} /\ ~ Showing
    BY <2>1, MeExists, Unsaved, NotShowing DEF CloseName
  <2>3. ~ Active(Me)
    BY <2>2 DEF Active, Pending, Showing, ShowName
  <2>4. GoodView(ui[Me])
    BY <2>2 DEF ViewInv
  <2>5. PICK results \in Seq(Item), selected \in Nat :
          /\ results = ui[Me].results /\ selected = ui[Me].selected
          /\ selected \in 1 .. Len(results)
          /\ ui[Me].shown.results = results /\ ui[Me].shown.selected = selected
    BY <2>1, <2>4 DEF GoodView
  <2>6. PICK e : e = [ui |-> Me, item |-> results[selected]]
    OBVIOUS
  <2>7. e \in T
    BY <1>0, <2>2, <2>5, <2>6
  <2>8. Settled(e)
    BY <2>2, <2>3, <2>5, <2>6 DEF Settled
  <2>9. pending' = Append(pending, e)
    BY <2>1, <2>5, <2>6, <1>5 DEF _open
  <2>10. /\ pending' \in Seq(T)
         /\ \A k \in DOMAIN pending' : pending'[k] = e \/ (k \in DOMAIN pending /\ pending'[k] = pending[k])
    BY <1>1, <2>7, <2>9
  <2> QED BY <1>0, <1>2, <2>8, <2>10 DEF PendingInv
<1> QED BY <1>3, <1>4, <1>5, StepFrame, KeysFrame, RestFrame

\* The current window stays there, and is never a listing.
LEMMA FrontKept ==
  ASSUME Inv, HalfInv, HalfBehind, FrontInv, ViewInv, [Next]_vars
  PROVE  FrontInv'
<1> DEFINE MainWindow == <<"user", 1>>
<1>0. /\ MainWindow \in UserWindow /\ MainWindow \notin Fleeting
      /\ NoWindow \notin UserWindow /\ NotListing(NoWindow)
      /\ \A w \in UserWindow : NotListing(w)
      /\ \A u \in Nat : MainWindow \notin {Listing(u), Prompt(u)} /\ NoWindow \notin {Listing(u), Prompt(u)}
  BY WindowsDiffer, FleetingAssumption DEF UserWindow, NotListing, FleetingAssumption
<1> HIDE DEF MainWindow
<1>1. /\ NoWindow \notin windows /\ MainWindow \in windows /\ current \in windows /\ NotListing(current)
  BY DEF FrontInv, MainWindow
<1>2. (\A u, s : Owes(u, s) /\ s.name = "enter" => NotListing(s.to))'
  <2>1. \A u, s : Owes(u, s)' /\ s.name = "enter" => NotListing(s.to)
    BY NextOwes DEF FrontInv, Harmless
  <2> QED BY <2>1 DEF NotListing, Owes
<1>3. raised' \in BOOLEAN
  <2>1. raised' = raised \/ raised' = TRUE
    BY StepFrame, KeysFrame, RestFrame DEF Raise
  <2> QED BY <2>1 DEF FrontInv
<1>4. (\A u \in Id : NotListing(ui[u].current_window))'
  <2>1. ASSUME NEW u \in Id' PROVE NotListing(ui'[u].current_window)
    <3>1. CASE u \in Id
      <4>1. NotListing(ui[u].current_window)
        BY <3>1 DEF FrontInv
      <4> QED BY <1>0, <1>1, <3>1, <4>1, NextHolds DEF Held, Windowed, Revised
    <3>2. CASE u \notin Id
      <4>1. PICK f : ui'[u] = New(f)
        BY <3>2, NewUI
      <4>2. New(f).current_window = NoWindow
        BY DEF New
      <4> QED BY <1>0, <4>1, <4>2
    <3> QED BY <3>1, <3>2
  <2> QED BY <2>1 DEF NotListing
<1>5. /\ NoWindow \notin windows' /\ MainWindow \in windows' /\ current' \in windows'
      /\ NotListing(current')
  <2>1. CASE windows' = windows /\ current' = current
    BY <1>1, <2>1
  <2>2. CASE CloseListing
    <3>1. Me \in Nat
      BY <2>2, StepUnderWay, Innermost DEF Step
    <3> QED BY <1>0, <1>1, <2>2, <3>1 DEF CloseListing, NotListing
  <2>3. CASE Shut
    <3>1. Me \in Nat
      BY <2>3, StepUnderWay, Innermost DEF Step
    <3>2. \A w \in UserWindow : w # Prompt(Me)
      BY <3>1, WindowsDiffer
    <3> QED BY <1>0, <1>1, <2>3, <3>1, <3>2 DEF Shut
  <2>4. CASE EnterWindow
    <3>1. ~ Idle /\ CallsOK /\ calls # << >> /\ Now.name = "enter"
      BY <2>4, StepUnderWay DEF Step, EnterWindow, At
    <3>2. 1 \in DOMAIN calls /\ Now = calls[1].steps[1] /\ 1 \in DOMAIN calls[1].steps
      <4>1. 1 \in DOMAIN calls /\ calls[1] \in CallType /\ GoodCall(calls[1]) /\ Now = calls[1].steps[1]
        BY <3>1, Innermost
      <4>2. calls[1].steps \in Seq(StepType) /\ calls[1].steps # << >>
        BY <4>1 DEF CallType, GoodCall
      <4> QED BY <4>1, <4>2
    <3>3. NotListing(Now.to)
      BY <3>1, <3>2 DEF FrontInv, Owes
    <3> QED BY <1>0, <1>1, <2>4, <3>3 DEF EnterWindow
  <2>5. CASE OpenWindows \/ OpenHalf
    <3>1. Me \in Nat
      BY <2>5, StepUnderWay, Innermost DEF Step
    <3>2. windows \subseteq windows' /\ windows' \subseteq windows \cup {Listing(Me), Prompt(Me)}
          /\ current' = current
      BY <2>5 DEF OpenWindows, OpenHalf
    <3> QED BY <1>0, <1>1, <3>1, <3>2
  <2>6. ASSUME NEW w \in UserWindow, Split(w)
        PROVE  NoWindow \notin windows' /\ MainWindow \in windows' /\ current' \in windows' /\ NotListing(current')
    BY <1>0, <1>1, <2>6 DEF Split
  <2>7. \/ windows' = windows /\ current' = current
        \/ CloseListing \/ Shut \/ EnterWindow \/ OpenWindows \/ OpenHalf
        \/ \E w \in UserWindow : Split(w)
    BY StepFrame, KeysFrame, RestFrame
  <2> QED BY <2>1, <2>2, <2>3, <2>4, <2>5, <2>6, <2>7
<1> QED BY <1>2, <1>3, <1>4, <1>5 DEF FrontInv, MainWindow

---------------------------------------------------------------------------
(* A UI whose show() ends half way is never in front, nor called again.    *)

\* A prompt is reached only when its UI is there, not half way, and past its windows.
BehindInv ==
  /\ \A w \in Nat : Reached(w) => w \in Id \ Half /\ ~ Pending(w, "windows")
  /\ \A u \in Id : Pending(u, "windows") => ~ ui[u].cmdline_enter_autocmd

LEMMA Behind ==
  ASSUME Inv, BehindInv
  PROVE  HalfBehind
<1> SUFFICES ASSUME NEW u \in Half, current = Prompt(u) PROVE FALSE
  BY DEF HalfBehind
<1>1. u \in Nat
  BY Indices DEF Inv, Half
<1> QED BY <1>1 DEF BehindInv, Reached

\* What comes to be owed by a UI that is there: no step of show(), and on_close only if
\* it has not been closed.
LEMMA PendingLess ==
  ASSUME Inv, HalfInv, HalfBehind, FrontInv, [Next]_vars, NEW u, NEW n, Pending(u, n)'
  PROVE  /\ n \in ShowName => Pending(u, n) \/ (u \notin Id /\ \E f \in Finder : Start(f))
         /\ n = "on_close" => Pending(u, n) \/ u \in Saved \cup leave
<1>1. PICK i \in DOMAIN calls' : calls'[i].ui = u /\ Has(calls[i], n)'
  BY DEF Pending
<1>2. PICK j \in DOMAIN calls'[i].steps : calls'[i].steps[j].name = n
  BY <1>1 DEF Has
<1>3. PICK s : s = calls'[i].steps[j]
  OBVIOUS
<1>4. Owes(u, s)' /\ s.name = n
  BY <1>1, <1>2, <1>3 DEF Owes
<1>5. Owes(u, s) \/ Harmless(u, s)
  BY <1>4, NextOwes
<1>6. Owes(u, s) => Pending(u, n)
  BY <1>4 DEF Owes, Pending, Has
<1> QED BY <1>4, <1>5, <1>6 DEF Harmless

LEMMA Showings ==
  ASSUME Inv, HalfInv, HalfBehind, FrontInv, [Next]_vars, ~ \E f \in Finder : Start(f), Showing'
  PROVE  Showing
<1>1. PICK i \in DOMAIN calls', n \in ShowName : Has(calls[i], n)'
  BY DEF Showing
<1>2. PICK u : u = calls'[i].ui
  OBVIOUS
<1>3. Pending(u, n)'
  BY <1>1, <1>2 DEF Pending
<1>4. Pending(u, n)
  BY <1>3, PendingLess
<1> QED BY <1>4 DEF Pending, Showing

\* The steps of show() that have been taken are not to come.
LEMMA Past ==
  ASSUME Inv, ~ Idle, Now.name \in ShowName, NEW n, Rank(n) < Rank(Now.name)
  PROVE  ~ Has(calls[1], n) /\ \A u : ~ Pending(u, n)
<1>1. DOMAIN calls = {1} /\ \A m : Has(calls[1], m) /\ m # Now.name => Rank(Now.name) < Rank(m)
  BY ShowAlone
<1>2. ~ Has(calls[1], n)
  BY <1>1, RankType
<1> QED BY <1>1, <1>2 DEF Pending

LEMMA ReachedLess ==
  ASSUME Inv, HalfInv, HalfBehind, FrontInv, ViewInv, [Next]_vars, NEW w \in Nat, Reached(w)'
  PROVE  Reached(w) \/ (Focus /\ w = Me)
<1>1. CASE current' = Prompt(w)
  <2>1. CASE current' = current
    BY <1>1, <2>1 DEF Reached
  <2>2. CASE Shut
    <3>1. \A v \in UserWindow : v # Prompt(w)
      BY WindowsDiffer
    <3> QED BY <1>1, <2>1, <2>2, <3>1 DEF Shut
  <2>3. CASE EnterWindow /\ current' # current
    <3>1. ~ Idle /\ CallsOK /\ calls # << >> /\ Now.name = "enter"
      BY <2>3, StepUnderWay DEF Step, EnterWindow, At
    <3>2. 1 \in DOMAIN calls /\ Now = calls[1].steps[1] /\ 1 \in DOMAIN calls[1].steps
      <4>1. 1 \in DOMAIN calls /\ calls[1] \in CallType /\ GoodCall(calls[1]) /\ Now = calls[1].steps[1]
        BY <3>1, Innermost
      <4>2. calls[1].steps \in Seq(StepType) /\ calls[1].steps # << >>
        BY <4>1 DEF CallType, GoodCall
      <4> QED BY <4>1, <4>2
    <3>3. current' = Now.to
      BY <2>3 DEF EnterWindow
    <3>4. PICK u, s : s = Now /\ u = calls[1].ui
      OBVIOUS
    <3>5. Owes(u, s) /\ s.name = "enter" /\ s.to = Prompt(w)
      BY <1>1, <3>1, <3>2, <3>3, <3>4 DEF Owes
    <3> QED BY <3>5 DEF Reached
  <2>4. CASE CloseListing \/ OpenWindows \/ OpenHalf \/ \E v \in UserWindow : Split(v)
    BY <2>1, <2>4 DEF CloseListing, OpenWindows, OpenHalf, Split
  <2> QED BY <2>1, <2>2, <2>3, <2>4, StepFrame, KeysFrame, RestFrame
<1>2. ASSUME NEW u \in Id', ui'[u].current_window = Prompt(w)
      PROVE  Reached(w)
  <2>1. NoWindow # Prompt(w)
    BY WindowsDiffer DEF NoWindow
  <2>2. CASE u \in Id
    <3>1. ui'[u].current_window = ui[u].current_window \/ ui'[u].current_window \in {NoWindow, current}
      BY <2>2, NextHolds DEF Held, Windowed, Revised
    <3> QED BY <1>2, <2>1, <2>2, <3>1 DEF Reached
  <2>3. CASE u \notin Id
    <3>1. PICK f : ui'[u] = New(f)
      BY <2>3, NewUI
    <3>2. New(f).current_window = NoWindow
      BY DEF New
    <3> QED BY <1>2, <2>1, <3>1, <3>2
  <2> QED BY <2>2, <2>3
<1>3. ASSUME NEW u, NEW s, Owes(u, s)', s.name = "enter", s.to = Prompt(w)
      PROVE  Reached(w) \/ (Focus /\ w = Me)
  <2>1. Owes(u, s) \/ Harmless(u, s)
    BY <1>3, NextOwes
  <2> QED BY <1>3, <2>1 DEF Harmless, Reached
<1>4. \/ current' = Prompt(w)
      \/ \E u \in Id' : ui'[u].current_window = Prompt(w)
      \/ \E u, s : Owes(u, s)' /\ s.name = "enter" /\ s.to = Prompt(w)
  BY DEF Reached, Owes
<1> QED BY <1>1, <1>2, <1>3, <1>4

\* The UIs there are stay, and only a show() that ends half way marks one.
LEMMA HalfMore ==
  ASSUME Inv, ViewInv, [Next]_vars, NEW u \in Id
  PROVE  /\ u \in Id' /\ Minded(ui'[u], u)
         /\ u \in Half' <=> u \in Half \/ (OpenHalf /\ u = Me)
<1>1. u \in Id' /\ Minded(ui'[u], u)
  BY NextHolds DEF Held, Revised
<1>2. OpenHalf /\ u = Me => ui'[u].half
  <2>1. SUFFICES ASSUME OpenHalf, u = Me PROVE ui'[u].half
    OBVIOUS
  <2>2. PICK opened, named :
          ui' = [ui EXCEPT ![Me].match_listing = TRUE, ![Me].prompt = opened # {},
                           ![Me].buffer = named, ![Me].half = TRUE]
    BY <2>1 DEF OpenHalf
  <2> DEFINE r == [ui[u] EXCEPT !.match_listing = TRUE, !.prompt = opened # {},
                                !.buffer = named, !.half = TRUE]
  <2>3. ui' = [ui EXCEPT ![u] = r]
    BY <2>1, <2>2
  <2>4. r.half = TRUE
    BY DEF Inv, TypeInv, GoodUI, Field
  <2> HIDE DEF r
  <2>5. ui'[u] = r
    BY <2>3 DEF Id
  <2> QED BY <2>4, <2>5
<1> QED BY <1>1, <1>2 DEF Minded, Half

\* A UI that is new is not saved, nor half way.
LEMMA NewUnsaved ==
  ASSUME Inv, [Next]_vars, NEW u \in Id', u \notin Id
  PROVE  /\ u \notin Half' /\ u \notin Saved'
         /\ ~ ui'[u].on_close /\ ~ ui'[u].cmdline_enter_autocmd
<1>1. PICK f : ui'[u] = New(f)
  BY NewUI
<1>2. /\ New(f).saved = {} /\ New(f).half = FALSE /\ New(f).on_close = FALSE
      /\ New(f).cmdline_enter_autocmd = FALSE
  BY DEF New
<1> QED BY <1>1, <1>2 DEF Half, Saved

LEMMA BehindKept ==
  ASSUME Inv, HalfInv, HalfBehind, FrontInv, ViewInv, BehindInv, [Next]_vars
  PROVE  BehindInv'
<1>1. ASSUME NEW w \in Nat, Reached(w)'
      PROVE  w \in Id' /\ w \notin Half' /\ ~ Pending(w, "windows")'
  <2>1. w \in Id /\ w \notin Half /\ ~ Pending(w, "windows")
    <3>1. CASE Reached(w)
      BY <3>1 DEF BehindInv
    <3>2. CASE Focus /\ w = Me
      <4>1. ~ Idle /\ Now.name = "focus" /\ Now.name \in ShowName
        BY <3>2 DEF Focus, At, ShowName
      <4>2. Rank("windows") < Rank(Now.name)
        BY <4>1 DEF Rank
      <4>3. w \in Id
        BY <3>2, <4>1, MeExists
      <4> QED BY <3>2, <4>1, <4>2, <4>3, Past, MeWhole
    <3> QED BY <1>1, <3>1, <3>2, ReachedLess
  <2>2. w \notin Half'
    <3>1. SUFFICES ASSUME OpenHalf, w = Me PROVE FALSE
      BY <2>1, HalfMore
    <3>2. Has(calls[1], "windows") /\ Me = calls[1].ui /\ 1 \in DOMAIN calls
      <4>1. ~ Idle /\ Now.name = "windows"
        BY <3>1 DEF OpenHalf, At
      <4> QED BY <4>1, Innermost DEF Inv, CallsInv, CallsOK, Idle
    <3> QED BY <2>1, <3>1, <3>2 DEF Pending
  <2>3. "windows" \in ShowName
    BY DEF ShowName
  <2> QED BY <2>1, <2>2, <2>3, HalfMore, PendingLess
<1>2. ASSUME NEW u \in Id', Pending(u, "windows")'
      PROVE  ~ ui'[u].cmdline_enter_autocmd
  <2>1. CASE u \notin Id
    BY <2>1, NewUnsaved
  <2>2. CASE u \in Id
    <3>1. "windows" \in ShowName
      BY DEF ShowName
    <3>2. Pending(u, "windows")
      BY <1>2, <2>2, <3>1, PendingLess
    <3>3. ~ Watch
      <4>1. SUFFICES ASSUME Watch PROVE FALSE
        OBVIOUS
      <4>2. ~ Idle /\ Now.name = "watch" /\ Now.name \in ShowName
        BY <4>1 DEF Watch, At, ShowName
      <4>3. Rank("windows") < Rank(Now.name)
        BY <4>2 DEF Rank
      <4> QED BY <3>2, <4>2, <4>3, Past
    <3> QED BY <2>2, <3>2, <3>3, HalfMore DEF BehindInv, Minded
  <2> QED BY <2>1, <2>2
<1>3. (\A w \in Nat : Reached(w) => w \in Id \ Half /\ ~ Pending(w, "windows"))'
  BY <1>1
<1>4. (\A u \in Id : Pending(u, "windows") => ~ ui[u].cmdline_enter_autocmd)'
  BY <1>2
<1> QED BY <1>3, <1>4 DEF BehindInv

LEMMA HalfKept ==
  ASSUME Inv, HalfInv, HalfBehind, FrontInv, ViewInv, BehindInv, [Next]_vars, CallsInv'
  PROVE  HalfInv'
<1> SUFFICES ASSUME NEW u \in Half'
             PROVE  /\ ~ ui'[u].cmdline_enter_autocmd
                    /\ \A i \in DOMAIN calls' : calls'[i].ui # u
  BY DEF HalfInv
<1>1. u \in Id
  BY NewUnsaved DEF Half
<1>2. CASE u \in Half
  <2>1. ~ ui'[u].cmdline_enter_autocmd
    <3>1. Watch => Me # u
      BY <1>2, MeWhole DEF Watch, At
    <3> QED BY <1>1, <1>2, <3>1, HalfMore DEF HalfInv, Minded
  <2>2. ASSUME NEW i \in DOMAIN calls', calls'[i].ui = u PROVE FALSE
    <3>1. 1 \in DOMAIN calls'[i].steps
      <4>1. calls' \in Seq(CallType) /\ calls'[i].steps # << >>
        BY <2>2 DEF CallsInv, GoodCall
      <4>2. calls'[i] \in CallType
        BY <2>2, <4>1
      <4>3. calls'[i].steps \in Seq(StepType)
        BY <4>2 DEF CallType
      <4> QED BY <4>1, <4>3
    <3>2. PICK s : s = calls'[i].steps[1]
      OBVIOUS
    <3>3. Owes(u, s)'
      BY <2>2, <3>1, <3>2 DEF Owes
    <3>4. Owes(u, s) \/ Harmless(u, s)
      BY <3>3, NextOwes
    <3> QED BY <1>2, <3>4 DEF HalfInv, Owes, Harmless
  <2> QED BY <2>1, <2>2
<1>3. CASE OpenHalf /\ u = Me
  <2>1. ~ Idle /\ Now.name = "windows" /\ Now.name \in ShowName /\ calls' = Tail(calls)
    BY <1>3 DEF OpenHalf, Raise, At, ShowName
  <2>2. /\ Len(calls) = 1 /\ CallsOK /\ DOMAIN calls = {1} /\ Has(calls[1], "windows")
        /\ Me = calls[1].ui
    BY <2>1, ShowAlone
  <2>3. DOMAIN calls' = {}
    BY <2>1, <2>2 DEF CallsOK
  <2>4. ~ ui[u].cmdline_enter_autocmd
    BY <1>1, <1>3, <2>2 DEF BehindInv, Pending
  <2>5. ~ Watch
    BY <2>1 DEF Watch, At
  <2> QED BY <1>1, <2>3, <2>4, <2>5, HalfMore DEF Minded
<1> QED BY <1>1, <1>2, <1>3, HalfMore

---------------------------------------------------------------------------
(* The setting.                                                            *)

\* 'hlsearch' is off as long as a UI is shown or one's show() has ended half way; the
\* first of these has the user's value, the others what they found.
SettingInv ==
  /\ hlsearch \in BOOLEAN
  /\ hlsearch <=> Saved = {} /\ Half = {}
  /\ Half # {} => \E u \in Half : ui[u].saved = {TRUE}
  /\ \A u \in Saved : ui[u].saved = {IF Half = {} THEN TRUE ELSE FALSE}

LEMMA SettingKept ==
  ASSUME Inv, HalfInv, HalfBehind, FrontInv, ViewInv, SettingInv, [Next]_vars
  PROVE  SettingInv'
<1>0. /\ \A u \in Id : u \in Id' /\ Minded(ui'[u], u) /\ (u \in Half' <=> u \in Half \/ (OpenHalf /\ u = Me))
      /\ \A u \in Half' : u \in Id
      /\ \A u \in Saved' : u \in Id
  <2>1. \A u \in Id' : u \notin Id => u \notin Half' /\ u \notin Saved'
    BY NewUnsaved
  <2> QED BY <2>1, HalfMore DEF Half, Saved
<1>1. CASE Unset
  <2>1. ~ Idle /\ Now.name = "hlsearch" /\ Now.name \in CloseName
    BY <1>1 DEF Unset, At, CloseName
  <2>2. Me \in Id /\ Me \notin Half /\ ~ Showing
    BY <2>1, MeExists, MeWhole, NotShowing
  <2>3. \A u \in Saved : u = Me
    BY <2>1, <2>2 DEF Inv, SavedInv, Way, At, Idle
  <2>4. ~ OpenHalf /\ ~ Override
    BY <2>1 DEF OpenHalf, Override, At
  <2>5. ui'[Me].saved = {}
    BY <1>1, <2>2, SetSaved DEF Inv, Unset
  <2>6. Half' = Half
    <3>1. \A u : u \in Half' <=> u \in Half
      BY <1>0, <2>4 DEF Half
    <3> QED BY <3>1
  <2>7. Saved' = {}
    <3>1. SUFFICES ASSUME NEW u \in Saved' PROVE FALSE
      OBVIOUS
    <3>2. u \in Id /\ ui'[u].saved # {} /\ u \notin Half'
      BY <1>0, <3>1 DEF Saved, Half
    <3>3. u \in Saved
      BY <1>0, <2>4, <2>6, <3>2 DEF Minded, Saved, Half
    <3> QED BY <2>3, <2>5, <3>2, <3>3
  <2>8. \A u \in Half : ui'[u].saved = ui[u].saved
    BY <1>0, <2>2, <2>4 DEF Minded, Half
  <2>9. hlsearch' \in BOOLEAN /\ (hlsearch' <=> Half = {})
    <3>1. CASE Me \in Saved
      <4>1. ui[Me].saved = {IF Half = {} THEN TRUE ELSE FALSE}
        BY <3>1 DEF SettingInv
      <4>2. hlsearch' = IF Half = {} THEN TRUE ELSE FALSE
        BY <1>1, <4>1 DEF Unset
      <4> QED BY <4>2
    <3>2. CASE Me \notin Saved
      <4>1. ui[Me].saved = {} /\ Saved = {}
        BY <2>2, <2>3, <3>2 DEF Saved, Half
      <4>2. hlsearch' = hlsearch
        BY <1>1, <4>1 DEF Unset
      <4> QED BY <4>1, <4>2 DEF SettingInv
    <3> QED BY <3>1, <3>2
  <2> QED BY <2>6, <2>7, <2>8, <2>9 DEF SettingInv
<1>2. CASE Override
  <2>1. ~ Idle /\ Now.name = "settings" /\ Now.name \in ShowName
    BY <1>2 DEF Override, At, ShowName
  <2>2. Me \in Id /\ Me \notin Half /\ Saved = {}
    BY <2>1, MeExists, MeWhole, ShowAlone
  <2>3. ~ OpenHalf /\ ~ Unset
    BY <2>1 DEF OpenHalf, Unset, At
  <2>4. ui'[Me].saved = {hlsearch} /\ hlsearch' = FALSE
    <3> DEFINE r == [ui[Me] EXCEPT !.current_window = current, !.on_close = ui[Me].finder.pushes,
                                   !.saved = {hlsearch}]
    <3>1. ui' = [ui EXCEPT ![Me] = r]
      BY <1>2 DEF Override
    <3>2. r.saved = {hlsearch}
      BY <2>2 DEF Inv, TypeInv, GoodUI, Field
    <3> HIDE DEF r
    <3>3. ui'[Me] = r
      BY <2>2, <3>1 DEF Id
    <3> QED BY <1>2, <3>2, <3>3 DEF Override
  <2>5. Half' = Half
    <3>1. \A u : u \in Half' <=> u \in Half
      BY <1>0, <2>3 DEF Half
    <3> QED BY <3>1
  <2>6. Saved' = {Me}
    <3>1. Me \in Saved'
      BY <1>0, <2>2, <2>4, <2>5 DEF Saved, Half
    <3>2. ASSUME NEW u \in Saved', u # Me PROVE FALSE
      <4>1. u \in Id /\ ui'[u].saved # {} /\ u \notin Half'
        BY <1>0, <3>2 DEF Saved, Half
      <4>2. u \in Saved
        BY <1>0, <2>3, <2>5, <3>2, <4>1 DEF Minded, Saved, Half
      <4> QED BY <2>2, <4>2
    <3> QED BY <3>1, <3>2
  <2>7. \A u \in Half : ui'[u].saved = ui[u].saved
    BY <1>0, <2>2, <2>3 DEF Minded, Half
  <2>8. hlsearch \in BOOLEAN /\ (hlsearch <=> Half = {})
    BY <2>2 DEF SettingInv
  <2>9. {hlsearch} = {IF Half = {} THEN TRUE ELSE FALSE}
    BY <2>8
  <2> QED BY <2>4, <2>5, <2>6, <2>7, <2>9 DEF SettingInv
<1>3. CASE OpenHalf
  <2>1. ~ Idle /\ Now.name = "windows" /\ Now.name \in ShowName
    BY <1>3 DEF OpenHalf, At, ShowName
  <2>2. Me \in Id /\ Me \notin Half
    BY <2>1, MeExists, MeWhole
  <2>3. Saved = {Me}
    <3>1. Rank("settings") < Rank(Now.name)
      BY <2>1 DEF Rank
    <3> QED BY <2>1, <3>1, Past, ShowAlone
  <2>4. ~ Override /\ ~ Unset /\ hlsearch' = hlsearch
    BY <1>3, <2>1 DEF Override, Unset, OpenHalf, At
  <2>5. \A u \in Id : ui'[u].saved = ui[u].saved
    BY <1>0, <2>4 DEF Minded
  <2>6. Me \in Half' /\ \A u \in Half : u \in Half'
    BY <1>0, <1>3, <2>2 DEF Half
  <2>7. Saved' = {}
    <3>1. SUFFICES ASSUME NEW u \in Saved' PROVE FALSE
      OBVIOUS
    <3>2. u \in Id /\ ui'[u].saved # {} /\ u \notin Half'
      BY <1>0, <3>1 DEF Saved, Half
    <3>3. u \in Saved
      BY <1>0, <2>5, <3>2 DEF Saved, Half
    <3> QED BY <2>3, <2>6, <3>2, <3>3
  <2>8. \E u \in Half' : ui'[u].saved = {TRUE}
    <3>1. CASE Half = {}
      <4>1. ui[Me].saved = {TRUE}
        BY <2>3, <3>1 DEF SettingInv
      <4> QED BY <2>2, <2>5, <2>6, <4>1
    <3>2. CASE Half # {}
      <4>1. PICK u \in Half : ui[u].saved = {TRUE}
        BY <3>2 DEF SettingInv
      <4>2. u \in Id
        BY DEF Half
      <4> QED BY <2>5, <2>6, <4>1, <4>2
    <3> QED BY <3>1, <3>2
  <2>9. hlsearch' = FALSE
    BY <2>3, <2>4 DEF SettingInv
  <2> QED BY <2>6, <2>7, <2>8, <2>9 DEF SettingInv
<1>4. CASE ~ Unset /\ ~ Override /\ ~ OpenHalf
  <2>1. hlsearch' = hlsearch
    BY <1>4, StepFrame, KeysFrame, RestFrame
  <2>2. \A u \in Id : ui'[u].saved = ui[u].saved /\ (u \in Half' <=> u \in Half)
    BY <1>0, <1>4 DEF Minded
  <2>3. Half' = Half
    <3>1. \A u : u \in Half' <=> u \in Half
      BY <1>0, <2>2 DEF Half
    <3> QED BY <3>1
  <2>4. Saved' = Saved
    <3>1. \A u : u \in Saved' <=> u \in Saved
      BY <1>0, <2>2, <2>3 DEF Saved, Half
    <3> QED BY <3>1
  <2>5. \A u \in Saved \cup Half : u \in Id
    BY DEF Saved, Half
  <2> QED BY <2>1, <2>2, <2>3, <2>4, <2>5 DEF SettingInv
<1> QED BY <1>1, <1>2, <1>3, <1>4

---------------------------------------------------------------------------
(* The directory.                                                          *)

\* The UIs that are to pop the directory.
Pusher == {u \in Id \ Half : /\ ui[u].on_close
                             /\ u \in Saved \/ u \in leave \/ Pending(u, "on_close")}

\* A finder has pushed, and its UI has yet to be told to pop.
PushedFirst == \E u \in Id : ui[u].finder.pushes /\ Pending(u, "settings")

Pushed == stack = Append(last.stack, last.cwd)

DirInv ==
  /\ \A u, v \in Pusher : u = v
  /\ \A u \in Pusher : u \in Saved \/ Pending(u, "on_close") \/ last.failed
  /\ IF Pusher # {} \/ PushedFirst THEN Pushed
     ELSE (stack = last.stack /\ cwd = last.cwd) \/ (Pushed /\ last.failed)
  /\ Showing => ~ last.failed
  /\ \E S : last \in [cwd : S, stack : Seq(S), failed : BOOLEAN]
  /\ ~ raised => ~ last.failed /\ Half = {} /\ last.cwd = Home

\* What a call has yet to do stays to be done, but for its present step and an error.
LEMMA StillPending ==
  ASSUME Inv, Step, ~ Raise, NEW u, NEW n, Pending(u, n), ~ (u = Me /\ n = Now.name)
  PROVE  Pending(u, n)'
<1>1. ~ Idle /\ CallsOK /\ calls # << >> /\ TypeInv
  BY StepUnderWay
<1>2. CASE Continue
  <2>1. Advance({})
    BY <1>1, <1>2, StepTaken
  <2> QED BY <2>1 DEF Advance
<1>3. ASSUME NEW v \in leave, WinLeave(v) PROVE Pending(u, n)'
  <2>1. v \in Nat
    BY <1>1, Indices DEF TypeInv
  <2>2. PICK c : c = Call(v, _close, TRUE)
    OBVIOUS
  <2>3. c \in CallType /\ GoodCall(c) /\ calls' = <<c>> \o calls
    BY <1>3, <2>1, <2>2, CloseCall DEF WinLeave
  <2>4. PICK k \in DOMAIN calls : calls[k].ui = u /\ Has(calls[k], n)
    BY DEF Pending
  <2>5. k + 1 \in DOMAIN calls' /\ calls[k] = calls'[k + 1]
    BY <1>1, <2>3, <2>4, Called
  <2>6. PICK i : i = k + 1
    OBVIOUS
  <2>7. i \in DOMAIN calls' /\ calls'[i].ui = u /\ Has(calls'[i], n)
    BY <2>4, <2>5, <2>6
  <2> QED BY <2>7 DEF Pending, Has
<1>4. CASE ClosePrompt /\ ~ Continue
  <2>1. PICK y : y = Do("shut")
    OBVIOUS
  <2>2. y \in StepType /\ y.name = "shut"
    BY <2>1, DoType DEF Name, CloseName
  <2>3. calls' = Then(<<y>>) /\ Now.name = "prompt"
    BY <1>4, <2>1 DEF ClosePrompt, Continue, At
  <2>4. Advance({y.name})
    BY <1>1, <2>2, <2>3, StepReplaced
  <2> QED BY <2>4 DEF Advance
<1>5. CASE SetWindow /\ ~ Continue
  <2>1. PICK w : w = ui[Me].current_window
    OBVIOUS
  <2>2. Now.name = "window" /\ calls' = Then(<<Enter(w)>>)
    BY <1>5, <2>1 DEF SetWindow, At
  <2>3. Me \in Id
    BY <1>1, <2>2, MeExists
  <2>4. w \in Window
    BY <1>1, <2>1, <2>3 DEF TypeInv, GoodUI
  <2>5. PICK y : y = Enter(w)
    OBVIOUS
  <2>6. y \in StepType /\ y.name = "enter" /\ calls' = Then(<<y>>)
    BY <2>2, <2>4, <2>5, EnterType
  <2>7. Advance({y.name})
    BY <1>1, <2>2, <2>6, StepReplaced
  <2> QED BY <2>7 DEF Advance
<1>6. CASE Focus
  <2>1. Me \in Nat /\ calls' = Then(<<Enter(Prompt(Me))>>) /\ Now.name = "focus"
    BY <1>1, <1>6, Innermost DEF Focus, At
  <2>2. PICK w : w = Prompt(Me)
    OBVIOUS
  <2>3. w \in Window
    BY <2>1, <2>2 DEF Window
  <2>4. PICK y : y = Enter(w)
    OBVIOUS
  <2>5. y \in StepType /\ y.name = "enter" /\ calls' = Then(<<y>>)
    BY <2>1, <2>2, <2>3, <2>4, EnterType
  <2>6. Advance({y.name})
    BY <1>1, <2>1, <2>5, StepReplaced
  <2> QED BY <2>6 DEF Advance
<1>7. \/ Continue \/ (\E v \in leave : WinLeave(v))
      \/ (ClosePrompt /\ ~ Continue) \/ (SetWindow /\ ~ Continue) \/ Focus
  BY DEF Step, Unset, CloseListing, Shut, DeleteAutocmd, EnterWindow, Pop, Build, Override,
         OpenWindows, OpenHalf, Watch, _open, Leaves
<1> QED BY <1>2, <1>3, <1>4, <1>5, <1>6, <1>7

\* While a show() is under way only the UI it shows may have to pop.
LEMMA NonePushed ==
  ASSUME Inv, ~ Idle, Now.name \in ShowName
  PROVE  /\ \A u \in Pusher : u \in Saved
         /\ \A u \in Id : u \in leave => u \in Half \/ u \in Saved
         /\ \A u : ~ Pending(u, "on_close")
<1>1. \A u : ~ Pending(u, "on_close")
  BY ShowAlone DEF CloseName
<1>2. \A u \in Id : u \in leave => u \in Half \/ u \in Saved
  <2>1. \A u \in Id : u \in Half \/ u \in Saved \/ u \in Gone
    BY DEF Half, Saved, Gone
  <2> QED BY <2>1, ShowAlone
<1> QED BY <1>1, <1>2 DEF Pusher

\* No UI comes to have to pop but the one that is shown.
LEMMA PusherLess ==
  ASSUME Inv, HalfInv, HalfBehind, FrontInv, ViewInv, [Next]_vars, NEW u \in Pusher',
         ~ (Override /\ u = Me)
  PROVE  u \in Id /\ u \in Pusher /\ ~ (OpenHalf /\ u = Me)
<1>1. u \in Id' /\ ui'[u].on_close /\ u \notin Half'
      /\ (u \in Saved' \/ u \in leave' \/ Pending(u, "on_close")')
  BY DEF Pusher
<1>2. u \in Id
  BY <1>1, NewUnsaved
<1>3. Minded(ui'[u], u) /\ u \notin Half /\ ~ (OpenHalf /\ u = Me)
  BY <1>1, <1>2, HalfMore
<1>4. ui[u].on_close
  <2>1. CASE Pop /\ u = Me
    <3>1. CASE ui' = ui
      BY <1>1, <3>1
    <3>2. CASE OnClose(Me)
      BY <2>1, <3>2 DEF OnClose
    <3> QED BY <2>1, <3>1, <3>2 DEF Pop
  <2> QED BY <1>1, <1>3, <2>1 DEF Minded
<1>5. u \in Saved' => u \in Saved
  BY <1>2, <1>3 DEF Minded, Saved, Half
<1>6. u \in leave' => u \in leave \/ u \in Saved
  <2>1. CASE leave' \subseteq leave
    BY <2>1
  <2>2. CASE OpenWindows
    <3>1. ~ Idle /\ Now.name = "windows" /\ Now.name \in ShowName
      BY <2>2 DEF OpenWindows, At, ShowName
    <3>2. Rank("settings") < Rank(Now.name)
      BY <3>1 DEF Rank
    <3>3. Saved = {Me}
      BY <3>1, <3>2, Past, ShowAlone
    <3> QED BY <2>2, <3>3 DEF OpenWindows
  <2>3. CASE OpenHalf
    BY <1>3, <2>3 DEF OpenHalf
  <2> QED BY <2>1, <2>2, <2>3, StepFrame, KeysFrame, RestFrame
<1>7. Pending(u, "on_close")' => Pending(u, "on_close") \/ u \in Saved \cup leave
  BY PendingLess
<1> QED BY <1>1, <1>2, <1>3, <1>4, <1>5, <1>6, <1>7 DEF Pusher

LEMMA PushedLess ==
  ASSUME Inv, HalfInv, HalfBehind, FrontInv, ViewInv, [Next]_vars, NEW u \in Id,
         ui'[u].finder.pushes, Pending(u, "settings")'
  PROVE  ui[u].finder.pushes /\ Pending(u, "settings")
<1>1. Pending(u, "settings")
  BY PendingLess DEF ShowName
<1>2. ui'[u].finder.pushes = ui[u].finder.pushes
  BY NextHolds DEF Held, Revised, Alike
<1> QED BY <1>1, <1>2

\* A UI that is to pop does so, unless an error comes first.
LEMMA PusherStays ==
  ASSUME Inv, HalfInv, HalfBehind, FrontInv, ViewInv, DirInv, [Next]_vars, NEW u \in Pusher,
         ~ OpenHalf, ~ (Pop /\ u = Me), ~ \E f \in Finder : Start(f)
  PROVE  u \in Saved' \/ Pending(u, "on_close")' \/ last'.failed
<1>0. u \in Id /\ u \notin Half /\ u \in Id' /\ Minded(ui'[u], u) /\ u \notin Half'
  BY HalfMore DEF Pusher
<1>1. Raise => last'.failed
  BY DEF Raise, DirInv
<1>2. CASE u \in Saved /\ ~ (Unset /\ u = Me)
  <2>1. ui[u].saved # {}
    BY <1>2 DEF Saved
  <2>2. CASE Override /\ u = Me
    <3>1. ~ Idle /\ Now.name = "settings" /\ Now.name \in ShowName
      BY <2>2 DEF Override, At, ShowName
    <3>2. Saved = {}
      BY <3>1, ShowAlone
    <3> QED BY <1>2, <3>2
  <2>3. CASE ui'[u].saved = ui[u].saved
    BY <1>0, <2>1, <2>3 DEF Saved, Half
  <2> QED BY <1>0, <1>2, <2>2, <2>3 DEF Minded
<1>3. CASE Unset /\ u = Me
  <2>1. ~ Idle /\ Now.name = "hlsearch" /\ Continue /\ Step
    BY <1>3 DEF Unset, At, Step
  <2>2. CallsOK /\ calls # << >>
    BY <2>1, StepUnderWay
  <2>3. 1 \in DOMAIN calls /\ GoodCall(calls[1]) /\ Has(calls[1], "hlsearch") /\ Me = calls[1].ui
    BY <2>1, <2>2, Innermost
  <2>4. Pending(u, "on_close")
    BY <1>3, <2>3 DEF GoodCall, Whole, Pending
  <2>5. Advance({})
    BY <2>1, <2>2, StepTaken
  <2> QED BY <2>1, <2>4, <2>5 DEF Advance
<1>4. CASE Pending(u, "on_close")
  <2>1. CASE Step /\ ~ Raise
    <3>1. ~ (u = Me /\ Now.name = "on_close")
      <4>1. SUFFICES ASSUME u = Me, Now.name = "on_close" PROVE FALSE
        OBVIOUS
      <4>2. ~ Pop
        BY <4>1
      <4> QED BY <2>1, <4>1, <4>2 DEF Step, Unset, CloseListing, ClosePrompt, Shut, DeleteAutocmd,
              SetWindow, EnterWindow, Build, Override, OpenWindows, OpenHalf, Focus, Watch, _open, At
    <3> QED BY <1>4, <2>1, <3>1, StillPending
  <2>2. CASE ~ Step
    <3>1. ~ Idle
      BY <1>4, AtRest
    <3>2. calls' = calls
      BY <2>2, <3>1, KeysFrame, RestFrame DEF CommandLine, Start, Goto
    <3> QED BY <1>4, <3>2 DEF Pending, Has
  <2> QED BY <1>1, <2>1, <2>2
<1>5. CASE last.failed
  <2>1. last' = last \/ Raise
    BY StepFrame, KeysFrame, RestFrame
  <2> QED BY <1>1, <1>5, <2>1
<1> QED BY <1>2, <1>3, <1>4, <1>5 DEF DirInv

\* What does not depend on the stack.
LEMMA LastKept ==
  ASSUME ~ Over, Inv, HalfInv, HalfBehind, FrontInv, ViewInv, DirInv, [Next]_vars
  PROVE  /\ Showing' => ~ last'.failed
         /\ \E S : last' \in [cwd : S, stack : Seq(S), failed : BOOLEAN]
         /\ ~ raised' => ~ last'.failed /\ Half' = {}
         /\ Raise => last'.cwd = last.cwd /\ last'.stack = last.stack /\ last'.failed
<1>0. ~ OpenHalf => Half' = Half
  <2>1. ~ OpenHalf => \A u : u \in Half' <=> u \in Half
    BY NewUnsaved, HalfMore DEF Half
  <2> QED BY <2>1
<1>1. CASE \E f \in Finder : Start(f)
  <2>1. PICK f \in Finder : Start(f)
    BY <1>1
  <2>2. /\ last' = [cwd |-> cwd, stack |-> stack, failed |-> FALSE] /\ raised' = raised
        /\ Idle /\ calls' # << >> /\ calls = << >>
    BY <2>1 DEF Start, Idle
  <2>3. stack = last.stack \/ stack = Append(last.stack, last.cwd)
    BY DEF DirInv, Pushed
  <2>4. PICK S : last \in [cwd : S, stack : Seq(S), failed : BOOLEAN]
    BY DEF DirInv
  <2>5. last.stack \in Seq(S \cup {cwd}) /\ last.cwd \in S \cup {cwd}
    BY <2>4
  <2>6. stack \in Seq(S \cup {cwd})
    BY <2>3, <2>5
  <2>7. last' \in [cwd : S \cup {cwd}, stack : Seq(S \cup {cwd}), failed : BOOLEAN]
    BY <2>2, <2>6
  <2>8. ~ Raise
    BY <2>1, <2>2 DEF Raise
  <2>9. ~ OpenHalf
    BY <2>2 DEF OpenHalf, At
  <2> QED BY <1>0, <2>2, <2>7, <2>8, <2>9 DEF DirInv
<1>2. CASE Raise
  <2>1. PICK S : last \in [cwd : S, stack : Seq(S), failed : BOOLEAN]
    BY DEF DirInv
  <2>2. last' = [last EXCEPT !.failed = TRUE] /\ raised' /\ calls' = Tail(calls)
    BY <1>2 DEF Raise
  <2>3. last' \in [cwd : S, stack : Seq(S), failed : BOOLEAN]
        /\ last'.cwd = last.cwd /\ last'.stack = last.stack /\ last'.failed
    BY <2>1, <2>2
  <2>4. ~ Showing'
    <3>1. SUFFICES ASSUME Showing' PROVE FALSE
      OBVIOUS
    <3>2. ~ \E f \in Finder : Start(f)
      <4>1. ASSUME NEW f \in Finder, Start(f) PROVE last'.failed = FALSE
        BY <4>1 DEF Start
      <4>2. last'.failed = TRUE
        BY <2>1, <2>2
      <4> QED BY <4>1, <4>2
    <3>3. Showing
      BY <3>1, <3>2, Showings
    <3>4. Len(calls) = 1 /\ calls \in Seq(CallType)
      BY <3>3 DEF Inv, ShowInv, CallsInv
    <3>5. DOMAIN calls' = {}
      BY <2>2, <3>4
    <3> QED BY <3>1, <3>5 DEF Showing
  <2> QED BY <2>2, <2>3, <2>4
<1>3. CASE ~ Raise /\ ~ \E f \in Finder : Start(f)
  <2>1. last' = last /\ raised' = raised
    BY <1>3, StepFrame, KeysFrame, RestFrame
  <2>2. Showing' => Showing
    BY <1>3, Showings
  <2>3. ~ OpenHalf
    BY <1>3 DEF OpenHalf
  <2> QED BY <1>0, <1>3, <2>1, <2>2, <2>3 DEF DirInv
<1> QED BY <1>1, <1>2, <1>3

\* Where a finder is started, built, overrides the setting or fails to open its windows,
\* and where the directory is popped.
LEMMA StartsHere ==
  ASSUME ~ Over, Inv, HalfInv, HalfBehind, FrontInv, ViewInv, DirInv, [Next]_vars,
         NEW f \in Finder, Start(f)
  PROVE  Pusher' = {} /\ ~ PushedFirst' /\ stack' = last'.stack /\ cwd' = last'.cwd
         /\ (~ raised' => last'.cwd = Home)
<1>1. /\ Idle /\ stack' = stack /\ cwd' = cwd /\ raised' = raised
      /\ last' = [cwd |-> cwd, stack |-> stack, failed |-> FALSE]
      /\ Live = {}
  BY DEF Start
<1>2. Saved = {} /\ (\A u, n : ~ Pending(u, n)) /\ \A u \in Gone : u \notin leave
  BY <1>1, AtRest
<1>3. Pusher = {}
  BY <1>2 DEF Pusher, Saved, Gone, Half
<1>4. ~ PushedFirst
  BY <1>2 DEF PushedFirst
<1>5. Pusher' = {}
  BY <1>1, <1>3, PusherLess DEF Override, At
<1>6. ~ PushedFirst'
  <2>1. Id' = Id
    BY DEF Start, Id
  <2> QED BY <1>2, <2>1, PushedLess DEF PushedFirst
<1>7. ~ raised => cwd = Home
  BY <1>3, <1>4 DEF DirInv
<1> QED BY <1>1, <1>5, <1>6, <1>7

LEMMA BuildsHere ==
  ASSUME ~ Over, Inv, HalfInv, HalfBehind, FrontInv, ViewInv, DirInv, [Next]_vars, Build
  PROVE  /\ Pusher' = {}
         /\ IF PushedFirst' THEN Pushed'
            ELSE (stack' = last'.stack /\ cwd' = last'.cwd) \/ (Pushed' /\ last'.failed)
<1>1. ~ Idle /\ Now.name = "build" /\ Now.name \in ShowName /\ Step
  BY DEF Build, At, ShowName, Step
<1>2. /\ DOMAIN calls = {1} /\ CallsOK /\ TypeInv /\ Me = calls[1].ui /\ Owned(calls[1])
      /\ Has(calls[1], "build") /\ Has(calls[1], "settings") /\ Saved = {} /\ Showing
      /\ 1 \in DOMAIN calls
  <2>1. /\ DOMAIN calls = {1} /\ CallsOK /\ TypeInv /\ Me = calls[1].ui /\ Owned(calls[1])
        /\ GoodCall(calls[1]) /\ Has(calls[1], "build") /\ Showing
        /\ (Has(calls[1], "settings") => Saved = {})
    BY <1>1, ShowAlone
  <2>2. Has(calls[1], "settings")
    BY <2>1 DEF GoodCall, Whole
  <2> QED BY <2>1, <2>2
<1>3. Me = Len(ui) + 1 /\ Me \notin Id /\ \A u \in Id : ~ Pending(u, "settings")
  <2>1. Me = Len(ui) + 1
    BY <1>2 DEF Owned, Name, ShowName
  <2>2. Me \notin Id
    BY <1>2, <2>1, Indices
  <2> QED BY <1>2, <2>1, <2>2 DEF Pending
<1>4. Pusher = {} /\ ~ PushedFirst
  BY <1>1, <1>2, <1>3, NonePushed DEF PushedFirst
<1>5. stack = last.stack /\ cwd = last.cwd
  BY <1>2, <1>4 DEF DirInv
<1>6. Pusher' = {}
  BY <1>1, <1>4, PusherLess DEF Override, At
<1>7. PICK f : f = Now.to
  OBVIOUS
<1>8. /\ IF f.pushes THEN pushd(f) ELSE UNCHANGED <<cwd, stack>>
      /\ (ui' = Append(ui, New(f)) /\ Continue /\ last' = last) \/ (Raise /\ ui' = ui)
  BY <1>7 DEF Build
<1>9. CASE Raise /\ ui' = ui
  <2>1. last'.cwd = last.cwd /\ last'.stack = last.stack /\ last'.failed
    BY <1>9, LastKept
  <2>2. ~ PushedFirst'
    <3>1. Id' = Id
      BY <1>9 DEF Id
    <3> QED BY <1>3, <3>1, PushedLess DEF PushedFirst
  <2> QED BY <1>5, <1>6, <1>8, <2>1, <2>2 DEF pushd, Pushed
<1>10. CASE ui' = Append(ui, New(f)) /\ Continue /\ last' = last
  <2>1. Me \in Id' /\ ui'[Me].finder = f /\ \A u \in Id' : u \in Id \/ u = Me
    <3>1. PICK S : ui \in Seq(S)
      BY <1>2 DEF TypeInv
    <3>2. PICK r : r = New(f)
      OBVIOUS
    <3>3. ui \in Seq(S \cup {r}) /\ r \in S \cup {r} /\ ui' = Append(ui, r)
      BY <1>10, <3>1, <3>2
    <3>4. Id = 1 .. Len(ui) /\ Id' = 1 .. Len(ui) + 1 /\ Len(ui) \in Nat /\ ui'[Len(ui) + 1] = r
      BY <3>3 DEF Id
    <3>5. r.finder = f
      BY <3>2 DEF New
    <3> QED BY <1>3, <3>4, <3>5
  <2>2. PushedFirst' <=> f.pushes
    <3>1. ASSUME f.pushes PROVE PushedFirst'
      <4>1. PICK v : v = Me
        OBVIOUS
      <4>2. Pending(v, "settings")
        BY <1>2, <4>1 DEF Pending
      <4>3. Advance({})
        BY <1>1, <1>2, <1>10, StepTaken
      <4>4. Pending(v, "settings")'
        BY <1>1, <4>1, <4>2, <4>3 DEF Advance
      <4>5. v \in Id' /\ ui'[v].finder = f
        BY <1>3, <2>1, <4>1
      <4> QED BY <3>1, <4>4, <4>5 DEF PushedFirst
    <3>2. ASSUME PushedFirst' PROVE f.pushes
      BY <1>3, <2>1, <3>2, PushedLess DEF PushedFirst
    <3> QED BY <3>1, <3>2
  <2>3. CASE f.pushes
    BY <1>5, <1>6, <1>8, <1>10, <2>2, <2>3 DEF pushd, Pushed
  <2>4. CASE ~ f.pushes
    BY <1>5, <1>6, <1>8, <1>10, <2>2, <2>4
  <2> QED BY <2>3, <2>4
<1> QED BY <1>8, <1>9, <1>10

LEMMA OverridesHere ==
  ASSUME ~ Over, Inv, HalfInv, HalfBehind, FrontInv, ViewInv, DirInv, [Next]_vars, Override
  PROVE  /\ \A u \in Pusher' : u = Me /\ u \in Saved'
         /\ IF Pusher' # {} \/ PushedFirst' THEN Pushed'
            ELSE (stack' = last'.stack /\ cwd' = last'.cwd) \/ (Pushed' /\ last'.failed)
<1>1. ~ Idle /\ Now.name = "settings" /\ Now.name \in ShowName
  BY DEF Override, At, ShowName
<1>2. /\ DOMAIN calls = {1} /\ Me = calls[1].ui /\ Has(calls[1], "settings") /\ Saved = {}
      /\ Me \in Id /\ Me \notin Half /\ TypeInv /\ Showing
  BY <1>1, ShowAlone, MeExists, MeWhole
<1>3. stack' = stack /\ cwd' = cwd /\ last' = last
  BY DEF Override
<1>4. ui'[Me].on_close = ui[Me].finder.pushes /\ ui'[Me].saved # {}
      /\ ui'[Me].finder.pushes = ui[Me].finder.pushes /\ ui'[Me].half = ui[Me].half /\ Id' = Id
  <2> DEFINE r == [ui[Me] EXCEPT !.current_window = current, !.on_close = ui[Me].finder.pushes,
                                 !.saved = {hlsearch}]
  <2>1. ui' = [ui EXCEPT ![Me] = r]
    BY DEF Override
  <2>2. r.saved # {} /\ r.on_close = ui[Me].finder.pushes /\ r.finder = ui[Me].finder
        /\ r.half = ui[Me].half
    BY <1>2 DEF TypeInv, GoodUI, Field
  <2> HIDE DEF r
  <2>3. ui'[Me] = r /\ Id' = Id
    BY <1>2, <2>1 DEF Id
  <2> QED BY <2>2, <2>3
<1>5. PushedFirst <=> ui[Me].finder.pushes
  BY <1>2 DEF PushedFirst, Pending
<1>6. ASSUME NEW u \in Pusher' PROVE u = Me
  <2>1. SUFFICES ASSUME u # Me PROVE FALSE
    OBVIOUS
  <2>2. u \in Pusher
    BY <1>6, <2>1, PusherLess
  <2> QED BY <1>1, <1>2, <2>2, NonePushed
<1>7. Me \in Saved'
  BY <1>2, <1>4 DEF Saved, Half
<1>8. Pusher' # {} <=> ui[Me].finder.pushes
  <2>1. ASSUME ui[Me].finder.pushes PROVE Me \in Pusher'
    BY <1>2, <1>4, <1>7, <2>1 DEF Pusher, Half
  <2>2. ASSUME NEW u \in Pusher' PROVE ui[Me].finder.pushes
    BY <1>4, <1>6, <2>2 DEF Pusher
  <2> QED BY <2>1, <2>2
<1>9. PushedFirst' => ui[Me].finder.pushes
  BY <1>4, <1>5, PushedLess DEF PushedFirst
<1>10. Pusher = {}
  BY <1>1, <1>2, NonePushed
<1>11. IF ui[Me].finder.pushes THEN Pushed
       ELSE (stack = last.stack /\ cwd = last.cwd) \/ (Pushed /\ last.failed)
  BY <1>5, <1>10 DEF DirInv
<1> QED BY <1>3, <1>6, <1>7, <1>8, <1>9, <1>11 DEF Pushed

LEMMA PopsHere ==
  ASSUME ~ Over, Inv, HalfInv, HalfBehind, FrontInv, ViewInv, DirInv, [Next]_vars,
         Pop, ui[Me].on_close
  PROVE  Pusher' = {} /\ ~ PushedFirst' /\ stack' = last'.stack /\ cwd' = last'.cwd
<1>1. ~ Idle /\ Now.name = "on_close" /\ Now.name \in CloseName /\ Step
  BY DEF Pop, At, CloseName, Step
<1>2. Saved = {} /\ ~ Showing /\ Me \in Id /\ Me \notin Half /\ TypeInv
  BY <1>1, Unsaved, NotShowing, MeExists, MeWhole, StepUnderWay
<1>3. Me \in Pusher
  <2>1. 1 \in DOMAIN calls /\ Me = calls[1].ui /\ Has(calls[1], "on_close")
    BY <1>1, StepUnderWay, Innermost
  <2> QED BY <1>2, <2>1 DEF Pusher, Pending
<1>4. Pushed /\ \A u \in Pusher : u = Me
  BY <1>3 DEF DirInv
<1>5. OnClose(Me) /\ last' = last
  BY DEF Pop
<1>6. stack' = last.stack /\ cwd' = last.cwd
  <2>1. PICK S : last.stack \in Seq(S) /\ last.cwd \in S
    BY DEF DirInv
  <2>2. PICK s \in Seq(S), x \in S : s = last.stack /\ x = last.cwd
    BY <2>1
  <2>3. stack = Append(s, x)
    BY <1>4, <2>2 DEF Pushed
  <2>4. stack \in Seq(S) /\ Len(stack) = Len(s) + 1 /\ Len(s) \in Nat /\ stack # << >>
        /\ stack[Len(s) + 1] = x /\ \A i \in 1 .. Len(s) : stack[i] = s[i]
    BY <2>3
  <2>5. cwd' = Last(stack) /\ stack' = Front(stack)
    BY <1>5, <2>4 DEF OnClose, popd
  <2>6. Last(stack) = x
    BY <2>4 DEF Last
  <2>7. Front(stack) = s
    <3>1. Front(stack) = SubSeq(stack, 1, Len(s))
      BY <2>4 DEF Front
    <3>2. SubSeq(stack, 1, Len(s)) = s
      BY <2>2, <2>4
    <3> QED BY <3>1, <3>2
  <2> QED BY <2>2, <2>5, <2>6, <2>7
<1>7. Pusher' = {}
  <2>1. SUFFICES ASSUME NEW u \in Pusher' PROVE FALSE
    OBVIOUS
  <2>2. u \in Pusher
    BY <1>1, PusherLess DEF Override, At
  <2>3. u = Me /\ ui'[u].on_close
    BY <1>4, <2>2 DEF Pusher
  <2>4. ui'[Me].on_close = FALSE
    BY <1>2, <1>5, SetOnClose DEF OnClose
  <2> QED BY <2>3, <2>4
<1>8. ~ PushedFirst'
  <2>1. ~ \E f \in Finder : Start(f)
    BY <1>1 DEF Start
  <2>2. ~ Showing'
    BY <1>2, <2>1, Showings
  <2> QED BY <2>2 DEF PushedFirst, Pending, Showing, ShowName
<1> QED BY <1>5, <1>6, <1>7, <1>8

LEMMA HalfHere ==
  ASSUME ~ Over, Inv, HalfInv, HalfBehind, FrontInv, ViewInv, DirInv, [Next]_vars, OpenHalf
  PROVE  /\ Pusher' = {} /\ ~ PushedFirst'
         /\ (stack' = last'.stack /\ cwd' = last'.cwd) \/ (Pushed' /\ last'.failed)
<1>1. ~ Idle /\ Now.name = "windows" /\ Now.name \in ShowName /\ Raise
      /\ stack' = stack /\ cwd' = cwd
  BY DEF OpenHalf, At, ShowName
<1>2. Saved = {Me}
  <2>1. Rank("settings") < Rank(Now.name)
    BY <1>1 DEF Rank
  <2> QED BY <1>1, <2>1, Past, ShowAlone
<1>3. Pusher' = {}
  <2>1. SUFFICES ASSUME NEW u \in Pusher' PROVE FALSE
    OBVIOUS
  <2>2. u \in Pusher /\ u # Me
    BY <1>1, PusherLess DEF Override, At
  <2> QED BY <1>1, <1>2, <2>2, NonePushed
<1>4. ~ PushedFirst'
  <2>1. SUFFICES ASSUME NEW u \in Id', Pending(u, "settings")' PROVE FALSE
    BY DEF PushedFirst
  <2>2. u \in Id
    BY <1>1, NewUI DEF Build, At
  <2>3. Pending(u, "settings")
    BY <2>1, <2>2, PendingLess DEF ShowName
  <2>4. Rank("settings") < Rank(Now.name)
    BY <1>1 DEF Rank
  <2> QED BY <1>1, <2>3, <2>4, Past
<1>5. last'.cwd = last.cwd /\ last'.stack = last.stack /\ last'.failed
  BY <1>1, LastKept
<1>6. (stack = last.stack /\ cwd = last.cwd) \/ Pushed
  BY DEF DirInv
<1> QED BY <1>1, <1>3, <1>4, <1>5, <1>6 DEF Pushed

LEMMA DirKept ==
  ASSUME ~ Over, Inv, HalfInv, HalfBehind, FrontInv, ViewInv, DirInv, [Next]_vars
  PROVE  DirInv'
<1>0. /\ Showing' => ~ last'.failed
      /\ \E S : last' \in [cwd : S, stack : Seq(S), failed : BOOLEAN]
      /\ ~ raised' => ~ last'.failed /\ Half' = {}
  BY LastKept
<1>1. CASE \E f \in Finder : Start(f)
  <2>1. Pusher' = {} /\ ~ PushedFirst' /\ stack' = last'.stack /\ cwd' = last'.cwd
        /\ (~ raised' => last'.cwd = Home)
    BY <1>1, StartsHere
  <2> QED BY <1>0, <2>1 DEF DirInv
<1>2. CASE ~ \E f \in Finder : Start(f)
  <2>0. ~ raised' => last'.cwd = Home
    <3>1. (last' = last /\ raised' = raised) \/ Raise
      BY <1>2, StepFrame, KeysFrame, RestFrame
    <3> QED BY <3>1 DEF DirInv, Raise
  <2>1. CASE Build
    BY <1>0, <2>0, <2>1, BuildsHere DEF DirInv
  <2>2. CASE Override
    BY <1>0, <2>0, <2>2, OverridesHere DEF DirInv
  <2>3. CASE Pop /\ ui[Me].on_close
    <3>1. Pusher' = {} /\ ~ PushedFirst' /\ stack' = last'.stack /\ cwd' = last'.cwd
      BY <2>3, PopsHere
    <3> QED BY <1>0, <2>0, <3>1 DEF DirInv
  <2>4. CASE OpenHalf
    BY <1>0, <2>0, <2>4, HalfHere DEF DirInv
  <2>5. CASE ~ Build /\ ~ Override /\ ~ OpenHalf /\ ~ (Pop /\ ui[Me].on_close)
    <3>1. cwd' = cwd /\ stack' = stack
      <4>1. Pop /\ ~ ui[Me].on_close => cwd' = cwd /\ stack' = stack
        BY DEF Pop, OnClose
      <4> QED BY <2>5, <4>1, StepFrame, KeysFrame, RestFrame
    <3>2. last'.cwd = last.cwd /\ last'.stack = last.stack /\ (last.failed => last'.failed)
      <4>1. last' = last \/ Raise
        BY <1>2, StepFrame, KeysFrame, RestFrame
      <4> QED BY <4>1, LastKept
    <3>3. Pushed' <=> Pushed
      BY <3>1, <3>2 DEF Pushed
    <3>4. \A u \in Pusher' : u \in Pusher
      BY <2>5, PusherLess
    <3>5. \A u \in Pusher : u \in Saved' \/ Pending(u, "on_close")' \/ last'.failed
      <4>1. \A u \in Pusher : ~ (Pop /\ u = Me)
        BY <2>5 DEF Pusher
      <4> QED BY <1>2, <2>5, <4>1, PusherStays
    <3>6. Pusher # {} /\ Pusher' = {} => last'.failed
      <4>1. SUFFICES ASSUME NEW u \in Pusher, ~ last'.failed PROVE u \in Pusher'
        OBVIOUS
      <4>2. u \in Id /\ u \notin Half /\ ui[u].on_close
        BY DEF Pusher
      <4>3. u \in Id' /\ u \notin Half' /\ Minded(ui'[u], u)
        BY <2>5, <4>2, HalfMore
      <4>4. ui'[u].on_close
        <5>1. CASE Pop /\ u = Me
          BY <2>5, <4>2, <5>1
        <5> QED BY <2>5, <4>2, <4>3, <5>1 DEF Minded
      <4> QED BY <3>5, <4>1, <4>3, <4>4 DEF Pusher
    <3>7. PushedFirst' => PushedFirst
      <4>1. Id' = Id
        BY <2>5, NewUI, HalfMore
      <4> QED BY <4>1, PushedLess DEF PushedFirst
    <3>8. PushedFirst => PushedFirst'
      <4>1. SUFFICES ASSUME NEW u \in Id, ui[u].finder.pushes, Pending(u, "settings") PROVE PushedFirst'
        BY DEF PushedFirst
      <4>2. PICK i \in DOMAIN calls : calls[i].ui = u /\ Has(calls[i], "settings")
        BY <4>1 DEF Pending
      <4>3. ~ Idle /\ Showing
        BY <4>2, AtRest DEF Showing, ShowName
      <4>4. ~ Step
        <5>1. SUFFICES ASSUME Step PROVE FALSE
          OBVIOUS
        <5>2. CallsOK /\ calls # << >> /\ Len(calls) = 1
          BY <4>3, <5>1, StepUnderWay DEF Inv, ShowInv
        <5>3. i = 1
          BY <4>2, <5>2 DEF CallsOK
        <5>4. Now.name \notin CloseName
          BY <4>3, NotShowing
        <5>5. Now.name = "settings" \/ Rank(Now.name) < Rank("settings")
          BY <4>2, <5>2, <5>3, Innermost
        <5>6. Now.name \in Name
          BY <5>2, Innermost
        <5>7. Now.name \in {"build", "settings"}
          BY <5>4, <5>5, <5>6 DEF Name, ShowName, Rank
        <5> QED BY <2>5, <5>1, <5>7 DEF Step, Unset, CloseListing, ClosePrompt, Shut, DeleteAutocmd,
                SetWindow, EnterWindow, Pop, OpenWindows, Focus, Watch, _open, At
      <4>5. calls' = calls /\ ui' = ui
        BY <4>3, <4>4, KeysFrame, RestFrame DEF CommandLine, Start, Goto
      <4> QED BY <4>1, <4>5 DEF PushedFirst, Pending, Has, Id
    <3>9. \A u \in Pusher' : u \in Saved' \/ Pending(u, "on_close")' \/ last'.failed
      BY <3>4, <3>5
    <3>10. \A u, v \in Pusher' : u = v
      BY <3>4 DEF DirInv
    <3>11. IF Pusher' # {} \/ PushedFirst' THEN Pushed'
           ELSE (stack' = last'.stack /\ cwd' = last'.cwd) \/ (Pushed' /\ last'.failed)
      <4>1. IF Pusher # {} \/ PushedFirst THEN Pushed
            ELSE (stack = last.stack /\ cwd = last.cwd) \/ (Pushed /\ last.failed)
        BY DEF DirInv
      <4>2. Pusher' # {} => Pusher # {}
        BY <3>4
      <4> QED BY <3>1, <3>2, <3>3, <3>6, <3>7, <3>8, <4>1, <4>2
    <3> QED BY <1>0, <2>0, <3>9, <3>10, <3>11 DEF DirInv
  <2> QED BY <2>1, <2>2, <2>3, <2>4, <2>5
<1> QED BY <1>1, <1>2

---------------------------------------------------------------------------
(* The theorems.                                                           *)

FurtherInv ==
  /\ HalfInv /\ BehindInv /\ FrontInv /\ ViewInv
  /\ SettingInv /\ DirInv /\ PlaceInv /\ PendingInv

LEMMA InitiallyFurther ==
  ASSUME Init
  PROVE  FurtherInv
<1>1. /\ Id = {} /\ DOMAIN calls = {} /\ DOMAIN pending = {}
      /\ Half = {} /\ Saved = {} /\ Pusher = {} /\ ~ PushedFirst /\ ~ Showing
  BY DEF Init, Id, Half, Saved, Pusher, PushedFirst, Showing
<1>2. FrontInv
  <2>1. NoWindow \notin UserWindow /\ <<"user", 1>> \in UserWindow
        /\ \A w \in UserWindow : NotListing(w)
    BY WindowsDiffer DEF UserWindow, NotListing
  <2> QED BY <1>1, <2>1 DEF Init, FrontInv, Owes
<1>3. pending \in Seq([ui : Nat, item : Item])
  BY DEF Init
<1>4. HalfInv /\ BehindInv
  <2>1. \A w \in Nat : ~ Reached(w)
    <3>1. \A w \in Nat : current # Prompt(w)
      BY WindowsDiffer DEF Init
    <3> QED BY <1>1, <3>1 DEF Reached, Owes
  <2> QED BY <1>1, <2>1 DEF HalfInv, BehindInv
<1>5. SettingInv
  BY <1>1 DEF SettingInv, Init
<1>6. DirInv
  <2>1. stack = <<"elsewhere">> /\ cwd = Home /\ last = [cwd |-> cwd, stack |-> stack, failed |-> FALSE]
    BY DEF Init
  <2>2. last \in [cwd : {Home, "elsewhere"}, stack : Seq({Home, "elsewhere"}), failed : BOOLEAN]
    BY <2>1
  <2> QED BY <1>1, <2>1, <2>2 DEF DirInv
<1> QED BY <1>1, <1>2, <1>3, <1>4, <1>5, <1>6 DEF FurtherInv, ViewInv, PlaceInv, PendingInv

LEMMA InductiveFurther ==
  ASSUME ~ Over, Inv, FurtherInv, [Next]_vars
  PROVE  Inv' /\ FurtherInv'
<1>1. HalfInv /\ HalfBehind /\ BehindInv /\ FrontInv /\ ViewInv /\ SettingInv /\ DirInv
      /\ PlaceInv /\ PendingInv
  BY Behind DEF FurtherInv
<1>2. Inv'
  BY <1>1, Inductive
<1>3. BehindInv' /\ HalfInv'
  BY <1>1, <1>2, BehindKept, HalfKept DEF Inv
<1>4. FrontInv' /\ ViewInv' /\ PlaceInv' /\ PendingInv'
  BY <1>1, FrontKept, ViewKept, PlaceKept, PendingKept
<1>5. SettingInv' /\ DirInv'
  BY <1>1, SettingKept, DirKept
<1> QED BY <1>2, <1>3, <1>4, <1>5 DEF FurtherInv

\* What the invariants say between two keys.
LEMMA AllOrNothingFollows ==
  ASSUME Inv, FurtherInv
  PROVE  AllOrNothing
<1> SUFFICES ASSUME Idle, NEW u \in Id
             PROVE  IF ui[u].half
                    THEN current # Prompt(u) /\ ~ ui[u].cmdline_enter_autocmd
                    ELSE \/ /\ {Listing(u), Prompt(u)} \subseteq windows /\ current = Prompt(u)
                            /\ ui[u].match_listing /\ ui[u].prompt /\ ui[u].cmdline_enter_autocmd
                         \/ /\ {Listing(u), Prompt(u)} \cap windows = {}
                            /\ ~ ui[u].match_listing /\ ~ ui[u].prompt
                            /\ ~ ui[u].cmdline_enter_autocmd
  BY DEF AllOrNothing
<1>1. CASE ui[u].half
  <2>1. u \in Half /\ HalfInv /\ HalfBehind
    BY <1>1, Behind DEF Half, FurtherInv
  <2> QED BY <1>1, <2>1 DEF HalfInv, HalfBehind
<1>2. CASE u \in Saved
  BY <1>2, AtRest DEF Saved
<1>3. CASE u \in Gone
  BY <1>3, AtRest DEF Gone
<1> QED BY <1>1, <1>2, <1>3 DEF Saved, Gone

LEMMA SettingsFollow ==
  ASSUME Inv, FurtherInv
  PROVE  SettingsRestored
<1> SUFFICES ASSUME Idle
             PROVE  /\ hlsearch = (Live \cup Half = {})
                    /\ ~ hlsearch => \E u \in Live \cup Half : ui[u].saved = {TRUE}
  BY DEF SettingsRestored
<1>1. SettingInv /\ Live = Saved
  BY AtRest DEF FurtherInv
<1>2. Live \cup Half = {} <=> Saved = {} /\ Half = {}
  BY <1>1
<1>3. hlsearch = (Live \cup Half = {})
  <2>1. hlsearch \in BOOLEAN /\ (hlsearch <=> Saved = {} /\ Half = {})
    BY <1>1 DEF SettingInv
  <2>2. (Live \cup Half = {}) \in BOOLEAN
    OBVIOUS
  <2> QED BY <1>2, <2>1, <2>2
<1>4. ~ hlsearch => \E u \in Live \cup Half : ui[u].saved = {TRUE}
  <2>1. CASE Half # {}
    BY <1>1, <2>1 DEF SettingInv
  <2>2. CASE Half = {} /\ Saved # {}
    <3>1. PICK u \in Saved : ui[u].saved = {IF Half = {} THEN TRUE ELSE FALSE}
      BY <1>1, <2>2 DEF SettingInv
    <3>2. ui[u].saved = {TRUE}
      BY <2>2, <3>1
    <3> QED BY <1>1, <3>2
  <2>3. CASE Half = {} /\ Saved = {}
    BY <1>1, <2>3 DEF SettingInv
  <2> QED BY <2>1, <2>2, <2>3
<1> QED BY <1>3, <1>4

LEMMA DirectoryFollows ==
  ASSUME Inv, FurtherInv, Idle
  PROVE  /\ IF \E u \in Live : ui[u].finder.pushes
            THEN Pushed /\ \A u \in Live : cwd = ui[u].finder.dir
            ELSE (stack = last.stack /\ cwd = last.cwd) \/ (Pushed /\ last.failed)
<1>1. DirInv /\ PlaceInv
  BY DEF FurtherInv
<1>2. /\ Live = Saved /\ (\A u, n : ~ Pending(u, n))
      /\ \A u \in Saved : ui[u].on_close = ui[u].finder.pushes
      /\ \A u \in Gone : u \notin leave
      /\ \A u, v \in Saved : u = v
  BY AtRest DEF Inv, SavedInv
<1>3. ~ PushedFirst
  BY <1>2 DEF PushedFirst
<1>4. Pusher # {} <=> \E u \in Live : ui[u].finder.pushes
  <2>1. \A u \in Pusher : u \in Saved /\ ui[u].finder.pushes
    BY <1>2 DEF Pusher, Saved, Gone, Half
  <2>2. \A u \in Saved : ui[u].finder.pushes => u \in Pusher
    BY <1>2 DEF Pusher, Saved, Half
  <2> QED BY <1>2, <2>1, <2>2
<1>5. \A u, v \in Live : ui[u].finder.pushes => cwd = ui[v].finder.dir
  <2>1. \A u \in Saved : u \in Id /\ Active(u)
    BY DEF Saved, Active
  <2> QED BY <1>1, <1>2, <2>1 DEF PlaceInv
<1> QED BY <1>1, <1>3, <1>4, <1>5 DEF DirInv

LEMMA TypeFollows ==
  ASSUME Inv, FurtherInv
  PROVE  TypeOK
<1>1. \A u \in Id : /\ ui[u].selected \in 0 .. Len(ui[u].results)
                    /\ (ui[u].results # << >> => ui[u].selected > 0)
  BY DEF FurtherInv, ViewInv, GoodView
<1>2. \A i \in DOMAIN calls : calls[i].steps # << >>
  BY DEF Inv, CallsInv, GoodCall
<1>3. windows \subseteq UserWindow \cup {Listing(u) : u \in Id} \cup {Prompt(u) : u \in Id}
  BY DEF FurtherInv, FrontInv, Inv, TypeInv, Window
<1> QED BY <1>1, <1>2, <1>3 DEF TypeOK, FurtherInv, FrontInv, SettingInv, Inv, TypeInv

LEMMA LitFollows ==
  ASSUME Inv, FurtherInv, Opens
  PROVE  LET me == ui[Head(pending).ui]
         IN  /\ Head(pending).item = me.shown.results[me.shown.selected]
             /\ me.finder = me.shown.by
             /\ Live = {} => current \in UserWindow
             /\ Live = {} /\ ~ raised /\ me.finder.pushes =>
                  cwd = Home /\ me.scanned = me.finder.dir
<1>1. PICK e : e = Head(pending)
  OBVIOUS
<1>2. 1 \in DOMAIN pending /\ e = pending[1]
  <2>1. PICK T : pending \in Seq(T)
    BY DEF FurtherInv, PendingInv
  <2> QED BY <1>1, <2>1 DEF Opens
<1>3. Settled(e)
  BY <1>2 DEF FurtherInv, PendingInv
<1>4. e.ui \in Id
  BY <1>3 DEF Settled
<1>5. ui[e.ui].finder = ui[e.ui].shown.by
  <2>1. GoodView(ui[e.ui])
    BY <1>4 DEF FurtherInv, ViewInv
  <2>2. PICK r : r = ui[e.ui]
    OBVIOUS
  <2>3. r.shown = [results |-> r.results, selected |-> r.selected, by |-> r.finder]
    BY <2>1, <2>2 DEF GoodView
  <2> QED BY <2>2, <2>3
<1>6. Live = {} => current \in UserWindow
  <2>1. SUFFICES ASSUME current \notin UserWindow PROVE Live # {}
    OBVIOUS
  <2>2. current \in windows /\ NotListing(current) /\ current # NoWindow /\ current \in Window
    BY DEF FurtherInv, FrontInv, Inv, TypeInv
  <2>3. PICK u \in Nat : current = Prompt(u)
    BY <2>1, <2>2 DEF Window, NotListing
  <2>4. u \in Id /\ Prompt(u) \in windows
    BY <2>2, <2>3 DEF Inv, TypeInv
  <2>5. u \notin Half
    BY <2>3, Behind DEF HalfBehind, FurtherInv
  <2>6. u \in Saved \/ u \in Gone
    BY <2>4, <2>5 DEF Saved, Gone, Half
  <2> QED BY <2>4, <2>6, AtRest DEF Opens
<1>7. Live = {} /\ ~ raised /\ ui[e.ui].finder.pushes =>
        cwd = Home /\ ui[e.ui].scanned = ui[e.ui].finder.dir
  <2>1. SUFFICES ASSUME Live = {}, ~ raised, ui[e.ui].finder.pushes
                 PROVE  cwd = Home /\ ui[e.ui].scanned = ui[e.ui].finder.dir
    OBVIOUS
  <2>2. ~ last.failed /\ last.cwd = Home
    BY <2>1 DEF FurtherInv, DirInv
  <2>3. cwd = last.cwd
    BY <2>1, <2>2, DirectoryFollows DEF Opens
  <2>4. ui[e.ui].scanned = ui[e.ui].finder.dir
    BY <1>4, <2>1 DEF FurtherInv, PlaceInv
  <2> QED BY <2>2, <2>3, <2>4
<1> QED BY <1>1, <1>3, <1>5, <1>6, <1>7 DEF Settled

\* The selection of every UI stays within what its finder has found, no call on the
\* stack is without a step to take, every window is the user's or that of a UI that
\* exists, and the current one is among them (ui.lua:23-39, 80-94, 139-212).
THEOREM UITypeCorrect ==
  ASSUME ~ Over
  PROVE  Spec => []TypeOK
<1>1. Init => Inv /\ FurtherInv
  BY Initially, InitiallyFurther
<1>2. Inv /\ FurtherInv /\ [Next]_vars => (Inv /\ FurtherInv)'
  BY InductiveFurther
<1>3. Inv /\ FurtherInv => TypeOK
  BY TypeFollows
<1> QED BY <1>1, <1>2, <1>3, PTL DEF Spec

\* When no UI is started over another, whatever the user, the autocommands and errors
\* do, all of a UI is there between two keys, or nothing of it is; and one whose show()
\* ended half way is never in front of the user (ui.lua:49-78, 139-220).
THEOREM UIAllOrNothing ==
  ASSUME ~ Over
  PROVE  Spec => []AllOrNothing
<1>1. Init => Inv /\ FurtherInv
  BY Initially, InitiallyFurther
<1>2. Inv /\ FurtherInv /\ [Next]_vars => (Inv /\ FurtherInv)'
  BY InductiveFurther
<1>3. Inv /\ FurtherInv => AllOrNothing
  BY AllOrNothingFollows
<1> QED BY <1>1, <1>2, <1>3, PTL DEF Spec

\* And 'hlsearch' is the user's own whenever no UI is there and none ended half way;
\* otherwise it is off, and one of these UIs has kept the user's value (ui.lua:50,
\* 128-131, settings.lua).
THEOREM UISettingsRestored ==
  ASSUME ~ Over
  PROVE  Spec => []SettingsRestored
<1>1. Init => Inv /\ FurtherInv
  BY Initially, InitiallyFurther
<1>2. Inv /\ FurtherInv /\ [Next]_vars => (Inv /\ FurtherInv)'
  BY InductiveFurther
<1>3. Inv /\ FurtherInv => SettingsRestored
  BY SettingsFollow
<1> QED BY <1>1, <1>2, <1>3, PTL DEF Spec

\* And a finder's push is there, with the user in its directory, exactly while its UI
\* is; afterwards the stack and the directory are what they were, unless this finder
\* met an error, and then its own push is all that is left (ui.lua:74-77,
\* finder.lua:14, 24, pushd.lua, popd.lua).
THEOREM UIDirectoryRestored ==
  ASSUME ~ Over
  PROVE  Spec => []DirectoryRestored
<1>1. Init => Inv /\ FurtherInv
  BY Initially, InitiallyFurther
<1>2. Inv /\ FurtherInv /\ [Next]_vars => (Inv /\ FurtherInv)'
  BY InductiveFurther
<1>3. Inv /\ FurtherInv => DirectoryRestored
  BY DirectoryFollows DEF DirectoryRestored, Pushed
<1> QED BY <1>1, <1>2, <1>3, PTL DEF Spec

\* Whatever happens between the key and the deferred function, what is opened is what
\* was lit, by the finder that found it, in a window of the user's and, without
\* errors, in the directory that its path is relative to (ui.lua:80-94,
\* finder.lua:14).
THEOREM UIOpensWhatIsLit ==
  ASSUME ~ Over
  PROVE  Spec => OpensWhatIsLit
<1> DEFINE Lit == Opens =>
             LET me == ui[Head(pending).ui]
             IN  /\ Head(pending).item = me.shown.results[me.shown.selected]
                 /\ me.finder = me.shown.by
                 /\ Live = {} => current \in UserWindow
                 /\ Live = {} /\ ~ raised /\ me.finder.pushes =>
                      cwd = Home /\ me.scanned = me.finder.dir
<1>1. Init => Inv /\ FurtherInv
  BY Initially, InitiallyFurther
<1>2. Inv /\ FurtherInv /\ [Next]_vars => (Inv /\ FurtherInv)'
  BY InductiveFurther
<1>3. Inv /\ FurtherInv /\ [Next]_vars => [Lit]_vars
  BY LitFollows
<1>4. OpensWhatIsLit <=> [][Lit]_vars
  BY DEF OpensWhatIsLit
<1> HIDE DEF Lit
<1> QED BY <1>1, <1>2, <1>3, <1>4, PTL DEF Spec

=============================================================================
