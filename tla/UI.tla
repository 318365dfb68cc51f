--------------------------------- MODULE UI ---------------------------------
(***************************************************************************)
(* The user interface: ui.lua over prompt.lua, match_listing.lua,          *)
(* window.lua, settings.lua and the directory stack, as finder.lua uses    *)
(* them.  Each show makes a UI of its own with two floating windows.       *)
(*                                                                         *)
(* Lua runs on the editor's one thread, but not in one piece: leaving a    *)
(* window runs autocommands, and these call UI:_close() again while an     *)
(* outer call of it is half way.  So a call is a sequence of steps, and    *)
(* `calls` is the stack of the calls under way.  An error ends the         *)
(* innermost call where it is.  Windows, buffers, autocommands and keys    *)
(* are the environment.                                                    *)
(***************************************************************************)
EXTENDS Integers, Sequences, SequencesExt

CONSTANTS
  Finder,         \* [dir, pushes, missing, builds, fallback, candidates, found]: the
                  \* directory it is for, whether it goes there (the directory may be
                  \* missing), whether it can be built, whether it has a fallback, its
                  \* number of candidates, and its results for each query
  Item,           \* what can be found
  FallbackFound,  \* the results of the file finder that is a finder's fallback
  Query,
  Empty,          \* the query at the start
  BestLast,       \* whether options.order is 'reverse'
  Fleeting,       \* user's windows that close when they are left
  Over,           \* whether a finder may be started over a UI by a mapping that
                  \* does not go through the command line
  Fails,          \* whether Neovim may fail to make a buffer, a window or a mapping
  Shows           \* bound: UIs shown, and directories on the stack but one

Home == "home"

ASSUME UIAssumption ==
  /\ Empty \in Query
  /\ \A f \in Finder : /\ {"dir", "pushes", "missing", "builds", "fallback", "candidates",
                           "found"} \subseteq DOMAIN f
                       /\ {f.pushes, f.missing, f.builds, f.fallback} \subseteq BOOLEAN
                       /\ f.candidates \in Nat
                       /\ f.found \in [Query -> Seq(Item)]
                       /\ \A q \in Query : Len(f.found[q]) <= f.candidates
  /\ FallbackFound \in [Query -> Seq(Item)]
  /\ {BestLast, Over, Fails} \subseteq BOOLEAN
  /\ Shows \in Nat

UserWindow == {<<"user", 1>>, <<"user", 2>>}
Listing(u) == <<"listing", u>>
Prompt(u) == <<"prompt", u>>
NoWindow == <<"none", 0>>

ASSUME FleetingAssumption == Fleeting \subseteq UserWindow /\ <<"user", 1>> \notin Fleeting

VARIABLES
  ui,        \* ui[u]: the u-th UI
  calls,     \* the calls under way, the innermost first: what each has left to do,
             \* for which UI, and whether autocommands may run in it
  windows, current,
  closing,   \* UIs whose prompt window is on its way out
  leave,     \* UIs whose WinLeave autocommand has not run
  hlsearch,  \* the option
  cwd,       \* the working directory
  stack,     \* directory_stack, the top last
  pending,   \* what is to be opened when the editor comes to it
  raised,    \* whether an error has ended a call before its end (history)
  last       \* where the last finder was started, and whether there has been an
             \* error since (history)

editor == <<windows, current, closing, leave>>
vars == <<ui, calls, editor, hlsearch, cwd, stack, pending, raised, last>>

Id == DOMAIN ui

\* A UI when its finder has been built.  `buffer` holds the directory in which the
\* listing's buffer, while there is one, got its name; `half` says that an error ended
\* show() (history); `changed` says that on_change is due for the text of the prompt,
\* `shown` is what the match listing shows, by which finder.
New(finder) ==
  [finder |-> finder, scanned |-> cwd', fallback |-> finder.fallback,
   current_window |-> NoWindow, saved |-> {}, on_close |-> FALSE,
   match_listing |-> FALSE, prompt |-> FALSE, cmdline_enter_autocmd |-> FALSE,
   buffer |-> {}, half |-> FALSE,
   text |-> Empty, changed |-> TRUE, results |-> << >>, selected |-> 0,
   shown |-> [results |-> << >>, selected |-> 0, by |-> finder]]

\* 'hlsearch' is set, and pushd(), which is public, has been used before.
Init ==
  /\ ui = << >> /\ calls = << >>
  /\ windows = UserWindow /\ current \in UserWindow /\ closing = {} /\ leave = {}
  /\ hlsearch = TRUE
  /\ cwd = Home /\ stack = <<"elsewhere">>
  /\ pending = << >> /\ raised = FALSE
  /\ last = [cwd |-> cwd, stack |-> stack, failed |-> FALSE]

---------------------------------------------------------------------------
(* Calls.                                                                  *)

Do(name) == [name |-> name, to |-> NoWindow]
Enter(w) == [name |-> "enter", to |-> w]

All(names) == [i \in 1 .. Len(names) |-> Do(names[i])]

\* Mutant: the setting is restored at the end.
CloseSettingLast == All(<<"listing", "prompt", "autocmd", "window", "on_close", "hlsearch">>)

\* Mutant: the autocommand is deleted at the end.
CloseAutocmdLast == All(<<"hlsearch", "listing", "prompt", "window", "on_close", "autocmd">>)

_close == All(<<"hlsearch", "listing", "prompt", "autocmd", "window", "on_close">>)

show == All(<<"build", "settings", "windows", "focus", "watch">>)

\* A callback of an autocommand that is not `nested`, like the one of CmdlineEnter,
\* runs without autocommands of its own.
Call(u, steps, nested) == [ui |-> u, steps |-> steps, nested |-> nested]

Idle == calls = << >>
Now == Head(Head(calls).steps)
Me == Head(calls).ui
At(name) == ~ Idle /\ Now.name = name

\* The innermost call goes on with the given steps before what is left of it.
Then(steps) ==
  LET left == steps \o Tail(Head(calls).steps)
  IN  IF left = << >> THEN Tail(calls)
      ELSE <<[Head(calls) EXCEPT !.steps = left]>> \o Tail(calls)

Continue == calls' = Then(<< >>)

Raise ==
  /\ calls' = Tail(calls)
  /\ raised' = TRUE
  /\ last' = [last EXCEPT !.failed = TRUE]

\* WinLeave of the prompt that is current runs before the step does.
Leaves == { u \in leave : current = Prompt(u) /\ Head(calls).nested }

WinLeave(u) ==
  /\ leave' = leave \ {u}
  /\ calls' = <<Call(u, _close, TRUE)>> \o calls

---------------------------------------------------------------------------
(* _close().                                                               *)

\* Settings: 'hlsearch' is reset if it was saved.
Unset ==
  /\ At("hlsearch")
  /\ hlsearch' = IF ui[Me].saved = {} THEN hlsearch ELSE CHOOSE b \in ui[Me].saved : TRUE
  /\ ui' = [ui EXCEPT ![Me].saved = {}]
  /\ Continue
  /\ UNCHANGED <<editor, cwd, stack, pending, raised, last>>

\* The buffer goes with the window if the window's WinClosed may run.
CloseListing ==
  /\ At("listing")
  /\ windows' = IF ui[Me].match_listing THEN windows \ {Listing(Me)} ELSE windows
  /\ ui' = [ui EXCEPT ![Me].match_listing = FALSE,
                      ![Me].buffer = IF Head(calls).nested THEN {} ELSE @]
  /\ Continue
  /\ UNCHANGED <<current, closing, leave, hlsearch, cwd, stack, pending, raised, last>>

\* Nothing happens to a window that is being closed already.
ClosePrompt ==
  /\ At("prompt")
  /\ LET toDo == ui[Me].prompt /\ Prompt(Me) \in windows /\ Me \notin closing
     IN  /\ closing' = IF toDo THEN closing \cup {Me} ELSE closing
         /\ calls' = Then(IF toDo THEN <<Do("shut")>> ELSE << >>)
         /\ ui' = IF toDo THEN ui ELSE [ui EXCEPT ![Me].prompt = FALSE]
  /\ UNCHANGED <<windows, current, leave, hlsearch, cwd, stack, pending, raised, last>>

\* The window is left, if it is the current one, and then it is gone.
Shut ==
  /\ At("shut")
  /\ IF Leaves # {}
     THEN (\E u \in Leaves : WinLeave(u)) /\ UNCHANGED <<ui, windows, current, closing>>
     ELSE /\ windows' = windows \ {Prompt(Me)}
          /\ closing' = closing \ {Me}
          /\ IF current = Prompt(Me) THEN current' \in UserWindow \cap windows
                                     ELSE UNCHANGED current
          /\ leave' = leave \ {Me}
          /\ ui' = [ui EXCEPT ![Me].prompt = FALSE]
          /\ Continue
  /\ UNCHANGED <<hlsearch, cwd, stack, pending, raised, last>>

DeleteAutocmd ==
  /\ At("autocmd")
  /\ ui' = [ui EXCEPT ![Me].cmdline_enter_autocmd = FALSE]
  /\ Continue
  /\ UNCHANGED <<editor, hlsearch, cwd, stack, pending, raised, last>>

\* nvim_set_current_win() raises an error when the window is gone.
SetWindow ==
  /\ At("window")
  /\ ui' = [ui EXCEPT ![Me].current_window = NoWindow]
  /\ LET w == ui[Me].current_window
     IN  IF w = NoWindow THEN Continue /\ UNCHANGED <<raised, last>>
         ELSE IF w \in windows THEN calls' = Then(<<Enter(w)>>) /\ UNCHANGED <<raised, last>>
         ELSE Raise
  /\ UNCHANGED <<editor, hlsearch, cwd, stack, pending>>

EnterWindow ==
  /\ At("enter")
  /\ IF Leaves # {} /\ current # Now.to
     THEN (\E u \in Leaves : WinLeave(u)) /\ UNCHANGED <<windows, current>>
     ELSE /\ Continue
          /\ UNCHANGED leave
          /\ IF Now.to \in windows \ {current}
             THEN current' = Now.to /\ windows' = windows \ ({current} \cap Fleeting)
             ELSE UNCHANGED <<windows, current>>
  /\ UNCHANGED <<ui, closing, hlsearch, cwd, stack, pending, raised, last>>

popd == IF stack = << >> THEN UNCHANGED <<cwd, stack>>
        ELSE cwd' = Last(stack) /\ stack' = Front(stack)

\* Mutant: on_close is not forgotten.
PopAgain(u) == ui[u].on_close /\ popd /\ UNCHANGED ui

\* on_close is popd() of a finder that has pushed.
OnClose(u) == ui[u].on_close /\ popd /\ ui' = [ui EXCEPT ![u].on_close = FALSE]

Pop ==
  /\ At("on_close")
  /\ \/ OnClose(Me)
     \/ ~ ui[Me].on_close /\ UNCHANGED <<ui, cwd, stack>>
  /\ Continue
  /\ UNCHANGED <<editor, hlsearch, pending, raised, last>>

---------------------------------------------------------------------------
(* finder(): pushd(), the finder's construction and show().                *)

\* chdir() raises an error when there is no such directory, with the stack pushed.
pushd(f) ==
  /\ stack' = Append(stack, cwd)
  /\ cwd' = IF f.missing THEN cwd ELSE f.dir

Build ==
  /\ At("build")
  /\ LET f == Now.to
     IN  /\ IF f.pushes THEN pushd(f) ELSE UNCHANGED <<cwd, stack>>
         /\ IF f.builds /\ ~ (f.pushes /\ f.missing)
            THEN /\ ui' = Append(ui, New(f))
                 /\ Continue
                 /\ UNCHANGED <<raised, last>>
            ELSE Raise /\ UNCHANGED ui
  /\ UNCHANGED <<editor, hlsearch, pending>>

Override ==
  /\ At("settings")
  /\ ui' = [ui EXCEPT ![Me].current_window = current, ![Me].on_close = ui[Me].finder.pushes,
                      ![Me].saved = {hlsearch}]
  /\ hlsearch' = FALSE
  /\ Continue
  /\ UNCHANGED <<editor, cwd, stack, pending, raised, last>>

\* The listing's buffer has the same name in every UI, which Neovim expands in the
\* working directory, and it takes no name that another buffer has.
NameTaken == \E u \in Id : cwd \in ui[u].buffer

OpenWindows ==
  /\ At("windows")
  /\ ~ NameTaken
  /\ windows' = windows \cup {Listing(Me), Prompt(Me)}
  /\ leave' = leave \cup {Me}
  /\ ui' = [ui EXCEPT ![Me].match_listing = TRUE, ![Me].prompt = TRUE, ![Me].buffer = {cwd}]
  /\ Continue
  /\ UNCHANGED <<current, closing, hlsearch, cwd, stack, pending, raised, last>>

\* An error before the prompt has the focus: with no window open yet, with the
\* listing's only, or in the prompt's mappings.
OpenHalf ==
  /\ At("windows")
  /\ NameTaken \/ Fails
  /\ \E opened \in {{}, {Listing(Me)}, {Listing(Me), Prompt(Me)}}, named \in {{}, {cwd}} :
       /\ NameTaken => opened = {} /\ named = {}
       /\ opened # {} => named = {cwd}
       /\ windows' = windows \cup opened
       /\ leave' = IF Prompt(Me) \in opened THEN leave \cup {Me} ELSE leave
       /\ ui' = [ui EXCEPT ![Me].match_listing = TRUE, ![Me].prompt = opened # {},
                           ![Me].buffer = named, ![Me].half = TRUE]
  /\ Raise
  /\ UNCHANGED <<current, closing, hlsearch, cwd, stack, pending>>

Focus ==
  /\ At("focus")
  /\ calls' = Then(<<Enter(Prompt(Me))>>)
  /\ UNCHANGED <<ui, editor, hlsearch, cwd, stack, pending, raised, last>>

Watch ==
  /\ At("watch")
  /\ ui' = [ui EXCEPT ![Me].cmdline_enter_autocmd = TRUE]
  /\ Continue
  /\ UNCHANGED <<editor, hlsearch, cwd, stack, pending, raised, last>>

---------------------------------------------------------------------------
(* What the user does, when no call is under way.                          *)

Half == { u \in Id : ui[u].half }
Live == { u \in Id \ Half : ui[u].prompt }

\* CmdlineEnter: its callbacks close the UI there is.
Closers == { u \in Id : ui[u].cmdline_enter_autocmd }

CommandLine ==
  /\ Idle
  /\ \E u \in Closers : calls' = <<Call(u, _close, FALSE)>>
  /\ UNCHANGED <<ui, editor, hlsearch, cwd, stack, pending, raised, last>>

\* A mapping, or a command at the command line, starts a finder.
Start(f) ==
  /\ Idle
  /\ Len(ui) < Shows /\ Len(stack) <= Shows
  /\ Live = {} \/ Over
  /\ calls' = <<Call(Len(ui) + 1, [show EXCEPT ![1].to = f], TRUE)>>
  /\ last' = [cwd |-> cwd, stack |-> stack, failed |-> FALSE]
  /\ UNCHANGED <<ui, editor, hlsearch, cwd, stack, pending, raised>>

Goto(w) ==
  /\ Idle
  /\ w \in (windows \cap UserWindow) \ {current}
  /\ calls' = <<Call(0, <<Enter(w)>>, TRUE)>>
  /\ UNCHANGED <<ui, editor, hlsearch, cwd, stack, pending, raised, last>>

\* The keys of the prompt.
Typing(u) == Idle /\ u \in Live /\ current = Prompt(u)

Type(u, q) ==
  /\ Typing(u)
  /\ q # ui[u].text
  /\ ui' = [ui EXCEPT ![u].text = q, ![u].changed = TRUE]
  /\ UNCHANGED <<calls, editor, hlsearch, cwd, stack, pending, raised, last>>

Ordered(results) == IF BestLast THEN Reverse(results) ELSE results
FirstSelected(results) == IF BestLast \/ results = << >> THEN Len(results) ELSE 1

\* A finder in its place that scans the working directory; it opens as the first one.
Fallback(finder) == [finder EXCEPT !.found = FallbackFound]

\* The text-changed autocommand comes when no typed keys wait, so after keys that
\* were typed ahead.  A finder that has anything to find loses its fallback.
on_change(u) ==
  /\ Typing(u)
  /\ ui[u].changed
  /\ LET found == ui[u].finder.found[ui[u].text]
         works == found # << >> \/ ui[u].finder.candidates > 0
         falls == ~ works /\ ui[u].fallback
         finder == IF falls THEN Fallback(ui[u].finder) ELSE ui[u].finder
         results == Ordered(finder.found[ui[u].text])
         selected == FirstSelected(results)
     IN  ui' = [ui EXCEPT ![u].changed = FALSE, ![u].finder = finder, ![u].fallback = FALSE,
                          ![u].scanned = IF falls THEN cwd ELSE @,
                          ![u].results = results, ![u].selected = selected,
                          ![u].shown = [results |-> results, selected |-> selected,
                                        by |-> finder]]
  /\ UNCHANGED <<calls, editor, hlsearch, cwd, stack, pending, raised, last>>

Choice == {"first", "last", "middle", "next", "previous"}

\* Mutant: the choice is not kept within the results.
SelectedPastEnd(choice, selected, n) ==
  CASE choice = "first"    -> 1
    [] choice = "last"     -> n
    [] choice = "middle"   -> n \div 2 + 1
    [] choice = "next"     -> selected + 1
    [] choice = "previous" -> selected - 1

Selected(choice, selected, n) ==
  Min({n, Max({1, SelectedPastEnd(choice, selected, n)})})

\* Mutant: the listing is not told.
SelectUnseen(u, selected) == ui' = [ui EXCEPT ![u].selected = selected]

Highlight(u, selected) ==
  ui' = [ui EXCEPT ![u].selected = selected, ![u].shown.selected = selected]

on_select(u, choice) ==
  /\ Typing(u)
  /\ ui[u].results # << >>
  /\ Highlight(u, Selected(choice, ui[u].selected, Len(ui[u].results)))
  /\ UNCHANGED <<calls, editor, hlsearch, cwd, stack, pending, raised, last>>

\* The key that closes: only the prompt's window, the rest is left to WinLeave.
close(u) ==
  /\ Typing(u)
  /\ calls' = <<Call(u, <<Do("prompt")>>, TRUE)>>
  /\ UNCHANGED <<ui, editor, hlsearch, cwd, stack, pending, raised, last>>

\* A key that opens: on_open of the prompt is _open().
on_open(u) ==
  /\ Typing(u)
  /\ calls' = <<Call(u, Append(_close, Do("open")), TRUE)>>
  /\ UNCHANGED <<ui, editor, hlsearch, cwd, stack, pending, raised, last>>

_open ==
  /\ At("open")
  /\ pending' = IF ui[Me].results = << >> THEN pending
                ELSE Append(pending, [ui |-> Me, item |-> ui[Me].results[ui[Me].selected]])
  /\ Continue
  /\ UNCHANGED <<ui, editor, hlsearch, cwd, stack, raised, last>>

\* The deferred function: current_finder.open(), in the window and the directory
\* there are by then.
Opens == Idle /\ pending # << >> /\ pending' = Tail(pending)

OpenDeferred ==
  /\ Opens
  /\ UNCHANGED <<ui, calls, editor, hlsearch, cwd, stack, raised, last>>

\* The user opens a window again.
Split(w) ==
  /\ Idle
  /\ current \in UserWindow
  /\ w \in UserWindow \ windows
  /\ windows' = windows \cup {w}
  /\ UNCHANGED <<ui, calls, current, closing, leave, hlsearch, cwd, stack, pending, raised, last>>

---------------------------------------------------------------------------

Step ==
  \/ Unset \/ CloseListing \/ ClosePrompt \/ Shut \/ DeleteAutocmd \/ SetWindow
  \/ EnterWindow \/ Pop
  \/ Build \/ Override \/ OpenWindows \/ OpenHalf \/ Focus \/ Watch
  \/ _open

Keys(u) ==
  \/ \E q \in Query : Type(u, q)
  \/ on_change(u)
  \/ \E choice \in Choice : on_select(u, choice)
  \/ close(u)
  \/ on_open(u)

Next ==
  \/ Step
  \/ \E u \in Id : Keys(u)
  \/ \E f \in Finder : Start(f)
  \/ CommandLine
  \/ \E w \in UserWindow : Goto(w) \/ Split(w)
  \/ OpenDeferred

Spec == Init /\ [][Next]_vars

---------------------------------------------------------------------------
(* Properties.                                                             *)

TypeOK ==
  /\ \A u \in Id : ui[u].selected \in 0 .. Len(ui[u].results)
                /\ (ui[u].results # << >> => ui[u].selected > 0)
  /\ \A i \in DOMAIN calls : calls[i].steps # << >>
  /\ windows \subseteq UserWindow \cup {Listing(u) : u \in Id} \cup {Prompt(u) : u \in Id}
  /\ current \in windows
  /\ closing \subseteq Id /\ leave \subseteq Id
  /\ hlsearch \in BOOLEAN /\ raised \in BOOLEAN

\* Whatever closes a UI, in whatever order its callbacks run, and though the
\* window to go back to may be gone: between two keys all of a UI is there, in
\* front of the user, or nothing of it is left (ui.lua:49-78).  A UI whose show()
\* ended half way is never in front of the user, nor closed by the command line.
AllOrNothing ==
  Idle => \A u \in Id :
    IF ui[u].half
    THEN current # Prompt(u) /\ ~ ui[u].cmdline_enter_autocmd
    ELSE \/ /\ {Listing(u), Prompt(u)} \subseteq windows /\ current = Prompt(u)
            /\ ui[u].match_listing /\ ui[u].prompt /\ ui[u].cmdline_enter_autocmd
         \/ /\ {Listing(u), Prompt(u)} \cap windows = {}
            /\ ~ ui[u].match_listing /\ ~ ui[u].prompt /\ ~ ui[u].cmdline_enter_autocmd

\* 'hlsearch' is off while a UI is there, and the user's own when none is, unless a
\* show() ended half way: from then on it stays off, and one of the UIs still has the
\* user's value, however many are shown and closed later (ui.lua:50, 128-131;
\* settings.lua).
SettingsRestored ==
  Idle => /\ hlsearch = (Live \cup Half = {})
          /\ ~ hlsearch => \E u \in Live \cup Half : ui[u].saved = {TRUE}

\* Each pushd() has one popd().  Seen from where the last finder was started: while
\* its UI is there the user is in its directory, and one directory more, the one to
\* go back to, is on the stack; afterwards both are what they were.  Only an error
\* of this finder can leave its push behind, never more, and never a pop too many
\* (ui.lua:74-77, pushd.lua, popd.lua, finder.lua:14, 24).
DirectoryRestored ==
  Idle =>
    LET pushed == stack = Append(last.stack, last.cwd)
    IN  IF \E u \in Live : ui[u].finder.pushes
        THEN pushed /\ \A u \in Live : cwd = ui[u].finder.dir
        ELSE \/ stack = last.stack /\ cwd = last.cwd
             \/ pushed /\ last.failed

\* What is opened is what was highlighted when the key was pressed, by the finder
\* that found it; and unless another UI is there by then, in a window of the
\* user's and, without errors, in the directory that the result, made relative to
\* the directory the finder was asked for, is right in (ui.lua:80-94).
OpensWhatIsLit ==
  [][ Opens =>
        LET me == ui[Head(pending).ui]
        IN  /\ Head(pending).item = me.shown.results[me.shown.selected]
            /\ me.finder = me.shown.by
            /\ Live = {} => current \in UserWindow
            /\ Live = {} /\ ~ raised /\ me.finder.pushes =>
                 cwd = Home /\ me.scanned = me.finder.dir ]_vars

\* While the setting says "temporarily override" (ui.lua:128): when all UIs are
\* closed, and none ended half way, the user's setting is back, also if one was
\* started over another.
OverrideIsTemporary == Idle /\ Live \cup Half = {} => hlsearch

=============================================================================
