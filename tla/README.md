# Command-T in TLA+

Modules that model the parts of Command-T where the order of steps matters, TLC
configurations that check them on small instances, and proofs that hold for every size.
Paths below are relative to the repository; the C sources are in
`lua/wincent/commandt/lib/`, the private Lua modules in `lua/wincent/commandt/private/`.

## The system

| Component | Source | State | Operations |
|---|---|---|---|
| Matcher | `matcher.c` | per candidate: score and bitmask; needle and last needle | `commandt_matcher_new`, `commandt_matcher_run` |
| Scorer | `score.c` | the memo of one call; the candidate's bitmask | `commandt_score` |
| Heap | `heap.c` | an array and its count | `heap_insert`, `heap_extract`, `HEAP_PEEK` |
| Exec scanner | `scanner.c`, `scanners/exec.lua` | child process, pipe, buffer, candidates | `scanner_new_exec` |
| Other scanners | `scanner.c`, `find.c` | candidates, who owns them | `scanner_new_copy`, `scanner_new_str`, `commandt_find` |
| Watchman client | `watchman.c`, `scanners/watchman.lua` | one cached socket, the request, the response being read | connect, `watch-project`, `query` |
| UI | `ui.lua`, `settings.lua` | finder, windows, results, selection, saved settings | show, change, select, open, close |
| Prompt, match listing, window | `prompt.lua`, `match_listing.lua`, `window.lua` | buffer, window, autocommands | show, close, update, select |
| Finders, directory stack | `finder.lua`, `pushd.lua`, `popd.lua`, `finders/*.lua` | directory stack, fallback | run, open, fallback |
| Options | `options/*.lua`, `validate.lua`, `merge.lua` | the user's options | setup, sanitize, validate |

**How they interact.** A command builds a finder: a scanner that has read all candidates
and a matcher over them. The UI opens two windows; each change of the prompt calls
`finder.run(query)`, which is `commandt_matcher_run`; that starts worker threads, each of
which runs `get_matches` over its share of the candidates with a heap of its own, and
joins them before it returns. Neovim's autocommands (`WinLeave`, `WinClosed`,
`CmdlineEnter`, `TextChanged`) call back into the UI, also while it is closing. The
Watchman socket is the one resource that outlives a UI.

**What is hard.**

* Threads without locks. The workers share the candidates' scores and are kept apart
  only by the arithmetic of the chunks.
* State from query to query. A score of 0 means "skip while the user types on"; a
  bitmask computed for one query filters in all later ones; a pruned candidate keeps the
  score of an older query.
* Shortcuts that must not be seen: pruning by an upper bound, narrowing, the bitmask,
  the memo of the search.
* The exec scanner's child process: an early exit of the read loop, then a `wait`.
* The Watchman socket: short reads and errors, then another request on it.
* Callbacks that close what is being closed; work deferred to a later tick.

**What makes each part correct.**

* Matcher: each answer is the best `limit` matches, in order, whatever was asked before
  and however the threads ran; every query is answered; no data race.
* Scorer: above 0 only for a match; never above the bound candidates are pruned by; the
  bitmask does not change it; a 0 stays 0 while the query grows.
* Heap: a set from which a worst entry is taken.
* Exec scanner: the candidates are the child's records in order, none left out without a
  reason; the scan ends.
* Watchman: an answer is that of the request just sent, read whole; a scan gives what the
  server said; a failure is reported.
* UI: all of it is there or nothing, unless `show` failed half way; settings restored, the
  item opened is the one that was highlighted, by the finder that found it.
* Directory stack: `popd` once for each `pushd`, so one is back where one started; a finder
  that fails may leave its own push behind, and no later one is misled by it.

## Modules

```
Ranking  <-- Search                 what an answer is; what a matcher promises
   ^            ^ refined by
   +------- Matcher <-- MCMatcher   matcher.c
               ^    <-- MatcherProofs <-- AnswerProofs
               : scores and bounds from
            Score   <-- Candidate <-- MCCandidate    score.c
                                  <-- CandidateProofs, with Induction
               : heap entries as a set, by
WorstFirst <== Heap <-- MCHeap      heap.c
                    <-- HeapProofs

Scanner <-- MCScanner               scanner.c, scanner_new_exec
        <-- ScannerProofs
Bser <-- Watchman <-- MCWatchman    watchman.c, scanners/watchman.lua
                  <-- WatchmanProofs, with Induction
UI <-- MCUI                         ui.lua, prompt.lua, window.lua, settings.lua, finder.lua
   <-- UIProofs
```

### Ranking and Search

`Ranking` holds the two orders of `matcher.c`, `cmp_alpha` and `cmp_score`, and the set
of results that sorting and cutting may return (several when candidates have the same
text, because `qsort` is not stable). `Search` is the abstract specification: a query is
asked, and answered with a member of `BestAnswers`, a definition that mentions no
thread, heap, earlier query or shortcut.

### Matcher

The state is that of `matcher_t` (`score`, `needle`, `lastNeedle`), the main thread's
place in `commandt_matcher_run` (`phase`, `spawned`, `joined`, `matches`), each worker's
loop index and heap (`at`, `heap`) and the last `result_t`.

| Action | Code |
|---|---|
| `StartRun(n)` | `commandt_matcher_run` to the loop that starts workers, with the test whether `n` extends the last needle |
| `Spawn` | `pthread_create`, or the main thread's own call for the last worker |
| `CollectOwn` | the copy of the heap the main thread filled |
| `Join` | `pthread_join` of the next thread and the copy of its heap |
| `Finish` | sort, cut at `limit`, drop what scores no more than 0, keep the needle |
| `SkipNonMatch(w)` | line 352: skipped by narrowing |
| `Prune(w)` | lines 360-381: skipped because the bound is below the heap's root |
| `ScoreCandidate(w)` | score, then insert, or insert and extract |

A worker's step treats one candidate. It reads shared state only in `score[c]` of that
candidate and of its own heap's entries, so the step is atomic if no two workers share a
candidate, and `NoSharedHaystack` says just that. Heaps are sets here, and any worst
entry may be at the root; `Heap` justifies it.

What a candidate scores for a needle is a constant, `ScoreOf`, and so is the bound.
`BoundAssumption` is what the pruning relies on; `Candidate` checks it of the code's
scores and bounds (`WithinBound`). `Erase` says whether the user may type a query that
does not extend the last one.

### Score and Candidate

`Score` is `commandt_score` with its pre-scan, its memo table filled in the code's own
order (the results depend on it), the dot-file rules and the bitmask filter.
`recursive_match` is a function of the place it is called at (`Place`), so that it can be
proved about; its loops' turns are calls as well (`NextPlace`, `NextCharacter`, and
`Taking` for what follows a match), and only `Skipping` is one in the code. `Candidate`
follows one candidate through typing and deleting: its bitmask is computed once, and may hold any
bits for characters that are no letter, since the shift in `score.c:172` is undefined
for them.

Scores are integers, the exact score times `Scale`. Where the code multiplies by 0.9,
0.8, 0.7 or 0.75/distance, `Scale` is a multiple of every denominator that texts of the
checked length produce, so nothing is rounded; the float's own rounding, and the slack
against it in `matcher.c:377`, are not modelled.

### WorstFirst and Heap

`Heap` has one action for each loop turn of `heap_insert` and each call of
`heap_heapify`. Its refinement mapping hides the order in the array: the swaps are
stuttering steps of `WorstFirst`.

### Scanner

Parent, child and the pipe between them. The state is what the child wrote (`output`,
`written`), whether it runs, the parent's place (`pc`), the slab's `start` and `end`, the
candidates so far and, as history, why the loop was left (`left`).

| Action | Code |
|---|---|
| `Fork`, `NoStart` | `pipe`, `fork`, and the failures of both |
| `Write(n)`, `Exit` | the command, as it likes; it blocks when `Pipe` bytes wait |
| `Read(n)`, `ReadEnd`, `ReadError` | the read at the head of the outer loop |
| `SkipNul`, `NeedMore`, `Take(c)` | the inner loop over the NULs of what was read |
| `TooShort` | a record shorter than `drop` ends the scan |
| `Wait` | `wait`, which takes any child of the editor that has ended |
| `OtherExits`, `EditorReaps` | the editor's other children |

A read returns any number of bytes, so a record may be cut anywhere.

### Bser and Watchman

`Bser` writes and reads Watchman's binary protocol by bytes, as `watchman.c` does: the
request's room as it is extended, the narrowest integer for each number, and for each
`watchman_read_*` the checks it makes, in their order. The two readers of strings differ:
`watchman_read_string` copies, so that a negative length asks for more memory than there
is; `watchman_read_string_no_copy`, which reads the names of files, takes it, gives a
string that cannot be read (`Unreadable`) and moves the pointer back. While it is still
within the bytes they are read again; in front of them what comes is undefined (`Wild`),
and the scan may end in an error, end the process or give such names (`Outcomes`). `Watchman` has the client's place
in `watchman_send` (`pc`), the request, the cached socket, the bytes on their way, and
what the last scan gave.

| Action | Code |
|---|---|
| `Scan(d)` | `M.scanner` to the first `send`; `get-sockname`, which starts the server the first time |
| `Connect` | `commandt_watchman_connect` |
| `Send`, `SendFails` | `send` |
| `Sniff`, `SniffFails` | the first `recv`, which waits for three bytes and leaves them |
| `Peek`, `PeekFails` | the second, which does not wait |
| `Read`, `ReadFails` | the third, and the processing of the response |
| `Interrupted` | a signal cuts one of those that wait short |
| `Collect` | `commandt_watchman_query_free` of a query whose request failed |
| `Serve`, `Arrive`, `ServerEnds`, `ServerStarts`, `Restart` | the server, the socket, the user |

A failed request leaves whatever it leaves in the socket, and the next scan uses the same
socket. The properties are about sockets on which no request has failed (`failures = 0`).
What the code does after a failure is in the model and in the runs, the misread next
response and the scans that fail on a dead socket included, but no property speaks of it.
`Died` stands for what ends the process: `xmap(0)`, or room asked for a negative length.
The code's `assert`s are compiled out of a release build. That `get-sockname` gives a
name and that a response is one PDU (`ReplyAssumption`) is assumed of the server; what is
in it is anything.

### UI

Lua runs on one thread, but leaving or closing a window runs autocommands in the middle
of a call. So `calls` is a stack: each entry is a call with the steps it has left, and
whether autocommands may run in it. `_close` and `show` are sequences of steps; each step
is an action (`Unset`, `CloseListing`, `ClosePrompt`, `Shut`, `DeleteAutocmd`,
`SetWindow`, `Pop`; `Build`, `Override`, `OpenWindows` or `OpenHalf`, `Focus`, `Watch`), and
keys and deferred functions run when the stack is empty.

* `WinLeave` of a prompt is armed by `OpenWindows` and runs once, before the step that
  leaves or closes the prompt's window (`Shut`, `EnterWindow`), as a call on top.
* A window that is being closed is not closed again: `nvim_win_close` does nothing.
* The `CmdlineEnter` callback is not `nested`: no other autocommand runs in it.
* `nvim_set_current_win` on a window that is gone is an error: it ends the innermost call
  (`Raise`), and if that was an autocommand's the call below goes on.
* `chdir()` to a missing directory is an error too: `pushd` has pushed by then, and the
  finder ends there, without a UI. A finder that cannot be built ends at the same place.
* `show` may end in an error anywhere between the setting it overrides and the focus of the
  prompt (`OpenHalf`): before there is a window, with the listing's alone, or with both, in
  the prompt's mappings. Such a UI is `half`: it has no `CmdlineEnter` autocommand and the
  focus never was in its prompt, so nothing closes it.
* The listing's buffer has a name that Neovim expands in the working directory and refuses
  when another buffer has it. `WinClosed` deletes the buffer; where no autocommand runs
  (`CmdlineEnter`), it stays, and the next `show` in that directory ends in an error
  (`NameTaken`). The prompt's buffer fares alike, and is made later.
* `OpenDeferred` runs later, in whatever window and directory there is by then.

These are rules of Neovim, taken from how the code uses it: errors of its API end the
function that calls it, a window that is closed or left runs its buffer's `WinClosed` and
`WinLeave`, except from a callback that is not `nested`. Whether Neovim may fail to make a
buffer, a window or a mapping is a constant, `Fails`; a name that is taken fails in any case.

A finder is a record: where it goes, whether it can be built and falls back, and a table
of results, sequences of any `Item`s; a matcher's answers are the business of `Matcher`.

## Runs

| Run | Bounds | What it shows |
|---|---|---|
| `matcher_typing` | six texts, six queries, limit 2, 2 threads, chunks of 2 | `RefinesSearch`, `AnswerIsBest`, `NoSharedHaystack`, `SkippedCannotMatch` while the user only types on |
| `matcher_erase` | the same, any query after any other | `AnswerMatches`, `AlwaysAnswers` |
| `matcher_stale` | the same, any query after any other | `AnswerIsBest` fails |
| `candidate` | texts of up to 4 of 5 characters, queries of up to 3 of 5 keys, the space among them, four combinations of options | the scorer's properties |
| `candidate_narrowing` | texts of up to 5 of 4 characters, default options | `Narrowing` fails |
| `candidate_dots` | as `candidate`, never mode only | `NeverShown` fails |
| `heap` | 5 slots, 6 values, two pairs of ties | the heap's properties |
| `scanner` | three outputs of 8 to 13 bytes, reads of up to 4, a pipe of 5, `drop` 2, `max_files` 2, one other child | the scanner's properties |
| `watchman` | two directories, seven responses, integers of 1 to 4 digits of base 16, room for requests of 8, two failures | the client's properties |
| `watchman_failure` | the same, one failure | `FailureReported` fails |
| `ui` | two UIs, five finders, two queries, two user's windows, one of which closes when left; windows may fail to open | the UI's properties |
| `ui_over` | the same, a UI may be started over another | `OverrideIsTemporary` fails |

**Why the bounds are enough.** The matcher's six texts include two equal ones (ties), a
dot-file (the score -1 of the empty query), matches and non-matches of every query; with
limit 2 of six each worker's heap fills, so candidates are pruned, inserted over a full
heap, and lost to ties. Six candidates in chunks of 2 over 2 workers give one worker that
takes a second chunk and steps past the end, one that ends on it, and uneven loads. The threshold of 1000 candidates, below which one worker is
used, is lowered to 3, the chunk from 64 to 2; no step depends on their values, and
`MatcherProofs` is for all of them. Texts of four characters hold every rule of the
scorer: adjacent and distant matches, a separator before a match, a capital after a small
letter, a dot-file at the start and after a slash. Five heap slots are three levels.
The score table of `MCMatcher` is not made up: an assumption compares it with `Score`.

The scanner's outputs hold empty records, records that `drop` makes too short, a record
that no single read holds with its NUL, one more than `max_files`, and more bytes than the pipe. The widths
of integers do not matter to `watchman.c` but for being four and different; one path is
longer than a request's room and has a length of two digits, the responses use each width
of the header and each type of value, with other keys before and behind those read; bytes
may pause behind the second, third, fourth and ninth (`Cuts`), so that what has arrived
is too short for the first `recv`, just enough for it, part of the header or part of the
payload. After `Patience`
failed requests the user starts the editor again. Two UIs suffice since a UI shares only
the setting, the directory stack, the windows and the name of a buffer with others, and what
it leaves of them meets the next one; the proofs are for any number.

**Fairness.** `Matcher!Spec` asks that every worker that can step, and the main thread,
eventually do (weak fairness): threads are run by the operating system, take no locks and
block nowhere but in `pthread_join`. Nothing asks the user to type. `Scanner!Spec` asks it
of the parent, and of a command that it writes on while it can and ends when it has
written all. `Watchman!Spec` asks it of the client, and that a running server responds and
what it wrote arrives; not that it keeps running, nor that anyone starts it. The other
specifications are about safety and have no fairness. All models may be left idle by the
user, and deadlock is checked in every run.

### What the violated runs show

* `matcher_stale`: a candidate that is pruned keeps the score that an older query gave
  it. If that was 0 and the next query extends this one, it is skipped as if it had just
  failed to match, and is missing from the answer. It needs a full heap and a deletion,
  so tests that ask a fresh matcher do not meet it.
* `candidate_narrowing`: with the default dot rules a candidate's score can be 0 for a
  query and above 0 for a longer one, so skipping it is wrong even without pruning.
  `NarrowingWhenShown` says that it is right when dot-files are always shown.
* `candidate_dots`: a path under a dot-directory is shown with `never_show_dot_files`
  when the query's match ends before the dot.
* `watchman_failure`: the server ends when a scan has just connected; its first request
  cannot be sent, the result's error is a string literal, and `free` is called with it
  before the error reaches the user.
* `ui_over`: `show` overrides the setting before its prompt takes the focus, which is when
  the first UI closes and restores it. So the first UI's value is gone from the screen
  while the second is there, and the second restores what it found, the override. It
  also pops the directories in the wrong order and cannot go back to the first prompt.

## Proofs

The assumptions are those on the constants: sizes are natural numbers, scores are
integers, no candidate scores above its bound. TLC evaluates them in each run.

**MatcherProofs.** For any number of candidates, threads and chunks, any limit, needles
and scores:

* `NoDataRace` (`NoSharedHaystack`): `Dealt(w)` is the set of indices
  `(k * workers + w) * chunk + r`. A worker's index starts in `Dealt(w)` and `NextIndex`
  keeps it there; two such sets are disjoint because quotient and remainder are unique,
  which `QuotientUnique` proves from multiplication alone, since the prover knows nothing
  of division by a variable.
* `AnswersMatch` (`AnswerMatches`): by itself not inductive. The invariant adds `Fresh`
  (what a heap or `matches` holds has the score of this run's query, whatever stale
  scores lie elsewhere) and `Collected` (what is joined is done, and nothing in a heap
  outlives a run).
* `TypeCorrect`, for which a full heap that takes one in must give one out.

**CandidateProofs.** For all candidates, keys, letters, options and lengths of query:
`CandidateTypeOK` (`TypeOK`), `CandidateFilterInvisible`, `CandidateWithinBound`,
`CandidateScoresMatches` and `CandidateNarrowingWhenShown`. What is assumed of the
constants: texts and keys are characters, a capital's small letter is no capital, and
`FineScale`, which says that the exact shares of a score are never rounded down to 0. The
code's floats are not either: a share is at least 1 / (candidate's length * its distance),
far from the smallest float. The argument:

* The pre-scan takes each character's last place before the next one's. `FoundWhenMatches`:
  it finds a place for every character exactly when the needle can be embedded in the
  candidate, since any embedding lies left of it.
* `SearchIs`: the search ends. Each turn lowers `Rank`, the characters of the needle that
  are left times the candidate's length and then the places left; by induction on it the
  function `Match` defines has a value at each `Place`.
* `FromReturns`, by the same induction, says what comes back: a score no less than 0 and no
  more than what the characters left can add at `PerChar` each, so at most `UpperBound`; and,
  when no dot stops the search (`dots = "always"`), a score above 0 as long as the
  character's rightmost place still lies ahead. `Settled` says of the memo what the search
  may rely on: what a cell holds is within those bounds too. The order in which it is filled
  does not matter for that.
* `CandidateInv` adds to the properties where the mask may come from (`MaskOf`): it is
  unset, or has every letter of the candidate. A needle with a letter outside it then has no
  embedding, so the answer 0 is what the search would give (`MaskInvisible`).
* A longer query makes the needle one character longer or leaves it (`NeedleOfMore`), also
  when a capital turns smart case off or a space is dropped; so a match of the longer one has
  one of the shorter in it.

Functions over numbers are defined by recursion, and the library's induction theorems take
an operator, which the provers cannot instantiate. `Induction` states the principle for sets
of numbers instead: a set of naturals that has 0, and each number all of whose
predecessors it has, has all (`Induct`). It follows from the library's fact that the order
of the naturals is well-founded (`NatLessThanWellFounded`, `WFMin`).

**HeapProofs.** For any capacity, values and comparator: the order may be broken at one
index while an operation runs. `Ordered` says where, and `Bridged` that the parent of
the odd entry is no better than the odd entry's children; without it a swap could break
the order one level up. From it follow `HeapIsOrdered` and `RootStaysWorst`: the first
slot worse than the root would have a parent that is not, so no induction is needed.
`Refinement` proves that `Heap` implements `WorstFirst`; the array's entries are counted
by a bijection from the used slots.

**AnswerProofs.** `AnswersAreBest` (`AnswerIsBest`), `SkippingIsSafe`
(`SkippedCannotMatch`) and `RefinesSearchSafely` (`Matcher` implements `Search`, all but
liveness), for any sizes, needles and scores, under the condition `Typing`:

* `~ Erase`: each query extends the one before. `matcher_stale` shows what happens if not.
* `ZeroStays`: a candidate that scores 0 does so for longer queries. `candidate_narrowing`
  shows that the scorer does not always grant it.
* `OneOrder`: for `""` and `"."`, whose answers are sorted by text, the matches score alike
  or all fit the limit; the heaps order by score and would keep the wrong ones.

`MCMatcher` has TLC check that its table meets the last two. The invariant that carries
the proof is `KeepsBest`: of the candidates a worker has been past, one that is neither in
its heap nor collected from it scores 0, or the worker holds `limit` candidates and that
one belongs before none of them. `Apart` keeps the worker's share of `matches` apart from
its heap, and `ZeroTrue` says that a 0 left in `score` is true of the present needle, which
makes a skip harmless. A prune is harmless by `BoundAssumption` and `BelowKeeps`; an
insertion by `ReplacingKeeps`, for which `cmp_score` must be a weak order (`ScoreOrder`).
At the end, for a match that is not shown, `limit` candidates are, and it belongs before
none of them (`GaveWay`); were it to belong before one in the result, all of those would be
listed beside that one, one more than the result holds (`FirstShownIsBest`).

**ScannerProofs.** For every output, pipe, chunk, `drop` and `max_files`: `TypeCorrect`,
`CandidatesFaithful` (`Faithful`) and `NothingLeftOut` (`Accounted`). The invariant adds
that a record begins at `start`, behind a NUL or at the first byte, and that nothing
between `start` and the place the inner loop has come to is a NUL; one step of that loop
then takes exactly one record (`OneRecord`).

**WatchmanProofs.** For every server, set of responses, directories, words, base and
widths:

* `TypeCorrect` and `InStep` (`Aligned`): until a request fails, the bytes in the socket are
  the response, or what is left to come of it, to the request under way, and the last thing
  the server said. The invariant adds what `pc` says about the socket (`Connected`) and about
  how many bytes were counted (`Sized`), which `ReplyAssumption` makes the response's length
  (`Whole`).
* `NeverPastItsRoom` (`RequestFits`). `AppendFits`: appending keeps a request in its room.
  All that is appended are bytes: the directory's path and the words by `WordAssumption`,
  numbers because their digits are, and the project, whose names the server chose, because of
  the next theorem.
* `ResponseRead`: whatever bytes a response has, reading it has an outcome (`Parsing`):
  fields of the kinds wanted and an offset within the bytes, an error, or the end of the
  process; or, for a query alone, a pointer that a name of negative length has moved in front
  of the bytes. A project is always a string, which the request made of it needs; a
  file's name may be `Unreadable`. The recursive definitions of the readers have that solution: of the
  loops by induction on the count (`Up`, `Down` and `StaysUp` of `Induction`); of
  `watchman_skip_value`, whose values hold values, by induction on the bytes left, since a
  marker is consumed before anything inside is skipped (`SkipStep`, `SkipEnds`).
* `ScanTruthful` (`Truthful`) and `EditorSurvives` (`Survives`), on the condition
  `ReadAsMeant`: each response alone, read whole, is taken as it is meant, within its bytes. That
  is a statement about constants, without a socket; the theorems say that scans one after
  another, pieces, signals and the server's ends and starts add nothing to it. The invariant
  says what the request under way asks (`Posed`) and that nobody is left to be served once a
  scan has ended (`Ended`). On `MCWatchman`'s responses the run `watchman` includes the
  condition: each of them is the response to an undisturbed scan there.

**UIProofs.** For all finders, queries, fleeting windows and numbers of shows, whether
windows may fail to open or not, when no UI is started over another (`~ Over`; `ui_over`
shows why that is needed): `UIAllOrNothing`, `UISettingsRestored` and
`UIDirectoryRestored`. Between two keys these three are about UIs alone; in between, a stack
of any number of half-done calls of `_close()` stands. The invariant `Inv` says what each of
them owes:

* `GoneInv`: whatever a UI still has open while its setting is already reset is named by a
  step that some call on the stack has yet to take (`Pending`).
* `Sorted` and `Whole`: the steps of a call are in the order of the code, and none is
  missing behind the first. So `nvim_set_current_win` in `_close()`, where a call may end in
  an error, cuts off nothing but the step that pops the directory.
* `Way`: while a setting is overridden, the stack is empty, shows the UI, is on its way to
  leave or close its prompt, or has its `_close()` at the first step. So the prompt is not
  gone before some `_close()` has begun, which `WinLeave` sees to (`SavedAtPrompt`).

A second invariant on top of it, `FurtherInv`, has what a `show` that fails leaves behind:

* `HalfInv` and `BehindInv`: no call is that of a UI whose `show` ended half way, nor comes
  to be, since no command line closes it and its prompt is never reached.
* `SettingInv`: the option is on exactly while no UI has it saved and none is half; the first
  that ended half way has the user's value, and those shown later what they found.
* `DirInv`: seen from the directory and the stack that the last finder was started with
  (`last`), the stack is one longer while a UI is still to pop (`Pusher`, at most one) or a
  finder that has pushed is being shown; otherwise it is the same, or one longer behind an
  error since then.

`Inductive` has one lemma for each step and each key.

`UITypeCorrect` (`TypeOK`) and `UIOpensWhatIsLit` (`OpensWhatIsLit`) rest on further parts
of `FurtherInv`, under the same condition:

* `ViewInv`: the match listing shows the results and the selection a UI has, by the finder
  it has, and the selection is within them (`GoodView`), whatever finders return.
* `FrontInv`: the current window is on the screen and no listing. For that, no step that any
  call on the stack has yet to take (`Owes`) enters a listing; `NextOwes` says what each
  action adds to what is owed.
* `PlaceInv`: until an error ends a call, what a finder that goes to its directory has
  found was looked for there, also by its fallback, since the working directory stays that
  one while its UI is active.
* `PendingInv`: what is to be opened is the lit item of a UI that is closed for good
  (`Settled`): no call owes it a step that shows it again, so no key can reach it, and what
  it showed stays what it was when the key was pressed.

Left to TLC: that the responses of `MCWatchman` are taken as they are meant; liveness
(`AlwaysAnswers`, both `ScanEnds`, the fairness part of `RefinesSearch`), which the prover
cannot do; and the runs that show a violation. That `ZeroStays`, which `AnswerProofs` takes
as a condition, is met by `Score` with dot-files always shown is
`CandidateNarrowingWhenShown`. Every invariant and action property of a passing run is
stated by a theorem.

## Not modelled

Float rounding; the allocation of memory, its failure and its release (the UI never
frees a `result_t`); the size of the stack the memo is put on; failure of
`pthread_create`, which ends the editor. The walk of `commandt_find` and the scanners that
copy a list are single loops without another actor. Lengths so far below zero that the
pointer itself wraps around. Of the windows: the
`BufWipeout` and `VimResized` autocommands, failures of what follows the focus of the
prompt, and the layout and formatting of lines, which depend on Neovim and not on this code.
A directory that is removed while it is on the stack, and then cannot be gone back to. Options are sanitised by pure
functions of nested tables. What each built-in finder asks of Neovim; the growable
strings of `str.c`, which `watchman.c` and `find.c` use as values; the health check and
the benchmarks.

## Plan

All that was planned in the core is there: the matcher with its scorer and heap, the
scanners with another process in them, and the UI. What could follow: a run
of the matcher with more dot-files than the limit and the query `"."`, where `OneOrder`
fails; a proof that `Bser` reads what it writes, integers, strings and arrays, so that
`ReadAsMeant` follows for a server that encodes its responses as the client does its
requests.
