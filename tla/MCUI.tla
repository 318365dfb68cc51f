-------------------------------- MODULE MCUI --------------------------------
(***************************************************************************)
(* UI with five finders: the file finder, one with a fallback that it      *)
(* needs, one whose directory is missing, one that cannot be built, and    *)
(* one of buffers, which stays where the user is.                          *)
(***************************************************************************)
EXTENDS UI

MCQuery == {"", "x"}

Two == ("" :> <<"a", "b", "c">>) @@ ("x" :> <<"b">>)
None == ("" :> << >>) @@ ("x" :> << >>)
MCFallbackFound == ("" :> <<"b", "a">>) @@ ("x" :> << >>)

File == [dir |-> "top", pushes |-> TRUE, missing |-> FALSE, builds |-> TRUE,
         fallback |-> FALSE, candidates |-> 3, found |-> Two]

MCFinder == { File,
              [File EXCEPT !.fallback = TRUE, !.candidates = 0, !.found = None],
              [File EXCEPT !.missing = TRUE, !.candidates = 0, !.found = None],
              [File EXCEPT !.builds = FALSE],
              [File EXCEPT !.dir = Home, !.pushes = FALSE] }

MCFleeting == {<<"user", 2>>}

=============================================================================
