----------------------------- MODULE MCScanner -----------------------------
(***************************************************************************)
(* Scanner with short outputs: 0 is NUL.  With Drop = 2, as for `find`'s   *)
(* "./", one output has a record shorter than that and one a record of     *)
(* just that length; one has empty records; one ends inside a record; two  *)
(* do not fit the pipe.                                                    *)
(***************************************************************************)
EXTENDS Scanner

MCByte == 0 .. 2

MCOutputs == {
  <<1, 1, 2, 0, 1, 1, 0, 0, 1, 1, 1, 2, 0>>,
  <<1, 1, 1, 0, 2, 0, 1, 1, 1, 0>>,
  <<0, 1, 1, 2, 0, 1, 1, 1>> }

=============================================================================
