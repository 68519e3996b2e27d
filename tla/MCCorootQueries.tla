--------------------------- MODULE MCCorootQueries ---------------------------
(***************************************************************************)
(* Instances of CorootQueries for TLC.                                     *)
(***************************************************************************)
EXTENDS CorootQueries

OneAndTwo == {<<"1", "2">>}
WithEmpty == {<<>>, <<"1">>}
=============================================================================
