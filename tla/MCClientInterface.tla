------------------------- MODULE MCClientInterface -------------------------
(***************************************************************************)
(* An instance of ClientInterface for TLC.                                 *)
(***************************************************************************)
EXTENDS ClientInterface

MCClientLines == {<<"W">>, <<"C", "file">>, <<"C", "missing">>, <<"x">>}
=============================================================================
