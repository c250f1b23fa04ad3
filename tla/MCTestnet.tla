----------------------------- MODULE MCTestnet -----------------------------
(***************************************************************************)
(* Three nodes, up to three runs.  Stakes: all by default, one that is no  *)
(* number before one that is, one that no account can pay.                 *)
(***************************************************************************)
EXTENDS TestnetProperties

CONSTANT letters
MCStakeFlags == {<< >>, <<letters, 2>>, <<1, 9>>}
MCPortFlags == {<< >>, <<47222, 50434>>}
=============================================================================
