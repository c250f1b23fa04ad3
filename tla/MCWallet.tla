------------------------------ MODULE MCWallet ------------------------------
(***************************************************************************)
(* A wallet and one other person, on a chain of a few seconds.             *)
(***************************************************************************)
EXTENDS WalletProperties

CONSTANTS me, bob, undo, gov

MCDefaultParams == [minwindow |-> 1, defaultwindow |-> 1, maxwindow |-> 1]
TwoEach == [a \in Account |-> IF a \in {me, bob} THEN 2 ELSE 0]
=============================================================================
