----------------------------- MODULE MCRestart -----------------------------
(***************************************************************************)
(* A small chain that is stopped and started again.                        *)
(***************************************************************************)
EXTENDS RestartProperties

CONSTANTS alice, bob, undo, gov, fees

MCDefaultParams == [minwindow |-> 1, defaultwindow |-> 2, maxwindow |-> 2]
Coins30 == [a \in Account |-> IF a = alice THEN 3 ELSE 0]
=============================================================================
