------------------------------- MODULE MCUndo -------------------------------
(***************************************************************************)
(* Small chains for TLC.  Time starts anywhere in 0..MaxTime; the numbers  *)
(* stand for seconds, HalfRange for 2^63.                                  *)
(***************************************************************************)
EXTENDS UndoProperties, TLC

CONSTANTS alice, bob, undo, gov, fees

P(min, default, max) ==
    [minwindow |-> min, defaultwindow |-> default, maxwindow |-> max]

MCDefaultParams == P(1, 2, 2)
\* Validate accepts a maximum window of more than half the uint64 range.
HugeWindow == {P(1, 2, 12)}
MCParamChoice == {P(1, 2, 2), P(2, 3, 3), P(0, 1, 1)}
Coins(ofAlice, ofBob) ==
    [a \in Account |-> CASE a = alice -> ofAlice [] a = bob -> ofBob [] OTHER -> 0]
Coins21 == Coins(2, 1)
Coins31 == Coins(3, 1)
Users == Permutations(User)
=============================================================================
