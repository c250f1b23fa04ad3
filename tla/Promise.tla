------------------------------- MODULE Promise -------------------------------
(***************************************************************************)
(* What undo means to the people who use it, without a holding account,    *)
(* blocks or tables: a promised payment has left its sender's purse, is in *)
(* nobody else's, and ends in exactly one of two purses.  A promise is     *)
(* kept no earlier than it said; until it is kept, it can be taken back.   *)
(***************************************************************************)
EXTENDS Integers, Functions

CONSTANT Person, \* whoever can own coins
         Opening \* what everybody owns to begin with

VARIABLES time, purse, promised, named

Payment == [sender : Person, recipient : Person, amount : Nat, executeat : Int]

promise == <<time, purse, promised, named>>

Init ==
    /\ time \in Nat
    /\ purse = Opening
    /\ promised = [id \in {} |-> {}]
    /\ named = {}

TimePasses ==
    /\ time' \in Nat /\ time' >= time
    /\ UNCHANGED <<purse, promised, named>>

\* A payment that lands at once.
Give(from, to, amount) ==
    /\ from # to
    /\ purse' = [purse EXCEPT ![from] = @ - amount, ![to] = @ + amount]
    /\ UNCHANGED <<time, promised, named>>

\* A promise is made, under a name never used before, with coins that leave
\* the purse of the one who makes it.
MakePromise(id) ==
    LET p == promised'[id]
    IN  /\ id \notin named
        /\ named' = named \cup {id}
        /\ DOMAIN promised' = DOMAIN promised \cup {id}
        /\ \A other \in DOMAIN promised : promised'[other] = promised[other]
        /\ p \in Payment
        /\ purse[p.sender] >= p.amount
        /\ purse' = [purse EXCEPT ![p.sender] = @ - p.amount]
        /\ UNCHANGED time

Settle(id, payee) ==
    /\ purse' = [purse EXCEPT ![payee] = @ + promised[id].amount]
    /\ promised' = Restrict(promised, DOMAIN promised \ {id})
    /\ UNCHANGED <<time, named>>

TakeBack(id) == id \in DOMAIN promised /\ Settle(id, promised[id].sender)
Keep(id) ==
    /\ id \in DOMAIN promised
    /\ time >= promised[id].executeat
    /\ Settle(id, promised[id].recipient)

Next ==
    \/ TimePasses
    \/ \E from, to \in Person : \E amount \in 1..purse[from] : Give(from, to, amount)
    \/ \E id \in DOMAIN promised' \ DOMAIN promised : MakePromise(id)
    \/ \E id \in DOMAIN promised : TakeBack(id) \/ Keep(id)

Spec == Init /\ [][Next]_promise
=============================================================================
