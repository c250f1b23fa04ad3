----------------------------- MODULE UndoProofs -----------------------------
(***************************************************************************)
(* The undo module's invariants, its rules about who, how many and when, and *)
(* that with them the chain implements Promise: every step of Undo is a step *)
(* of Promise, or invisible to it.  All of it is proved for any number of  *)
(* accounts, sends, windows and coins.                                     *)
(***************************************************************************)
EXTENDS UndoProperties, FiniteSetTheorems, TLAPS

-----------------------------------------------------------------------------
(* Tables of sends and the coins they stand for.                           *)

\* The coins of one send number its amount.
LEMMA CoinsOfOneSend ==
    ASSUME NEW id, NEW n \in Nat
    PROVE  IsFiniteSet({id} \X (1..n)) /\ Cardinality({id} \X (1..n)) = n
<1>1. IsFiniteSet({id}) /\ Cardinality({id}) = 1
  BY FS_Singleton
<1>2. IsFiniteSet(1..n) /\ Cardinality(1..n) = n
  BY FS_Interval
<1>3. /\ IsFiniteSet({id} \X (1..n))
      /\ Cardinality({id} \X (1..n)) = Cardinality({id}) * Cardinality(1..n)
  BY <1>1, <1>2, FS_Product, Zenon
<1>4. QED
  BY <1>1, <1>2, <1>3

\* A table with one more send stands for as many more coins as the send's
\* amount.  Read backwards, it is what removing a send does.
LEMMA CoinsOfOneMoreSend ==
    ASSUME NEW small, NEW large, NEW id, id \notin DOMAIN small,
           DOMAIN large = DOMAIN small \cup {id},
           \A other \in DOMAIN small : large[other].amount = small[other].amount,
           large[id].amount \in Nat,
           IsFiniteSet(CoinsOf(small))
    PROVE  /\ IsFiniteSet(CoinsOf(large))
           /\ Cardinality(CoinsOf(large)) = Cardinality(CoinsOf(small)) + large[id].amount
<1> DEFINE new == {id} \X (1..large[id].amount)
<1>1. CoinsOf(large) = CoinsOf(small) \cup new
  BY DEF CoinsOf
<1>2. CoinsOf(small) \cap new = {}
  BY DEF CoinsOf
<1>3. IsFiniteSet(new) /\ Cardinality(new) = large[id].amount
  BY CoinsOfOneSend
<1>4. Cardinality(CoinsOf(small) \cap new) = 0
  BY <1>2, FS_EmptySet
<1>5. /\ IsFiniteSet(CoinsOf(small) \cup new)
      /\ Cardinality(CoinsOf(small) \cup new)
           = Cardinality(CoinsOf(small)) + Cardinality(new)
               - Cardinality(CoinsOf(small) \cap new)
  <2> HIDE DEF new
  <2>1. QED BY <1>3, FS_Union, Zenon
<1>6. Cardinality(CoinsOf(small)) \in Nat
  BY FS_CardinalityType
<1>7. QED
  BY <1>1, <1>3, <1>4, <1>5, <1>6

\* A send that leaves a table takes its own coins along, and a table never
\* stands for fewer coins than one of its sends.
LEMMA CoinsOfOneFewerSend ==
    ASSUME NEW table, NEW id \in DOMAIN table, table[id].amount \in Nat,
           IsFiniteSet(CoinsOf(table))
    PROVE  /\ IsFiniteSet(CoinsOf(Remove(table, id)))
           /\ Cardinality(CoinsOf(table))
                = Cardinality(CoinsOf(Remove(table, id))) + table[id].amount
           /\ Cardinality(CoinsOf(Remove(table, id))) \in Nat
<1> DEFINE rest == Remove(table, id)
<1>1. /\ DOMAIN rest = DOMAIN table \ {id}
      /\ \A other \in DOMAIN rest : rest[other] = table[other]
  BY DEF Remove, Restrict
<1>2. CoinsOf(rest) \subseteq CoinsOf(table)
  BY <1>1 DEF CoinsOf
<1>3. IsFiniteSet(CoinsOf(rest))
  BY <1>2, FS_Subset
<1>4. DOMAIN table = DOMAIN rest \cup {id} /\ id \notin DOMAIN rest
  BY <1>1
<1>5. \A other \in DOMAIN rest : table[other].amount = rest[other].amount
  BY <1>1
<1>6. Cardinality(CoinsOf(table)) = Cardinality(CoinsOf(rest)) + table[id].amount
  <2> HIDE DEF rest
  <2>1. QED BY <1>3, <1>4, <1>5, CoinsOfOneMoreSend
<1>7. QED
  BY <1>3, <1>6, FS_CardinalityType

-----------------------------------------------------------------------------
(* Types.                                                                  *)

\* The loop's work list exists only while the end-blocker runs.
DueOnlyInEndBlock == phase # "endblock" => due = {}
TypeInv == TypeOK /\ DueOnlyInEndBlock

LEMMA AccountsKnown ==
    /\ User \subseteq Account /\ Holding \in Account
    /\ Holding \notin User /\ Holding \notin Blocked
BY AccountsAssumption DEF Account

\* A covered transfer leaves every balance a natural number.
LEMMA MoveCoinsKeepsBalances ==
    ASSUME balance \in [Account -> Nat],
           NEW from \in Account, NEW to \in Account, NEW amount \in Nat,
           HasCoins(from, amount), MoveCoins(from, to, amount)
    PROVE  balance' \in [Account -> Nat]
BY DEF HasCoins, MoveCoins

\* An execution time fits an int64, wrapped round or not.
LEMMA ExecuteAtIsInt64 ==
    ASSUME now \in 0..MaxTime, params \in Params, NEW window \in Window
    PROVE  ExecuteAt(window) \in -HalfRange..HalfRange - 1
<1> DEFINE w == EffectiveWindow(window)
           x == Int64(w)
<1>1. w \in 0..2 * HalfRange - 1
  BY MessagesAssumption DEF EffectiveWindow, Params, Uint64
<1>2. x \in -HalfRange..HalfRange - 1
  <2> HIDE DEF w
  <2>1. QED BY <1>1, NumbersAssumption DEF Int64
<1>3. now + x \in -HalfRange..2 * HalfRange - 1
  <2> HIDE DEF x
  <2>1. QED BY <1>2, NumbersAssumption
<1>4. Int64(now + x) \in -HalfRange..HalfRange - 1
  <2> HIDE DEF x
  <2>1. QED BY <1>2, <1>3, NumbersAssumption DEF Int64
<1>5. QED
  BY <1>4 DEF ExecuteAt

\* A tally is always a tally, and so is what the handlers make of it.
LEMMA BumpKeepsTallies ==
    ASSUME TypeOK, NEW creator \in User, NEW tally \in Tally, Bump(creator, tally)
    PROVE  /\ DOMAIN record' \subseteq User
           /\ record' \in [DOMAIN record' -> Tally]
BY DEF TypeOK, Bump, Put

LEMMA getRecordIsTally ==
    ASSUME TypeOK, NEW addr
    PROVE  getRecord(addr) \in Tally
BY DEF TypeOK, getRecord, Tally

\* A send that leaves the table leaves a table of sends.
LEMMA RemoveKeepsSends ==
    ASSUME TypeOK, NEW id \in DOMAIN pending, pending' = Remove(pending, id)
    PROVE  /\ DOMAIN pending' = DOMAIN pending \ {id}
           /\ pending' \in [DOMAIN pending' -> Send]
           /\ \A other \in DOMAIN pending' : pending'[other] = pending[other]
BY DEF TypeOK, Remove, Restrict

LEMMA EmitKeepsStories ==
    ASSUME TypeOK, NEW id \in DOMAIN pending,
           NEW fate \in {"pending", "cancelled", "final"}, Emit(id, fate)
    PROVE  history' \in [0..pendingSeq - 1 -> Story]
<1>1. history[id] \in Story
  BY DEF TypeOK
<1>2. [history[id] EXCEPT !.fate = fate] \in Story
  BY <1>1 DEF Story
<1>3. QED
  BY <1>2 DEF TypeOK, Emit

LEMMA TypeInvInit == Init => TypeInv
BY NumbersAssumption, GenesisAssumption DEF Init, TypeInv, TypeOK, DueOnlyInEndBlock

LEMMA TypeInvStep == TypeInv /\ [Next]_vars => TypeInv'
<1> SUFFICES ASSUME TypeInv, [Next]_vars PROVE TypeInv'
  OBVIOUS
<1> USE DEF TypeInv
<1>1. CASE UNCHANGED vars
  BY <1>1 DEF vars, TypeOK, DueOnlyInEndBlock
<1>2. CASE BeginBlock
  BY <1>2, NumbersAssumption DEF BeginBlock, TypeOK, DueOnlyInEndBlock
<1>3. ASSUME NEW creator \in User, NEW recipient \in Account, NEW amount \in Amount,
             NEW window \in Window, phase = "messages", amount > 0,
             SendFinal(creator, recipient, amount, window)
      PROVE  TypeInv'
  <2>1. balance' \in [Account -> Nat]
    BY <1>3, MessagesAssumption, AccountsKnown, MoveCoinsKeepsBalances
       DEF SendFinal, SendCoins, TypeOK
  <2>2. QED
    BY <1>3, <2>1 DEF SendFinal, TypeOK, DueOnlyInEndBlock
<1>4. ASSUME NEW creator \in User, NEW recipient \in Account, NEW amount \in Amount,
             NEW window \in Window, phase = "messages", amount > 0,
             SendUndoable(creator, recipient, amount, window)
      PROVE  TypeInv'
  <2> DEFINE p == [sender |-> creator, recipient |-> recipient,
                   amount |-> amount, executeat |-> ExecuteAt(window)]
             story == [sender |-> creator, earliest |-> now + params.minwindow,
                       fate |-> "pending"]
  <2>1. balance' \in [Account -> Nat]
    BY <1>4, MessagesAssumption, AccountsKnown, MoveCoinsKeepsBalances
       DEF SendUndoable, SendCoinsFromAccountToModule, TypeOK
  <2>2. pendingSeq' = pendingSeq + 1 /\ pendingSeq' \in 0..MaxSends
    BY <1>4, NumbersAssumption DEF SendUndoable, NextId, TypeOK
  <2>3. p \in Send
    BY <1>4, MessagesAssumption, ExecuteAtIsInt64 DEF TypeOK, Send
  <2>4. pending' = Put(pending, pendingSeq, p)
    BY <1>4 DEF SendUndoable
  <2>5. /\ DOMAIN pending' = DOMAIN pending \cup {pendingSeq}
        /\ pending' \in [DOMAIN pending' -> Send]
    <3> HIDE DEF p
    <3>1. QED BY <2>3, <2>4 DEF TypeOK, Put
  <2>6. DOMAIN pending' \subseteq 0..pendingSeq' - 1
    BY <2>2, <2>5 DEF TypeOK
  <2>7. story \in Story
    BY NumbersAssumption DEF TypeOK, Params, Uint64, Story
  <2>8. history' = Put(history, pendingSeq, story)
    BY <1>4 DEF SendUndoable
  <2>9. history' \in [0..pendingSeq' - 1 -> Story]
    <3> HIDE DEF story
    <3>1. 0..pendingSeq' - 1 = (0..pendingSeq - 1) \cup {pendingSeq}
      BY <2>2 DEF TypeOK
    <3>2. QED
      BY <2>7, <2>8, <3>1 DEF TypeOK, Put
  <2>10. [getRecord(creator) EXCEPT !.sent = @ + 1] \in Tally
    BY getRecordIsTally DEF Tally
  <2>11. DOMAIN record' \subseteq User /\ record' \in [DOMAIN record' -> Tally]
    BY <1>4, <2>10, BumpKeepsTallies DEF SendUndoable
  <2>12. QED
    BY <1>4, <2>1, <2>2, <2>5, <2>6, <2>9, <2>11
       DEF SendUndoable, TypeOK, DueOnlyInEndBlock
<1>5. ASSUME NEW creator \in User, NEW id \in DOMAIN pending, CancelSend(creator, id)
      PROVE  TypeInv'
  <2>1. balance' \in [Account -> Nat]
    <3>1. pending[id].amount \in Nat
      BY DEF TypeOK, Send
    <3>2. QED
      BY <1>5, <3>1, AccountsKnown, MoveCoinsKeepsBalances
         DEF CancelSend, SendCoinsFromModuleToAccount, CanPayOut, TypeOK
  <2>2. DOMAIN pending' \subseteq DOMAIN pending /\ pending' \in [DOMAIN pending' -> Send]
    BY <1>5, RemoveKeepsSends DEF CancelSend
  <2>3. history' \in [0..pendingSeq - 1 -> Story]
    BY <1>5, EmitKeepsStories DEF CancelSend
  <2>4. [getRecord(creator) EXCEPT !.cancelled = @ + 1] \in Tally
    BY getRecordIsTally DEF Tally
  <2>5. DOMAIN record' \subseteq User /\ record' \in [DOMAIN record' -> Tally]
    BY <1>5, <2>4, BumpKeepsTallies DEF CancelSend
  <2>6. QED
    BY <1>5, <2>1, <2>2, <2>3, <2>5 DEF CancelSend, TypeOK, DueOnlyInEndBlock
<1>6. ASSUME NEW creator \in User, NEW finalonly \in BOOLEAN,
             SetFinalOnly(creator, finalonly)
      PROVE  TypeInv'
  <2>1. [getRecord(creator) EXCEPT !.finalonly = finalonly] \in Tally
    BY getRecordIsTally DEF Tally
  <2>2. DOMAIN record' \subseteq User /\ record' \in [DOMAIN record' -> Tally]
    BY <1>6, <2>1, BumpKeepsTallies DEF SetFinalOnly
  <2>3. QED
    BY <1>6, <2>2 DEF SetFinalOnly, TypeOK, DueOnlyInEndBlock
<1>7. ASSUME NEW signer, NEW p \in ParamChoice, UpdateParams(signer, p)
      PROVE  TypeInv'
  BY <1>7, MessagesAssumption DEF UpdateParams, TypeOK, DueOnlyInEndBlock
<1>8. ASSUME NEW from \in User, NEW to \in Account, NEW amount \in Gift,
             BankSend(from, to, amount)
      PROVE  TypeInv'
  <2>1. balance' \in [Account -> Nat]
    BY <1>8, MessagesAssumption, AccountsKnown, MoveCoinsKeepsBalances
       DEF BankSend, SendCoins, TypeOK
  <2>2. QED
    BY <1>8, <2>1 DEF BankSend, TypeOK, DueOnlyInEndBlock
<1>9. CASE CollectDue
  BY <1>9 DEF CollectDue, TypeOK, DueOnlyInEndBlock
<1>10. ASSUME NEW id \in due, execute(id)
       PROVE  TypeInv'
  <2>1. id \in DOMAIN pending
    BY DEF TypeOK
  <2>2. balance' \in [Account -> Nat]
    <3>1. pending[id].amount \in Nat /\ pending[id].recipient \in Account
      BY <2>1 DEF TypeOK, Send
    <3>2. QED
      BY <1>10, <3>1, AccountsKnown, MoveCoinsKeepsBalances
         DEF execute, SendCoinsFromModuleToAccount, CanPayOut, TypeOK
  <2>3. DOMAIN pending' = DOMAIN pending \ {id} /\ pending' \in [DOMAIN pending' -> Send]
    BY <1>10, <2>1, RemoveKeepsSends DEF execute
  <2>4. history' \in [0..pendingSeq - 1 -> Story]
    BY <1>10, <2>1, EmitKeepsStories DEF execute
  <2>5. QED
    BY <1>10, <2>2, <2>3, <2>4 DEF execute, NextDue, TypeOK, DueOnlyInEndBlock
<1>11. ASSUME NEW id \in due, ExecuteFails(id)
       PROVE  TypeInv'
  BY <1>11 DEF ExecuteFails, NextDue, TypeOK, DueOnlyInEndBlock
<1>12. CASE Commit
  BY <1>12 DEF Commit, TypeOK, DueOnlyInEndBlock
<1>13. QED
  BY <1>1, <1>2, <1>3, <1>4, <1>5, <1>6, <1>7, <1>8, <1>9, <1>10, <1>11, <1>12
     DEF Next, Message, EndBlocker, DelayedSend

\* Every reachable state holds what the code's types hold.
THEOREM TypeCorrect == Spec => []TypeOK
<1>1. TypeInv => TypeOK
  BY DEF TypeInv
<1>2. QED
  BY <1>1, TypeInvInit, TypeInvStep, PTL DEF Spec

-----------------------------------------------------------------------------
(* Coins.                                                                  *)

\* The only three things a step can do to holding and the sends it is for.
HoldingUntouched ==
    pending' = pending /\ balance'[Holding] >= balance[Holding]
SendParked(p) ==
    /\ pendingSeq \notin DOMAIN pending
    /\ UnderCap(p.sender)
    /\ ~FinalOnly(p.recipient)
    /\ pending' = Put(pending, pendingSeq, p)
    /\ balance' = [balance EXCEPT ![p.sender] = @ - p.amount,
                                  ![Holding] = @ + p.amount]
SendPaid(id, payee) ==
    /\ pending' = Remove(pending, id)
    /\ balance[Holding] >= pending[id].amount
    /\ balance' = [balance EXCEPT ![Holding] = @ - pending[id].amount,
                                  ![payee] = @ + pending[id].amount]
Payee(id) == IF phase = "messages" THEN pending[id].sender ELSE pending[id].recipient

LEMMA HoldingStep ==
    ASSUME TypeInv, [Next]_vars
    PROVE  \/ HoldingUntouched
           \/ \E p \in Send : SendParked(p)
           \/ \E id \in DOMAIN pending : SendPaid(id, Payee(id))
<1> USE DEF TypeInv
<1>1. ASSUME UNCHANGED <<pending, balance>> PROVE HoldingUntouched
  BY <1>1, AccountsKnown DEF HoldingUntouched, TypeOK
<1>2. ASSUME NEW from \in User, NEW to \in Account, NEW amount \in Nat,
             SendCoins(from, to, amount), UNCHANGED pending
      PROVE  HoldingUntouched
  <2>1. from # Holding /\ from \in Account /\ Holding \in Account
    BY AccountsKnown
  <2>2. balance \in [Account -> Nat]
    BY DEF TypeOK
  <2>3. balance' = [balance EXCEPT ![from] = @ - amount, ![to] = @ + amount]
    BY <1>2 DEF SendCoins, MoveCoins
  <2>4. balance'[Holding] = IF to = Holding THEN balance[Holding] + amount
                                            ELSE balance[Holding]
    BY <2>1, <2>2, <2>3
  <2>5. balance'[Holding] >= balance[Holding]
    BY <2>1, <2>2, <2>4
  <2>6. QED
    BY <1>2, <2>5 DEF HoldingUntouched
<1>3. ASSUME NEW creator \in User, NEW recipient \in Account, NEW amount \in Amount,
             NEW window \in Window, ~FinalOnly(recipient),
             SendUndoable(creator, recipient, amount, window)
      PROVE  \E p \in Send : SendParked(p)
  <2> DEFINE p == [sender |-> creator, recipient |-> recipient,
                   amount |-> amount, executeat |-> ExecuteAt(window)]
  <2>1. p \in Send
    BY MessagesAssumption, ExecuteAtIsInt64 DEF TypeOK, Send
  <2>2. pendingSeq \notin DOMAIN pending
    BY DEF TypeOK
  <2>3. SendParked(p)
    BY <1>3, <2>2
       DEF SendParked, SendUndoable, SendCoinsFromAccountToModule, MoveCoins
  <2>4. QED
    BY <2>1, <2>3
<1>4. ASSUME NEW creator, NEW id \in DOMAIN pending, CancelSend(creator, id)
      PROVE  SendPaid(id, Payee(id))
  BY <1>4 DEF CancelSend, SendPaid, Payee, SendCoinsFromModuleToAccount,
              CanPayOut, HasCoins, MoveCoins
<1>5. ASSUME NEW id \in due, execute(id)
      PROVE  id \in DOMAIN pending /\ SendPaid(id, Payee(id))
  BY <1>5 DEF execute, NextDue, SendPaid, Payee, SendCoinsFromModuleToAccount,
              CanPayOut, HasCoins, MoveCoins, TypeOK
<1>6. CASE UNCHANGED vars
  BY <1>1, <1>6 DEF vars
<1>7. CASE BeginBlock
  BY <1>1, <1>7 DEF BeginBlock
<1>8. CASE Message
  <2>1. ASSUME NEW creator \in User, NEW recipient \in Account, NEW amount \in Amount,
               NEW window \in Window, DelayedSend(creator, recipient, amount, window)
        PROVE  HoldingUntouched \/ \E p \in Send : SendParked(p)
    BY <2>1, <1>2, <1>3, MessagesAssumption DEF DelayedSend, SendFinal
  <2>2. ASSUME NEW creator, NEW finalonly, SetFinalOnly(creator, finalonly)
        PROVE  HoldingUntouched
    BY <2>2, <1>1 DEF SetFinalOnly
  <2>3. ASSUME NEW signer, NEW p, UpdateParams(signer, p)
        PROVE  HoldingUntouched
    BY <2>3, <1>1 DEF UpdateParams
  <2>4. ASSUME NEW from \in User, NEW to \in Account, NEW amount \in Gift,
               BankSend(from, to, amount)
        PROVE  HoldingUntouched
    BY <2>4, <1>2, MessagesAssumption DEF BankSend
  <2>5. QED
    BY <1>8, <1>4, <2>1, <2>2, <2>3, <2>4 DEF Message
<1>9. CASE EndBlocker
  <2>1. ASSUME CollectDue \/ Commit \/ \E id \in due : ExecuteFails(id)
        PROVE  HoldingUntouched
    BY <2>1, <1>1 DEF CollectDue, Commit, ExecuteFails
  <2>2. QED
    BY <1>9, <1>5, <2>1 DEF EndBlocker
<1>10. QED
  BY <1>6, <1>7, <1>8, <1>9 DEF Next

\* Solvency is inductive together with the finiteness of what is owed.
CoinInv == IsFiniteSet(CoinsOf(pending)) /\ Solvent

LEMMA CoinInvInit == Init => CoinInv
<1> SUFFICES ASSUME Init PROVE CoinInv
  OBVIOUS
<1>1. CoinsOf(pending) = {}
  BY DEF Init, CoinsOf
<1>2. IsFiniteSet(CoinsOf(pending)) /\ Cardinality(CoinsOf(pending)) = 0
  BY <1>1, FS_EmptySet
<1>3. balance[Holding] \in Nat
  BY AccountsKnown, GenesisAssumption DEF Init
<1>4. QED
  BY <1>2, <1>3 DEF CoinInv, Solvent, Owed

LEMMA CoinInvStep == TypeInv /\ CoinInv /\ [Next]_vars => CoinInv'
<1> SUFFICES ASSUME TypeInv, CoinInv, [Next]_vars PROVE CoinInv'
  OBVIOUS
<1>1. /\ IsFiniteSet(CoinsOf(pending)) /\ Owed \in Nat
      /\ balance \in [Account -> Nat] /\ balance[Holding] \in Nat
      /\ balance[Holding] >= Owed
  BY FS_CardinalityType, AccountsKnown DEF CoinInv, Solvent, Owed, TypeInv, TypeOK
<1>2. CASE HoldingUntouched
  <2>1. TypeInv'
    BY TypeInvStep
  <2>2. balance'[Holding] \in Nat
    BY <2>1, AccountsKnown DEF TypeInv, TypeOK
  <2>3. QED
    BY <1>1, <1>2, <2>2 DEF HoldingUntouched, CoinInv, Solvent, Owed
<1>3. ASSUME NEW p \in Send, SendParked(p) PROVE CoinInv'
  <2>1. /\ DOMAIN pending' = DOMAIN pending \cup {pendingSeq}
        /\ pending'[pendingSeq] = p
        /\ \A other \in DOMAIN pending : pending'[other].amount = pending[other].amount
    BY <1>3 DEF SendParked, Put
  <2>2. /\ pendingSeq \notin DOMAIN pending
        /\ pending'[pendingSeq].amount \in Nat /\ p.amount \in Nat
    BY <1>3, <2>1 DEF SendParked, Send
  <2>3. IsFiniteSet(CoinsOf(pending')) /\ Cardinality(CoinsOf(pending')) = Owed + p.amount
    BY <1>1, <2>1, <2>2, CoinsOfOneMoreSend DEF Owed
  <2>4. p.sender # Holding
    BY AccountsKnown DEF Send
  <2>5. balance'[Holding] = balance[Holding] + p.amount
    BY <1>1, <1>3, <2>4, AccountsKnown DEF SendParked
  <2>6. QED
    BY <1>1, <2>2, <2>3, <2>5 DEF CoinInv, Solvent, Owed
<1>4. ASSUME NEW id \in DOMAIN pending, SendPaid(id, Payee(id)) PROVE CoinInv'
  <2>1. pending[id].amount \in Nat
    BY DEF TypeInv, TypeOK, Send
  <2>2. /\ IsFiniteSet(CoinsOf(pending'))
        /\ Owed = Cardinality(CoinsOf(pending')) + pending[id].amount
        /\ Cardinality(CoinsOf(pending')) \in Nat
    BY <1>1, <1>4, <2>1, CoinsOfOneFewerSend DEF SendPaid, Owed
  <2>3. /\ balance'[Holding] \in Nat
        /\ balance'[Holding] >= balance[Holding] - pending[id].amount
    BY <1>1, <1>4, <2>1, AccountsKnown DEF SendPaid
  <2>4. QED
    BY <1>1, <2>1, <2>2, <2>3 DEF CoinInv, Solvent, Owed
<1>5. QED
  BY <1>2, <1>3, <1>4, HoldingStep

\* The holding account can pay every send in flight, in every reachable state.
THEOREM AlwaysSolvent == Spec => []Solvent
<1>1. Init => TypeInv /\ CoinInv
  BY TypeInvInit, CoinInvInit
<1>2. TypeInv /\ CoinInv /\ [Next]_vars => (TypeInv /\ CoinInv)'
  BY TypeInvStep, CoinInvStep
<1>3. CoinInv => Solvent
  BY DEF CoinInv
<1>4. QED
  BY <1>1, <1>2, <1>3, PTL DEF Spec

\* Sends leave the table paid, once, to the right party; nothing else takes coins
\* out of holding.
THEOREM RightPartyPaid == Spec => HoldingPaysTheRightParty
<1> DEFINE Paid == (DOMAIN pending \ DOMAIN pending' # {} \/ balance'[Holding] < balance[Holding])
                     => \E id \in DOMAIN pending :
                          PaidTo(id, IF phase = "messages" THEN pending[id].sender
                                                           ELSE pending[id].recipient)
<1>1. TypeInv /\ [Next]_vars => [Paid]_vars
  <2> SUFFICES ASSUME TypeInv, [Next]_vars PROVE Paid
    OBVIOUS
  <2>0. TypeInv'
    BY TypeInvStep
  <2>b. balance \in [Account -> Nat] /\ balance[Holding] \in Nat /\ balance'[Holding] \in Nat
    BY <2>0, AccountsKnown DEF TypeInv, TypeOK
  <2>1. CASE HoldingUntouched
    BY <2>1, <2>b DEF HoldingUntouched
  <2>2. ASSUME NEW p \in Send, SendParked(p) PROVE Paid
    <3>1. DOMAIN pending \subseteq DOMAIN pending'
      BY <2>2 DEF SendParked, Put
    <3>2. p.sender # Holding /\ p.amount \in Nat
      BY AccountsKnown DEF Send
    <3>3. balance'[Holding] = balance[Holding] + p.amount
      BY <2>2, <2>b, <3>2, AccountsKnown DEF SendParked
    <3>4. QED
      BY <2>b, <3>1, <3>2, <3>3
  <2>3. ASSUME NEW id \in DOMAIN pending, SendPaid(id, Payee(id)) PROVE Paid
    BY <2>3 DEF SendPaid, PaidTo, Payee, Remove, Restrict
  <2>4. QED
    BY <2>1, <2>2, <2>3, HoldingStep
<1>2. QED
  BY <1>1, TypeInvInit, TypeInvStep, PTL DEF Spec, HoldingPaysTheRightParty

-----------------------------------------------------------------------------
(* The cap.                                                                *)

LEMMA TablesAreFinite ==
    ASSUME TypeOK
    PROVE  IsFiniteSet(DOMAIN pending) /\ IsFiniteSet(DOMAIN history)
<1>1. IsFiniteSet(0..pendingSeq - 1)
  <2>1. 0 \in Int /\ pendingSeq - 1 \in Int
    BY NumbersAssumption DEF TypeOK
  <2>2. QED
    BY <2>1, FS_Interval
<1>2. DOMAIN pending \in SUBSET (0..pendingSeq - 1)
  BY DEF TypeOK
<1>3. DOMAIN history = 0..pendingSeq - 1
  BY DEF TypeOK
<1>4. IsFiniteSet(DOMAIN pending)
  BY <1>1, <1>2, FS_Subset, Zenon
<1>5. QED
  BY <1>1, <1>3, <1>4

LEMMA OpenIsFinite ==
    ASSUME TypeOK, NEW addr
    PROVE  IsFiniteSet(OpenOf(addr)) /\ countOpen(addr) \in Nat
<1>1. OpenOf(addr) \subseteq DOMAIN pending
  BY DEF OpenOf
<1>2. IsFiniteSet(OpenOf(addr))
  BY <1>1, TablesAreFinite, FS_Subset
<1>3. QED
  BY <1>2, FS_CardinalityType DEF countOpen

\* What parking a send and settling one do to the open sends of an address.
LEMMA ParkingOpens ==
    ASSUME TypeOK, NEW p \in Send, NEW addr, pendingSeq \notin DOMAIN pending,
           pending' = Put(pending, pendingSeq, p)
    PROVE  countOpen(addr)' = IF p.sender = addr THEN countOpen(addr) + 1
                                                 ELSE countOpen(addr)
<1>1. OpenOf(addr)' = IF p.sender = addr THEN OpenOf(addr) \cup {pendingSeq}
                                         ELSE OpenOf(addr)
  BY DEF OpenOf, Put
<1>2. pendingSeq \notin OpenOf(addr)
  BY DEF OpenOf
<1>3. Cardinality(OpenOf(addr) \cup {pendingSeq}) = Cardinality(OpenOf(addr)) + 1
  BY <1>2, OpenIsFinite, FS_AddElement
<1>4. QED
  BY <1>1, <1>3 DEF countOpen

LEMMA SettlingCloses ==
    ASSUME TypeOK, NEW id \in DOMAIN pending, NEW addr, pending' = Remove(pending, id)
    PROVE  countOpen(addr)' = IF pending[id].sender = addr THEN countOpen(addr) - 1
                                                           ELSE countOpen(addr)
<1>1. OpenOf(addr)' = OpenOf(addr) \ {id}
  BY DEF OpenOf, Remove, Restrict
<1>2. id \in OpenOf(addr) <=> pending[id].sender = addr
  BY DEF OpenOf
<1>3. Cardinality(OpenOf(addr) \ {id}) =
        IF id \in OpenOf(addr) THEN Cardinality(OpenOf(addr)) - 1
                               ELSE Cardinality(OpenOf(addr))
  BY OpenIsFinite, FS_RemoveElement
<1>4. QED
  BY <1>1, <1>2, <1>3 DEF countOpen

\* Nobody has more sends in flight than the cap, at the start and after a step.
LEMMA WithinCapInit == Init => WithinCap
<1> SUFFICES ASSUME Init, NEW addr \in User PROVE countOpen(addr) <= MaxOpenPerSender
  BY DEF WithinCap
<1>1. OpenOf(addr) = {}
  BY DEF Init, OpenOf
<1>2. QED
  BY <1>1, FS_EmptySet, NumbersAssumption DEF countOpen

LEMMA WithinCapStep == TypeInv /\ WithinCap /\ [Next]_vars => WithinCap'
<1> SUFFICES ASSUME TypeInv, WithinCap, [Next]_vars, NEW addr \in User
             PROVE  countOpen(addr)' <= MaxOpenPerSender
  BY DEF WithinCap
<1>1. /\ TypeOK /\ countOpen(addr) \in Nat /\ MaxOpenPerSender \in Nat
      /\ countOpen(addr) <= MaxOpenPerSender
  BY OpenIsFinite, NumbersAssumption DEF TypeInv, WithinCap
<1>2. CASE HoldingUntouched
  BY <1>1, <1>2 DEF HoldingUntouched, countOpen, OpenOf
<1>3. ASSUME NEW p \in Send, SendParked(p)
      PROVE  countOpen(addr)' <= MaxOpenPerSender
  BY <1>1, <1>3, ParkingOpens DEF SendParked, UnderCap
<1>4. ASSUME NEW id \in DOMAIN pending, SendPaid(id, Payee(id))
      PROVE  countOpen(addr)' <= MaxOpenPerSender
  BY <1>1, <1>4, SettlingCloses DEF SendPaid
<1>5. QED
  BY <1>2, <1>3, <1>4, HoldingStep

\* No address ever has more than MaxOpenPerSender sends in flight.
THEOREM AlwaysWithinCap == Spec => []WithinCap
BY WithinCapInit, WithinCapStep, TypeInvInit, TypeInvStep, PTL DEF Spec

\* A send in flight keeps its terms.
THEOREM TermsKept == Spec => TermsNeverChange
<1>1. TypeInv /\ [Next]_vars =>
        \A id \in DOMAIN pending \cap DOMAIN pending' : pending'[id] = pending[id]
  <2> SUFFICES ASSUME TypeInv, [Next]_vars, NEW id \in DOMAIN pending,
                      id \in DOMAIN pending'
               PROVE  pending'[id] = pending[id]
    OBVIOUS
  <2>1. CASE HoldingUntouched
    BY <2>1 DEF HoldingUntouched
  <2>2. ASSUME NEW p \in Send, SendParked(p) PROVE pending'[id] = pending[id]
    BY <2>2 DEF SendParked, Put
  <2>3. ASSUME NEW i \in DOMAIN pending, SendPaid(i, Payee(i))
        PROVE  pending'[id] = pending[id]
    BY <2>3 DEF SendPaid, Remove, Restrict
  <2>4. QED
    BY <2>1, <2>2, <2>3, HoldingStep
<1>2. QED
  BY <1>1, TypeInvInit, TypeInvStep, PTL DEF Spec, TermsNeverChange

\* The queue of a final-only address only shrinks.
THEOREM ShopsAreSafe == Spec => ShopQueueOnlyShrinks
<1>1. TypeInv /\ [Next]_vars =>
        \A addr \in User : getRecord(addr).finalonly /\ getRecord(addr)'.finalonly
                              => PromisedTo(addr)' \subseteq PromisedTo(addr)
  <2> SUFFICES ASSUME TypeInv, [Next]_vars, NEW addr \in User, FinalOnly(addr)
               PROVE  PromisedTo(addr)' \subseteq PromisedTo(addr)
    BY DEF FinalOnly
  <2>1. CASE HoldingUntouched
    BY <2>1 DEF HoldingUntouched, PromisedTo
  <2>2. ASSUME NEW p \in Send, SendParked(p)
        PROVE  PromisedTo(addr)' \subseteq PromisedTo(addr)
    BY <2>2 DEF SendParked, Put, PromisedTo
  <2>3. ASSUME NEW i \in DOMAIN pending, SendPaid(i, Payee(i))
        PROVE  PromisedTo(addr)' \subseteq PromisedTo(addr)
    BY <2>3 DEF SendPaid, Remove, Restrict, PromisedTo
  <2>4. QED
    BY <2>1, <2>2, <2>3, HoldingStep
<1>2. QED
  BY <1>1, TypeInvInit, TypeInvStep, PTL DEF Spec, ShopQueueOnlyShrinks

-----------------------------------------------------------------------------
(* Overdue sends.                                                          *)

\* While the end-blocker runs, every send that is due is still on its list, or
\* has failed because of the block list.
OverdueInv ==
    /\ NothingOverdue
    /\ phase = "endblock" =>
          \A id \in DOMAIN pending :
              pending[id].executeat > now \/ id \in due \/ pending[id].recipient \in Blocked

LEMMA OverdueInvStep == TypeInv /\ CoinInv /\ OverdueInv /\ [Next]_vars => OverdueInv'
<1> SUFFICES ASSUME TypeInv, CoinInv, OverdueInv, [Next]_vars PROVE OverdueInv'
  OBVIOUS
<1> USE DEF TypeInv
<1>1. CASE UNCHANGED vars
  BY <1>1 DEF vars, OverdueInv, NothingOverdue
<1>2. CASE BeginBlock
  BY <1>2 DEF BeginBlock, OverdueInv, NothingOverdue
<1>3. CASE Message
  <2>1. phase' = "messages"
    BY <1>3 DEF Message, DelayedSend, SendFinal, SendUndoable, CancelSend,
                SetFinalOnly, UpdateParams, BankSend
  <2>2. QED
    BY <2>1 DEF OverdueInv, NothingOverdue
<1>4. CASE CollectDue
  <2>1. \A id \in DOMAIN pending : pending[id].executeat \in Int
    BY NumbersAssumption DEF TypeOK, Send
  <2>2. now \in Int
    BY NumbersAssumption DEF TypeOK
  <2>3. QED
    BY <1>4, <2>1, <2>2 DEF CollectDue, IsDue, OverdueInv, NothingOverdue
<1>5. ASSUME NEW id \in due, execute(id) PROVE OverdueInv'
  BY <1>5 DEF execute, NextDue, Remove, Restrict, OverdueInv, NothingOverdue
<1>6. ASSUME NEW id \in due, ExecuteFails(id) PROVE OverdueInv'
  <2>1. id \in DOMAIN pending /\ pending[id].amount \in Nat
    BY DEF TypeOK, Send
  <2>2. Owed >= pending[id].amount /\ Owed \in Nat
    BY <2>1, CoinsOfOneFewerSend DEF CoinInv, Owed
  <2>3. balance[Holding] >= pending[id].amount
    BY <2>1, <2>2, AccountsKnown DEF CoinInv, Solvent, TypeOK
  <2>4. pending[id].recipient \in Blocked
    BY <1>6, <2>3 DEF ExecuteFails, CanPayOut, HasCoins
  <2>5. QED
    BY <1>6, <2>4 DEF ExecuteFails, NextDue, OverdueInv, NothingOverdue
<1>7. CASE Commit
  BY <1>7 DEF Commit, OverdueInv, NothingOverdue
<1>8. QED
  BY <1>1, <1>2, <1>3, <1>4, <1>5, <1>6, <1>7 DEF Next, EndBlocker

\* After every block, only sends the bank will not pay out are overdue.
THEOREM NeverOverdue == Spec => []NothingOverdue
<1>1. Init => OverdueInv
  BY DEF Init, OverdueInv, NothingOverdue
<1>2. OverdueInv => NothingOverdue
  BY DEF OverdueInv
<1>3. QED
  BY <1>1, <1>2, OverdueInvStep, TypeInvInit, TypeInvStep, CoinInvInit, CoinInvStep,
     PTL DEF Spec

\* What is on the end-blocker's list is due.
DueInv == \A id \in due : now >= pending[id].executeat

LEMMA DueInvInit == Init => DueInv
BY DEF Init, DueInv

LEMMA DueInvStep == TypeInv /\ DueInv /\ [Next]_vars => DueInv'
<1> SUFFICES ASSUME TypeInv, DueInv, [Next]_vars PROVE DueInv'
  OBVIOUS
<1>1. ASSUME due = {}, due' = due PROVE DueInv'
  BY <1>1 DEF DueInv
<1>2. CASE Message \/ BeginBlock
  <2>1. due = {}
    BY <1>2 DEF TypeInv, DueOnlyInEndBlock, Message, BeginBlock, DelayedSend, CancelSend,
                SetFinalOnly, UpdateParams, BankSend
  <2>2. due' = due
    BY <1>2 DEF Message, BeginBlock, DelayedSend, SendFinal, SendUndoable, CancelSend,
                SetFinalOnly, UpdateParams, BankSend
  <2>3. QED
    BY <1>1, <2>1, <2>2
<1>3. CASE CollectDue
  BY <1>3 DEF CollectDue, IsDue, DueInv
<1>4. ASSUME NEW id \in due, execute(id) PROVE DueInv'
  BY <1>4 DEF execute, Remove, Restrict, DueInv, TypeInv, TypeOK
<1>5. CASE Commit \/ UNCHANGED vars \/ \E id \in due : ExecuteFails(id)
  BY <1>5 DEF Commit, vars, ExecuteFails, DueInv
<1>6. QED
  BY <1>2, <1>3, <1>4, <1>5 DEF Next, EndBlocker

-----------------------------------------------------------------------------
(* The minimum window.  It holds as long as no window reaches the end of   *)
(* an int64, which Params.Validate does not ensure.                        *)

WindowsFit ==
    \A p \in ParamChoice \cup {DefaultParams} :
        ValidParams(p) => p.maxwindow + MaxTime < HalfRange

\* Parameters are valid and small, and a send in flight executes no earlier than
\* its block promised.
WindowInv ==
    /\ ValidParams(params) /\ params.maxwindow + MaxTime < HalfRange
    /\ \A id \in DOMAIN pending : pending[id].executeat >= history[id].earliest

\* An execution time that fits is what it looks like.
LEMMA ExecuteAtFits ==
    ASSUME now \in 0..MaxTime, params \in Params, NEW window \in Window,
           params.maxwindow + MaxTime < HalfRange,
           EffectiveWindow(window) <= params.maxwindow
    PROVE  ExecuteAt(window) = now + EffectiveWindow(window)
<1> DEFINE w == EffectiveWindow(window)
<1>1. w \in 0..2 * HalfRange - 1 /\ params.maxwindow \in Nat
  BY NumbersAssumption, MessagesAssumption DEF EffectiveWindow, Params, Uint64
<1> HIDE DEF w
<1>2. w <= params.maxwindow
  BY DEF w
<1>3. Int64(w) = w
  BY <1>1, <1>2, NumbersAssumption DEF Int64
<1>4. Int64(now + w) = now + w
  BY <1>1, <1>2, NumbersAssumption DEF Int64
<1>5. QED
  BY <1>3, <1>4 DEF ExecuteAt, w

LEMMA WindowInvInit == Init /\ WindowsFit => WindowInv
BY GenesisAssumption DEF Init, WindowsFit, WindowInv

LEMMA WindowInvStep == WindowsFit /\ TypeInv /\ WindowInv /\ [Next]_vars => WindowInv'
<1> SUFFICES ASSUME WindowsFit, TypeInv, WindowInv, [Next]_vars PROVE WindowInv'
  OBVIOUS
<1> USE DEF TypeInv
<1>1. CASE UNCHANGED vars
  BY <1>1 DEF vars, WindowInv
<1>2. CASE BeginBlock
  BY <1>2 DEF BeginBlock, WindowInv
<1>3. ASSUME UNCHANGED <<params, pending, history>> PROVE WindowInv'
  BY <1>3 DEF WindowInv
<1>4. ASSUME NEW creator \in User, NEW recipient \in Account, NEW amount \in Amount,
             NEW window \in Window, phase = "messages",
             SendUndoable(creator, recipient, amount, window)
      PROVE  WindowInv'
  <2>1. ExecuteAt(window) = now + EffectiveWindow(window)
    BY <1>4, ExecuteAtFits DEF SendUndoable, TypeOK, WindowInv
  <2>2. EffectiveWindow(window) \in Nat /\ params.minwindow \in Nat /\ now \in Nat
    BY NumbersAssumption, MessagesAssumption DEF EffectiveWindow, Params, Uint64, TypeOK
  <2>3. ExecuteAt(window) >= now + params.minwindow
    BY <1>4, <2>1, <2>2 DEF SendUndoable
  <2>5. \A id \in DOMAIN pending : id # pendingSeq /\ id \in DOMAIN history
    BY DEF TypeOK
  <2>6. \A id \in DOMAIN pending' : pending'[id].executeat >= history'[id].earliest
    BY <1>4, <2>3, <2>5 DEF SendUndoable, Put, WindowInv
  <2>7. QED
    BY <1>4, <2>6 DEF SendUndoable, WindowInv
<1>5. ASSUME NEW id \in DOMAIN pending, NEW fate, pending' = Remove(pending, id),
             Emit(id, fate), UNCHANGED params
      PROVE  WindowInv'
  <2>1. \A other \in DOMAIN pending : history'[other].earliest = history[other].earliest
    BY <1>5 DEF Emit, TypeOK, Story
  <2>2. QED
    BY <1>5, <2>1 DEF WindowInv, Remove, Restrict, TypeOK
<1>6. ASSUME NEW creator \in User, NEW id \in DOMAIN pending, CancelSend(creator, id)
      PROVE  WindowInv'
  BY <1>5, <1>6 DEF CancelSend
<1>7. ASSUME NEW signer, NEW p \in ParamChoice, UpdateParams(signer, p)
      PROVE  WindowInv'
  BY <1>7 DEF UpdateParams, WindowsFit, WindowInv
<1>8. CASE CollectDue
  BY <1>3, <1>8 DEF CollectDue
<1>9. ASSUME NEW id \in due, execute(id) PROVE WindowInv'
  <2>1. id \in DOMAIN pending
    BY DEF TypeOK
  <2>2. QED
    BY <1>5, <1>9, <2>1 DEF execute
<1>10. ASSUME NEW id \in due, ExecuteFails(id) PROVE WindowInv'
  BY <1>3, <1>10 DEF ExecuteFails
<1>11. CASE Commit
  BY <1>3, <1>11 DEF Commit
<1>12. CASE Message
  <2>1. ASSUME NEW creator \in User, NEW finalonly, SetFinalOnly(creator, finalonly)
        PROVE  WindowInv'
    BY <1>3, <2>1 DEF SetFinalOnly
  <2>2. ASSUME NEW from, NEW to, NEW amount, BankSend(from, to, amount)
        PROVE  WindowInv'
    BY <1>3, <2>2 DEF BankSend
  <2>3. ASSUME NEW creator \in User, NEW recipient \in Account, NEW amount \in Amount,
               NEW window \in Window, DelayedSend(creator, recipient, amount, window)
        PROVE  WindowInv'
    BY <1>3, <1>4, <2>3 DEF DelayedSend, SendFinal
  <2>4. QED
    BY <1>6, <1>7, <1>12, <2>1, <2>2, <2>3 DEF Message
<1>13. QED
  BY <1>1, <1>2, <1>8, <1>9, <1>10, <1>11, <1>12 DEF Next, EndBlocker

\* If windows fit an int64, no send becomes final before its block's minimum
\* window has passed.
THEOREM WaitsItsWindow == WindowsFit => (Spec => NeverFinalEarly)
<1> SUFFICES ASSUME WindowsFit PROVE Spec => NeverFinalEarly
  OBVIOUS
<1> DEFINE NotEarly ==
      \A id \in DOMAIN history :
          history'[id].fate = "final" /\ history[id].fate # "final"
             => now >= history[id].earliest
<1>1. TypeInv /\ DueInv /\ WindowInv /\ [Next]_vars => [NotEarly]_vars
  <2> SUFFICES ASSUME TypeInv, DueInv, WindowInv, [Next]_vars, NEW id \in DOMAIN history,
                      history'[id].fate = "final", history[id].fate # "final"
               PROVE  now >= history[id].earliest
    OBVIOUS
  <2> USE DEF TypeInv
  <2>1. history'[id] # history[id]
    OBVIOUS
  <2>2. PICK i \in due : execute(i)
    <3>1. ASSUME NEW creator, NEW recipient, NEW amount, NEW window,
                 DelayedSend(creator, recipient, amount, window)
          PROVE  FALSE
      <4>1. id # pendingSeq
        BY DEF TypeOK
      <4>2. QED
        BY <2>1, <3>1, <4>1 DEF DelayedSend, SendFinal, SendUndoable, Put
    <3>2. ASSUME NEW creator, NEW i \in DOMAIN pending, CancelSend(creator, i)
          PROVE  FALSE
      <4>1. history[i] \in Story /\ id \in DOMAIN history
        BY DEF TypeOK
      <4>2. history'[id] = IF id = i THEN [history[i] EXCEPT !.fate = "cancelled"]
                                     ELSE history[id]
        BY <3>2, <4>1 DEF CancelSend, Emit
      <4>3. QED
        BY <4>1, <4>2 DEF Story
    <3>3. QED
      BY <2>1, <3>1, <3>2 DEF Next, Message, EndBlocker, vars, BeginBlock, SetFinalOnly,
         UpdateParams, BankSend, CollectDue, ExecuteFails, Commit
  <2>3. id = i
    BY <2>1, <2>2 DEF execute, Emit, TypeOK
  <2>4. /\ now >= pending[i].executeat
        /\ pending[i].executeat >= history[i].earliest
    BY DEF DueInv, WindowInv, TypeOK
  <2>5. /\ now \in Int /\ pending[i].executeat \in Int /\ history[i].earliest \in Int
    BY NumbersAssumption DEF TypeOK, Send, Story
  <2>6. QED
    BY <2>3, <2>4, <2>5
<1>2. Init => WindowInv
  BY WindowInvInit
<1>3. TypeInv /\ WindowInv /\ [Next]_vars => WindowInv'
  BY WindowInvStep
<1>4. QED
  BY <1>1, <1>2, <1>3, DueInvInit, DueInvStep, TypeInvInit, TypeInvStep, PTL
     DEF Spec, NeverFinalEarly

-----------------------------------------------------------------------------
(* The tally.                                                              *)

\* The table holds exactly the sends whose story is not over.
StoryInv ==
    \A id \in DOMAIN history :
        /\ id \in DOMAIN pending <=> history[id].fate = "pending"
        /\ id \in DOMAIN pending => pending[id].sender = history[id].sender

countFate(addr, fate) == Cardinality(FatesOf(addr, fate))

LEMMA FatesAreCounted ==
    ASSUME TypeOK, NEW addr, NEW fate
    PROVE  IsFiniteSet(FatesOf(addr, fate)) /\ countFate(addr, fate) \in Nat
<1>1. FatesOf(addr, fate) \subseteq DOMAIN history
  BY DEF FatesOf
<1>2. IsFiniteSet(FatesOf(addr, fate))
  BY <1>1, TablesAreFinite, FS_Subset
<1>3. QED
  BY <1>2, FS_CardinalityType DEF countFate

\* A new send adds to no fate that has been met.
LEMMA ParkingMeetsNoFate ==
    ASSUME TypeOK, NEW story, story.fate = "pending",
           history' = Put(history, pendingSeq, story),
           NEW addr, NEW fate \in {"cancelled", "final"}
    PROVE  countFate(addr, fate)' = countFate(addr, fate)
<1>1. pendingSeq \notin DOMAIN history
  BY NumbersAssumption DEF TypeOK
<1>2. FatesOf(addr, fate)' = FatesOf(addr, fate)
  BY <1>1 DEF FatesOf, Put
<1>3. QED
  BY <1>2 DEF countFate

\* A send that meets its fate adds one to that fate of its sender.
LEMMA SettlingMeetsFate ==
    ASSUME TypeOK, StoryInv, NEW id \in DOMAIN pending,
           NEW met \in {"cancelled", "final"}, Emit(id, met),
           NEW addr, NEW fate \in {"cancelled", "final"}
    PROVE  countFate(addr, fate)' = IF pending[id].sender = addr /\ fate = met
                                    THEN countFate(addr, fate) + 1
                                    ELSE countFate(addr, fate)
<1>1. /\ id \in DOMAIN history /\ history[id].fate = "pending"
      /\ history[id].sender = pending[id].sender
  BY DEF StoryInv, TypeOK
<1>2. DOMAIN history' = DOMAIN history
  BY DEF Emit
<1>3. \A i \in DOMAIN history : history[i] \in Story
  BY DEF TypeOK
<1>4. \A i \in DOMAIN history :
         /\ history'[i].sender = history[i].sender
         /\ history'[i].fate = IF i = id THEN met ELSE history[i].fate
  BY <1>1, <1>3 DEF Emit, Story
<1>5. FatesOf(addr, fate)' = IF pending[id].sender = addr /\ fate = met
                             THEN FatesOf(addr, fate) \cup {id} ELSE FatesOf(addr, fate)
  BY <1>1, <1>2, <1>4 DEF FatesOf
<1>6. id \notin FatesOf(addr, fate)
  BY <1>1 DEF FatesOf
<1>7. Cardinality(FatesOf(addr, fate) \cup {id}) = Cardinality(FatesOf(addr, fate)) + 1
  BY <1>6, FatesAreCounted, FS_AddElement
<1>8. QED
  BY <1>5, <1>7 DEF countFate

TallyInv == StoryInv /\ TallyAddsUp

LEMMA BumpedRecord ==
    ASSUME NEW creator, NEW tally, Bump(creator, tally), NEW addr
    PROVE  getRecord(addr)' = IF addr = creator THEN tally ELSE getRecord(addr)
BY DEF Bump, Put, getRecord

LEMMA TallyInvInit == Init => TallyInv
<1> SUFFICES ASSUME Init PROVE TallyInv
  OBVIOUS
<1>1. StoryInv
  BY DEF Init, StoryInv
<1>2. ASSUME NEW addr \in User
      PROVE  /\ getRecord(addr).cancelled = countFate(addr, "cancelled")
             /\ getRecord(addr).sent
                  = getRecord(addr).cancelled + countOpen(addr) + countFate(addr, "final")
  <2>1. FatesOf(addr, "cancelled") = {} /\ FatesOf(addr, "final") = {} /\ OpenOf(addr) = {}
    BY DEF Init, FatesOf, OpenOf
  <2>2. countFate(addr, "cancelled") = 0 /\ countFate(addr, "final") = 0 /\ countOpen(addr) = 0
    BY <2>1, FS_EmptySet DEF countFate, countOpen
  <2>3. getRecord(addr).sent = 0 /\ getRecord(addr).cancelled = 0
    BY DEF Init, getRecord
  <2>4. QED
    BY <2>2, <2>3
<1>3. QED
  BY <1>1, <1>2 DEF TallyInv, TallyAddsUp, countFate

LEMMA TallyInvStep == TypeInv /\ TallyInv /\ [Next]_vars => TallyInv'
<1> SUFFICES ASSUME TypeInv, TallyInv, [Next]_vars PROVE TallyInv'
  OBVIOUS
<1> DEFINE AddsUp(addr) ==
      /\ getRecord(addr).cancelled = countFate(addr, "cancelled")
      /\ getRecord(addr).sent
           = getRecord(addr).cancelled + countOpen(addr) + countFate(addr, "final")
<1>1. /\ TypeOK /\ StoryInv
      /\ \A addr \in User : AddsUp(addr)
  BY DEF TypeInv, TallyInv, TallyAddsUp, countFate
<1>2. ASSUME StoryInv', \A addr \in User : AddsUp(addr)' PROVE TallyInv'
  BY <1>2 DEF TallyInv, TallyAddsUp, countFate
<1>3. \A addr \in User :
         /\ getRecord(addr) \in Tally
         /\ countOpen(addr) \in Nat
         /\ countFate(addr, "cancelled") \in Nat /\ countFate(addr, "final") \in Nat
  BY <1>1, getRecordIsTally, OpenIsFinite, FatesAreCounted
<1>4. ASSUME UNCHANGED <<pending, history>>,
             \A addr \in User : /\ getRecord(addr)'.sent = getRecord(addr).sent
                                /\ getRecord(addr)'.cancelled = getRecord(addr).cancelled
      PROVE  TallyInv'
  <2>1. StoryInv'
    BY <1>1, <1>4 DEF StoryInv
  <2>2. \A addr \in User, fate \in {"cancelled", "final"} :
           countOpen(addr)' = countOpen(addr) /\ countFate(addr, fate)' = countFate(addr, fate)
    BY <1>4 DEF countOpen, OpenOf, countFate, FatesOf
  <2>3. QED
    BY <1>1, <1>2, <1>4, <2>1, <2>2
<1>5. ASSUME UNCHANGED <<pending, history, record>> PROVE TallyInv'
  BY <1>4, <1>5 DEF getRecord
<1>6. ASSUME NEW creator \in User, NEW finalonly \in BOOLEAN,
             SetFinalOnly(creator, finalonly)
      PROVE  TallyInv'
  <2>1. \A addr \in User :
           getRecord(addr)' = IF addr = creator
                              THEN [getRecord(creator) EXCEPT !.finalonly = finalonly]
                              ELSE getRecord(addr)
    BY <1>6, BumpedRecord DEF SetFinalOnly
  <2>2. \A addr \in User : /\ getRecord(addr)'.sent = getRecord(addr).sent
                           /\ getRecord(addr)'.cancelled = getRecord(addr).cancelled
    BY <1>3, <2>1 DEF Tally
  <2>3. QED
    BY <1>4, <1>6, <2>2 DEF SetFinalOnly
<1>7. ASSUME NEW creator \in User, NEW recipient \in Account, NEW amount \in Amount,
             NEW window \in Window,
             SendUndoable(creator, recipient, amount, window)
      PROVE  TallyInv'
  <2> DEFINE p == [sender |-> creator, recipient |-> recipient,
                   amount |-> amount, executeat |-> ExecuteAt(window)]
             story == [sender |-> creator, earliest |-> now + params.minwindow,
                       fate |-> "pending"]
  <2>1. /\ pending' = Put(pending, pendingSeq, p) /\ history' = Put(history, pendingSeq, story)
        /\ p.sender = creator /\ story.sender = creator /\ story.fate = "pending"
    BY <1>7 DEF SendUndoable
  <2>2. p \in Send
    BY <1>1, MessagesAssumption, ExecuteAtIsInt64 DEF TypeOK, Send
  <2>3. pendingSeq \notin DOMAIN pending /\ pendingSeq \notin DOMAIN history
    BY <1>1, NumbersAssumption DEF TypeOK
  <2> HIDE DEF p, story
  <2>4. StoryInv'
    BY <1>1, <2>1, <2>3 DEF StoryInv, Put
  <2>5. ASSUME NEW addr \in User PROVE AddsUp(addr)'
    <3>1. countOpen(addr)' = IF addr = creator THEN countOpen(addr) + 1 ELSE countOpen(addr)
      BY <1>1, <2>1, <2>2, <2>3, ParkingOpens
    <3>2. \A fate \in {"cancelled", "final"} : countFate(addr, fate)' = countFate(addr, fate)
      BY <1>1, <2>1, ParkingMeetsNoFate
    <3>3. getRecord(addr)' = IF addr = creator
                             THEN [getRecord(creator) EXCEPT !.sent = @ + 1]
                             ELSE getRecord(addr)
      BY <1>7, BumpedRecord DEF SendUndoable
    <3>4. /\ getRecord(addr)'.cancelled = getRecord(addr).cancelled
          /\ getRecord(addr)'.sent = IF addr = creator THEN getRecord(addr).sent + 1
                                                       ELSE getRecord(addr).sent
      BY <1>3, <3>3 DEF Tally
    <3>5. QED
      BY <1>1, <1>3, <3>1, <3>2, <3>4
  <2>6. QED
    BY <1>2, <2>4, <2>5
<1>8. ASSUME NEW id \in DOMAIN pending, NEW met \in {"cancelled", "final"},
             pending' = Remove(pending, id), Emit(id, met)
      PROVE  StoryInv'
  <2>1. \A i \in DOMAIN history : history[i] \in Story
    BY <1>1 DEF TypeOK
  <2>2. \A i \in DOMAIN history :
           /\ history'[i].sender = history[i].sender
           /\ history'[i].fate = IF i = id THEN met ELSE history[i].fate
    BY <1>8, <2>1 DEF Emit, Story
  <2>3. DOMAIN history' = DOMAIN history
    BY <1>8 DEF Emit
  <2>4. QED
    BY <1>1, <1>8, <2>2, <2>3 DEF StoryInv, Remove, Restrict
<1>9. ASSUME NEW creator \in User, NEW id \in DOMAIN pending, CancelSend(creator, id)
      PROVE  TallyInv'
  <2>1. /\ pending' = Remove(pending, id) /\ Emit(id, "cancelled")
        /\ pending[id].sender = creator
    BY <1>9 DEF CancelSend
  <2>2. ASSUME NEW addr \in User PROVE AddsUp(addr)'
    <3>1. countOpen(addr)' = IF addr = creator THEN countOpen(addr) - 1 ELSE countOpen(addr)
      BY <1>1, <2>1, SettlingCloses
    <3>2. /\ countFate(addr, "cancelled")' = IF addr = creator
                                             THEN countFate(addr, "cancelled") + 1
                                             ELSE countFate(addr, "cancelled")
          /\ countFate(addr, "final")' = countFate(addr, "final")
      BY <1>1, <2>1, SettlingMeetsFate
    <3>3. getRecord(addr)' = IF addr = creator
                             THEN [getRecord(creator) EXCEPT !.cancelled = @ + 1]
                             ELSE getRecord(addr)
      BY <1>9, BumpedRecord DEF CancelSend
    <3>4. /\ getRecord(addr)'.sent = getRecord(addr).sent
          /\ getRecord(addr)'.cancelled = IF addr = creator
                                          THEN getRecord(addr).cancelled + 1
                                          ELSE getRecord(addr).cancelled
      BY <1>3, <3>3 DEF Tally
    <3>5. QED
      BY <1>1, <1>3, <3>1, <3>2, <3>4 DEF Tally
  <2>3. QED
    BY <1>2, <1>8, <2>1, <2>2
<1>10. ASSUME NEW id \in due, execute(id) PROVE TallyInv'
  <2>1. /\ id \in DOMAIN pending
        /\ pending' = Remove(pending, id) /\ Emit(id, "final") /\ UNCHANGED record
    BY <1>1, <1>10 DEF execute, TypeOK
  <2>2. ASSUME NEW addr \in User PROVE AddsUp(addr)'
    <3>1. countOpen(addr)' = IF pending[id].sender = addr THEN countOpen(addr) - 1
                                                          ELSE countOpen(addr)
      BY <1>1, <2>1, SettlingCloses
    <3>2. /\ countFate(addr, "cancelled")' = countFate(addr, "cancelled")
          /\ countFate(addr, "final")' = IF pending[id].sender = addr
                                         THEN countFate(addr, "final") + 1
                                         ELSE countFate(addr, "final")
      BY <1>1, <2>1, SettlingMeetsFate
    <3>3. getRecord(addr)' = getRecord(addr)
      BY <2>1 DEF getRecord
    <3>4. QED
      BY <1>1, <1>3, <3>1, <3>2, <3>3 DEF Tally
  <2>3. QED
    BY <1>2, <1>8, <2>1, <2>2
<1>11. CASE Message
  <2>1. ASSUME NEW creator \in User, NEW recipient \in Account, NEW amount \in Amount,
               NEW window \in Window, DelayedSend(creator, recipient, amount, window)
        PROVE  TallyInv'
    BY <1>5, <1>7, <2>1 DEF DelayedSend, SendFinal
  <2>2. ASSUME NEW signer, NEW p, UpdateParams(signer, p) PROVE TallyInv'
    BY <1>5, <2>2 DEF UpdateParams
  <2>3. ASSUME NEW from, NEW to, NEW amount, BankSend(from, to, amount) PROVE TallyInv'
    BY <1>5, <2>3 DEF BankSend
  <2>4. QED
    BY <1>6, <1>9, <1>11, <2>1, <2>2, <2>3 DEF Message
<1>12. CASE EndBlocker
  BY <1>5, <1>10, <1>12 DEF EndBlocker, CollectDue, ExecuteFails, Commit
<1>13. CASE BeginBlock \/ UNCHANGED vars
  BY <1>5, <1>13 DEF BeginBlock, vars
<1>14. QED
  BY <1>11, <1>12, <1>13 DEF Next

\* The public tally is the truth about every address, in every reachable state.
THEOREM TallyIsTrue == Spec => []TallyAddsUp
<1>1. TallyInv => TallyAddsUp
  BY DEF TallyInv
<1>2. QED
  BY <1>1, TallyInvInit, TallyInvStep, TypeInvInit, TypeInvStep, PTL DEF Spec

-----------------------------------------------------------------------------
(* The promise is kept.                                                    *)
(*                                                                         *)
(* Purses.  An account's purse is its balance, except that holding's purse *)
(* is without what it owes.                                                *)

LEMMA Purses ==
    ASSUME TypeInv, CoinInv
    PROVE  /\ Owed \in Nat
           /\ Purse \in [Account -> Nat]
           /\ Purse[Holding] = balance[Holding] - Owed
           /\ \A a \in Account \ {Holding} : Purse[a] = balance[a]
<1>1. Owed \in Nat
  BY FS_CardinalityType DEF CoinInv, Owed
<1>2. balance \in [Account -> Nat] /\ balance[Holding] >= Owed
  BY DEF TypeInv, TypeOK, CoinInv, Solvent
<1>3. QED
  BY <1>1, <1>2, AccountsKnown DEF Purse

\* The next state's purse, by what the step does to the balances and to what is
\* owed.
LEMMA NextPurse ==
    ASSUME TypeInv, CoinInv, Owed' \in Int, balance' \in [Account -> Int]
    PROVE  /\ Purse' \in [Account -> Int]
           /\ Purse'[Holding] = balance'[Holding] - Owed'
           /\ \A a \in Account \ {Holding} : Purse'[a] = balance'[a]
BY AccountsKnown DEF Purse

LEMMA InitialPromise == Init => Promised!Init
<1> SUFFICES ASSUME Init PROVE Promised!Init
  OBVIOUS
<1>1. CoinsOf(pending) = {}
  BY DEF Init, CoinsOf
<1>2. Owed = 0
  BY <1>1, FS_EmptySet DEF Owed
<1>3. balance \in [Account -> Nat]
  BY GenesisAssumption DEF Init
<1>4. Purse = InitialBalance
  BY <1>2, <1>3 DEF Purse, Init
<1>5. now \in Nat
  BY NumbersAssumption DEF Init
<1>6. QED
  BY <1>4, <1>5 DEF Init, Promised!Init

\* A bank transfer out of a user's account is a gift.
LEMMA TransferIsGift ==
    ASSUME TypeInv, CoinInv, NEW from \in User, NEW to \in Account, NEW amount \in Nat,
           from # to, amount > 0, SendCoins(from, to, amount),
           UNCHANGED <<now, pending, history>>
    PROVE  Promised!Next
<1>1. balance \in [Account -> Nat] /\ balance' \in [Account -> Nat]
  BY AccountsKnown, MoveCoinsKeepsBalances DEF SendCoins, TypeInv, TypeOK
<1>2. Owed' = Owed
  BY DEF Owed
<1>3. /\ Owed \in Nat /\ Purse \in [Account -> Nat]
      /\ Purse[Holding] = balance[Holding] - Owed
      /\ \A a \in Account \ {Holding} : Purse[a] = balance[a]
  BY Purses
<1>4. /\ Purse' \in [Account -> Int]
      /\ Purse'[Holding] = balance'[Holding] - Owed
      /\ \A a \in Account \ {Holding} : Purse'[a] = balance'[a]
  BY <1>1, <1>2, <1>3, NextPurse
<1>5. from \in Account \ {Holding} /\ Purse[from] = balance[from]
  BY <1>3, AccountsKnown
<1>6. amount \in 1..Purse[from]
  BY <1>1, <1>5 DEF SendCoins, HasCoins
<1>7. \A a \in Account :
         balance'[a] = IF a = from THEN balance[a] - amount
                       ELSE IF a = to THEN balance[a] + amount ELSE balance[a]
  BY <1>1, <1>5 DEF SendCoins, MoveCoins
<1>8. Purse' = [Purse EXCEPT ![from] = @ - amount, ![to] = @ + amount]
  <2>1. \A a \in Account :
           Purse'[a] = [Purse EXCEPT ![from] = @ - amount, ![to] = @ + amount][a]
    BY <1>1, <1>3, <1>4, <1>5, <1>7
  <2>2. QED
    BY <1>3, <1>4, <2>1
<1>9. Promised!Give(from, to, amount)
  BY <1>8 DEF Promised!Give
<1>10. QED
  BY <1>5, <1>6, <1>9 DEF Promised!Next

\* A send that is parked is a promise.
LEMMA ParkingIsPromise ==
    ASSUME TypeInv, CoinInv, CoinInv', NEW p \in Send, SendParked(p),
           balance[p.sender] >= p.amount, UNCHANGED now,
           DOMAIN history' = DOMAIN history \cup {pendingSeq}
    PROVE  Promised!Next
<1>1. /\ p.sender \in User /\ p.sender \in Account \ {Holding}
      /\ p.amount \in Nat /\ p \in Promised!Payment
  BY AccountsKnown, NumbersAssumption DEF Send, Promised!Payment
<1>2. /\ DOMAIN pending' = DOMAIN pending \cup {pendingSeq}
      /\ pending'[pendingSeq] = p /\ pendingSeq \notin DOMAIN pending
      /\ \A other \in DOMAIN pending : pending'[other] = pending[other]
  BY DEF SendParked, Put
<1>3. Owed' = Owed + p.amount
  BY <1>1, <1>2, CoinsOfOneMoreSend DEF CoinInv, Owed
<1>4. /\ Owed \in Nat /\ Purse \in [Account -> Nat]
      /\ Purse[Holding] = balance[Holding] - Owed
      /\ \A a \in Account \ {Holding} : Purse[a] = balance[a]
  BY Purses
<1>5. balance \in [Account -> Nat]
  BY DEF TypeInv, TypeOK
<1>6. \A a \in Account :
         balance'[a] = IF a = p.sender THEN balance[a] - p.amount
                       ELSE IF a = Holding THEN balance[a] + p.amount ELSE balance[a]
  BY <1>1, <1>5 DEF SendParked
<1>7. balance' \in [Account -> Int]
  <2>1. DOMAIN balance' = Account
    BY <1>5 DEF SendParked
  <2>2. balance' = [a \in DOMAIN balance' |-> balance'[a]]
    BY DEF SendParked
  <2>3. QED
    BY <1>1, <1>5, <1>6, <2>1, <2>2
<1>8. /\ Purse' \in [Account -> Int]
      /\ Purse'[Holding] = balance'[Holding] - Owed'
      /\ \A a \in Account \ {Holding} : Purse'[a] = balance'[a]
  BY <1>1, <1>3, <1>4, <1>7, NextPurse
<1>9. Purse' = [Purse EXCEPT ![p.sender] = @ - p.amount]
  <2>1. \A a \in Account : Purse'[a] = [Purse EXCEPT ![p.sender] = @ - p.amount][a]
    BY <1>1, <1>3, <1>4, <1>5, <1>6, <1>8, AccountsKnown
  <2>2. QED
    BY <1>4, <1>8, <2>1
<1>10. pendingSeq \notin DOMAIN history /\ Purse[p.sender] >= p.amount
  BY <1>1, <1>4, NumbersAssumption DEF TypeInv, TypeOK
<1>11. Promised!MakePromise(pendingSeq)
  BY <1>1, <1>2, <1>9, <1>10 DEF Promised!MakePromise
<1>12. QED
  BY <1>2, <1>11 DEF Promised!Next

\* A send that leaves the table settles a promise.
LEMMA PayingSettles ==
    ASSUME TypeInv, CoinInv, NEW id \in DOMAIN pending, NEW payee \in Account,
           SendPaid(id, payee), UNCHANGED now, DOMAIN history' = DOMAIN history
    PROVE  Promised!Settle(id, payee)
<1> DEFINE n == pending[id].amount
<1>1. n \in Nat
  BY DEF TypeInv, TypeOK, Send
<1>2. Owed = Owed' + n /\ Owed' \in Nat
  BY <1>1, CoinsOfOneFewerSend DEF SendPaid, CoinInv, Owed
<1>3. /\ Owed \in Nat /\ Purse \in [Account -> Nat]
      /\ Purse[Holding] = balance[Holding] - Owed
      /\ \A a \in Account \ {Holding} : Purse[a] = balance[a]
  BY Purses
<1>4. balance \in [Account -> Nat] /\ Holding \in Account
  BY AccountsKnown DEF TypeInv, TypeOK
<1>5. balance' = [balance EXCEPT ![Holding] = @ - n, ![payee] = @ + n]
  BY DEF SendPaid
<1>6. pending' = Restrict(pending, DOMAIN pending \ {id})
  BY DEF SendPaid, Remove
<1> HIDE DEF n
<1>7. balance' \in [Account -> Int]
  BY <1>1, <1>4, <1>5
<1>8. /\ Purse' \in [Account -> Int]
      /\ Purse'[Holding] = balance'[Holding] - Owed'
      /\ \A a \in Account \ {Holding} : Purse'[a] = balance'[a]
  BY <1>2, <1>7, NextPurse
<1>9. Purse' = [Purse EXCEPT ![payee] = @ + n]
  <2>1. \A a \in Account : Purse'[a] = [Purse EXCEPT ![payee] = @ + n][a]
    BY <1>1, <1>2, <1>3, <1>4, <1>5, <1>8
  <2>2. QED
    BY <1>3, <1>8, <2>1
<1>10. QED
  BY <1>6, <1>9 DEF Promised!Settle, Promised!Restrict, Restrict, n

LEMMA PromiseStep ==
    TypeInv /\ CoinInv /\ CoinInv' /\ DueInv /\ [Next]_vars => [Promised!Next]_(Promised!promise)
<1> SUFFICES ASSUME TypeInv, CoinInv, CoinInv', DueInv, [Next]_vars
             PROVE  [Promised!Next]_(Promised!promise)
  OBVIOUS
<1>1. ASSUME UNCHANGED <<now, pending, history, balance>>
      PROVE  UNCHANGED Promised!promise
  BY <1>1 DEF Promised!promise, Purse, Owed
<1>2. CASE BeginBlock
  <2>1. now' \in Nat /\ now' >= now
    BY <1>2, NumbersAssumption DEF BeginBlock, TypeInv, TypeOK
  <2>2. UNCHANGED <<Purse, pending, history>>
    BY <1>2 DEF BeginBlock, Purse, Owed
  <2>3. QED
    BY <2>1, <2>2 DEF Promised!Next, Promised!TimePasses
<1>3. ASSUME NEW creator \in User, NEW recipient \in Account, NEW amount \in Amount,
             NEW window \in Window, DelayedSend(creator, recipient, amount, window)
      PROVE  Promised!Next
  <2>1. amount \in Nat /\ amount > 0 /\ creator # recipient
    BY <1>3, MessagesAssumption DEF DelayedSend
  <2>2. CASE SendFinal(creator, recipient, amount, window)
    BY <2>1, <2>2, TransferIsGift DEF SendFinal
  <2>3. CASE ~FinalOnly(recipient) /\ SendUndoable(creator, recipient, amount, window)
    <3> DEFINE p == [sender |-> creator, recipient |-> recipient,
                     amount |-> amount, executeat |-> ExecuteAt(window)]
    <3>1. p \in Send
      BY <2>1, ExecuteAtIsInt64 DEF TypeInv, TypeOK, Send
    <3>2. pendingSeq \notin DOMAIN pending
      BY DEF TypeInv, TypeOK
    <3>3. SendParked(p) /\ balance[p.sender] >= p.amount
      BY <2>3, <3>2
         DEF SendParked, SendUndoable, SendCoinsFromAccountToModule, HasCoins, MoveCoins
    <3>4. DOMAIN history' = DOMAIN history \cup {pendingSeq} /\ UNCHANGED now
      BY <2>3 DEF SendUndoable, Put
    <3> HIDE DEF p
    <3>5. QED
      BY <3>1, <3>3, <3>4, ParkingIsPromise
  <2>4. QED
    BY <1>3, <2>2, <2>3 DEF DelayedSend
<1>4. ASSUME NEW creator \in User, NEW id \in DOMAIN pending, CancelSend(creator, id)
      PROVE  Promised!Next
  <2>1. SendPaid(id, pending[id].sender) /\ pending[id].sender \in Account
    BY <1>4, AccountsKnown DEF CancelSend, SendPaid, SendCoinsFromModuleToAccount,
                               CanPayOut, HasCoins, MoveCoins
  <2>2. UNCHANGED now /\ DOMAIN history' = DOMAIN history
    BY <1>4 DEF CancelSend, Emit
  <2>3. Promised!TakeBack(id)
    BY <2>1, <2>2, PayingSettles DEF Promised!TakeBack
  <2>4. QED
    BY <2>3 DEF Promised!Next
<1>5. ASSUME NEW id \in due, execute(id) PROVE Promised!Next
  <2>1. id \in DOMAIN pending /\ now >= pending[id].executeat
    BY DEF TypeInv, TypeOK, DueInv
  <2>2. SendPaid(id, pending[id].recipient) /\ pending[id].recipient \in Account
    BY <1>5, <2>1 DEF execute, SendPaid, SendCoinsFromModuleToAccount, CanPayOut,
                      HasCoins, MoveCoins, TypeInv, TypeOK, Send
  <2>3. UNCHANGED now /\ DOMAIN history' = DOMAIN history
    BY <1>5 DEF execute, Emit
  <2>4. Promised!Keep(id)
    BY <2>1, <2>2, <2>3, PayingSettles DEF Promised!Keep
  <2>5. QED
    BY <2>1, <2>4 DEF Promised!Next
<1>6. ASSUME NEW from \in User, NEW to \in Account, NEW amount \in Gift,
             BankSend(from, to, amount)
      PROVE  Promised!Next
  BY <1>6, TransferIsGift, MessagesAssumption DEF BankSend
<1>7. ASSUME NEW creator, NEW finalonly, SetFinalOnly(creator, finalonly)
      PROVE  UNCHANGED Promised!promise
  BY <1>1, <1>7 DEF SetFinalOnly
<1>8. ASSUME NEW signer, NEW p, UpdateParams(signer, p)
      PROVE  UNCHANGED Promised!promise
  BY <1>1, <1>8 DEF UpdateParams
<1>9. CASE Message
  BY <1>3, <1>4, <1>6, <1>7, <1>8, <1>9 DEF Message
<1>10. CASE EndBlocker
  <2>1. ASSUME CollectDue \/ Commit \/ \E id \in due : ExecuteFails(id)
        PROVE  UNCHANGED Promised!promise
    BY <1>1, <2>1 DEF CollectDue, Commit, ExecuteFails
  <2>2. QED
    BY <1>5, <1>10, <2>1 DEF EndBlocker
<1>11. CASE UNCHANGED vars
  BY <1>1, <1>11 DEF vars
<1>12. QED
  BY <1>2, <1>9, <1>10, <1>11 DEF Next

\* The undo module implements the promise people are given.
THEOREM PromiseKept == Spec => ImplementsPromise
<1>1. Init => TypeInv /\ CoinInv /\ DueInv
  BY TypeInvInit, CoinInvInit, DueInvInit
<1>2. TypeInv /\ CoinInv /\ DueInv /\ [Next]_vars => (TypeInv /\ CoinInv /\ DueInv)'
  BY TypeInvStep, CoinInvStep, DueInvStep
<1>3. QED
  BY <1>1, <1>2, InitialPromise, PromiseStep, PTL DEF Spec, ImplementsPromise, Promised!Spec
=============================================================================
