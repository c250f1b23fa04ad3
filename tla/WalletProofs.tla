---------------------------- MODULE WalletProofs ----------------------------
(***************************************************************************)
(* A wallet is one more user of the chain: beside it the chain does nothing *)
(* but what module Undo lets it do, whatever requests fail, come late or are *)
(* sent twice.  What was proved of Undo holds here too.                    *)
(*                                                                         *)
(* What a button asked for waits in calls and in the mempool before a block *)
(* has it.  The invariant says that it is still a message somebody may send. *)
(*                                                                         *)
(* The second half is about the wallet's loops: lemmas about the operators of *)
(* module Wallet that read and write the local history.  Each takes a set S *)
(* that all entries of the list are in and that the loop's own changes do not *)
(* lead out of.  The loops are recursive functions; that they are defined, and *)
(* that what each turn keeps the whole loop keeps, is induction over the   *)
(* number of turns.  It is stated about sets: a property is the set of the *)
(* numbers that have it, a step is a function.                             *)
(***************************************************************************)
EXTENDS WalletProperties, UndoProofs, WellFoundedInduction

Sendable(want) ==
    /\ want.op = "send" =>
          want.to \in Account /\ want.amount \in Amount /\ want.window \in Window
    /\ want.op = "switch" => want.finalonly \in BOOLEAN

Form == [to : User, info : {"unknown", "final only", "undoable"}]
IsCall(c) == c = [want |-> c.want, stage |-> c.stage, seq |-> c.seq]

WantInv ==
    /\ form \in Form
    /\ \A c \in calls : IsCall(c) /\ Sendable(c.want)
    /\ \A tx \in mempool : Sendable(tx.want)

-----------------------------------------------------------------------------
(* Each step is one of the chain, or leaves it alone.                      *)

\* What the wallet asks for is a message of the module.
LEMMA HandledIsMessage ==
    ASSUME NEW want, Sendable(want), Handle(want)
    PROVE  Message
<1>1. Me \in User
  BY WalletAssumption
<1>2. CASE want.op = "send" /\ DelayedSend(Me, want.to, want.amount, want.window)
  BY <1>1, <1>2 DEF Message, Sendable
<1>3. CASE want.op = "undo" /\ CancelSend(Me, want.id)
  <2>1. want.id \in DOMAIN pending
    BY <1>3 DEF CancelSend
  <2> QED BY <1>1, <1>3, <2>1 DEF Message
<1>4. CASE want.op = "switch" /\ SetFinalOnly(Me, want.finalonly)
  BY <1>1, <1>4 DEF Message, Sendable
<1> QED BY <1>2, <1>3, <1>4 DEF Handle

\* So is what other people ask for.
LEMMA PeersSendMessages == PeerMessage => Message
<1> SUFFICES ASSUME PeerMessage PROVE Message
  OBVIOUS
<1>1. Peers \subseteq User /\ Me \in Account
  BY WalletAssumption DEF Peers, Account
<1>2. ASSUME NEW creator \in Peers, NEW amount \in Amount, NEW window \in PeerWindow,
             DelayedSend(creator, Me, amount, window)
      PROVE  Message
  <2>1. creator \in User /\ window \in Window
    BY <1>1, WalletAssumption
  <2> QED BY <1>1, <1>2, <2>1 DEF Message
<1>3. ASSUME NEW creator \in Peers, NEW id \in DOMAIN pending, CancelSend(creator, id)
      PROVE  Message
  <2>1. creator \in User
    BY <1>1
  <2> QED BY <1>3, <2>1 DEF Message
<1>4. ASSUME NEW creator \in Peers, NEW finalonly \in Switch, SetFinalOnly(creator, finalonly)
      PROVE  Message
  <2>1. creator \in User /\ finalonly \in BOOLEAN
    BY <1>1, WalletAssumption
  <2> QED BY <1>4, <2>1 DEF Message
<1> QED BY <1>2, <1>3, <1>4 DEF PeerMessage

LEMMA DeliverStep ==
    ASSUME NEW tx, Sendable(tx.want), Deliver(tx)
    PROVE  [Next]_vars
<1>1. Handle(tx.want) \/ UNCHANGED vars
  BY DEF Deliver
<1>2. CASE Handle(tx.want)
  BY <1>2, HandledIsMessage DEF Next
<1> QED BY <1>1, <1>2

\* The page's own steps.
LEMMA PageLeavesVars ==
    ASSUME WalletNext, ~Chain, \A tx \in mempool : ~Deliver(tx)
    PROVE  UNCHANGED vars
<1>1. ASSUME NEW tx \in mempool, Lose(tx) PROVE UNCHANGED vars
  BY <1>1 DEF Lose
<1>2. CASE RefreshTimer
  BY <1>2 DEF RefreshTimer
<1>3. ASSUME NEW s \in DOMAIN refreshes, RefreshStep(s) PROVE UNCHANGED vars
  BY <1>3 DEF RefreshStep, ReadPage, Apply, ReadHistory, Merge, RefreshFails
<1>4. ASSUME NEW to \in Peers, TypeRecipient(to) PROVE UNCHANGED vars
  BY <1>4 DEF TypeRecipient
<1>5. CASE LookUp \/ Back \/ Reload \/ Forget
  BY <1>5 DEF LookUp, Back, Reload, Forget, FreshPage
<1>6. ASSUME NEW amount \in Amount, NEW window \in Pick, PressSend(amount, window)
      PROVE  UNCHANGED vars
  BY <1>6 DEF PressSend
<1>7. ASSUME NEW id \in DOMAIN shown, PressUndo(id) PROVE UNCHANGED vars
  BY <1>7 DEF PressUndo
<1>8. ASSUME NEW finalonly \in OwnSwitch, PressSwitch(finalonly) PROVE UNCHANGED vars
  BY <1>8 DEF PressSwitch
<1>9. ASSUME NEW c \in calls, CallStep(c) PROVE UNCHANGED vars
  BY <1>9 DEF CallStep, ReadAccount, Broadcast, GiveUp, Sent, Undone, Switched, Refused
<1> QED BY <1>1, <1>2, <1>3, <1>4, <1>5, <1>6, <1>7, <1>8, <1>9 DEF WalletNext

LEMMA WalletStepsTheChain == WantInv /\ [WalletNext]_allVars => [Next]_vars
<1> SUFFICES ASSUME WantInv, [WalletNext]_allVars PROVE [Next]_vars
  OBVIOUS
<1>1. CASE Chain
  BY <1>1, PeersSendMessages DEF Chain, Next
<1>2. ASSUME NEW tx \in mempool, Deliver(tx) PROVE [Next]_vars
  BY <1>2, DeliverStep DEF WantInv
<1>3. CASE UNCHANGED allVars
  BY <1>3 DEF allVars
<1> QED BY <1>1, <1>2, <1>3, PageLeavesVars

-----------------------------------------------------------------------------
(* The invariant.                                                          *)

LEMMA WantInvInit == WalletInit => WantInv
BY WalletAssumption DEF WalletInit, WantInv, Unset, Form

\* Steps that bring no new wish.
LEMMA WantsOnlyShrink ==
    ASSUME WantInv, form' \in Form,
           \A c \in calls' : IsCall(c) /\ \E d \in calls : c.want = d.want,
           \A tx \in mempool' : (\E d \in mempool : tx.want = d.want)
                                 \/ (\E d \in calls : tx.want = d.want)
    PROVE  WantInv'
<1>1. \A want : Sendable(want)' <=> Sendable(want)
  BY DEF Sendable
<1>2. Form' = Form /\ \A c : IsCall(c)' <=> IsCall(c)
  BY DEF IsCall, Form
<1> QED BY <1>1, <1>2 DEF WantInv

LEMMA PressAsks ==
    ASSUME WantInv, NEW want, Sendable(want), Press(want), UNCHANGED <<form, mempool>>
    PROVE  WantInv'
<1>1. \A w : Sendable(w)' <=> Sendable(w)
  BY DEF Sendable
<1>2. Form' = Form /\ \A c : IsCall(c)' <=> IsCall(c)
  BY DEF IsCall, Form
<1>3. \A c \in calls' : c \in calls \/ (IsCall(c) /\ c.want = want)
  BY DEF Press, IsCall
<1> QED BY <1>1, <1>2, <1>3 DEF WantInv

LEMMA WantInvStep == WantInv /\ [WalletNext]_allVars => WantInv'
<1> SUFFICES ASSUME WantInv, [WalletNext]_allVars PROVE WantInv'
  OBVIOUS
<1> DEFINE Less == /\ form' \in Form
                   /\ \A c \in calls' : IsCall(c) /\ \E d \in calls : c.want = d.want
                   /\ \A tx \in mempool' : (\E d \in mempool : tx.want = d.want)
                                            \/ (\E d \in calls : tx.want = d.want)
<1>0. Less => WantInv'
  BY WantsOnlyShrink
<1>a. form \in Form /\ \A c \in calls : IsCall(c)
  BY DEF WantInv
<1>1. CASE Chain \/ UNCHANGED allVars
  BY <1>1, <1>0, <1>a DEF Chain, allVars, node, page
<1>2. ASSUME NEW tx \in mempool, Deliver(tx) \/ Lose(tx) PROVE WantInv'
  <2>1. mempool' \subseteq mempool /\ UNCHANGED <<form, calls>>
    BY <1>2 DEF Deliver, Lose, page
  <2> QED BY <2>1, <1>0, <1>a
<1>3. CASE RefreshTimer
  BY <1>3, <1>0, <1>a DEF RefreshTimer, node, page
<1>4. ASSUME NEW s \in DOMAIN refreshes, RefreshStep(s) PROVE WantInv'
  <2>1. UNCHANGED <<form, calls, mempool>>
    BY <1>4 DEF RefreshStep, ReadPage, Apply, ReadHistory, Merge, RefreshFails, node, page
  <2> QED BY <2>1, <1>0, <1>a
<1>5. ASSUME NEW to \in Peers, TypeRecipient(to) PROVE WantInv'
  <2>1. form' \in Form /\ UNCHANGED <<calls, mempool>>
    BY <1>5 DEF TypeRecipient, Peers, Form, node
  <2> QED BY <2>1, <1>0, <1>a
<1>6. CASE LookUp \/ Back
  <2>1. form' \in Form
    BY <1>6, <1>a DEF LookUp, Back, Form
  <2>2. UNCHANGED <<calls, mempool>>
    BY <1>6 DEF LookUp, Back, node
  <2> QED BY <2>1, <2>2, <1>0, <1>a
<1>7. CASE Reload \/ Forget
  <2>1. calls' = {} /\ form' = Unset /\ UNCHANGED mempool
    BY <1>7 DEF Reload, Forget, FreshPage, node
  <2>2. form' \in Form
    BY <2>1, WalletAssumption DEF Unset, Form
  <2> QED BY <2>1, <2>2, <1>0
<1>8. ASSUME NEW amount \in Amount, NEW window \in Pick, PressSend(amount, window) PROVE WantInv'
  <2> DEFINE want == [op |-> "send", to |-> form.to, amount |-> amount,
                      window |-> IF form.info = "final only" THEN 0 ELSE window]
  <2>1. want.to \in Account /\ want.amount \in Amount /\ want.window \in Window /\ want.op = "send"
    BY <1>a, WalletAssumption DEF Account, Form
  <2>2. Press(want) /\ UNCHANGED <<form, mempool>>
    BY <1>8 DEF PressSend, node
  <2> HIDE DEF want
  <2>3. Sendable(want)
    BY <2>1 DEF Sendable
  <2> QED BY <2>2, <2>3, PressAsks
<1>9. ASSUME NEW id \in DOMAIN shown, PressUndo(id) PROVE WantInv'
  <2> DEFINE want == [op |-> "undo", id |-> id]
  <2>1. Sendable(want)
    BY DEF Sendable
  <2>2. Press(want) /\ UNCHANGED <<form, mempool>>
    BY <1>9 DEF PressUndo, node
  <2> HIDE DEF want
  <2> QED BY <2>1, <2>2, PressAsks
<1>10. ASSUME NEW finalonly \in OwnSwitch, PressSwitch(finalonly) PROVE WantInv'
  <2> DEFINE want == [op |-> "switch", finalonly |-> finalonly]
  <2>1. Sendable(want)
    BY WalletAssumption DEF Sendable
  <2>2. Press(want) /\ UNCHANGED <<form, mempool>>
    BY <1>10 DEF PressSwitch, node
  <2> HIDE DEF want
  <2> QED BY <2>1, <2>2, PressAsks
<1>11. ASSUME NEW c \in calls, CallStep(c) PROVE WantInv'
  <2>1. CASE ReadAccount(c)
    <3>1. \A d \in calls' : d \in calls \/ (IsCall(d) /\ d.want = c.want)
      <4>1. c = [want |-> c.want, stage |-> c.stage, seq |-> c.seq]
        BY <1>a DEF IsCall
      <4>2. PICK d \in {[c EXCEPT !.stage = "signed", !.seq = sequence]} : calls' = (calls \ {c}) \cup {d}
        BY <2>1 DEF ReadAccount
      <4>3. d = [want |-> c.want, stage |-> "signed", seq |-> sequence]
        BY <4>1, <4>2
      <4>4. IsCall(d) /\ d.want = c.want
        BY <4>3 DEF IsCall
      <4> QED BY <4>2, <4>4
    <3>2. UNCHANGED <<form, mempool>>
      BY <2>1 DEF ReadAccount, node
    <3> QED BY <3>1, <3>2, <1>0, <1>a
  <2>2. CASE Broadcast(c)
    <3>1. \A d \in calls' : d \in calls \/ (IsCall(d) /\ d.want = c.want)
      BY <2>2, <1>a DEF Broadcast, Throw, IsCall
    <3>2. \A tx \in mempool' : tx \in mempool \/ tx.want = c.want
      BY <2>2 DEF Broadcast
    <3>3. UNCHANGED form
      BY <2>2 DEF Broadcast, Throw
    <3> QED BY <3>1, <3>2, <3>3, <1>0, <1>a
  <2>3. CASE GiveUp(c) \/ Sent(c) \/ Undone(c) \/ Switched(c) \/ Refused(c)
    <3>1. calls' \subseteq calls /\ UNCHANGED <<form, mempool>>
      BY <2>3 DEF GiveUp, Sent, Undone, Switched, Refused, Throw, node
    <3> QED BY <3>1, <1>0, <1>a
  <2> QED BY <1>11, <2>1, <2>2, <2>3 DEF CallStep
<1> QED BY <1>1, <1>2, <1>3, <1>4, <1>5, <1>6, <1>7, <1>8, <1>9, <1>10, <1>11 DEF WalletNext

-----------------------------------------------------------------------------
(* What a step of the chain does to what is known of the sends.            *)

\* A send starts under the next id, is settled, or nothing happens to any.
ChainCase ==
    \/ UNCHANGED <<pending, history>>
    \/ \E p \in Send, story \in Story :
          /\ story.sender = p.sender /\ story.fate = "pending"
          /\ pending' = Put(pending, pendingSeq, p)
          /\ history' = Put(history, pendingSeq, story)
    \/ \E id \in DOMAIN pending, fate \in {"cancelled", "final"} :
          /\ pending' = Remove(pending, id)
          /\ Emit(id, fate)

LEMMA ChainCases == TypeInv /\ [Next]_vars => ChainCase
<1> SUFFICES ASSUME TypeInv, [Next]_vars PROVE ChainCase
  OBVIOUS
<1>1. ASSUME UNCHANGED <<pending, history>> PROVE ChainCase
  BY <1>1 DEF ChainCase
<1>2. CASE UNCHANGED vars
  BY <1>1, <1>2 DEF vars
<1>3. CASE BeginBlock
  BY <1>1, <1>3 DEF BeginBlock
<1>4. ASSUME NEW creator \in User, NEW recipient \in Account, NEW amount \in Amount,
             NEW window \in Window, DelayedSend(creator, recipient, amount, window)
      PROVE  ChainCase
  <2>1. CASE SendFinal(creator, recipient, amount, window)
    BY <1>1, <2>1 DEF SendFinal
  <2>2. CASE SendUndoable(creator, recipient, amount, window)
    <3> DEFINE p == [sender |-> creator, recipient |-> recipient,
                     amount |-> amount, executeat |-> ExecuteAt(window)]
               story == [sender |-> creator, earliest |-> now + params.minwindow,
                         fate |-> "pending"]
    <3>1. p \in Send /\ story \in Story /\ story.sender = p.sender /\ story.fate = "pending"
      <4>0. now \in 0..MaxTime /\ params \in Params
        BY DEF TypeInv, TypeOK
      <4>1. ExecuteAt(window) \in -HalfRange..HalfRange - 1
        BY <4>0, ExecuteAtIsInt64
      <4>2. amount \in Nat /\ now + params.minwindow \in Nat
        <5>1. now \in Nat
          BY <4>0, NumbersAssumption
        <5>2. params.minwindow \in Nat
          BY <4>0 DEF Params, Uint64
        <5>3. amount \in Nat
          BY MessagesAssumption
        <5> QED BY ONLY <5>1, <5>2, <5>3
      <4> QED BY <4>1, <4>2 DEF Send, Story
    <3>2. pending' = Put(pending, pendingSeq, p) /\ history' = Put(history, pendingSeq, story)
      BY <2>2 DEF SendUndoable
    <3> HIDE DEF p, story
    <3> QED BY <3>1, <3>2 DEF ChainCase
  <2> QED BY <1>4, <2>1, <2>2 DEF DelayedSend
<1>5. ASSUME NEW creator \in User, NEW id \in DOMAIN pending, CancelSend(creator, id)
      PROVE  ChainCase
  BY <1>5 DEF CancelSend, ChainCase
<1>6. ASSUME NEW creator \in User, NEW finalonly \in BOOLEAN, SetFinalOnly(creator, finalonly)
      PROVE  ChainCase
  BY <1>1, <1>6 DEF SetFinalOnly
<1>7. ASSUME NEW signer, NEW p \in ParamChoice, UpdateParams(signer, p) PROVE ChainCase
  BY <1>1, <1>7 DEF UpdateParams
<1>8. ASSUME NEW from \in User, NEW to \in Account, NEW amount \in Gift, BankSend(from, to, amount)
      PROVE  ChainCase
  BY <1>1, <1>8 DEF BankSend
<1>9. CASE CollectDue \/ Commit
  BY <1>1, <1>9 DEF CollectDue, Commit
<1>10. ASSUME NEW id \in due, execute(id) PROVE ChainCase
  <2>1. id \in DOMAIN pending
    BY DEF TypeInv, TypeOK
  <2> QED BY <1>10, <2>1 DEF execute, ChainCase
<1>11. ASSUME NEW id \in due, ExecuteFails(id) PROVE ChainCase
  BY <1>1, <1>11 DEF ExecuteFails
<1> QED BY <1>2, <1>3, <1>4, <1>5, <1>6, <1>7, <1>8, <1>9, <1>10, <1>11
        DEF Next, Message, EndBlocker

\* A send that is known stays known, with its sender, and what became of it stands;
\* a send in flight is new or was in flight before, under the same terms.
ChainMovesOn ==
    /\ DOMAIN history \subseteq DOMAIN history'
    /\ \A id \in DOMAIN history :
          /\ history'[id].sender = history[id].sender
          /\ history[id].fate # "pending" => history'[id].fate = history[id].fate
          /\ id \in DOMAIN pending' => id \in DOMAIN pending /\ pending'[id] = pending[id]

LEMMA ChainOnlyMovesOn == TypeInv /\ StoryInv /\ [Next]_vars => ChainMovesOn
<1> SUFFICES ASSUME TypeInv, StoryInv, [Next]_vars PROVE ChainMovesOn
  OBVIOUS
<1>1. CASE UNCHANGED <<pending, history>>
  BY <1>1 DEF ChainMovesOn
<1>2. pendingSeq \notin DOMAIN history /\ pendingSeq \notin DOMAIN pending
  BY NumbersAssumption DEF TypeInv, TypeOK
<1>3. ASSUME NEW p, NEW story, pending' = Put(pending, pendingSeq, p),
             history' = Put(history, pendingSeq, story)
      PROVE  ChainMovesOn
  BY <1>2, <1>3 DEF ChainMovesOn, Put
<1>4. ASSUME NEW id \in DOMAIN pending, NEW fate \in {"cancelled", "final"},
             pending' = Remove(pending, id), Emit(id, fate)
      PROVE  ChainMovesOn
  <2>1. id \in DOMAIN history /\ history[id].fate = "pending" /\ history[id] \in Story
    BY DEF TypeInv, TypeOK, StoryInv
  <2>2. /\ DOMAIN history' = DOMAIN history
        /\ history'[id].sender = history[id].sender
        /\ \A other \in DOMAIN history : other # id => history'[other] = history[other]
    BY <1>4, <2>1 DEF Emit, Story
  <2>3. \A other \in DOMAIN pending' : other \in DOMAIN pending /\ pending'[other] = pending[other]
    BY <1>4 DEF Remove, Restrict
  <2> QED BY <2>1, <2>2, <2>3 DEF ChainMovesOn
<1> QED BY <1>1, <1>3, <1>4, ChainCases DEF ChainCase

-----------------------------------------------------------------------------
(* The node: sequences and the transactions under them.                    *)

Signing(c) == c.stage \in {"asking", "signed", "waiting"} /\ c.seq \in 0..sequence
NodeInv ==
    /\ sequence \in Nat /\ DOMAIN landed = 0..sequence - 1
    /\ \A tx \in mempool : tx = [seq |-> sequence, want |-> tx.want]
    /\ \A tx, other \in mempool : tx = other
    /\ presses \in 0..MaxPresses /\ home \in BOOLEAN
    /\ \A c \in calls : Signing(c)

LEMMA NodeInvInit == WalletInit => NodeInv
<1> SUFFICES ASSUME WalletInit PROVE NodeInv
  OBVIOUS
<1>1. presses \in 0..MaxPresses
  BY WalletAssumption DEF WalletInit
<1>2. DOMAIN landed = 0..sequence - 1 /\ sequence \in Nat
  BY DEF WalletInit
<1> QED BY <1>1, <1>2 DEF WalletInit, NodeInv

\* Steps after which there are no more transactions and the calls are of the same kind.
LEMMA NodeUnchanged ==
    ASSUME NodeInv, UNCHANGED <<sequence, landed>>, mempool' \subseteq mempool,
           presses' \in 0..MaxPresses, home' \in BOOLEAN,
           \A c \in calls' : c \in calls \/ Signing(c)
    PROVE  NodeInv'
<1>1. \A c : Signing(c)' <=> Signing(c)
  BY DEF Signing
<1> QED BY <1>1 DEF NodeInv

LEMMA NodeInvStep == NodeInv /\ WantInv /\ [WalletNext]_allVars => NodeInv'
<1> SUFFICES ASSUME NodeInv, WantInv, [WalletNext]_allVars PROVE NodeInv'
  OBVIOUS
<1>a. presses \in 0..MaxPresses /\ home \in BOOLEAN /\ sequence \in Nat
  BY DEF NodeInv
<1>1. CASE Chain \/ UNCHANGED allVars
  <2>1. UNCHANGED <<node, page>>
    BY <1>1 DEF Chain, allVars
  <2> QED BY <2>1, <1>a, NodeUnchanged DEF node, page
<1>2. ASSUME NEW tx \in mempool, Deliver(tx) PROVE NodeInv'
  <2>1. tx.seq = sequence /\ sequence' = sequence + 1 /\ mempool' = {}
    BY <1>2 DEF Deliver, NodeInv
  <2>2. DOMAIN landed' = DOMAIN landed \cup {sequence}
    BY <1>2 DEF Deliver, Put
  <2>3. DOMAIN landed' = 0..sequence' - 1
    BY <1>a, <2>1, <2>2 DEF NodeInv
  <2>4. UNCHANGED <<calls, presses, home>>
    BY <1>2 DEF Deliver, page
  <2>5. \A c \in calls : Signing(c)'
    BY <1>a, <2>1 DEF Signing, NodeInv
  <2> QED BY <1>a, <2>1, <2>3, <2>4, <2>5 DEF NodeInv
<1>3. ASSUME NEW tx \in mempool, Lose(tx) PROVE NodeInv'
  BY <1>3, <1>a, NodeUnchanged DEF Lose, page
<1>4. CASE RefreshTimer \/ LookUp \/ Back \/ \E to \in Peers : TypeRecipient(to)
  <2>1. UNCHANGED <<node, calls, presses>> /\ home' \in BOOLEAN
    BY <1>4, <1>a DEF RefreshTimer, LookUp, Back, TypeRecipient, page
  <2> QED BY <2>1, <1>a, NodeUnchanged DEF node
<1>5. ASSUME NEW s \in DOMAIN refreshes, RefreshStep(s) PROVE NodeInv'
  <2>1. UNCHANGED <<node, page>>
    BY <1>5 DEF RefreshStep, ReadPage, Apply, ReadHistory, Merge, RefreshFails
  <2> QED BY <2>1, <1>a, NodeUnchanged DEF node, page
<1>6. CASE Reload \/ Forget
  <2>1. calls' = {} /\ home' = TRUE /\ UNCHANGED <<node, presses>>
    BY <1>6 DEF Reload, Forget, FreshPage
  <2> QED BY <2>1, <1>a, NodeUnchanged DEF node
<1>7. ASSUME NEW want, Press(want), UNCHANGED <<node, home>> PROVE NodeInv'
  <2>1. presses' \in 0..MaxPresses
    BY <1>7, <1>a, WalletAssumption DEF Press
  <2>2. \A c \in calls' : c \in calls \/ Signing(c)
    BY <1>7, <1>a DEF Press, Signing
  <2> QED BY <1>7, <2>1, <2>2, <1>a, NodeUnchanged DEF node
<1>8. ASSUME NEW amount \in Amount, NEW window \in Pick, PressSend(amount, window) PROVE NodeInv'
  BY <1>7, <1>8 DEF PressSend
<1>9. ASSUME NEW id \in DOMAIN shown, PressUndo(id) PROVE NodeInv'
  BY <1>7, <1>9 DEF PressUndo
<1>10. ASSUME NEW finalonly \in OwnSwitch, PressSwitch(finalonly) PROVE NodeInv'
  BY <1>7, <1>10 DEF PressSwitch
<1>11. ASSUME NEW c \in calls, CallStep(c) PROVE NodeInv'
  <2>0. c = [want |-> c.want, stage |-> c.stage, seq |-> c.seq] /\ Signing(c)
    BY DEF WantInv, IsCall, NodeInv
  <2>1. CASE ReadAccount(c)
    <3>1. PICK d \in {[c EXCEPT !.stage = "signed", !.seq = sequence]} : calls' = (calls \ {c}) \cup {d}
      BY <2>1 DEF ReadAccount
    <3>2. d = [want |-> c.want, stage |-> "signed", seq |-> sequence]
      BY <2>0, <3>1
    <3>3. Signing(d)
      BY <1>a, <3>2 DEF Signing
    <3> QED BY <2>1, <3>1, <3>3, <1>a, NodeUnchanged DEF ReadAccount, node
  <2>2. CASE Broadcast(c)
    <3>1. CASE Follows(c.seq)
      <4>1. PICK d \in {[c EXCEPT !.stage = "waiting"]} : calls' = (calls \ {c}) \cup {d}
        BY <2>2, <3>1 DEF Broadcast
      <4>2. d = [want |-> c.want, stage |-> "waiting", seq |-> c.seq]
        BY <2>0, <4>1
      <4>3. Signing(d)
        BY <2>0, <4>2 DEF Signing
      <4>4. IsFiniteSet(mempool) /\ Cardinality(mempool) = 0
        <5>1. mempool = {} \/ \E tx : mempool = {tx}
          <6>1. \A tx, other \in mempool : tx = other
            BY DEF NodeInv
          <6> QED BY <6>1
        <5>2. IsFiniteSet(mempool)
          <6>1. \A tx : IsFiniteSet({tx})
            BY FS_Singleton
          <6> QED BY <5>1, <6>1, FS_EmptySet, Zenon
        <5>3. Cardinality(mempool) \in Nat
          BY <5>2, FS_CardinalityType
        <5>4. c.seq \in 0..sequence /\ c.seq = sequence + Cardinality(mempool)
          BY <2>0, <3>1 DEF Follows, Signing
        <5> QED BY <5>2, <5>3, <5>4, <1>a
      <4>5. mempool = {} /\ c.seq = sequence
        <5>1. mempool = {}
          BY <4>4, FS_EmptySet
        <5> QED BY <4>4, <5>1, <3>1, <1>a DEF Follows
      <4>6. mempool' = {[seq |-> sequence, want |-> c.want]}
        BY <2>2, <3>1, <4>5 DEF Broadcast
      <4>7. UNCHANGED <<sequence, landed, presses, home>>
        BY <2>2, <3>1 DEF Broadcast
      <4>8. \A e \in calls' : Signing(e)'
        BY <4>1, <4>3, <4>7 DEF Signing, NodeInv
      <4> QED BY <4>6, <4>7, <4>8 DEF NodeInv
    <3>2. CASE ~Follows(c.seq)
      BY <2>2, <3>2, <1>a, NodeUnchanged DEF Broadcast, Throw
    <3> QED BY <3>1, <3>2
  <2>3. CASE GiveUp(c) \/ Sent(c) \/ Undone(c) \/ Switched(c) \/ Refused(c)
    <3>1. calls' \subseteq calls /\ UNCHANGED <<node, presses>> /\ home' \in BOOLEAN
      BY <2>3, <1>a DEF GiveUp, Sent, Undone, Switched, Refused, Throw
    <3> QED BY <3>1, <1>a, NodeUnchanged DEF node
  <2> QED BY <1>11, <2>1, <2>2, <2>3 DEF CallStep
<1> QED BY <1>1, <1>2, <1>3, <1>4, <1>5, <1>6, <1>8, <1>9, <1>10, <1>11 DEF WalletNext

-----------------------------------------------------------------------------
(* The index of events, and what the transactions in blocks did.           *)

Event ==
    [type : {"delayed_send"}, id : Nat, addr : Account, amount : Nat, at : Nat]
    \cup [type : {"final_send"}, id : {NoId}, addr : Account, amount : Nat, at : Nat]
    \cup [type : {"send_cancelled"}, id : Nat]
    \cup [type : {"final_only_set"}]

\* The events that tell what the chain knows to be so.
TrueEvents ==
    {e \in Event :
        /\ e.type = "delayed_send" => e.id \in DOMAIN history /\ history[e.id].sender = Me
        /\ e.type = "send_cancelled" => e.id \in DOMAIN history /\ Fate(e.id) = "cancelled"}

Backed(to, amount) ==
    \E i \in DOMAIN index : IsSend(index[i]) /\ index[i].addr = to /\ index[i].amount = amount

\* What succeeded took effect.
TookEffect(want) ==
    /\ want.op = "undo" => want.id \in DOMAIN history /\ Fate(want.id) = "cancelled"
    /\ want.op = "send" => Backed(want.to, want.amount)

IndexInv ==
    /\ index \in Seq(TrueEvents)
    /\ \A seq \in DOMAIN landed : landed[seq].ok => TookEffect(landed[seq].want)

LEMMA IndexInvInit == WalletInit => IndexInv
BY DEF WalletInit, IndexInv

LEMMA EventsStayTrue == ChainMovesOn => TrueEvents \subseteq TrueEvents'
<1> SUFFICES ASSUME ChainMovesOn, NEW e \in TrueEvents PROVE e \in TrueEvents'
  OBVIOUS
<1>1. e \in Event /\ Event' = Event
  BY DEF TrueEvents, Event
<1>2. ASSUME e.type = "delayed_send"
      PROVE  e.id \in DOMAIN history' /\ history'[e.id].sender = Me
  BY <1>2 DEF TrueEvents, ChainMovesOn
<1>3. ASSUME e.type = "send_cancelled"
      PROVE  e.id \in DOMAIN history' /\ Fate(e.id)' = "cancelled"
  BY <1>3 DEF TrueEvents, ChainMovesOn, Fate
<1> QED BY <1>1, <1>2, <1>3 DEF TrueEvents

\* Events are only added.
IndexGrows == index' = index \/ \E e : index' = Append(index, e)

LEMMA BackedStays ==
    ASSUME NEW S, index \in Seq(S), IndexGrows, NEW to, NEW amount, Backed(to, amount)
    PROVE  Backed(to, amount)'
<1>1. CASE index' = index
  BY <1>1 DEF Backed
<1>2. ASSUME NEW e, index' = Append(index, e) PROVE Backed(to, amount)'
  <2>1. \A i \in DOMAIN index : i \in DOMAIN index' /\ index'[i] = index[i]
    BY <1>2
  <2> QED BY <2>1 DEF Backed
<1> QED BY <1>1, <1>2 DEF IndexGrows

LEMMA EffectsStay ==
    ASSUME ChainMovesOn, NEW S, index \in Seq(S), IndexGrows, NEW want, TookEffect(want)
    PROVE  TookEffect(want)'
<1>1. ASSUME want.op = "undo"
      PROVE  want.id \in DOMAIN history' /\ Fate(want.id)' = "cancelled"
  BY <1>1 DEF TookEffect, ChainMovesOn, Fate
<1>2. ASSUME want.op = "send" PROVE Backed(want.to, want.amount)'
  BY <1>2, BackedStays DEF TookEffect
<1> QED BY <1>1, <1>2 DEF TookEffect

\* Only a block writes to the index.
LEMMA OnlyBlocksWrite ==
    ASSUME [WalletNext]_allVars
    PROVE  UNCHANGED <<index, landed>> \/ \E tx \in mempool : Deliver(tx)
<1>1. CASE Chain \/ UNCHANGED allVars
  BY <1>1 DEF Chain, allVars, node
<1>2. ASSUME NEW tx \in mempool, Lose(tx) PROVE UNCHANGED <<index, landed>>
  BY <1>2 DEF Lose
<1>3. CASE RefreshTimer \/ LookUp \/ Back \/ \E to \in Peers : TypeRecipient(to)
  BY <1>3 DEF RefreshTimer, LookUp, Back, TypeRecipient, node
<1>4. ASSUME NEW s \in DOMAIN refreshes, RefreshStep(s) PROVE UNCHANGED <<index, landed>>
  BY <1>4 DEF RefreshStep, ReadPage, Apply, ReadHistory, Merge, RefreshFails, node
<1>5. CASE Reload \/ Forget
  BY <1>5 DEF Reload, Forget, FreshPage, node
<1>6. ASSUME NEW amount \in Amount, NEW window \in Pick, PressSend(amount, window)
      PROVE  UNCHANGED <<index, landed>>
  BY <1>6 DEF PressSend, node
<1>7. ASSUME NEW id \in DOMAIN shown, PressUndo(id) PROVE UNCHANGED <<index, landed>>
  BY <1>7 DEF PressUndo, node
<1>8. ASSUME NEW finalonly \in OwnSwitch, PressSwitch(finalonly) PROVE UNCHANGED <<index, landed>>
  BY <1>8 DEF PressSwitch, node
<1>9. ASSUME NEW c \in calls, CallStep(c) PROVE UNCHANGED <<index, landed>>
  BY <1>9 DEF CallStep, ReadAccount, Broadcast, GiveUp, Sent, Undone, Switched, Refused, node
<1> QED BY <1>1, <1>2, <1>3, <1>4, <1>5, <1>6, <1>7, <1>8, <1>9 DEF WalletNext

LEMMA WalletOnlyMovesOn ==
    ASSUME TypeInv, StoryInv, WantInv, [WalletNext]_allVars
    PROVE  ChainMovesOn /\ IndexGrows
<1>1. ChainMovesOn
  BY WalletStepsTheChain, ChainOnlyMovesOn
<1>2. IndexGrows
  BY OnlyBlocksWrite DEF IndexGrows, Deliver
<1> QED BY <1>1, <1>2

\* A message that a block handles leaves an event that tells so.
LEMMA HandledTellsTrue ==
    ASSUME TypeInv, WantInv, NEW want, Sendable(want), Handle(want),
           index' = Append(index, EventOf(want)), index \in Seq(TrueEvents)
    PROVE  EventOf(want) \in TrueEvents' /\ TookEffect(want)'
<1> DEFINE e == EventOf(want)
<1>1. Event' = Event
  BY DEF Event
<1>2. CASE want.op = "undo" /\ CancelSend(Me, want.id)
  <2>1. want.id \in DOMAIN pending /\ want.id \in DOMAIN history /\ want.id \in Nat
    BY <1>2 DEF CancelSend, TypeInv, TypeOK
  <2>2. want.id \in DOMAIN history' /\ history'[want.id].fate = "cancelled"
    <3>1. history[want.id] \in Story
      BY <2>1 DEF TypeInv, TypeOK
    <3> QED BY <1>2, <2>1, <3>1 DEF CancelSend, Emit, Story
  <2>3. e = [type |-> "send_cancelled", id |-> want.id]
    BY <1>2 DEF EventOf
  <2> QED BY <1>1, <1>2, <2>1, <2>2, <2>3 DEF TrueEvents, Event, TookEffect, Fate
<1>3. CASE want.op = "switch" /\ SetFinalOnly(Me, want.finalonly)
  <2>1. e = [type |-> "final_only_set"]
    BY <1>3 DEF EventOf
  <2> QED BY <1>1, <1>3, <2>1 DEF TrueEvents, Event, TookEffect
<1>4. CASE want.op = "send" /\ DelayedSend(Me, want.to, want.amount, want.window)
  <2> DEFINE shop == FinalOnly(want.to)
  <2>1. e = [type |-> IF shop THEN "final_send" ELSE "delayed_send",
             id |-> IF shop THEN NoId ELSE pendingSeq,
             addr |-> want.to, amount |-> want.amount, at |-> now]
    BY <1>4 DEF EventOf
  <2>2. want.to \in Account /\ want.amount \in Nat /\ now \in Nat /\ pendingSeq \in Nat
    BY <1>4, MessagesAssumption, NumbersAssumption DEF Sendable, TypeInv, TypeOK
  <2>3. ~shop => pendingSeq \in DOMAIN history' /\ history'[pendingSeq].sender = Me
    BY <1>4 DEF DelayedSend, SendUndoable, Put
  <2> HIDE DEF shop
  <2>4. e \in TrueEvents'
    <3>1. CASE shop
      <4>1. e \in Event /\ e.type = "final_send"
        BY <2>1, <2>2, <3>1 DEF Event
      <4> HIDE DEF e
      <4> QED BY <4>1, <1>1 DEF TrueEvents
    <3>2. CASE ~shop
      <4>1. e \in Event /\ e.type = "delayed_send" /\ e.id = pendingSeq
        BY <2>1, <2>2, <3>2 DEF Event
      <4> HIDE DEF e
      <4> QED BY <4>1, <1>1, <2>3, <3>2 DEF TrueEvents
    <3> QED BY <3>1, <3>2
  <2>5. IsSend(e) /\ e.addr = want.to /\ e.amount = want.amount
    BY <2>1 DEF IsSend
  <2> HIDE DEF e
  <2>6. Backed(want.to, want.amount)'
    <3>1. Len(index) + 1 \in DOMAIN index' /\ index'[Len(index) + 1] = e
      BY DEF e
    <3> QED BY <2>5, <3>1 DEF Backed, IsSend
  <2> QED BY <1>4, <2>4, <2>6 DEF TookEffect, e
<1> QED BY <1>2, <1>3, <1>4 DEF Handle

LEMMA IndexInvStep ==
    TypeInv /\ StoryInv /\ WantInv /\ NodeInv /\ IndexInv /\ [WalletNext]_allVars => IndexInv'
<1> SUFFICES ASSUME TypeInv, StoryInv, WantInv, NodeInv, IndexInv, [WalletNext]_allVars
             PROVE  IndexInv'
  OBVIOUS
<1>1. ChainMovesOn /\ IndexGrows /\ TrueEvents \subseteq TrueEvents'
  BY WalletOnlyMovesOn, EventsStayTrue
<1>2. index \in Seq(TrueEvents) /\ index \in Seq(TrueEvents')
  BY <1>1 DEF IndexInv
<1>3. \A want : TookEffect(want) => TookEffect(want)'
  BY <1>1, <1>2, EffectsStay
<1>4. ASSUME NEW seq \in DOMAIN landed, UNCHANGED landed[seq], landed[seq].ok
      PROVE  TookEffect(landed[seq].want)'
  <2>1. PICK want : want = landed[seq].want
    OBVIOUS
  <2>2. TookEffect(want)'
    BY <1>3, <1>4, <2>1 DEF IndexInv
  <2> QED BY <1>4, <2>1, <2>2
<1>5. CASE UNCHANGED <<index, landed>>
  <2>1. index' \in Seq(TrueEvents')
    BY <1>2, <1>5
  <2> QED BY <2>1, <1>4, <1>5 DEF IndexInv
<1>6. ASSUME NEW tx \in mempool, Deliver(tx) PROVE IndexInv'
  <2>1. CASE /\ Handle(tx.want) /\ index' = Append(index, EventOf(tx.want))
             /\ landed' = Put(landed, tx.seq, [want |-> tx.want, ok |-> TRUE])
    <3>1. EventOf(tx.want) \in TrueEvents' /\ \A want : want = tx.want => TookEffect(want)'
      BY <1>2, <2>1, HandledTellsTrue DEF WantInv
    <3>2. index' \in Seq(TrueEvents')
      <4> DEFINE e == EventOf(tx.want)
      <4> HIDE DEF e
      <4> QED BY <1>2, <2>1, <3>1 DEF e
    <3>3. ASSUME NEW seq \in DOMAIN landed', landed'[seq].ok PROVE TookEffect(landed[seq].want)'
      <4>1. CASE seq = tx.seq
        <5>1. landed'[seq].want = tx.want
          BY <2>1, <4>1 DEF Put
        <5> QED BY <3>1, <5>1
      <4>2. CASE seq # tx.seq
        <5>1. seq \in DOMAIN landed /\ landed'[seq] = landed[seq]
          BY <2>1, <4>2 DEF Put
        <5> QED BY <1>4, <3>3, <5>1
      <4> QED BY <4>1, <4>2
    <3> QED BY <3>2, <3>3 DEF IndexInv
  <2>2. CASE /\ landed' = Put(landed, tx.seq, [want |-> tx.want, ok |-> FALSE])
             /\ UNCHANGED index
    <3>1. ASSUME NEW seq \in DOMAIN landed', landed'[seq].ok PROVE TookEffect(landed[seq].want)'
      <4>1. seq # tx.seq
        BY <2>2, <3>1 DEF Put
      <4>2. seq \in DOMAIN landed /\ landed'[seq] = landed[seq]
        BY <2>2, <4>1 DEF Put
      <4> QED BY <1>4, <3>1, <4>2
    <3>2. index' \in Seq(TrueEvents')
      BY <1>2, <2>2
    <3> QED BY <3>1, <3>2 DEF IndexInv
  <2> QED BY <1>6, <2>1, <2>2 DEF Deliver
<1> QED BY <1>5, <1>6, OnlyBlocksWrite

-----------------------------------------------------------------------------
(* The theorems.                                                           *)

\* The wallet and the chain together are the chain of module Undo: polling, signing,
\* giving up, losing transactions and reloading make it do nothing else.
THEOREM WalletIsAUser == WalletSpec => Spec
<1>1. WalletInit => Init
  BY DEF WalletInit
<1> QED BY <1>1, WantInvInit, WantInvStep, WalletStepsTheChain, PTL DEF WalletSpec, Spec

\* Beside a wallet, too, holding can pay every send in flight.
THEOREM SolventBesideAWallet == WalletSpec => []Solvent
BY WalletIsAUser, AlwaysSolvent, PTL

\* Beside a wallet, too, nobody has more sends in flight than the cap: the wallet's
\* own presses are not limited by it, the chain's answers are.
THEOREM WithinCapBesideAWallet == WalletSpec => []WithinCap
BY WalletIsAUser, AlwaysWithinCap, PTL

\* The promise of undo is kept to those who use a wallet.
THEOREM PromiseKeptToWallets == WalletSpec => ImplementsPromise
BY WalletIsAUser, PromiseKept, PTL

-----------------------------------------------------------------------------
(* Induction.                                                              *)

\* A set of naturals that is not empty has a least element.
LEMMA LeastNumber ==
    ASSUME NEW T \in SUBSET Nat, T # {}
    PROVE  \E x \in T : \A y \in T : x <= y
<1> DEFINE R == OpToRel(<, Nat)
<1>1. IsWellFoundedOn(R, Nat)
  BY NatLessThanWellFounded
<1>2. \A x, y \in Nat : x < y => <<x, y>> \in R
  BY DEF OpToRel
<1> HIDE DEF R
<1>3. PICK x \in T : \A y \in T : <<y, x>> \notin R
  BY <1>1, WFMin
<1>4. ASSUME NEW y \in T PROVE x <= y
  <2>1. ~(y < x)
    BY <1>2, <1>3
  <2>2. x \in Nat /\ y \in Nat
    OBVIOUS
  <2> QED BY <2>1, <2>2
<1> QED BY <1>4

\* A set that has 0, and the successor of all it has, has all naturals.
LEMMA SetInduction ==
    ASSUME NEW T, 0 \in T, \A n \in Nat : n \in T => n + 1 \in T
    PROVE  Nat \subseteq T
<1> DEFINE Out == {n \in Nat : n \notin T}
<1> SUFFICES ASSUME Out # {} PROVE FALSE
  OBVIOUS
<1>1. PICK x \in Out : \A y \in Out : x <= y
  BY LeastNumber
<1>2. x - 1 \in Nat /\ x - 1 \notin Out
  BY <1>1
<1> QED BY <1>1, <1>2

\* A function that is made step by step exists, and its values are of the step's type.
IsMade(V, base, N, Step) ==
    \E f \in [0..N -> V] : f[0] = base /\ \A n \in 1..N : f[n] = Step[n][f[n - 1]]
LEMMA Recursion ==
    ASSUME NEW V, NEW base \in V, NEW N \in Nat, NEW Step \in [1..N -> [V -> V]]
    PROVE  IsMade(V, base, N, Step)
<1> SUFFICES \E f \in [0..N -> V] : f[0] = base /\ \A n \in 1..N : f[n] = Step[n][f[n - 1]]
  BY DEF IsMade
<1> DEFINE Upto(m, f) == f \in [0..m -> V] /\ f[0] = base /\ \A n \in 1..m : f[n] = Step[n][f[n - 1]]
           Good == {m \in Nat : m <= N => \E f : Upto(m, f)}
<1>1. 0 \in Good
  <2> DEFINE f == [n \in 0..0 |-> base]
  <2>1. Upto(0, f)
    OBVIOUS
  <2> QED BY <2>1
<1>2. ASSUME NEW m \in Nat, m \in Good PROVE m + 1 \in Good
  <2> SUFFICES ASSUME m + 1 <= N PROVE \E f : Upto(m + 1, f)
    OBVIOUS
  <2>1. PICK f : Upto(m, f)
    BY <1>2
  <2> DEFINE g == [n \in 0..m + 1 |-> IF n = m + 1 THEN Step[m + 1][f[m]] ELSE f[n]]
  <2>2. f[m] \in V /\ m + 1 \in 1..N
    BY <2>1
  <2>3. Step[m + 1][f[m]] \in V
    BY <2>2
  <2>4. g \in [0..m + 1 -> V] /\ g[0] = base
    BY <2>1, <2>3
  <2>5. ASSUME NEW n \in 1..m + 1 PROVE g[n] = Step[n][g[n - 1]]
    <3>1. CASE n = m + 1
      BY <3>1, <2>2
    <3>2. CASE n # m + 1
      <4>1. n \in 1..m /\ n - 1 \in 0..m
        BY <3>2
      <4>2. g[n] = f[n] /\ g[n - 1] = f[n - 1]
        BY <4>1
      <4>3. f[n] = Step[n][f[n - 1]]
        BY <2>1, <4>1
      <4> QED BY <4>2, <4>3
    <3> QED BY <3>1, <3>2
  <2>6. Upto(m + 1, g)
    BY <2>4, <2>5
  <2> HIDE DEF Upto, g
  <2> QED BY <2>6
<1>3. N \in Good
  <2> HIDE DEF Good
  <2> QED BY <1>1, <1>2, SetInduction
<1> QED BY <1>3

\* What holds of the first value, and of each value if of the one before, holds of all.
LEMMA StepByStep ==
    ASSUME NEW V, NEW N \in Nat, NEW f, f[0] \in V,
           \A n \in 1..N : f[n - 1] \in V => f[n] \in V
    PROVE  \A n \in 0..N : f[n] \in V
<1> DEFINE Good == {m \in Nat : m <= N => f[m] \in V}
<1>1. 0 \in Good
  OBVIOUS
<1>2. ASSUME NEW m \in Nat, m \in Good PROVE m + 1 \in Good
  <2> SUFFICES ASSUME m + 1 <= N PROVE f[m + 1] \in V
    OBVIOUS
  <2>1. f[m] \in V /\ m + 1 \in 1..N /\ (m + 1) - 1 = m
    BY <1>2
  <2> QED BY <2>1
<1>3. Nat \subseteq Good
  <2> HIDE DEF Good
  <2> QED BY <1>1, <1>2, SetInduction
<1> QED BY <1>3

-----------------------------------------------------------------------------
(* Orders.                                                                 *)

IsOrder(S, before) ==
    /\ \A x \in S : <<x, x>> \notin before
    /\ \A x, y \in S : x # y => <<x, y>> \in before \/ <<y, x>> \in before
    /\ \A x, y, z \in S : <<x, y>> \in before /\ <<y, z>> \in before => <<x, z>> \in before

\* A part of a finite set has fewer members.
LEMMA SmallerSet ==
    ASSUME NEW S, IsFiniteSet(S), NEW T, T \subseteq S, T # S
    PROVE  Cardinality(T) < Cardinality(S)
<1>1. Cardinality(T) <= Cardinality(S) /\ Cardinality(T) # Cardinality(S) /\ IsFiniteSet(T)
  BY FS_Subset
<1>2. Cardinality(T) \in Int /\ Cardinality(S) \in Int
  BY <1>1, FS_CardinalityType
<1> QED BY <1>1, <1>2

\* A finite set in a total order, listed: every place has a member, no two the same.
LEMMA InOrderLists ==
    ASSUME NEW S, IsFiniteSet(S), NEW before, IsOrder(S, before)
    PROVE  /\ Cardinality(S) \in Nat
           /\ InOrder(S, before) \in [1..Cardinality(S) -> S]
           /\ \A m, n \in 1..Cardinality(S) :
                 InOrder(S, before)[m] = InOrder(S, before)[n] => m = n
<1> DEFINE N == Cardinality(S)
           Pred(x) == {y \in S : <<y, x>> \in before}
           rank == [x \in S |-> Cardinality(Pred(x))]
<1>1. N \in Nat
  BY FS_CardinalityType
<1>2. ASSUME NEW x \in S PROVE IsFiniteSet(Pred(x)) /\ rank[x] \in 0..N - 1
  <2>1. Pred(x) \subseteq S /\ x \notin Pred(x)
    BY DEF IsOrder
  <2>2. Pred(x) \subseteq S \ {x}
    BY <2>1
  <2>3. IsFiniteSet(S \ {x}) /\ Cardinality(S \ {x}) = N - 1
    BY FS_RemoveElement
  <2>4. IsFiniteSet(Pred(x)) /\ Cardinality(Pred(x)) <= N - 1
    <3> HIDE DEF Pred, N
    <3> QED BY <2>2, <2>3, FS_Subset
  <2>5. Cardinality(Pred(x)) \in Nat
    BY <2>4, FS_CardinalityType
  <2> HIDE DEF Pred, N
  <2> QED BY <1>1, <2>4, <2>5
<1>3. ASSUME NEW x \in S, NEW y \in S, <<x, y>> \in before PROVE rank[x] < rank[y]
  <2> DEFINE P == Pred(x)
             Q == Pred(y)
  <2>1. P \subseteq Q /\ P # Q
    <3>1. x \in Q /\ x \notin P
      BY <1>3 DEF IsOrder
    <3> QED BY <1>3, <3>1 DEF IsOrder
  <2>2. IsFiniteSet(Q)
    BY <1>2
  <2>3. rank[x] = Cardinality(P) /\ rank[y] = Cardinality(Q)
    OBVIOUS
  <2> HIDE DEF P, Q, rank
  <2> QED BY <2>1, <2>2, <2>3, SmallerSet
<1>4. ASSUME NEW x \in S, NEW y \in S, rank[x] = rank[y] PROVE x = y
  <2>1. rank[x] \in Int
    <3>1. rank[x] \in 0..N - 1
      BY <1>2
    <3> HIDE DEF rank, N
    <3> QED BY <3>1
  <2>2. <<x, y>> \notin before /\ <<y, x>> \notin before
    <3> HIDE DEF rank
    <3> QED BY <1>3, <1>4, <2>1
  <2> QED BY <2>2 DEF IsOrder
<1>5. ASSUME NEW n \in 1..N PROVE \E x \in S : rank[x] = n - 1
  <2> SUFFICES ASSUME \A x \in S : rank[x] # n - 1 PROVE FALSE
    OBVIOUS
  <2> DEFINE T == 0..N - 1 \ {n - 1}
  <2>1. rank \in [S -> T]
    <3>1. \A x \in S : rank[x] \in T
      BY <1>2
    <3>2. rank = [x \in S |-> rank[x]]
      BY Zenon
    <3> HIDE DEF rank, T
    <3> QED BY <3>1, <3>2
  <2>2. IsFiniteSet(0..N - 1) /\ Cardinality(0..N - 1) = N
    <3> HIDE DEF N
    <3>1. 0 \in Int /\ N - 1 \in Int
      BY <1>1
    <3> QED BY <1>1, <3>1, FS_Interval
  <2>3. n - 1 \in 0..N - 1
    BY <1>1
  <2>4. IsFiniteSet(T) /\ Cardinality(T) = N - 1
    <3> HIDE DEF N
    <3> QED BY <2>2, <2>3, FS_RemoveElement
  <2>5. Cardinality(T) < Cardinality(S)
    BY <1>1, <2>4
  <2>6. \E x, y \in S : x # y /\ rank[x] = rank[y]
    <3> HIDE DEF rank, T
    <3> QED BY <2>1, <2>4, <2>5, FS_PigeonHole
  <2> QED BY <1>4, <2>6
<1> DEFINE order == InOrder(S, before)
<1> DEFINE nth(n) == CHOOSE x \in S : Cardinality(Pred(x)) = n - 1
<1>6. order = [n \in 1..N |-> nth(n)]
  BY DEF InOrder
<1>7. ASSUME NEW n \in 1..N PROVE nth(n) \in S /\ rank[nth(n)] = n - 1
  <2>1. \E x \in S : Cardinality(Pred(x)) = n - 1
    BY <1>5
  <2>2. nth(n) \in S /\ Cardinality(Pred(nth(n))) = n - 1
    <3> HIDE DEF order, Pred, N, rank
    <3> QED BY <2>1, Zenon
  <2> HIDE DEF nth
  <2> QED BY <2>2
<1>8. /\ order \in [1..N -> S]
      /\ \A n \in 1..N : order[n] = nth(n)
  <2> HIDE DEF rank, order, N, nth
  <2> QED BY <1>6, <1>7
<1>9. ASSUME NEW m \in 1..N, NEW n \in 1..N, order[m] = order[n] PROVE m = n
  <2>1. m - 1 = n - 1
    <3> HIDE DEF rank, order, N, nth
    <3> QED BY <1>7, <1>8, <1>9
  <2> QED BY <1>1, <2>1
<1> QED BY <1>1, <1>8, <1>9

-----------------------------------------------------------------------------
(* Entries and rows.                                                       *)

HistoryEntry ==
    [kind : {"sent", "received"}, status : {"pending", "final", "cancelled"},
     id : Nat \cup {NoId}, addr : Account, amount : Nat, at : Nat]

OneSent(entries) ==
    \A i, j \in DOMAIN entries :
        /\ i # j /\ entries[i].kind = "sent" /\ entries[j].kind = "sent"
        /\ entries[i].id = entries[j].id
        => entries[i].id = NoId
OneReceived(entries) ==
    \A i, j \in DOMAIN entries :
        i # j /\ entries[i].kind = "received" /\ entries[j].kind = "received"
        => entries[i].id # entries[j].id

\* Two lists with the same received payments, in the same places.
SameReceipts(entries, before) ==
    \A i \in DOMAIN entries : entries[i].kind = "received" =>
        i \in DOMAIN before /\ before[i].kind = "received" /\ before[i].id = entries[i].id

RowsTyped(rows) ==
    /\ DOMAIN rows \subseteq Nat
    /\ rows \in [DOMAIN rows -> Send]

\* find takes one of the rows that are left.
LEMMA FirstOfIsOne ==
    ASSUME NEW rows, RowsTyped(rows), NEW ids, ids \subseteq DOMAIN rows, ids # {}
    PROVE  FirstOf(rows, ids) \in ids
<1> DEFINE when(id) == rows[id].executeat + HalfRange
           Times == {when(id) : id \in ids}
<1>1. \A id \in ids : rows[id].executeat \in Int /\ when(id) \in Nat /\ id \in Nat
  BY NumbersAssumption DEF RowsTyped, Send
<1>2. PICK t \in Times : \A u \in Times : t <= u
  <2>1. Times \in SUBSET Nat /\ Times # {}
    BY <1>1
  <2> HIDE DEF Times
  <2> QED BY <2>1, LeastNumber
<1> DEFINE Now == {id \in ids : when(id) = t}
<1>3. PICK first \in Now : \A id \in Now : first <= id
  <2>1. Now \in SUBSET Nat /\ Now # {}
    BY <1>1, <1>2
  <2> HIDE DEF Now
  <2> QED BY <2>1, LeastNumber
<1>4. ASSUME NEW other \in ids
      PROVE  \/ rows[first].executeat < rows[other].executeat
             \/ rows[first].executeat = rows[other].executeat /\ first <= other
  <2>1. when(first) <= when(other)
    BY <1>2, <1>3
  <2>2. rows[first].executeat <= rows[other].executeat
    BY <1>1, <1>3, <2>1, NumbersAssumption
  <2>3. CASE rows[first].executeat = rows[other].executeat
    BY <1>3, <2>3
  <2>4. CASE rows[first].executeat # rows[other].executeat
    BY <1>1, <1>3, <2>2, <2>4
  <2> QED BY <2>3, <2>4
<1>5. first \in ids
  BY <1>3
<1> HIDE DEF Now, Times, when
<1> QED BY <1>4, <1>5, Zenon DEF FirstOf

\* What the two loops do to an entry: it takes an id, it takes a status.
Named(h, id) ==
    [kind |-> h.kind, status |-> h.status, id |-> id, addr |-> h.addr,
     amount |-> h.amount, at |-> h.at]
Marked(h, status, at) ==
    [kind |-> h.kind, status |-> status, id |-> h.id, addr |-> h.addr,
     amount |-> h.amount, at |-> at]

LEMMA EntryNamed ==
    ASSUME NEW h \in HistoryEntry, NEW id
    PROVE  [h EXCEPT !.id = id] = Named(h, id)
<1>1. h = [kind |-> h.kind, status |-> h.status, id |-> h.id, addr |-> h.addr,
           amount |-> h.amount, at |-> h.at]
  BY DEF HistoryEntry
<1> QED BY <1>1 DEF Named

LEMMA EntryMarked ==
    ASSUME NEW h \in HistoryEntry, NEW status, NEW at
    PROVE  [h EXCEPT !.status = status, !.at = at] = Marked(h, status, at)
<1> DEFINE g == Marked(h, status, h.at)
<1>1. h = [kind |-> h.kind, status |-> h.status, id |-> h.id, addr |-> h.addr,
           amount |-> h.amount, at |-> h.at]
  BY DEF HistoryEntry
<1>2. [h EXCEPT !.status = status] = g
  BY <1>1 DEF Marked
<1>3. [g EXCEPT !.at = at] = Marked(h, status, at)
  BY DEF Marked
<1>4. [h EXCEPT !.status = status, !.at = at] = [[h EXCEPT !.status = status] EXCEPT !.at = at]
  OBVIOUS
<1> HIDE DEF g
<1> QED BY <1>2, <1>3, <1>4

\* One turn of the loop gives one entry an id that no entry has, or nothing.
LEMMA TakeIdTakes ==
    ASSUME NEW rows, RowsTyped(rows), NEW S \in SUBSET HistoryEntry,
           NEW entries \in Seq(S), NEW i \in DOMAIN entries
    PROVE  \/ TakeId(entries, i, rows) = entries
           \/ \E id \in Outgoing(rows) \ Ids(entries) :
                 /\ Unmatched(entries[i])
                 /\ TakeId(entries, i, rows) = [entries EXCEPT ![i] = Named(entries[i], id)]
<1> DEFINE free == {id \in Outgoing(rows) \ Ids(entries) :
                       /\ rows[id].recipient = entries[i].addr
                       /\ rows[id].amount = entries[i].amount}
<1>1. TakeId(entries, i, rows) =
         IF Unmatched(entries[i]) /\ free # {}
         THEN [entries EXCEPT ![i].id = FirstOf(rows, free)] ELSE entries
  BY DEF TakeId
<1>2. ASSUME free # {} PROVE FirstOf(rows, free) \in Outgoing(rows) \ Ids(entries)
  <2>1. free \subseteq DOMAIN rows /\ free \subseteq Outgoing(rows) \ Ids(entries)
    BY DEF Outgoing
  <2> HIDE DEF free
  <2> QED BY <1>2, <2>1, FirstOfIsOne
<1> HIDE DEF free
<1>3. [entries EXCEPT ![i].id = FirstOf(rows, free)]
        = [entries EXCEPT ![i] = Named(entries[i], FirstOf(rows, free))]
  <2> DEFINE id == FirstOf(rows, free)
  <2> HIDE DEF id
  <2>1. entries[i] \in HistoryEntry
    OBVIOUS
  <2>2. [entries EXCEPT ![i].id = id] = [entries EXCEPT ![i] = [entries[i] EXCEPT !.id = id]]
    OBVIOUS
  <2>3. [entries[i] EXCEPT !.id = id] = Named(entries[i], id)
    BY <2>1, EntryNamed
  <2> QED BY <2>2, <2>3 DEF id
<1> QED BY <1>1, <1>2, <1>3, Zenon

\* An id given to an entry that has none, and that no entry has.
LEMMA TakingKeeps ==
    ASSUME NEW S \in SUBSET HistoryEntry, NEW entries \in Seq(S), NEW rows,
           NEW i \in DOMAIN entries, Unmatched(entries[i]),
           NEW id \in Outgoing(rows) \ Ids(entries), id \in Nat,
           Named(entries[i], id) \in S, OneSent(entries)
    PROVE  LET taken == [entries EXCEPT ![i] = Named(entries[i], id)]
           IN  /\ taken \in Seq(S) /\ Len(taken) = Len(entries)
               /\ OneSent(taken) /\ SameReceipts(taken, entries)
<1> DEFINE h == Named(entries[i], id)
           taken == [entries EXCEPT ![i] = h]
<1>1. entries[i] \in HistoryEntry
  OBVIOUS
<1>2. h.kind = entries[i].kind /\ h.id = id /\ entries[i].kind = "sent" /\ entries[i].id = NoId
  BY <1>1 DEF Unmatched, Named
<1>3. taken \in Seq(S) /\ Len(taken) = Len(entries) /\ DOMAIN taken = DOMAIN entries
  <2>1. h \in S
    OBVIOUS
  <2> HIDE DEF h
  <2> QED BY <2>1
<1>4. \A j \in DOMAIN entries : taken[j] = IF j = i THEN h ELSE entries[j]
  OBVIOUS
<1>5. \A j \in DOMAIN entries : entries[j].id # id
  BY DEF Ids, NoId
<1> HIDE DEF h, taken
<1>6. SameReceipts(taken, entries)
  BY <1>2, <1>3, <1>4 DEF SameReceipts
<1>7. OneSent(taken)
  BY <1>2, <1>3, <1>4, <1>5 DEF OneSent
<1> QED BY <1>3, <1>6, <1>7 DEF taken, h

\* The first loop of reconcileHistory keeps what it is handed: entries of the same
\* kind, none of a send twice, the received ones untouched.
LEMMA WithIdsKeeps ==
    ASSUME NEW S \in SUBSET HistoryEntry, NEW entries \in Seq(S), OneSent(entries),
           NEW rows, RowsTyped(rows),
           \A h \in S, id \in Outgoing(rows) :
               Unmatched(h) => Named(h, id) \in S
    PROVE  /\ WithIds(entries, rows) \in Seq(S)
           /\ OneSent(WithIds(entries, rows))
           /\ SameReceipts(WithIds(entries, rows), entries)
<1> DEFINE N == Len(entries)
           V == {es \in Seq(S) :
                    Len(es) = N /\ OneSent(es) /\ SameReceipts(es, entries)}
           Step == [n \in 1..N |-> [es \in V |-> TakeId(es, n, rows)]]
<1>1. N \in Nat /\ entries \in V
  BY DEF SameReceipts
<1>2. ASSUME NEW n \in 1..N, NEW es \in V PROVE TakeId(es, n, rows) \in V
  <2>1. CASE TakeId(es, n, rows) = es
    BY <2>1
  <2>2. ASSUME NEW id \in Outgoing(rows) \ Ids(es), Unmatched(es[n]),
               TakeId(es, n, rows) = [es EXCEPT ![n] = Named(es[n], id)]
        PROVE  TakeId(es, n, rows) \in V
    <3>1. n \in DOMAIN es /\ es[n] \in S /\ OneSent(es) /\ es \in Seq(S)
      OBVIOUS
    <3>2. id \in Nat
      BY DEF Outgoing, RowsTyped
    <3>3. Named(es[n], id) \in S
      BY <2>2, <3>1
    <3> DEFINE taken == [es EXCEPT ![n] = Named(es[n], id)]
    <3>4. /\ taken \in Seq(S) /\ Len(taken) = Len(es)
          /\ OneSent(taken) /\ SameReceipts(taken, es)
      BY <2>2, <3>1, <3>2, <3>3, TakingKeeps
    <3> HIDE DEF taken
    <3>5. SameReceipts(taken, entries)
      BY <3>4 DEF SameReceipts
    <3>6. taken \in V
      BY <3>4, <3>5
    <3> QED BY <2>2, <3>6 DEF taken
  <2>3. n \in DOMAIN es /\ es \in Seq(S)
    OBVIOUS
  <2> HIDE DEF V
  <2> QED BY <2>1, <2>2, <2>3, TakeIdTakes
<1>3. Step \in [1..N -> [V -> V]]
  <2> HIDE DEF V, N
  <2> QED BY <1>2
<1> DEFINE Loop(f) == f = [i \in 0..N |-> IF i = 0 THEN entries ELSE TakeId(f[i - 1], i, rows)]
           sofar == CHOOSE f : Loop(f)
<1>4. Loop(sofar)
  <2>1. PICK f \in [0..N -> V] : f[0] = entries /\ \A n \in 1..N : f[n] = Step[n][f[n - 1]]
    <3> HIDE DEF V, N, Step
    <3>1. entries \in V /\ N \in Nat
      BY <1>1
    <3>2. IsMade(V, entries, N, Step)
      BY ONLY <1>3, <3>1, Recursion
    <3> QED BY ONLY <3>2 DEF IsMade
  <2>2. ASSUME NEW n \in 1..N PROVE f[n] = TakeId(f[n - 1], n, rows)
    <3>1. n - 1 \in 0..N
      BY <1>1
    <3>2. f[n - 1] \in V /\ f[n] = Step[n][f[n - 1]]
      BY <2>1, <3>1
    <3> HIDE DEF V, N
    <3> QED BY <3>2
  <2>3. Loop(f)
    <3> HIDE DEF V, N, Step
    <3> QED BY <1>1, <2>1, <2>2
  <2> HIDE DEF Loop
  <2> QED BY <2>3
<1>5. \A n \in 0..N : sofar[n] \in V
  <2>1. sofar[0] = entries
    <3> HIDE DEF sofar, N
    <3> QED BY <1>1, <1>4
  <2>2. ASSUME NEW n \in 1..N, sofar[n - 1] \in V PROVE sofar[n] \in V
    <3>1. sofar[n] = TakeId(sofar[n - 1], n, rows)
      <4> HIDE DEF sofar, N, V
      <4> QED BY <1>1, <1>4
    <3> HIDE DEF sofar, N, V
    <3> QED BY <1>2, <2>2, <3>1
  <2> HIDE DEF sofar, N, V, Loop
  <2> QED BY <1>1, <2>1, <2>2, StepByStep
<1>6. WithIds(entries, rows) = sofar[N]
  BY DEF WithIds
<1>7. WithIds(entries, rows) \in V
  <2> HIDE DEF sofar, N, V, Loop
  <2> QED BY <1>1, <1>5, <1>6
<1> QED BY <1>7

\* Two lists whose entries have the same kind and the same id.
SameIds(entries, before) ==
    /\ DOMAIN entries = DOMAIN before
    /\ \A i \in DOMAIN before :
          entries[i].kind = before[i].kind /\ entries[i].id = before[i].id

LEMMA SameIdsKeeps ==
    ASSUME NEW entries, NEW before, SameIds(entries, before)
    PROVE  /\ SameReceipts(entries, before)
           /\ OneSent(before) => OneSent(entries)
BY DEF SameIds, SameReceipts, OneSent

LEMMA ListOfFunction ==
    ASSUME NEW S, NEW N \in Nat, NEW f \in [1..N -> S]
    PROVE  f \in Seq(S) /\ Len(f) = N
OBVIOUS

\* The second loop marks entries, each on its own.
LEMMA WithFinalsKeeps ==
    ASSUME NEW S \in SUBSET HistoryEntry, NEW T, NEW entries \in Seq(S), NEW rows,
           \A h \in S : IF /\ h.kind = "sent" /\ h.status = "pending"
                           /\ h.id # NoId /\ h.id \notin Outgoing(rows)
                        THEN Marked(h, "final", now) \in T ELSE h \in T
    PROVE  /\ WithFinals(entries, rows) \in Seq(T)
           /\ SameIds(WithFinals(entries, rows), entries)
<1> DEFINE gone(h) == /\ h.kind = "sent" /\ h.status = "pending"
                      /\ h.id # NoId /\ h.id \notin Outgoing(rows)
           result == [i \in DOMAIN entries |->
                         IF gone(entries[i]) THEN [entries[i] EXCEPT !.status = "final", !.at = now]
                         ELSE entries[i]]
           marked == [i \in DOMAIN entries |->
                         IF gone(entries[i]) THEN Marked(entries[i], "final", now) ELSE entries[i]]
<1>1. WithFinals(entries, rows) = result
  BY DEF WithFinals
<1>2. result = marked
  <2>1. ASSUME NEW i \in DOMAIN entries
        PROVE  [entries[i] EXCEPT !.status = "final", !.at = now] = Marked(entries[i], "final", now)
    <3>1. entries[i] \in HistoryEntry
      OBVIOUS
    <3> QED BY <3>1, EntryMarked
  <2> QED BY <2>1, Zenon
<1>3. marked \in Seq(T)
  <2>1. Len(entries) \in Nat /\ DOMAIN entries = 1..Len(entries)
    OBVIOUS
  <2>2. marked \in [1..Len(entries) -> T]
    BY <2>1
  <2> QED BY <2>1, <2>2, ListOfFunction
<1>4. SameIds(marked, entries)
  BY DEF SameIds, Marked
<1> HIDE DEF result, marked
<1> QED BY <1>1, <1>2, <1>3, <1>4

\* An undo marks entries, each on its own.
LEMMA CancelledKeeps ==
    ASSUME NEW S \in SUBSET HistoryEntry, hist \in Seq(S), NEW id, NEW T,
           \A h \in S : IF h.kind = "sent" /\ h.id = id
                        THEN Marked(h, "cancelled", now) \in T ELSE h \in T
    PROVE  /\ Cancelled(id) \in Seq(T)
           /\ SameIds(Cancelled(id), hist)
<1> DEFINE mine(h) == h.kind = "sent" /\ h.id = id
           result == [i \in DOMAIN hist |->
                         IF mine(hist[i]) THEN [hist[i] EXCEPT !.status = "cancelled", !.at = now]
                         ELSE hist[i]]
           marked == [i \in DOMAIN hist |->
                         IF mine(hist[i]) THEN Marked(hist[i], "cancelled", now) ELSE hist[i]]
<1>1. Cancelled(id) = result
  BY DEF Cancelled
<1>2. result = marked
  <2>1. ASSUME NEW i \in DOMAIN hist
        PROVE  [hist[i] EXCEPT !.status = "cancelled", !.at = now]
                  = Marked(hist[i], "cancelled", now)
    <3>1. hist[i] \in HistoryEntry
      OBVIOUS
    <3> QED BY <3>1, EntryMarked
  <2> QED BY <2>1, Zenon
<1>3. marked \in Seq(T)
  <2>1. Len(hist) \in Nat /\ DOMAIN hist = 1..Len(hist)
    OBVIOUS
  <2>2. marked \in [1..Len(hist) -> T]
    BY <2>1
  <2> QED BY <2>1, <2>2, ListOfFunction
<1>4. SameIds(marked, hist)
  BY DEF SameIds, Marked
<1> HIDE DEF result, marked
<1> QED BY <1>1, <1>2, <1>3, <1>4

\* A list put before a list.
LEMMA ConcatKeeps ==
    ASSUME NEW S, NEW new \in Seq(S), NEW entries \in Seq(S),
           \A i \in DOMAIN new : new[i].kind = "received", OneSent(entries)
    PROVE  new \o entries \in Seq(S) /\ OneSent(new \o entries)
<1> DEFINE all == new \o entries
<1>1. /\ all \in Seq(S) /\ DOMAIN all = 1..Len(new) + Len(entries)
      /\ \A i \in DOMAIN new : all[i] = new[i]
      /\ \A i \in DOMAIN all : i > Len(new) =>
            i - Len(new) \in DOMAIN entries /\ all[i] = entries[i - Len(new)]
  OBVIOUS
<1>2. \A i \in DOMAIN all : all[i].kind = "sent" => i > Len(new)
  BY <1>1
<1> HIDE DEF all
<1>3. OneSent(all)
  <2> SUFFICES ASSUME NEW i \in DOMAIN all, NEW j \in DOMAIN all, i # j,
                      all[i].kind = "sent", all[j].kind = "sent", all[i].id = all[j].id
               PROVE  all[i].id = NoId
    BY DEF OneSent
  <2> DEFINE k == i - Len(new)
             l == j - Len(new)
  <2>1. /\ k \in DOMAIN entries /\ all[i] = entries[k]
        /\ l \in DOMAIN entries /\ all[j] = entries[l]
    BY <1>1, <1>2
  <2>2. k # l
    BY <1>1
  <2> HIDE DEF k, l
  <2> QED BY <2>1, <2>2 DEF OneSent
<1> QED BY <1>1, <1>3 DEF all

\* The entry that the form writes has no id yet.
LEMMA AddingKeeps ==
    ASSUME NEW S, NEW h \in S, NEW entries \in Seq(S),
           h.kind = "sent", h.id = NoId, OneSent(entries)
    PROVE  addHist(entries, h) \in Seq(S) /\ OneSent(addHist(entries, h))
<1> DEFINE all == <<h>> \o entries
<1>1. /\ all \in Seq(S) /\ DOMAIN all = 1..1 + Len(entries) /\ all[1] = h
      /\ \A i \in DOMAIN all : i # 1 => i - 1 \in DOMAIN entries /\ all[i] = entries[i - 1]
  OBVIOUS
<1> HIDE DEF all
<1>2. OneSent(all)
  <2> SUFFICES ASSUME NEW i \in DOMAIN all, NEW j \in DOMAIN all, i # j,
                      all[i].kind = "sent", all[j].kind = "sent", all[i].id = all[j].id
               PROVE  all[i].id = NoId
    BY DEF OneSent
  <2>1. CASE i = 1 \/ j = 1
    BY <1>1, <2>1
  <2>2. CASE i # 1 /\ j # 1
    BY <1>1, <2>2 DEF OneSent
  <2> QED BY <2>1, <2>2
<1> QED BY <1>1, <1>2 DEF all, addHist

LEMMA SameReceiptsKeeps ==
    ASSUME NEW entries, NEW before, SameReceipts(entries, before), OneReceived(before)
    PROVE  OneReceived(entries)
BY DEF SameReceipts, OneReceived

LEMMA DescendingOrder ==
    ASSUME NEW ids \in SUBSET Nat, IsFiniteSet(ids)
    PROVE  LET last == InOrder(ids, {pair \in ids \X ids : pair[1] > pair[2]})
           IN  /\ Cardinality(ids) \in Nat /\ last \in [1..Cardinality(ids) -> ids]
               /\ \A m, n \in 1..Cardinality(ids) : last[m] = last[n] => m = n
<1> DEFINE before == {pair \in ids \X ids : pair[1] > pair[2]}
<1>1. \A x, y \in ids : <<x, y>> \in before <=> x > y
  OBVIOUS
<1> HIDE DEF before
<1>2. IsOrder(ids, before)
  BY <1>1 DEF IsOrder
<1> QED BY <1>2, InOrderLists DEF before

\* The third and fourth loop put a receipt before the list for every remembered
\* payment whose row is gone.
Receipt(rows, id) ==
    Entry("received", "final", id, Seen(rows)[id].from, Seen(rows)[id].amount, now)

ReceiptsOf(new, gone) ==
    /\ \A i \in DOMAIN new : new[i].kind = "received" /\ new[i].id \in gone
    /\ \A i, j \in DOMAIN new : new[i].id = new[j].id => i = j

LEMMA WithReceiptsAdds ==
    ASSUME NEW S, NEW entries, NEW rows, NEW gone \in SUBSET Nat,
           gone = DOMAIN Seen(rows) \ Incoming(rows), IsFiniteSet(gone),
           \A id \in gone : Receipt(rows, id) \in S
    PROVE  \E new \in Seq(S) :
              WithReceipts(entries, rows) = new \o entries /\ ReceiptsOf(new, gone)
<1> DEFINE last == InOrder(gone, {pair \in gone \X gone : pair[1] > pair[2]})
           N == Cardinality(gone)
           new == [n \in DOMAIN last |-> Receipt(rows, last[n])]
<1>1. /\ N \in Nat /\ last \in [1..N -> gone]
      /\ \A m, n \in 1..N : last[m] = last[n] => m = n
  BY DescendingOrder
<1>2. WithReceipts(entries, rows) = new \o entries
  BY DEF WithReceipts, Receipt
<1> HIDE DEF last, N
<1>3. \A id \in gone : Receipt(rows, id).kind = "received" /\ Receipt(rows, id).id = id
  BY DEF Receipt, Entry
<1>4. /\ DOMAIN new = 1..N /\ new \in [1..N -> S]
      /\ \A n \in 1..N : new[n].kind = "received" /\ new[n].id = last[n]
  BY <1>1, <1>3
<1> HIDE DEF new
<1>5. new \in Seq(S)
  BY <1>1, <1>4, ListOfFunction
<1>6. \A i, j \in DOMAIN new : new[i].id = new[j].id => i = j
  BY <1>1, <1>4
<1>7. \A i \in DOMAIN new : new[i].kind = "received" /\ new[i].id \in gone
  BY <1>1, <1>4
<1> QED BY <1>2, <1>5, <1>6, <1>7 DEF ReceiptsOf

\* Sorting moves entries about.
LEMMA NewestFirstMoves ==
    ASSUME NEW S \in SUBSET HistoryEntry, NEW entries \in Seq(S)
    PROVE  /\ NewestFirst(entries) \in Seq(S)
           /\ DOMAIN NewestFirst(entries) = DOMAIN entries
           /\ \E order \in [DOMAIN entries -> DOMAIN entries] :
                 /\ \A i \in DOMAIN entries : NewestFirst(entries)[i] = entries[order[i]]
                 /\ \A i, j \in DOMAIN entries : order[i] = order[j] => i = j
<1> DEFINE D == DOMAIN entries
           N == Len(entries)
           before == {pair \in D \X D :
                         \/ entries[pair[1]].at > entries[pair[2]].at
                         \/ entries[pair[1]].at = entries[pair[2]].at /\ pair[1] < pair[2]}
           order == InOrder(D, before)
<1>1. N \in Nat /\ D = 1..N
  OBVIOUS
<1>2. \A x, y \in D : <<x, y>> \in before <=>
          \/ entries[x].at > entries[y].at
          \/ entries[x].at = entries[y].at /\ x < y
  OBVIOUS
<1>3. \A x \in D : entries[x].at \in Nat /\ x \in Nat
  BY DEF HistoryEntry
<1>4. IsOrder(D, before)
  <2> HIDE DEF before, D
  <2> QED BY <1>2, <1>3 DEF IsOrder
<1>5. IsFiniteSet(D) /\ Cardinality(D) = N
  <2> HIDE DEF D, N
  <2>1. 1 \in Int /\ N \in Int
    BY <1>1
  <2> QED BY <1>1, <2>1, FS_Interval
<1>6. order \in [D -> D] /\ \A i, j \in D : order[i] = order[j] => i = j
  <2> HIDE DEF before, D, N
  <2>1. /\ order \in [1..Cardinality(D) -> D]
        /\ \A i, j \in 1..Cardinality(D) : order[i] = order[j] => i = j
    BY ONLY <1>4, <1>5, InOrderLists
  <2> QED BY ONLY <1>1, <1>5, <2>1
<1>7. NewestFirst(entries) = [i \in D |-> entries[order[i]]]
  BY DEF NewestFirst
<1>8. NewestFirst(entries) \in [1..N -> S]
  <2>1. \A i \in D : entries[i] \in S
    OBVIOUS
  <2> HIDE DEF order, D, N
  <2> QED BY <1>1, <1>6, <1>7, <2>1
<1>9. NewestFirst(entries) \in Seq(S)
  <2> HIDE DEF order, D, N
  <2> QED BY <1>1, <1>8, ListOfFunction
<1>10. \A i \in D : NewestFirst(entries)[i] = entries[order[i]]
  <2> HIDE DEF order, D, N
  <2> QED BY <1>7
<1>11. DOMAIN NewestFirst(entries) = D
  <2> HIDE DEF order, D, N
  <2> QED BY <1>7
<1> HIDE DEF order
<1> QED BY <1>6, <1>9, <1>10, <1>11

-----------------------------------------------------------------------------
(* Merging what the chain says.                                            *)

\* find takes the first of the entries it finds.
LEMMA FirstMineIsMine ==
    ASSUME NEW S, NEW entries \in Seq(S), NEW r, Mine(entries, r) # {}
    PROVE  FirstMine(entries, r) \in Mine(entries, r)
<1> DEFINE T == Mine(entries, r)
<1>1. T \in SUBSET Nat
  BY DEF Mine
<1>2. \E i \in T : \A j \in T : i <= j
  <2> HIDE DEF T
  <2> QED BY <1>1, LeastNumber DEF T
<1> QED BY <1>2, Zenon DEF FirstMine

\* A turn of the loop leaves the list, adds the row of a send that has no entry, or
\* marks the entry of this send.
LEMMA MergeRowTurns ==
    ASSUME NEW S \in SUBSET HistoryEntry, NEW entries \in Seq(S), NEW r
    PROVE  \/ MergeRow(entries, r) = entries
           \/ Mine(entries, r) = {} /\ MergeRow(entries, r) = Append(entries, r)
           \/ \E i \in DOMAIN entries :
                 /\ SameSend(entries[i], r) /\ r.status # "pending"
                 /\ MergeRow(entries, r)
                      = [entries EXCEPT ![i] = Marked(entries[i], r.status, r.at)]
<1> DEFINE i == FirstMine(entries, r)
<1>1. MergeRow(entries, r) =
         IF Mine(entries, r) = {} THEN Append(entries, r)
         ELSE IF entries[i].status # r.status /\ r.status # "pending"
              THEN [entries EXCEPT ![i].status = r.status, ![i].at = r.at] ELSE entries
  BY DEF MergeRow
<1> HIDE DEF i
<1>2. ASSUME Mine(entries, r) # {} PROVE i \in DOMAIN entries /\ SameSend(entries[i], r)
  <2>1. i \in Mine(entries, r)
    BY <1>2, FirstMineIsMine DEF i
  <2> QED BY <2>1 DEF Mine
<1>3. ASSUME Mine(entries, r) # {}
      PROVE  [entries EXCEPT ![i].status = r.status, ![i].at = r.at]
                = [entries EXCEPT ![i] = Marked(entries[i], r.status, r.at)]
  <2> DEFINE status == r.status
             at == r.at
  <2> HIDE DEF status, at
  <2>1. i \in DOMAIN entries
    BY <1>2, <1>3
  <2>2. entries[i] \in HistoryEntry
    BY <2>1
  <2>3. [entries EXCEPT ![i].status = status, ![i].at = at]
          = [entries EXCEPT ![i] = [entries[i] EXCEPT !.status = status, !.at = at]]
    OBVIOUS
  <2>4. [entries[i] EXCEPT !.status = status, !.at = at] = Marked(entries[i], status, at)
    BY <2>2, EntryMarked
  <2> QED BY <2>3, <2>4 DEF status, at
<1> QED BY <1>1, <1>2, <1>3, Zenon

\* A row that may join a list of such entries, and may mark them.
Mergeable(S, r) ==
    /\ r \in S /\ r.kind = "sent"
    /\ \A h \in S : SameSend(h, r) /\ r.status # "pending" => Marked(h, r.status, r.at) \in S

LEMMA MergeRowKeeps ==
    ASSUME NEW S \in SUBSET HistoryEntry, NEW entries \in Seq(S), OneSent(entries),
           NEW r, Mergeable(S, r)
    PROVE  /\ MergeRow(entries, r) \in Seq(S)
           /\ OneSent(MergeRow(entries, r))
           /\ SameReceipts(MergeRow(entries, r), entries)
<1>1. CASE MergeRow(entries, r) = entries
  BY <1>1 DEF SameReceipts
<1>2. CASE Mine(entries, r) = {} /\ MergeRow(entries, r) = Append(entries, r)
  <2> DEFINE all == Append(entries, r)
             n == Len(entries) + 1
  <2>1. /\ all \in Seq(S) /\ DOMAIN all = 1..n /\ n \in Nat
        /\ \A i \in 1..n : i # n => i \in DOMAIN entries /\ all[i] = entries[i]
        /\ all[n] = r /\ r.kind = "sent"
    BY DEF Mergeable
  <2>2. \A i \in DOMAIN entries : entries[i].kind = "sent" /\ r.id # NoId => entries[i].id # r.id
    BY <1>2 DEF Mine, SameSend
  <2> HIDE DEF all, n
  <2>3. SameReceipts(all, entries)
    BY <2>1 DEF SameReceipts
  <2>4. OneSent(all)
    <3> SUFFICES ASSUME NEW i \in DOMAIN all, NEW j \in DOMAIN all, i # j,
                        all[i].kind = "sent", all[j].kind = "sent", all[i].id = all[j].id
                 PROVE  all[i].id = NoId
      BY DEF OneSent
    <3>1. CASE i # n /\ j # n
      BY <2>1, <3>1 DEF OneSent
    <3>2. CASE i = n \/ j = n
      BY <2>1, <2>2, <3>2
    <3> QED BY <3>1, <3>2
  <2> QED BY <1>2, <2>1, <2>3, <2>4 DEF all
<1>3. ASSUME NEW i \in DOMAIN entries, SameSend(entries[i], r), r.status # "pending",
             MergeRow(entries, r) = [entries EXCEPT ![i] = Marked(entries[i], r.status, r.at)]
      PROVE  /\ MergeRow(entries, r) \in Seq(S)
             /\ OneSent(MergeRow(entries, r))
             /\ SameReceipts(MergeRow(entries, r), entries)
  <2> DEFINE h == Marked(entries[i], r.status, r.at)
             all == [entries EXCEPT ![i] = h]
  <2>1. h \in S /\ h.kind = entries[i].kind /\ h.id = entries[i].id
    BY <1>3 DEF Marked, Mergeable
  <2> HIDE DEF h
  <2>2. all \in Seq(S)
    BY <2>1
  <2>3. SameIds(all, entries)
    BY <2>1 DEF SameIds
  <2> HIDE DEF all
  <2>4. OneSent(all) /\ SameReceipts(all, entries)
    BY <2>3, SameIdsKeeps
  <2> QED BY <1>3, <2>2, <2>4 DEF all, h
<1> QED BY <1>1, <1>2, <1>3, MergeRowTurns

\* One turn of mergeChainHistory's loop, and what it keeps the loop keeps.
Turn(entries, events, n) ==
    LET e == events[Len(events) - n + 1]
    IN  IF IsSend(e) THEN MergeRow(entries, ChainRow(events, e)) ELSE entries

LEMMA MergedByTurns ==
    ASSUME NEW V, NEW entries \in V, NEW events, Len(events) \in Nat,
           \A n \in 1..Len(events), es \in V : Turn(es, events, n) \in V
    PROVE  Merged(entries, events) \in V
<1> DEFINE N == Len(events)
           Step == [n \in 1..N |-> [es \in V |-> Turn(es, events, n)]]
           Loop(f) == f = [k \in 0..N |-> IF k = 0 THEN entries ELSE Turn(f[k - 1], events, k)]
           sofar == CHOOSE f : Loop(f)
<1>1. N \in Nat
  OBVIOUS
<1>2. Step \in [1..N -> [V -> V]]
  OBVIOUS
<1>3. Loop(sofar)
  <2>0. \E f \in [0..N -> V] : f[0] = entries /\ \A n \in 1..N : f[n] = Step[n][f[n - 1]]
    <3>1. entries \in V
      OBVIOUS
    <3> HIDE DEF N, Step
    <3>2. IsMade(V, entries, N, Step)
      BY ONLY <1>1, <1>2, <3>1, Recursion
    <3> QED BY ONLY <3>2 DEF IsMade
  <2>1. PICK f \in [0..N -> V] : f[0] = entries /\ \A n \in 1..N : f[n] = Step[n][f[n - 1]]
    BY <2>0
  <2>2. ASSUME NEW n \in 1..N PROVE f[n] = Turn(f[n - 1], events, n)
    <3>1. n - 1 \in 0..N
      BY <1>1
    <3>2. f[n - 1] \in V /\ f[n] = Step[n][f[n - 1]]
      BY <2>1, <3>1
    <3> HIDE DEF N
    <3> QED BY <3>2
  <2>3. Loop(f)
    <3> HIDE DEF N, Step
    <3> QED BY <1>1, <2>1, <2>2
  <2> HIDE DEF Loop
  <2> QED BY <2>3
<1>4. \A n \in 0..N : sofar[n] \in V
  <2>1. sofar[0] = entries
    <3> HIDE DEF sofar, N
    <3> QED BY <1>1, <1>3
  <2>2. ASSUME NEW n \in 1..N, sofar[n - 1] \in V PROVE sofar[n] \in V
    <3>1. sofar[n] = Turn(sofar[n - 1], events, n)
      <4> HIDE DEF sofar, N
      <4> QED BY <1>1, <1>3
    <3> HIDE DEF sofar
    <3> QED BY <2>2, <3>1
  <2> HIDE DEF sofar, N, Loop
  <2> QED BY <1>1, <2>1, <2>2, StepByStep
<1>5. Merged(entries, events) = sofar[N]
  BY DEF Merged, Turn
<1> HIDE DEF sofar, N
<1> QED BY <1>1, <1>4, <1>5

\* The loop of mergeChainHistory keeps what it is handed: entries of the same kind,
\* none of a send twice, the received ones untouched.
LEMMA MergedKeeps ==
    ASSUME NEW S \in SUBSET HistoryEntry, NEW entries \in Seq(S), OneSent(entries),
           NEW events, Len(events) \in Nat,
           \A k \in 1..Len(events) :
              IsSend(events[k]) => Mergeable(S, ChainRow(events, events[k]))
    PROVE  /\ Merged(entries, events) \in Seq(S)
           /\ OneSent(Merged(entries, events))
           /\ SameReceipts(Merged(entries, events), entries)
<1> DEFINE V == {es \in Seq(S) : OneSent(es) /\ SameReceipts(es, entries)}
<1>1. entries \in V
  BY DEF SameReceipts
<1>2. ASSUME NEW n \in 1..Len(events), NEW es \in V PROVE Turn(es, events, n) \in V
  <2> DEFINE e == events[Len(events) - n + 1]
             r == ChainRow(events, e)
  <2>1. IsSend(e) => Mergeable(S, r)
    <3>1. Len(events) - n + 1 \in 1..Len(events)
      OBVIOUS
    <3> QED BY <3>1
  <2>2. es \in Seq(S) /\ OneSent(es) /\ SameReceipts(es, entries)
    OBVIOUS
  <2>3. Turn(es, events, n) = IF IsSend(e) THEN MergeRow(es, r) ELSE es
    BY DEF Turn
  <2> HIDE DEF e, r, V
  <2>4. CASE IsSend(e)
    <3>1. /\ MergeRow(es, r) \in Seq(S) /\ OneSent(MergeRow(es, r))
          /\ SameReceipts(MergeRow(es, r), es)
      BY <2>1, <2>2, <2>4, MergeRowKeeps
    <3>2. SameReceipts(MergeRow(es, r), entries)
      BY <2>2, <3>1 DEF SameReceipts
    <3>3. MergeRow(es, r) \in V
      BY <3>1, <3>2 DEF V
    <3> QED BY <2>3, <2>4, <3>3
  <2> QED BY <2>3, <2>4
<1>3. Merged(entries, events) \in V
  <2> HIDE DEF V
  <2> QED BY <1>1, <1>2, MergedByTurns
<1> QED BY <1>3
=============================================================================
