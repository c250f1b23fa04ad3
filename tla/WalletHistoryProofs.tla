------------------------ MODULE WalletHistoryProofs -------------------------
(***************************************************************************)
(* What the wallet's list may be trusted for.                              *)
(*                                                                         *)
(* The invariant goes along with the data: the node's index tells what is so *)
(* (IndexInv), the rows of a refresh are of known sends and as they are while *)
(* in flight (RefreshInv), and each entry is backed by one or the other    *)
(* (HistInv).  All of it is stable as the chain moves on, so it does not   *)
(* matter how old an answer is, nor how many refreshes overlap.            *)
(*                                                                         *)
(* Then what the wallet may conclude from a row that is gone.  An entry is *)
(* called final, and an incoming payment received, because a refresh did not *)
(* find it.  That is right if no refresh overlooks a send that is still in *)
(* flight, though its pages are read in different blocks: what is in flight is *)
(* among the rows read so far or still to come (AllAwaited).  It holds where *)
(* refreshes come one at a time.  Nothing in the code sees to that: with two, *)
(* the older answer may be applied last, and the theorems that assume      *)
(* OneAtATime fail.                                                        *)
(***************************************************************************)
EXTENDS WalletProofs

-----------------------------------------------------------------------------
(* What a refresh has read, what is shown and what is remembered.          *)

\* Rows the chain has answered with: of sends that are known, and as they are while
\* they are in flight.
TrueRows ==
    {rows \in UNION {[ids -> Send] : ids \in SUBSET (DOMAIN history)} :
        \A id \in DOMAIN rows :
            /\ rows[id].sender = history[id].sender
            /\ id \in DOMAIN pending => rows[id] = pending[id]}
Fetch ==
    [stage : {"idle", "pages", "ready", "history", "merge"}, rows : TrueRows,
     next : Nat, upto : 0..Len(index)]

RefreshInv ==
    /\ refreshes \in [1..Refreshes -> Fetch]
    /\ DOMAIN shown \subseteq DOMAIN history
    /\ DOMAIN seenIn \subseteq DOMAIN history
    /\ \A id \in DOMAIN seenIn : seenIn[id].from \in Account /\ seenIn[id].amount \in Nat

\* Rows, one by one.
LEMMA RowByRow ==
    ASSUME NEW rows
    PROVE  rows \in TrueRows <=>
              /\ DOMAIN rows \subseteq DOMAIN history
              /\ rows \in [DOMAIN rows -> Send]
              /\ \A id \in DOMAIN rows :
                    /\ rows[id].sender = history[id].sender
                    /\ id \in DOMAIN pending => rows[id] = pending[id]
<1>1. ASSUME rows \in TrueRows
      PROVE  DOMAIN rows \subseteq DOMAIN history /\ rows \in [DOMAIN rows -> Send]
  <2>1. PICK ids \in SUBSET (DOMAIN history) : rows \in [ids -> Send]
    BY <1>1 DEF TrueRows
  <2>2. DOMAIN rows = ids
    BY <2>1
  <2> QED BY <2>1, <2>2
<1> QED BY <1>1 DEF TrueRows

LEMMA NothingRead ==
    ASSUME Len(index) \in Nat
    PROVE  Idle \in Fetch /\ Asked \in Fetch
<1> DEFINE none == [id \in {} |-> {}]
<1>1. DOMAIN none = {} /\ none \in [DOMAIN none -> Send]
  OBVIOUS
<1> HIDE DEF none
<1>2. none \in TrueRows
  BY <1>1, RowByRow
<1>3. /\ Idle = [stage |-> "idle", rows |-> none, next |-> 0, upto |-> 0]
      /\ Asked = [stage |-> "pages", rows |-> none, next |-> 0, upto |-> 0]
  BY DEF Idle, Asked, none
<1> QED BY <1>2, <1>3 DEF Fetch

LEMMA RowsStayTrue == TypeInv /\ ChainMovesOn => TrueRows \subseteq TrueRows'
<1> SUFFICES ASSUME TypeInv, ChainMovesOn, NEW rows \in TrueRows PROVE rows \in TrueRows'
  OBVIOUS
<1>1. /\ DOMAIN rows \subseteq DOMAIN history /\ rows \in [DOMAIN rows -> Send]
      /\ \A id \in DOMAIN rows :
            /\ rows[id].sender = history[id].sender
            /\ id \in DOMAIN pending => rows[id] = pending[id]
  BY RowByRow
<1>2. DOMAIN rows \subseteq DOMAIN history'
  BY <1>1 DEF ChainMovesOn
<1>3. ASSUME NEW id \in DOMAIN rows
      PROVE  /\ rows[id].sender = history'[id].sender
             /\ id \in DOMAIN pending' => rows[id] = pending'[id]
  BY <1>1 DEF ChainMovesOn
<1>4. rows \in UNION {[ids -> Send] : ids \in SUBSET (DOMAIN history')}
  BY <1>1, <1>2
<1>5. Send' = Send
  BY DEF Send
<1> QED BY <1>3, <1>4, <1>5 DEF TrueRows

LEMMA FetchesStay ==
    ASSUME TypeInv, ChainMovesOn, NEW S, index \in Seq(S), IndexGrows
    PROVE  Fetch \subseteq Fetch' /\ Len(index') \in Nat
<1>1. Len(index) \in Nat /\ Len(index') \in Nat /\ Len(index) <= Len(index')
  BY DEF IndexGrows
<1>2. 0..Len(index) \subseteq 0..Len(index')
  BY <1>1
<1> QED BY <1>1, <1>2, RowsStayTrue DEF Fetch

\* A call of refresh asks, if it may.
LEMMA BeginAsks ==
    ASSUME NEW R, NEW slots \in [1..Refreshes -> R], Asked \in R
    PROVE  Begin(slots) \in [1..Refreshes -> R]
<1> DEFINE s == CHOOSE s \in DOMAIN slots : slots[s].stage = "idle"
<1>1. Begin(slots) = IF \A t \in DOMAIN slots : slots[t].stage # "idle" THEN slots
                     ELSE [slots EXCEPT ![s] = Asked]
  BY DEF Begin
<1> HIDE DEF s
<1> QED BY <1>1

\* The rows of a page join those that were read before.
LEMMA PageIsTrue ==
    ASSUME TypeInv, StoryInv, NEW rows \in TrueRows, NEW mine \in SUBSET (DOMAIN pending)
    PROVE  WithPage(rows, mine) \in TrueRows
<1> DEFINE new == WithPage(rows, mine)
<1>1. /\ DOMAIN new = mine \cup DOMAIN rows
      /\ \A id \in DOMAIN new : new[id] = IF id \in mine THEN pending[id] ELSE rows[id]
      /\ new = [id \in DOMAIN new |-> new[id]]
  BY DEF WithPage
<1>2. /\ DOMAIN rows \subseteq DOMAIN history /\ rows \in [DOMAIN rows -> Send]
      /\ \A id \in DOMAIN rows :
            /\ rows[id].sender = history[id].sender
            /\ id \in DOMAIN pending => rows[id] = pending[id]
  BY RowByRow
<1>3. /\ DOMAIN pending \subseteq DOMAIN history
      /\ \A id \in DOMAIN pending : pending[id] \in Send /\ pending[id].sender = history[id].sender
  BY DEF TypeInv, TypeOK, StoryInv
<1> HIDE DEF new
<1>4. DOMAIN new \subseteq DOMAIN history
  BY <1>1, <1>2, <1>3
<1>5. \A id \in DOMAIN new : new[id] \in Send
  BY <1>1, <1>2, <1>3
<1>6. new \in [DOMAIN new -> Send]
  BY <1>1, <1>5
<1>7. ASSUME NEW id \in DOMAIN new
      PROVE  /\ new[id].sender = history[id].sender
             /\ id \in DOMAIN pending => new[id] = pending[id]
  BY <1>1, <1>2, <1>3
<1>8. new \in TrueRows
  BY <1>4, <1>6, <1>7, RowByRow
<1> QED BY <1>8 DEF new

\* The key after a page, if there is one.
LEMMA NextKeyIsNext ==
    ASSUME TypeInv, NEW key
    PROVE  NextKey(key) \in Nat /\ \A j \in Beyond(key) : NextKey(key) <= j
<1> DEFINE T == Beyond(key)
<1>1. T \in SUBSET Nat
  BY DEF Beyond, TypeInv, TypeOK
<1>2. ASSUME T # {} PROVE \E k \in T : \A j \in T : k <= j
  <2> HIDE DEF T
  <2> QED BY <1>1, <1>2, LeastNumber
<1>3. ASSUME T # {} PROVE NextKey(key) \in T /\ \A j \in T : NextKey(key) <= j
  BY <1>2, <1>3, Zenon DEF NextKey
<1> HIDE DEF T
<1> QED BY <1>1, <1>3 DEF NextKey, T

LEMMA RefreshInvInit == WalletInit => RefreshInv
<1> SUFFICES ASSUME WalletInit PROVE RefreshInv
  OBVIOUS
<1>1. Len(index) \in Nat
  BY DEF WalletInit
<1>2. Idle \in Fetch /\ Asked \in Fetch
  BY <1>1, NothingRead
<1> DEFINE none == [s \in 1..Refreshes |-> Idle]
<1>3. none \in [1..Refreshes -> Fetch]
  BY <1>2
<1>4. refreshes = Begin(none)
  BY DEF WalletInit
<1>5. refreshes \in [1..Refreshes -> Fetch]
  <2> HIDE DEF none
  <2> QED BY <1>2, <1>3, <1>4, BeginAsks
<1>6. DOMAIN shown = {} /\ DOMAIN seenIn = {}
  BY DEF WalletInit
<1> QED BY <1>5, <1>6 DEF RefreshInv

\* Steps that leave the rows alone.
LEMMA RowsUnchanged ==
    ASSUME RefreshInv, DOMAIN history \subseteq DOMAIN history',
           refreshes' \in [1..Refreshes -> Fetch'],
           DOMAIN shown' \subseteq DOMAIN shown, UNCHANGED seenIn
    PROVE  RefreshInv'
<1>1. Account' = Account
  OBVIOUS
<1> QED BY <1>1 DEF RefreshInv

\* What is remembered after the rows were reconciled is of known sends, too.
LEMMA SeenStayKnown ==
    ASSUME RefreshInv, TypeInv, NEW rows \in TrueRows
    PROVE  /\ DOMAIN Seen(rows) = DOMAIN seenIn \cup Incoming(rows)
           /\ DOMAIN Seen(rows) \subseteq DOMAIN history
           /\ \A id \in DOMAIN Seen(rows) :
                 Seen(rows)[id].from \in Account /\ Seen(rows)[id].amount \in Nat
           /\ DOMAIN StillSeen(rows) = Incoming(rows)
           /\ \A id \in DOMAIN StillSeen(rows) : StillSeen(rows)[id] = Seen(rows)[id]
<1>1. /\ DOMAIN rows \subseteq DOMAIN history /\ rows \in [DOMAIN rows -> Send]
      /\ Incoming(rows) \subseteq DOMAIN rows
  BY RowByRow DEF Incoming
<1>2. /\ DOMAIN Seen(rows) = DOMAIN seenIn \cup Incoming(rows)
      /\ \A id \in DOMAIN Seen(rows) : Seen(rows)[id] =
            IF id \in DOMAIN seenIn THEN seenIn[id]
            ELSE [from |-> rows[id].sender, amount |-> rows[id].amount]
  BY DEF Seen
<1>3. DOMAIN Seen(rows) \subseteq DOMAIN history
  BY <1>1, <1>2 DEF RefreshInv
<1>4. ASSUME NEW id \in DOMAIN Seen(rows)
      PROVE  Seen(rows)[id].from \in Account /\ Seen(rows)[id].amount \in Nat
  <2>1. CASE id \in DOMAIN seenIn
    BY <1>2, <2>1 DEF RefreshInv
  <2>2. CASE id \notin DOMAIN seenIn
    <3>1. id \in DOMAIN rows
      BY <1>1, <1>2, <2>2
    <3>2. rows[id].sender \in Account /\ rows[id].amount \in Nat
      BY <1>1, <3>1, AccountsKnown DEF Send
    <3>3. Seen(rows)[id] = [from |-> rows[id].sender, amount |-> rows[id].amount]
      BY <1>2, <2>2
    <3> QED BY <3>2, <3>3
  <2> QED BY <2>1, <2>2
<1>5. /\ DOMAIN StillSeen(rows) = Incoming(rows)
      /\ \A id \in DOMAIN StillSeen(rows) : StillSeen(rows)[id] = Seen(rows)[id]
  BY <1>2 DEF StillSeen, Restrict
<1> QED BY <1>2, <1>3, <1>4, <1>5

LEMMA RefreshInvStep ==
    TypeInv /\ StoryInv /\ WantInv /\ IndexInv /\ RefreshInv /\ [WalletNext]_allVars
        => RefreshInv'
<1> SUFFICES ASSUME TypeInv, StoryInv, WantInv, IndexInv, RefreshInv, [WalletNext]_allVars
             PROVE  RefreshInv'
  OBVIOUS
<1>a. /\ ChainMovesOn /\ Fetch \subseteq Fetch' /\ Len(index) \in Nat /\ Len(index') \in Nat
      /\ DOMAIN history \subseteq DOMAIN history'
  <2>1. ChainMovesOn /\ IndexGrows
    BY WalletOnlyMovesOn
  <2> QED BY <2>1, FetchesStay DEF IndexInv, ChainMovesOn
<1>b. refreshes \in [1..Refreshes -> Fetch']
  BY <1>a DEF RefreshInv
<1>c. Idle \in Fetch' /\ Asked \in Fetch'
  BY <1>a, NothingRead
<1>1. ASSUME UNCHANGED local PROVE RefreshInv'
  BY <1>1, <1>a, <1>b, RowsUnchanged DEF local
<1>2. ASSUME refreshes' = Begin(refreshes) \/ UNCHANGED refreshes, UNCHANGED <<shown, seenIn>>
      PROVE  RefreshInv'
  <2>1. refreshes' \in [1..Refreshes -> Fetch']
    BY <1>b, <1>c, <1>2, BeginAsks
  <2> QED BY <1>2, <1>a, <2>1, RowsUnchanged
<1>3. CASE Chain \/ UNCHANGED allVars
  BY <1>1, <1>3 DEF Chain, allVars
<1>4. ASSUME NEW tx \in mempool, Deliver(tx) \/ Lose(tx) PROVE RefreshInv'
  BY <1>1, <1>4 DEF Deliver, Lose
<1>5. CASE RefreshTimer
  BY <1>2, <1>5 DEF RefreshTimer
<1>6. ASSUME NEW s \in DOMAIN refreshes, RefreshStep(s) PROVE RefreshInv'
  <2>0. s \in 1..Refreshes /\ refreshes[s] \in Fetch
    BY DEF RefreshInv
  <2>1. ASSUME NEW r, r \in Fetch', refreshes' = [refreshes EXCEPT ![s] = r],
               UNCHANGED <<shown, seenIn>>
        PROVE  RefreshInv'
    <3>1. refreshes' \in [1..Refreshes -> Fetch']
      BY <1>b, <2>0, <2>1
    <3> QED BY <2>1, <3>1, <1>a, RowsUnchanged
  <2>2. CASE ReadPage(s)
    <3> DEFINE key == refreshes[s].next
               mine == {k \in PageFrom(key) : Me \in {pending[k].sender, pending[k].recipient}}
               rows == WithPage(refreshes[s].rows, mine)
               r == [stage |-> IF Beyond(key) = {} THEN "ready" ELSE "pages",
                     rows |-> rows, next |-> NextKey(key), upto |-> 0]
    <3>1. refreshes' = [refreshes EXCEPT ![s] = r] /\ UNCHANGED <<shown, seenIn>>
      BY <2>2 DEF ReadPage
    <3>2. mine \in SUBSET (DOMAIN pending) /\ refreshes[s].rows \in TrueRows
      BY <2>0 DEF PageFrom, Fetch
    <3>3. rows \in TrueRows
      <4> HIDE DEF mine
      <4> QED BY <3>2, PageIsTrue
    <3>4. NextKey(key) \in Nat
      BY NextKeyIsNext
    <3> HIDE DEF key, mine, rows
    <3>5. r \in Fetch
      BY <1>a, <3>3, <3>4 DEF Fetch
    <3> HIDE DEF r
    <3> QED BY <1>a, <2>1, <3>1, <3>5
  <2>3. CASE Apply(s)
    <3> DEFINE rows == refreshes[s].rows
               r == [Idle EXCEPT !.stage = "history"]
    <3>1. r = [stage |-> "history", rows |-> Idle.rows, next |-> 0, upto |-> 0]
      BY DEF Idle
    <3>2. r \in Fetch'
      BY <3>1, <1>c, <1>a DEF Fetch, Idle
    <3>3. refreshes' \in [1..Refreshes -> Fetch']
      <4> HIDE DEF r
      <4>1. refreshes' = [refreshes EXCEPT ![s] = r]
        BY <2>3 DEF Apply, r
      <4> QED BY <1>b, <2>0, <3>2, <4>1
    <3>4. rows \in TrueRows
      BY <2>0 DEF Fetch
    <3>5. shown' = rows /\ seenIn' = StillSeen(rows)
      BY <2>3 DEF Apply, reconcileHistory
    <3> HIDE DEF rows
    <3>6. DOMAIN shown' \subseteq DOMAIN history'
      BY <3>4, <3>5, <1>a, RowByRow
    <3>7. /\ DOMAIN seenIn' \subseteq DOMAIN history'
          /\ \A id \in DOMAIN seenIn' : seenIn'[id].from \in Account /\ seenIn'[id].amount \in Nat
      <4>1. Incoming(rows) \subseteq DOMAIN Seen(rows)
        BY <3>4, SeenStayKnown
      <4> QED BY <3>4, <3>5, <4>1, <1>a, SeenStayKnown
    <3> QED BY <3>3, <3>6, <3>7 DEF RefreshInv, Account
  <2>4. CASE ReadHistory(s)
    <3> DEFINE r == [Idle EXCEPT !.stage = "merge", !.upto = Len(index)]
    <3>1. r = [stage |-> "merge", rows |-> Idle.rows, next |-> 0, upto |-> Len(index)]
      <4> DEFINE none == Idle.rows
                 n == Len(index)
                 one == [stage |-> "merge", rows |-> none, next |-> 0, upto |-> 0]
      <4>1. [Idle EXCEPT !.stage = "merge"] = one
        BY DEF Idle
      <4>2. r = [[Idle EXCEPT !.stage = "merge"] EXCEPT !.upto = n]
        OBVIOUS
      <4> HIDE DEF none, n
      <4>3. [one EXCEPT !.upto = n] = [stage |-> "merge", rows |-> none, next |-> 0, upto |-> n]
        OBVIOUS
      <4> HIDE DEF one
      <4> QED BY <4>1, <4>2, <4>3 DEF none, n
    <3>2. Idle.rows \in TrueRows
      BY <1>a, NothingRead DEF Fetch
    <3>3. r \in Fetch
      <4> HIDE DEF r
      <4> QED BY <1>a, <3>1, <3>2 DEF Fetch
    <3>4. refreshes' = [refreshes EXCEPT ![s] = r] /\ UNCHANGED <<shown, seenIn>>
      BY <2>4 DEF ReadHistory
    <3> HIDE DEF r
    <3> QED BY <1>a, <2>1, <3>3, <3>4
  <2>5. CASE Merge(s) \/ RefreshFails(s)
    BY <1>c, <2>1, <2>5 DEF Merge, RefreshFails
  <2> QED BY <1>6, <2>2, <2>3, <2>4, <2>5 DEF RefreshStep
<1>7. CASE LookUp \/ Back \/ \E to \in Peers : TypeRecipient(to)
  BY <1>1, <1>7 DEF LookUp, Back, TypeRecipient
<1>8. CASE Reload \/ Forget
  <2> DEFINE none == [s \in DOMAIN refreshes |-> Idle]
  <2>1. none \in [1..Refreshes -> Fetch'] /\ refreshes' = Begin(none) /\ DOMAIN shown' = {}
    BY <1>8, <1>c DEF Reload, Forget, FreshPage, RefreshInv
  <2>2. refreshes' \in [1..Refreshes -> Fetch']
    <3> HIDE DEF none
    <3> QED BY <1>c, <2>1, BeginAsks
  <2>3. CASE Reload
    BY <1>a, <2>1, <2>2, <2>3, RowsUnchanged DEF Reload
  <2>4. CASE Forget
    <3>1. DOMAIN seenIn' = {}
      BY <2>4 DEF Forget
    <3> QED BY <2>1, <2>2, <3>1 DEF RefreshInv
  <2> QED BY <1>8, <2>3, <2>4
<1>9. ASSUME NEW amount \in Amount, NEW window \in Pick, PressSend(amount, window) PROVE RefreshInv'
  BY <1>1, <1>9 DEF PressSend
<1>10. ASSUME NEW id \in DOMAIN shown, PressUndo(id) PROVE RefreshInv'
  BY <1>1, <1>10 DEF PressUndo
<1>11. ASSUME NEW finalonly \in OwnSwitch, PressSwitch(finalonly) PROVE RefreshInv'
  BY <1>1, <1>11 DEF PressSwitch
<1>12. ASSUME NEW c \in calls, CallStep(c) PROVE RefreshInv'
  <2>1. refreshes' = Begin(refreshes) \/ UNCHANGED refreshes
    BY <1>12 DEF CallStep, ReadAccount, Broadcast, GiveUp, Sent, Undone, Switched, Refused, Throw, local
  <2>2. UNCHANGED <<shown, seenIn>>
    BY <1>12 DEF CallStep, ReadAccount, Broadcast, GiveUp, Sent, Undone, Switched, Refused, Throw, local
  <2> QED BY <1>2, <2>1, <2>2
<1> QED BY <1>3, <1>4, <1>5, <1>6, <1>7, <1>8, <1>9, <1>10, <1>11, <1>12 DEF WalletNext

-----------------------------------------------------------------------------
(* The list.                                                               *)

\* Entries that tell what the chain knows to be so.
TrueEntries ==
    {h \in HistoryEntry :
        /\ h.id # NoId => h.id \in DOMAIN history
        /\ h.kind = "sent" /\ h.id # NoId => history[h.id].sender = Me
        /\ h.status = "cancelled" => h.id # NoId /\ Fate(h.id) = "cancelled"
        /\ h.kind = "sent" => Backed(h.addr, h.amount)}

HistInv == hist \in Seq(TrueEntries) /\ OneSent(hist)

LEMMA HistInvInit == WalletInit => HistInv
BY DEF WalletInit, HistInv, OneSent

LEMMA EntriesStayTrue ==
    ASSUME ChainMovesOn, NEW S, index \in Seq(S), IndexGrows
    PROVE  TrueEntries \subseteq TrueEntries'
<1> SUFFICES ASSUME NEW h \in TrueEntries PROVE h \in TrueEntries'
  OBVIOUS
<1>1. h \in HistoryEntry /\ HistoryEntry' = HistoryEntry
  BY DEF TrueEntries, HistoryEntry
<1>2. h.id # NoId => h.id \in DOMAIN history'
  BY DEF TrueEntries, ChainMovesOn
<1>3. h.kind = "sent" /\ h.id # NoId => history'[h.id].sender = Me
  BY DEF TrueEntries, ChainMovesOn
<1>4. h.status = "cancelled" => h.id # NoId /\ Fate(h.id)' = "cancelled"
  BY DEF TrueEntries, ChainMovesOn, Fate
<1>5. h.kind = "sent" => Backed(h.addr, h.amount)'
  BY BackedStays DEF TrueEntries
<1> QED BY <1>1, <1>2, <1>3, <1>4, <1>5 DEF TrueEntries

\* An entry that takes the id of an outgoing row stays true; so does one that is
\* taken for final.
LEMMA NamedIsTrue ==
    ASSUME TypeInv, NEW rows \in TrueRows, NEW h \in TrueEntries, Unmatched(h),
           NEW id \in Outgoing(rows)
    PROVE  Named(h, id) \in TrueEntries
<1>1. id \in DOMAIN history /\ history[id].sender = Me
  BY RowByRow DEF Outgoing
<1>2. id \in Nat /\ id # NoId
  BY <1>1, NumbersAssumption DEF TypeInv, TypeOK, NoId
<1> DEFINE g == Named(h, id)
<1>3. /\ g.kind = h.kind /\ g.status = h.status /\ g.id = id
      /\ g.addr = h.addr /\ g.amount = h.amount
  BY DEF Named
<1>4. g \in HistoryEntry
  BY <1>2 DEF Named, TrueEntries, HistoryEntry
<1>5. h.status = "pending" /\ (h.kind = "sent" => Backed(h.addr, h.amount))
  BY DEF Unmatched, TrueEntries
<1> HIDE DEF g
<1> QED BY <1>1, <1>2, <1>3, <1>4, <1>5 DEF TrueEntries, g

LEMMA MarkedIsTrue ==
    ASSUME NEW h \in TrueEntries, NEW status \in {"final", "cancelled"}, NEW at \in Nat,
           status = "cancelled" => h.id # NoId /\ Fate(h.id) = "cancelled"
    PROVE  Marked(h, status, at) \in TrueEntries
<1> DEFINE g == Marked(h, status, at)
<1>1. /\ g.kind = h.kind /\ g.status = status /\ g.id = h.id
      /\ g.addr = h.addr /\ g.amount = h.amount
  BY DEF Marked
<1>2. g \in HistoryEntry
  BY DEF Marked, TrueEntries, HistoryEntry
<1>3. /\ h.id # NoId => h.id \in DOMAIN history
      /\ h.kind = "sent" /\ h.id # NoId => history[h.id].sender = Me
      /\ h.kind = "sent" => Backed(h.addr, h.amount)
  BY DEF TrueEntries
<1> HIDE DEF g
<1> QED BY <1>1, <1>2, <1>3 DEF TrueEntries, g

\* A receipt tells of a known send.
LEMMA ReceiptIsTrue ==
    ASSUME TypeInv, RefreshInv, NEW rows \in TrueRows, NEW id \in DOMAIN Seen(rows)
    PROVE  Receipt(rows, id) \in TrueEntries
<1> DEFINE g == Receipt(rows, id)
           from == Seen(rows)[id].from
           amount == Seen(rows)[id].amount
<1>1. id \in DOMAIN history /\ from \in Account /\ amount \in Nat
  BY SeenStayKnown
<1>2. id \in Nat /\ now \in Nat
  BY <1>1, NumbersAssumption DEF TypeInv, TypeOK
<1>3. g = [kind |-> "received", status |-> "final", id |-> id, addr |-> from,
           amount |-> amount, at |-> now]
  BY DEF Receipt, Entry
<1> HIDE DEF g, from, amount
<1>4. g \in HistoryEntry
  BY <1>1, <1>2, <1>3 DEF HistoryEntry
<1>5. g.kind = "received" /\ g.status = "final" /\ g.id = id
  BY <1>3
<1> HIDE DEF g
<1> QED BY <1>1, <1>4, <1>5 DEF TrueEntries, g

\* The row that an event makes, and what it marks.
LEMMA RowIsMergeable ==
    ASSUME TypeInv, index \in Seq(TrueEvents), NEW n \in 0..Len(index),
           NEW k \in 1..n, IsSend(SubSeq(index, 1, n)[k])
    PROVE  LET events == SubSeq(index, 1, n)
               r == ChainRow(events, events[k])
           IN  /\ Mergeable(TrueEntries, r)
               /\ r.status \in {"pending", "final", "cancelled"}
               /\ r.status = "final" => events[k].type = "final_send"
               /\ r.id = NoId \/ r.id \in DOMAIN history
<1> DEFINE events == SubSeq(index, 1, n)
           e == events[k]
           undone == \E i \in DOMAIN events : events[i].type = "send_cancelled" /\ events[i].id = e.id
           status == IF e.type = "final_send" THEN "final" ELSE IF undone THEN "cancelled" ELSE "pending"
           r == ChainRow(events, e)
<1>1. /\ DOMAIN events = 1..n
      /\ \A i \in 1..n : i \in DOMAIN index /\ events[i] = index[i] /\ events[i] \in TrueEvents
  OBVIOUS
<1>2. r = [kind |-> "sent", status |-> status, id |-> e.id, addr |-> e.addr,
           amount |-> e.amount, at |-> e.at]
  BY DEF ChainRow, Entry
<1> HIDE DEF events
<1>3. e \in TrueEvents /\ e = index[k] /\ k \in DOMAIN index /\ IsSend(e)
  BY <1>1 DEF events
<1>4. /\ e.type = "delayed_send" => e.id \in Nat /\ e.id \in DOMAIN history /\ history[e.id].sender = Me
      /\ e.type = "final_send" => e.id = NoId
      /\ e.addr \in Account /\ e.amount \in Nat /\ e.at \in Nat
      /\ e.type \in {"delayed_send", "final_send"}
  BY <1>3 DEF TrueEvents, Event, IsSend
<1>5. undone /\ e.type = "delayed_send" => Fate(e.id) = "cancelled" /\ e.id # NoId
  BY <1>1, <1>4 DEF TrueEvents, NoId
<1>6. Backed(e.addr, e.amount)
  BY <1>3 DEF Backed
<1> HIDE DEF e, undone
<1>7. r \in HistoryEntry
  BY <1>2, <1>4 DEF HistoryEntry
<1>8. r.kind = "sent" /\ r.status = status /\ r.id = e.id /\ r.addr = e.addr /\ r.amount = e.amount
      /\ r.at = e.at
  BY <1>2
<1> HIDE DEF r
<1>9. r \in TrueEntries
  BY <1>4, <1>5, <1>6, <1>7, <1>8 DEF TrueEntries
<1>10. ASSUME NEW h \in TrueEntries, SameSend(h, r), r.status # "pending"
       PROVE  Marked(h, r.status, r.at) \in TrueEntries
  <2>1. r.status = "cancelled" => h.id # NoId /\ Fate(h.id) = "cancelled"
    BY <1>4, <1>5, <1>8, <1>10 DEF SameSend
  <2>2. r.status \in {"final", "cancelled"} /\ r.at \in Nat
    BY <1>4, <1>8, <1>10
  <2> QED BY <2>1, <2>2, MarkedIsTrue
<1>11. Mergeable(TrueEntries, r)
  BY <1>8, <1>9, <1>10 DEF Mergeable
<1>12. /\ r.status \in {"pending", "final", "cancelled"}
       /\ r.status = "final" => e.type = "final_send"
       /\ r.id = NoId \/ r.id \in DOMAIN history
  BY <1>4, <1>8
<1> QED BY <1>11, <1>12 DEF r, e, events

\* What reconcileHistory makes of the list: entries that may be there before it is
\* done (S), entries that may be there after it (T).
LEMMA ReconcileKeeps ==
    ASSUME TypeInv, RefreshInv, NEW rows \in TrueRows,
           NEW S \in SUBSET TrueEntries, hist \in Seq(S), OneSent(hist),
           NEW T \in SUBSET TrueEntries,
           \A h \in S, id \in Outgoing(rows) : Unmatched(h) => Named(h, id) \in S,
           \A h \in S : IF /\ h.kind = "sent" /\ h.status = "pending"
                           /\ h.id # NoId /\ h.id \notin Outgoing(rows)
                        THEN Marked(h, "final", now) \in T ELSE h \in T,
           \A id \in DOMAIN Seen(rows) \ Incoming(rows) : Receipt(rows, id) \in T
    PROVE  LET all == WithReceipts(WithFinals(WithIds(hist, rows), rows), rows)
           IN  /\ all \in Seq(T) /\ OneSent(all)
               /\ \E new \in Seq(T), old \in Seq(T) :
                     /\ all = new \o old /\ SameReceipts(old, hist)
                     /\ ReceiptsOf(new, DOMAIN Seen(rows) \ Incoming(rows))
<1> DEFINE named == WithIds(hist, rows)
           old == WithFinals(named, rows)
           all == WithReceipts(old, rows)
           gone == DOMAIN Seen(rows) \ Incoming(rows)
<1>1. S \in SUBSET HistoryEntry /\ T \in SUBSET HistoryEntry
  BY DEF TrueEntries
<1>2. RowsTyped(rows)
  BY RowByRow DEF TypeInv, TypeOK, RowsTyped
<1>3. named \in Seq(S) /\ OneSent(named) /\ SameReceipts(named, hist)
  BY <1>1, <1>2, WithIdsKeeps
<1>4. old \in Seq(T) /\ SameIds(old, named)
  <2> HIDE DEF named
  <2> QED BY <1>1, <1>3, WithFinalsKeeps
<1>5. OneSent(old) /\ SameReceipts(old, named)
  <2> HIDE DEF named, old
  <2> QED BY <1>3, <1>4, SameIdsKeeps
<1>6. SameReceipts(old, hist)
  <2> HIDE DEF named, old
  <2> QED BY <1>3, <1>5 DEF SameReceipts
<1>7. gone \in SUBSET Nat /\ IsFiniteSet(gone)
  <2>1. gone \subseteq DOMAIN history
    BY SeenStayKnown
  <2>2. DOMAIN history \subseteq Nat /\ IsFiniteSet(DOMAIN history)
    BY TablesAreFinite DEF TypeInv, TypeOK
  <2> QED BY <2>1, <2>2, FS_Subset
<1>8. PICK new \in Seq(T) :
         all = new \o old /\ ReceiptsOf(new, gone)
  <2>1. \A id \in gone : Receipt(rows, id) \in T
    OBVIOUS
  <2>2. gone = DOMAIN Seen(rows) \ Incoming(rows) /\ all = WithReceipts(old, rows)
    OBVIOUS
  <2> HIDE DEF gone, old, all
  <2>3. \E new \in Seq(T) :
           WithReceipts(old, rows) = new \o old /\ ReceiptsOf(new, gone)
    BY ONLY <1>7, <2>1, <2>2, WithReceiptsAdds
  <2> QED BY <2>2, <2>3
<1> HIDE DEF all, old, gone
<1>9. all \in Seq(T) /\ OneSent(all)
  BY <1>4, <1>5, <1>8, ConcatKeeps DEF ReceiptsOf
<1>10. \E n \in Seq(T), o \in Seq(T) :
          all = n \o o /\ SameReceipts(o, hist) /\ ReceiptsOf(n, gone)
  BY <1>4, <1>6, <1>8
<1> QED BY <1>9, <1>10 DEF all, old, named, gone

\* What mergeChainHistory makes of it.
LEMMA MergeKeeps ==
    ASSUME index \in Seq(TrueEvents), NEW n \in 0..Len(index),
           NEW S \in SUBSET TrueEntries, hist \in Seq(S), OneSent(hist),
           \A k \in 1..n : IsSend(SubSeq(index, 1, n)[k])
              => Mergeable(S, ChainRow(SubSeq(index, 1, n), SubSeq(index, 1, n)[k]))
    PROVE  LET all == NewestFirst(Merged(hist, SubSeq(index, 1, n)))
           IN  all \in Seq(S) /\ OneSent(all) /\ (OneReceived(hist) => OneReceived(all))
<1> DEFINE events == SubSeq(index, 1, n)
           merged == Merged(hist, events)
           all == NewestFirst(merged)
<1>1. S \in SUBSET HistoryEntry
  BY DEF TrueEntries
<1>2. Len(events) = n /\ n \in Nat
  OBVIOUS
<1>3. /\ merged \in Seq(S) /\ OneSent(merged) /\ SameReceipts(merged, hist)
  <2>1. \A k \in 1..Len(events) : IsSend(events[k]) => Mergeable(S, ChainRow(events, events[k]))
    BY <1>2
  <2> HIDE DEF events
  <2> QED BY <1>1, <1>2, <2>1, MergedKeeps
<1>4. OneReceived(hist) => OneReceived(merged)
  <2> HIDE DEF merged
  <2> QED BY <1>3, SameReceiptsKeeps
<1> HIDE DEF merged
<1>5. /\ all \in Seq(S) /\ DOMAIN all = DOMAIN merged
      /\ \E order \in [DOMAIN merged -> DOMAIN merged] :
            /\ \A i \in DOMAIN merged : all[i] = merged[order[i]]
            /\ \A i, j \in DOMAIN merged : order[i] = order[j] => i = j
  BY <1>1, <1>3, NewestFirstMoves
<1> HIDE DEF all
<1>6. PICK order \in [DOMAIN merged -> DOMAIN merged] :
         /\ \A i \in DOMAIN merged : all[i] = merged[order[i]]
         /\ \A i, j \in DOMAIN merged : order[i] = order[j] => i = j
  BY <1>5
<1>7. OneSent(all)
  <2> SUFFICES ASSUME NEW i \in DOMAIN all, NEW j \in DOMAIN all, i # j,
                      all[i].kind = "sent", all[j].kind = "sent", all[i].id = all[j].id
               PROVE  all[i].id = NoId
    BY DEF OneSent
  <2>1. /\ order[i] \in DOMAIN merged /\ order[j] \in DOMAIN merged /\ order[i] # order[j]
        /\ all[i] = merged[order[i]] /\ all[j] = merged[order[j]]
    BY <1>5, <1>6
  <2> QED BY <1>3, <2>1 DEF OneSent
<1>8. ASSUME OneReceived(merged) PROVE OneReceived(all)
  <2> SUFFICES ASSUME NEW i \in DOMAIN all, NEW j \in DOMAIN all, i # j,
                      all[i].kind = "received", all[j].kind = "received"
               PROVE  all[i].id # all[j].id
    BY DEF OneReceived
  <2>1. /\ order[i] \in DOMAIN merged /\ order[j] \in DOMAIN merged /\ order[i] # order[j]
        /\ all[i] = merged[order[i]] /\ all[j] = merged[order[j]]
    BY <1>5, <1>6
  <2> QED BY <1>8, <2>1 DEF OneReceived
<1> QED BY <1>4, <1>5, <1>7, <1>8 DEF all, merged, events

\* The callbacks that write to the list.
LEMMA OnlyTheseWrite ==
    ASSUME [WalletNext]_allVars
    PROVE  \/ UNCHANGED hist \/ Forget
           \/ \E s \in DOMAIN refreshes : Apply(s) \/ Merge(s)
           \/ \E c \in calls : Sent(c) \/ Undone(c)
<1>1. CASE Chain \/ UNCHANGED allVars
  BY <1>1 DEF Chain, allVars, local
<1>2. ASSUME NEW tx \in mempool, Deliver(tx) \/ Lose(tx) PROVE UNCHANGED hist
  BY <1>2 DEF Deliver, Lose, local
<1>3. CASE RefreshTimer \/ LookUp \/ Back \/ \E to \in Peers : TypeRecipient(to)
  BY <1>3 DEF RefreshTimer, LookUp, Back, TypeRecipient, local
<1>4. ASSUME NEW s \in DOMAIN refreshes, RefreshStep(s), ~Apply(s), ~Merge(s) PROVE UNCHANGED hist
  BY <1>4 DEF RefreshStep, ReadPage, ReadHistory, RefreshFails
<1>5. CASE Reload
  BY <1>5 DEF Reload
<1>6. ASSUME NEW amount \in Amount, NEW window \in Pick, PressSend(amount, window)
      PROVE  UNCHANGED hist
  BY <1>6 DEF PressSend, local
<1>7. ASSUME NEW id \in DOMAIN shown, PressUndo(id) PROVE UNCHANGED hist
  BY <1>7 DEF PressUndo, local
<1>8. ASSUME NEW finalonly \in OwnSwitch, PressSwitch(finalonly) PROVE UNCHANGED hist
  BY <1>8 DEF PressSwitch, local
<1>9. ASSUME NEW c \in calls, CallStep(c), ~Sent(c), ~Undone(c) PROVE UNCHANGED hist
  BY <1>9 DEF CallStep, ReadAccount, Broadcast, GiveUp, Switched, Refused, Throw, local
<1> QED BY <1>1, <1>2, <1>3, <1>4, <1>5, <1>6, <1>7, <1>8, <1>9 DEF WalletNext

\* The entry that the form writes, and the entries that an undo marks.
LEMMA SentEntryIsTrue ==
    ASSUME TypeInv, WantInv, NodeInv, IndexInv, NEW c \in calls, Sent(c)
    PROVE  LET h == Entry("sent", IF c.want.window = 0 THEN "final" ELSE "pending",
                          NoId, c.want.to, c.want.amount, now)
           IN  h \in TrueEntries /\ h.kind = "sent" /\ h.id = NoId /\ hist' = addHist(hist, h)
<1> DEFINE status == IF c.want.window = 0 THEN "final" ELSE "pending"
           h == Entry("sent", status, NoId, c.want.to, c.want.amount, now)
<1>1. c.want.op = "send" /\ TookEffect(c.want) /\ hist' = addHist(hist, h)
  BY DEF Sent, Landed, IndexInv
<1>2. Backed(c.want.to, c.want.amount) /\ c.want.to \in Account /\ c.want.amount \in Nat /\ now \in Nat
  BY <1>1, MessagesAssumption, NumbersAssumption DEF TookEffect, WantInv, Sendable, TypeInv, TypeOK
<1>3. h = [kind |-> "sent", status |-> status, id |-> NoId, addr |-> c.want.to,
           amount |-> c.want.amount, at |-> now]
  BY DEF Entry
<1>4. status \in {"final", "pending"}
  OBVIOUS
<1> HIDE DEF h, status
<1>5. h \in HistoryEntry
  BY <1>2, <1>3, <1>4 DEF HistoryEntry
<1>6. /\ h.kind = "sent" /\ h.id = NoId /\ h.status = status
      /\ h.addr = c.want.to /\ h.amount = c.want.amount
  BY <1>3
<1> HIDE DEF h
<1>7. h \in TrueEntries
  BY <1>2, <1>4, <1>5, <1>6 DEF TrueEntries
<1> QED BY <1>1, <1>6, <1>7 DEF h, status

LEMMA UndoneMarks ==
    ASSUME NodeInv, IndexInv, NEW c \in calls, Undone(c)
    PROVE  /\ hist' = Cancelled(c.want.id)
           /\ c.want.id \in DOMAIN history /\ Fate(c.want.id) = "cancelled"
BY DEF Undone, Landed, IndexInv, TookEffect

LEMMA HistInvStep ==
    TypeInv /\ StoryInv /\ WantInv /\ NodeInv /\ IndexInv /\ RefreshInv /\ HistInv
        /\ [WalletNext]_allVars => HistInv'
<1> SUFFICES ASSUME TypeInv, StoryInv, WantInv, NodeInv, IndexInv, RefreshInv, HistInv,
                    [WalletNext]_allVars
             PROVE  HistInv'
  OBVIOUS
<1> DEFINE S == TrueEntries
<1>0. S \subseteq TrueEntries' /\ S \in SUBSET HistoryEntry
  BY WalletOnlyMovesOn, EntriesStayTrue DEF IndexInv, TrueEntries
<1>1. ASSUME hist' \in Seq(S), OneSent(hist') PROVE HistInv'
  <2>1. hist' \in Seq(TrueEntries')
    <3> HIDE DEF S
    <3> QED BY <1>0, <1>1
  <2> QED BY <1>1, <2>1 DEF HistInv, OneSent
<1>2. hist \in Seq(S) /\ OneSent(hist)
  BY DEF HistInv
<1>3. CASE UNCHANGED hist
  BY <1>1, <1>2, <1>3
<1>4. CASE Forget
  <2>1. hist' = <<>>
    BY <1>4 DEF Forget
  <2> QED BY <1>1, <2>1 DEF OneSent
<1>5. ASSUME NEW s \in DOMAIN refreshes, Apply(s) PROVE HistInv'
  <2> DEFINE rows == refreshes[s].rows
  <2>1. hist' = WithReceipts(WithFinals(WithIds(hist, rows), rows), rows)
    BY <1>5 DEF Apply, reconcileHistory
  <2>2. rows \in TrueRows
    BY DEF RefreshInv, Fetch
  <2> HIDE DEF rows
  <2>3. \A h \in S, id \in Outgoing(rows) : Unmatched(h) => Named(h, id) \in S
    BY <2>2, NamedIsTrue
  <2>4. \A h \in S : IF /\ h.kind = "sent" /\ h.status = "pending"
                        /\ h.id # NoId /\ h.id \notin Outgoing(rows)
                     THEN Marked(h, "final", now) \in S ELSE h \in S
    <3>1. now \in Nat
      BY NumbersAssumption DEF TypeInv, TypeOK
    <3> QED BY <3>1, MarkedIsTrue
  <2>5. \A id \in DOMAIN Seen(rows) \ Incoming(rows) : Receipt(rows, id) \in S
    BY <2>2, ReceiptIsTrue
  <2>6. hist' \in Seq(S) /\ OneSent(hist')
    BY <1>2, <2>1, <2>2, <2>3, <2>4, <2>5, ReconcileKeeps
  <2> QED BY <1>1, <2>6
<1>6. ASSUME NEW s \in DOMAIN refreshes, Merge(s) PROVE HistInv'
  <2> DEFINE n == refreshes[s].upto
  <2>1. hist' = NewestFirst(Merged(hist, SubSeq(index, 1, n)))
    BY <1>6 DEF Merge, mergeChainHistory
  <2>2. n \in 0..Len(index) /\ index \in Seq(TrueEvents)
    BY DEF RefreshInv, Fetch, IndexInv
  <2> HIDE DEF n
  <2>3. \A k \in 1..n : IsSend(SubSeq(index, 1, n)[k])
           => Mergeable(S, ChainRow(SubSeq(index, 1, n), SubSeq(index, 1, n)[k]))
    BY <2>2, RowIsMergeable
  <2>4. hist' \in Seq(S) /\ OneSent(hist')
    BY <1>2, <2>1, <2>2, <2>3, MergeKeeps
  <2> QED BY <1>1, <2>4
<1>7. ASSUME NEW c \in calls, Sent(c) PROVE HistInv'
  <2> DEFINE h == Entry("sent", IF c.want.window = 0 THEN "final" ELSE "pending",
                        NoId, c.want.to, c.want.amount, now)
  <2>1. h \in S /\ h.kind = "sent" /\ h.id = NoId /\ hist' = addHist(hist, h)
    BY <1>7, SentEntryIsTrue
  <2> HIDE DEF h, S
  <2>2. addHist(hist, h) \in Seq(S) /\ OneSent(addHist(hist, h))
    BY <1>2, <2>1, AddingKeeps
  <2> QED BY <1>1, <2>1, <2>2
<1>8. ASSUME NEW c \in calls, Undone(c) PROVE HistInv'
  <2> DEFINE id == c.want.id
  <2>1. hist' = Cancelled(id) /\ id \in DOMAIN history /\ Fate(id) = "cancelled"
    BY <1>8, UndoneMarks
  <2>2. id # NoId /\ now \in Nat
    BY <2>1, NumbersAssumption DEF TypeInv, TypeOK, NoId
  <2> HIDE DEF id
  <2>3. \A h \in S : IF h.kind = "sent" /\ h.id = id
                     THEN Marked(h, "cancelled", now) \in S ELSE h \in S
    BY <2>1, <2>2, MarkedIsTrue
  <2> HIDE DEF S
  <2>4. Cancelled(id) \in Seq(S) /\ SameIds(Cancelled(id), hist)
    BY <1>0, <1>2, <2>3, CancelledKeeps
  <2>5. OneSent(Cancelled(id))
    BY <1>2, <2>4, SameIdsKeeps
  <2> QED BY <1>1, <2>1, <2>4, <2>5
<1> QED BY <1>3, <1>4, <1>5, <1>6, <1>7, <1>8, OnlyTheseWrite

-----------------------------------------------------------------------------
(* The theorems that hold whatever overlaps.                               *)

WalletInv ==
    /\ TypeInv /\ TallyInv /\ WantInv
    /\ NodeInv /\ IndexInv /\ RefreshInv /\ HistInv

LEMMA WalletInvInit == WalletInit => WalletInv
BY TypeInvInit, TallyInvInit, WantInvInit, NodeInvInit, IndexInvInit, RefreshInvInit, HistInvInit
   DEF WalletInit, WalletInv

LEMMA WalletInvStep == WalletInv /\ [WalletNext]_allVars => WalletInv'
<1> SUFFICES ASSUME WalletInv, [WalletNext]_allVars PROVE WalletInv'
  OBVIOUS
<1> USE DEF WalletInv
<1>1. [Next]_vars /\ StoryInv
  BY WalletStepsTheChain DEF TallyInv
<1>2. TypeInv' /\ TallyInv' /\ WantInv'
  BY <1>1, TypeInvStep, TallyInvStep, WantInvStep
<1>3. NodeInv' /\ IndexInv' /\ RefreshInv' /\ HistInv'
  BY <1>1, NodeInvStep, IndexInvStep, RefreshInvStep, HistInvStep
<1> QED BY <1>2, <1>3

\* The list's entries, one by one.
LEMMA EntriesAreTrue == HistInv => \A h \in Entries : h \in TrueEntries
BY DEF HistInv, Entries

\* The variables hold what the code keeps in them, however many refreshes overlap.
THEOREM WalletTypeCorrect == WalletSpec => []WalletTypeOK
<1>1. WalletInv => WalletTypeOK
  <2> SUFFICES ASSUME WalletInv PROVE WalletTypeOK
    OBVIOUS
  <2> USE DEF WalletInv
  <2>1. Cardinality(mempool) <= 1
    <3>1. mempool = {} \/ \E tx : mempool = {tx}
      <4>1. \A tx, other \in mempool : tx = other
        BY DEF NodeInv
      <4> QED BY <4>1
    <3>2. Cardinality({}) = 0 /\ \A tx : Cardinality({tx}) = 1
      BY FS_EmptySet, FS_Singleton
    <3>3. Cardinality(mempool) = 0 \/ Cardinality(mempool) = 1
      BY <3>1, <3>2, Zenon
    <3> QED BY <3>3
  <2>2. /\ sequence \in Nat /\ DOMAIN landed = 0..sequence - 1
        /\ presses \in 0..MaxPresses /\ home \in BOOLEAN
    BY DEF NodeInv
  <2>3. form.to \in User /\ form.info \in {"unknown", "final only", "undoable"}
    BY DEF WantInv, Form
  <2>4. \A c \in calls : c.stage \in {"asking", "signed", "waiting"} /\ c.seq <= sequence
    BY DEF NodeInv, Signing
  <2>5. \A s \in 1..Refreshes :
          refreshes[s].stage \in {"idle", "pages", "ready", "history", "merge"}
    BY DEF RefreshInv, Fetch
  <2>6. DOMAIN shown \cup DOMAIN seenIn \subseteq DOMAIN history
    BY DEF RefreshInv
  <2>7. \A h \in Entries :
          /\ h.kind \in {"sent", "received"}
          /\ h.status \in {"pending", "final", "cancelled"}
          /\ h.id \in DOMAIN history \cup {NoId}
    BY EntriesAreTrue DEF TrueEntries, HistoryEntry
  <2> QED BY <2>1, <2>2, <2>3, <2>4, <2>5, <2>6, <2>7 DEF WalletTypeOK
<1> QED BY <1>1, WalletInvInit, WalletInvStep, PTL DEF WalletSpec

\* "Undone" is only said of a send whose coins came back.
THEOREM CancelledIsTrue == WalletSpec => []CancelledIsCancelled
<1>1. WalletInv => CancelledIsCancelled
  BY EntriesAreTrue DEF WalletInv, TrueEntries, CancelledIsCancelled
<1> QED BY <1>1, WalletInvInit, WalletInvStep, PTL DEF WalletSpec

\* No send has two entries.
THEOREM SendsListedOnce == WalletSpec => []OneEntryPerSend
<1>1. WalletInv => OneEntryPerSend
  BY DEF WalletInv, HistInv, OneSent, OneEntryPerSend
<1> QED BY <1>1, WalletInvInit, WalletInvStep, PTL DEF WalletSpec

\* What is listed as sent, the chain took.
THEOREM ListedIsSent == WalletSpec => []NothingListedUnsent
<1>1. WalletInv => NothingListedUnsent
  BY EntriesAreTrue DEF WalletInv, TrueEntries, Backed, IsSend, SentEntries, NothingListedUnsent
<1> QED BY <1>1, WalletInvInit, WalletInvStep, PTL DEF WalletSpec

-----------------------------------------------------------------------------
(* What is awaited.                                                        *)

OneAtATime == Refreshes = 1

\* What a refresh has read so far leaves out only what it has yet to read.
Reading == refreshes[1].stage \in {"pages", "ready"}
Awaits(id) ==
    \/ id \in DOMAIN refreshes[1].rows
    \/ refreshes[1].stage = "pages" /\ id >= refreshes[1].next
AllAwaited(ids) == Reading => \A id \in ids : id \in DOMAIN pending => Awaits(id)

\* What a step can do to the refresh.
LEMMA RefreshCases ==
    ASSUME OneAtATime, RefreshInv, [WalletNext]_allVars
    PROVE  \/ UNCHANGED refreshes \/ refreshes'[1] = refreshes[1]
           \/ refreshes'[1] = Asked
           \/ refreshes'[1].stage \in {"idle", "history", "merge"}
           \/ ReadPage(1)
<1> DEFINE Goal == \/ UNCHANGED refreshes \/ refreshes'[1] = refreshes[1]
                   \/ refreshes'[1] = Asked
                   \/ refreshes'[1].stage \in {"idle", "history", "merge"}
                   \/ ReadPage(1)
<1>0. DOMAIN refreshes = {1}
  BY DEF RefreshInv, OneAtATime
<1>1. ASSUME NEW slots, DOMAIN slots = {1}
      PROVE  Begin(slots) = slots \/ Begin(slots)[1] = Asked
  <2> DEFINE s == CHOOSE s \in DOMAIN slots : slots[s].stage = "idle"
  <2>1. CASE slots[1].stage = "idle"
    <3>1. s = 1
      <4>1. \E t \in DOMAIN slots : slots[t].stage = "idle"
        BY <1>1, <2>1
      <4>2. s \in DOMAIN slots
        BY <4>1, Zenon
      <4> HIDE DEF s
      <4> QED BY <1>1, <4>2
    <3>2. Begin(slots) = [slots EXCEPT ![s] = Asked]
      BY <1>1, <2>1 DEF Begin
    <3> HIDE DEF s
    <3> QED BY <1>1, <3>1, <3>2
  <2>2. CASE slots[1].stage # "idle"
    BY <1>1, <2>2 DEF Begin
  <2> QED BY <2>1, <2>2
<1>2. ASSUME refreshes' = Begin(refreshes) PROVE Goal
  BY <1>0, <1>1, <1>2
<1>3. CASE Chain \/ UNCHANGED allVars
  BY <1>3 DEF Chain, allVars, local
<1>4. ASSUME NEW tx \in mempool, Deliver(tx) \/ Lose(tx) PROVE Goal
  BY <1>4 DEF Deliver, Lose, local
<1>5. CASE RefreshTimer
  BY <1>2, <1>5 DEF RefreshTimer
<1>6. CASE LookUp \/ Back \/ \E to \in Peers : TypeRecipient(to)
  BY <1>6 DEF LookUp, Back, TypeRecipient, local
<1>7. ASSUME NEW s \in DOMAIN refreshes, RefreshStep(s) PROVE Goal
  <2>0. s = 1
    BY <1>0
  <2>1. CASE ReadPage(s)
    BY <2>0, <2>1
  <2>2. CASE Apply(s)
    <3> DEFINE r == [Idle EXCEPT !.stage = "history"]
    <3>1. r.stage = "history"
      BY DEF Idle
    <3>2. refreshes' = [refreshes EXCEPT ![s] = r]
      BY <2>2 DEF Apply
    <3> HIDE DEF r
    <3> QED BY <1>0, <2>0, <3>1, <3>2
  <2>3. CASE ReadHistory(s)
    <3> DEFINE r == [Idle EXCEPT !.stage = "merge", !.upto = Len(index)]
    <3>1. r.stage = "merge"
      BY DEF Idle
    <3>2. refreshes' = [refreshes EXCEPT ![s] = r]
      BY <2>3 DEF ReadHistory
    <3> HIDE DEF r
    <3> QED BY <1>0, <2>0, <3>1, <3>2
  <2>4. CASE Merge(s) \/ RefreshFails(s)
    <3>1. refreshes' = [refreshes EXCEPT ![s] = Idle]
      BY <2>4 DEF Merge, RefreshFails
    <3> QED BY <1>0, <2>0, <3>1 DEF Idle
  <2> QED BY <1>7, <2>1, <2>2, <2>3, <2>4 DEF RefreshStep
<1>8. CASE Reload \/ Forget
  <2> DEFINE none == [s \in DOMAIN refreshes |-> Idle]
  <2>1. refreshes' = Begin(none)
    BY <1>8 DEF Reload, Forget, FreshPage
  <2>2. DOMAIN none = {1} /\ none[1].stage = "idle"
    BY <1>0 DEF Idle
  <2> HIDE DEF none
  <2> QED BY <1>1, <2>1, <2>2
<1>9. ASSUME NEW amount \in Amount, NEW window \in Pick, PressSend(amount, window) PROVE Goal
  BY <1>9 DEF PressSend, local
<1>10. ASSUME NEW id \in DOMAIN shown, PressUndo(id) PROVE Goal
  BY <1>10 DEF PressUndo, local
<1>11. ASSUME NEW finalonly \in OwnSwitch, PressSwitch(finalonly) PROVE Goal
  BY <1>11 DEF PressSwitch, local
<1>12. ASSUME NEW c \in calls, CallStep(c) PROVE Goal
  <2>1. refreshes' = Begin(refreshes) \/ UNCHANGED refreshes
    BY <1>12 DEF CallStep, ReadAccount, Broadcast, GiveUp, Sent, Undone, Switched, Refused, Throw, local
  <2> QED BY <1>2, <2>1
<1> QED BY <1>3, <1>4, <1>5, <1>6, <1>7, <1>8, <1>9, <1>10, <1>11, <1>12 DEF WalletNext

\* A send of one's own that is in flight is not overlooked.
LEMMA NothingOverlooked ==
    ASSUME OneAtATime, TypeInv, StoryInv, WantInv, RefreshInv, [WalletNext]_allVars,
           NEW ids \in SUBSET (DOMAIN history), AllAwaited(ids),
           \A id \in ids : id \in DOMAIN pending => Me \in {pending[id].sender, pending[id].recipient}
    PROVE  AllAwaited(ids)'
<1>0. /\ \A id \in ids : id \in Nat
      /\ \A id \in ids : id \in DOMAIN pending' => id \in DOMAIN pending
  <2>1. ChainMovesOn
    BY WalletStepsTheChain, ChainOnlyMovesOn
  <2> QED BY <2>1 DEF ChainMovesOn, TypeInv, TypeOK
<1>1. CASE UNCHANGED refreshes \/ refreshes'[1] = refreshes[1]
  BY <1>0, <1>1 DEF AllAwaited, Reading, Awaits
<1>2. CASE refreshes'[1] = Asked
  <2>1. Asked.stage = "pages" /\ Asked.next = 0
    BY DEF Asked, Idle
  <2> QED BY <1>0, <1>2, <2>1 DEF AllAwaited, Awaits
<1>3. CASE refreshes'[1].stage \in {"idle", "history", "merge"}
  BY <1>3 DEF AllAwaited, Reading
<1>4. CASE ReadPage(1)
  <2> DEFINE key == refreshes[1].next
             mine == {k \in PageFrom(key) : Me \in {pending[k].sender, pending[k].recipient}}
             rows == WithPage(refreshes[1].rows, mine)
             stage == IF Beyond(key) = {} THEN "ready" ELSE "pages"
             r == [stage |-> stage, rows |-> rows, next |-> NextKey(key), upto |-> 0]
  <2>1. refreshes' = [refreshes EXCEPT ![1] = r] /\ refreshes[1].stage = "pages" /\ UNCHANGED pending
    BY <1>4 DEF ReadPage, vars
  <2>2. 1 \in DOMAIN refreshes
    BY DEF RefreshInv, OneAtATime
  <2>3. refreshes'[1].rows = rows /\ refreshes'[1].next = NextKey(key) /\ refreshes'[1].stage = stage
    BY <2>1, <2>2
  <2>4. DOMAIN rows = mine \cup DOMAIN refreshes[1].rows
    BY DEF WithPage
  <2>5. ASSUME NEW id \in ids, id \in DOMAIN pending
        PROVE  \/ id \in mine \cup DOMAIN refreshes[1].rows
               \/ id \in Beyond(key) /\ stage = "pages"
    <3>1. id \in DOMAIN refreshes[1].rows \/ id >= key
      BY <2>1, <2>5 DEF AllAwaited, Reading, Awaits
    <3>2. CASE id >= key
      <4>1. id \in PageFrom(key) \/ id \in Beyond(key)
        BY <2>5, <3>2 DEF Beyond
      <4> QED BY <2>5, <4>1
    <3> QED BY <3>1, <3>2
  <2>6. \A j \in Beyond(key) : NextKey(key) <= j
    BY NextKeyIsNext
  <2> HIDE DEF key, mine, rows, r
  <2>7. NextKey(key) \in Nat
    BY NextKeyIsNext
  <2>8. ASSUME NEW id \in ids, id \in DOMAIN pending' PROVE Awaits(id)'
    <3>1. CASE id \in mine \cup DOMAIN refreshes[1].rows
      BY <2>3, <2>4, <3>1 DEF Awaits
    <3>2. CASE id \in Beyond(key) /\ stage = "pages"
      <4>1. id >= NextKey(key)
        BY <1>0, <2>6, <2>7, <3>2
      <4> QED BY <2>3, <3>2, <4>1 DEF Awaits
    <3> QED BY <2>1, <2>5, <2>8, <3>1, <3>2
  <2> QED BY <2>8 DEF AllAwaited
<1> QED BY <1>1, <1>2, <1>3, <1>4, RefreshCases

-----------------------------------------------------------------------------
(* Shops.  The row of a payment to a shop has no id, and is matched to an  *)
(* entry by its recipient, its amount and the time: it may mark the entry  *)
(* of an undoable send.  What "final" says is therefore proved where       *)
(* nobody the wallet pays has a shop.                                      *)

NoShops == TRUE \notin Switch

NoShopInv ==
    /\ \A addr \in Account \ {Me} : ~FinalOnly(addr)
    /\ \A i \in DOMAIN index : index[i].type # "final_send"

LEMMA NoShopInvInit == WalletInit => NoShopInv
BY DEF WalletInit, Init, NoShopInv, FinalOnly, getRecord

\* A record is written back as it was read, but for a count.
LEMMA SwitchIsKept ==
    ASSUME TypeInv, NEW addr
    PROVE  /\ [getRecord(addr) EXCEPT !.sent = @ + 1].finalonly = FinalOnly(addr)
           /\ [getRecord(addr) EXCEPT !.cancelled = @ + 1].finalonly = FinalOnly(addr)
<1>1. getRecord(addr) = [sent |-> getRecord(addr).sent, cancelled |-> getRecord(addr).cancelled,
                         finalonly |-> getRecord(addr).finalonly]
  BY DEF getRecord, TypeInv, TypeOK, Tally
<1> QED BY <1>1 DEF FinalOnly

LEMMA NoShopInvStep ==
    NoShops /\ TypeInv /\ WantInv /\ IndexInv /\ NoShopInv /\ [WalletNext]_allVars => NoShopInv'
<1> SUFFICES ASSUME NoShops, TypeInv, WantInv, IndexInv, NoShopInv, [WalletNext]_allVars PROVE NoShopInv'
  OBVIOUS
<1>1. ASSUME NEW addr \in Account \ {Me} PROVE ~FinalOnly(addr)'
  <2>0. ~FinalOnly(addr)
    BY DEF NoShopInv
  <2>1. ASSUME UNCHANGED record PROVE ~FinalOnly(addr)'
    BY <2>0, <2>1 DEF FinalOnly, getRecord
  <2>2. ASSUME NEW creator, NEW tally, Bump(creator, tally),
               creator = Me \/ tally.finalonly = FinalOnly(creator) \/ tally.finalonly = FALSE
        PROVE  ~FinalOnly(addr)'
    <3>1. getRecord(addr)' = IF addr = creator THEN tally ELSE getRecord(addr)
      BY <2>2, BumpedRecord
    <3> QED BY <2>0, <2>2, <3>1 DEF FinalOnly
  <2>3. ASSUME NEW creator, NEW recipient, NEW amount, NEW window,
               DelayedSend(creator, recipient, amount, window)
        PROVE  ~FinalOnly(addr)'
    <3>1. UNCHANGED record \/ Bump(creator, [getRecord(creator) EXCEPT !.sent = @ + 1])
      BY <2>3 DEF DelayedSend, SendFinal, SendUndoable
    <3> QED BY <2>1, <2>2, <3>1, SwitchIsKept
  <2>4. ASSUME NEW creator, NEW id, CancelSend(creator, id) PROVE ~FinalOnly(addr)'
    <3>1. Bump(creator, [getRecord(creator) EXCEPT !.cancelled = @ + 1])
      BY <2>4 DEF CancelSend
    <3> QED BY <2>2, <3>1, SwitchIsKept
  <2>5. ASSUME NEW creator, NEW finalonly, SetFinalOnly(creator, finalonly),
               creator = Me \/ finalonly = FALSE
        PROVE  ~FinalOnly(addr)'
    <3>1. [getRecord(creator) EXCEPT !.finalonly = finalonly].finalonly = finalonly
      <4>1. getRecord(creator) = [sent |-> getRecord(creator).sent,
                                  cancelled |-> getRecord(creator).cancelled,
                                  finalonly |-> getRecord(creator).finalonly]
        BY DEF getRecord, TypeInv, TypeOK, Tally
      <4> QED BY <4>1
    <3>2. Bump(creator, [getRecord(creator) EXCEPT !.finalonly = finalonly])
      BY <2>5 DEF SetFinalOnly
    <3> QED BY <2>2, <2>5, <3>1, <3>2
  <2>6. CASE BeginBlock \/ EndBlocker
    BY <2>1, <2>6 DEF BeginBlock, EndBlocker, CollectDue, execute, ExecuteFails, Commit
  <2>7. CASE PeerMessage
    <3>1. ASSUME NEW finalonly \in Switch PROVE finalonly = FALSE
      BY WalletAssumption DEF NoShops
    <3> QED BY <2>3, <2>4, <2>5, <2>7, <3>1 DEF PeerMessage
  <2>8. CASE UNCHANGED vars
    BY <2>1, <2>8 DEF vars
  <2>9. ASSUME NEW tx \in mempool, Deliver(tx) PROVE ~FinalOnly(addr)'
    <3>1. Handle(tx.want) \/ UNCHANGED vars
      BY <2>9 DEF Deliver
    <3>2. CASE Handle(tx.want)
      BY <2>3, <2>4, <2>5, <3>2 DEF Handle
    <3> QED BY <2>8, <3>1, <3>2
  <2>10. CASE UNCHANGED allVars
    BY <2>8, <2>10 DEF allVars
  <2> QED BY <2>6, <2>7, <2>8, <2>9, <2>10, PageLeavesVars DEF Chain
<1>2. ASSUME NEW i \in DOMAIN index' PROVE index'[i].type # "final_send"
  <2>1. CASE UNCHANGED index
    BY <2>1 DEF NoShopInv
  <2>2. ASSUME NEW tx \in mempool, Handle(tx.want), index' = Append(index, EventOf(tx.want))
        PROVE  index'[i].type # "final_send"
    <3> DEFINE e == EventOf(tx.want)
    <3>1. e.type # "final_send"
      <4>1. CASE tx.want.op \in {"undo", "switch"}
        BY <4>1 DEF EventOf
      <4>2. CASE tx.want.op = "send" /\ DelayedSend(Me, tx.want.to, tx.want.amount, tx.want.window)
        <5>1. tx.want.to \in Account \ {Me}
          BY <4>2 DEF WantInv, Sendable, DelayedSend
        <5>2. ~FinalOnly(tx.want.to)
          BY <5>1 DEF NoShopInv
        <5> QED BY <4>2, <5>2 DEF EventOf
      <4> QED BY <2>2, <4>1, <4>2 DEF Handle
    <3> HIDE DEF e
    <3>2. index' = Append(index, e) /\ index \in Seq(TrueEvents)
      BY <2>2 DEF e, IndexInv
    <3>3. index'[i] = e \/ (i \in DOMAIN index /\ index'[i] = index[i])
      BY <3>2
    <3> QED BY <3>1, <3>3 DEF NoShopInv
  <2> QED BY <2>1, <2>2, OnlyBlocksWrite DEF Deliver
<1> QED BY <1>1, <1>2 DEF NoShopInv

-----------------------------------------------------------------------------
(* What "final" says of an undoable send.                                  *)

\* Entries that do not call final what is in flight.
SettledEntries ==
    {h \in TrueEntries :
        h.kind = "sent" /\ h.status = "final" /\ h.id # NoId => Fate(h.id) # "pending"}
SentIds == {h.id : h \in SentEntries} \ {NoId}
SentInv == hist \in Seq(SettledEntries) /\ AllAwaited(SentIds)

LEMMA SentInvInit == WalletInit => SentInv
<1> SUFFICES ASSUME WalletInit PROVE SentInv
  OBVIOUS
<1>1. hist = <<>> /\ DOMAIN pending = {}
  BY DEF WalletInit, Init
<1> QED BY <1>1 DEF SentInv, AllAwaited

LEMMA SettledStay ==
    ASSUME ChainMovesOn, NEW S, index \in Seq(S), IndexGrows
    PROVE  SettledEntries \subseteq SettledEntries'
<1> SUFFICES ASSUME NEW h \in SettledEntries PROVE h \in SettledEntries'
  OBVIOUS
<1>1. h \in TrueEntries /\ h \in TrueEntries'
  BY EntriesStayTrue DEF SettledEntries
<1>2. ASSUME h.kind = "sent", h.status = "final", h.id # NoId PROVE Fate(h.id)' # "pending"
  BY <1>1, <1>2 DEF SettledEntries, TrueEntries, ChainMovesOn, Fate
<1> QED BY <1>1, <1>2 DEF SettledEntries

\* The rows of a refresh that is ready are those of all awaited sends in flight.
LEMMA ReadyRows ==
    ASSUME OneAtATime, RefreshInv, NEW s \in DOMAIN refreshes, refreshes[s].stage = "ready",
           NEW ids, AllAwaited(ids)
    PROVE  /\ s = 1 /\ refreshes[s].rows \in TrueRows
           /\ \A id \in ids : id \in DOMAIN pending =>
                 id \in DOMAIN refreshes[s].rows /\ refreshes[s].rows[id] = pending[id]
<1>1. s = 1 /\ refreshes[s].rows \in TrueRows
  BY DEF OneAtATime, RefreshInv, Fetch
<1>2. \A id \in ids : id \in DOMAIN pending => id \in DOMAIN refreshes[s].rows
  BY <1>1 DEF AllAwaited, Reading, Awaits
<1> QED BY <1>1, <1>2, RowByRow

\* What has no row any more is final indeed.
LEMMA ReconcileSettles ==
    ASSUME OneAtATime, TypeInv, StoryInv, RefreshInv, HistInv, SentInv,
           NEW s \in DOMAIN refreshes, Apply(s)
    PROVE  hist' \in Seq(SettledEntries)
<1> DEFINE rows == refreshes[s].rows
           S == {h \in SettledEntries :
                    h.kind = "sent" /\ h.id # NoId /\ h.id \in DOMAIN pending => h.id \in Outgoing(rows)}
<1>1. hist' = WithReceipts(WithFinals(WithIds(hist, rows), rows), rows)
  BY DEF Apply, reconcileHistory
<1>2. /\ rows \in TrueRows
      /\ \A id \in SentIds : id \in DOMAIN pending => id \in DOMAIN rows /\ rows[id] = pending[id]
  BY ReadyRows DEF Apply, SentInv
<1> HIDE DEF rows
<1>3. hist \in Seq(S)
  <2>1. ASSUME NEW i \in DOMAIN hist PROVE hist[i] \in S
    <3> DEFINE h == hist[i]
    <3>1. h \in SettledEntries /\ h \in TrueEntries /\ h \in Entries
      BY DEF SentInv, SettledEntries, Entries
    <3>2. ASSUME h.kind = "sent", h.id # NoId, h.id \in DOMAIN pending PROVE h.id \in Outgoing(rows)
      <4>1. h.id \in SentIds
        BY <3>1, <3>2 DEF SentIds, SentEntries
      <4>2. history[h.id].sender = Me /\ pending[h.id].sender = Me
        BY <3>1, <3>2 DEF TrueEntries, StoryInv
      <4> QED BY <1>2, <3>2, <4>1, <4>2 DEF Outgoing
    <3> QED BY <3>1, <3>2
  <2>2. hist \in Seq(SettledEntries)
    BY DEF SentInv
  <2> HIDE DEF S
  <2> QED BY <2>1, <2>2
<1>4. ASSUME NEW h \in S, NEW id \in Outgoing(rows), Unmatched(h) PROVE Named(h, id) \in S
  <2>1. Named(h, id) \in TrueEntries
    BY <1>2, <1>4, NamedIsTrue DEF SettledEntries
  <2>2. Named(h, id).status = "pending" /\ Named(h, id).id = id
    BY <1>4 DEF Named, Unmatched
  <2> QED BY <2>1, <2>2 DEF SettledEntries
<1>5. ASSUME NEW h \in S
      PROVE  IF /\ h.kind = "sent" /\ h.status = "pending"
                /\ h.id # NoId /\ h.id \notin Outgoing(rows)
             THEN Marked(h, "final", now) \in SettledEntries ELSE h \in SettledEntries
  <2>1. CASE h.kind = "sent" /\ h.status = "pending" /\ h.id # NoId /\ h.id \notin Outgoing(rows)
    <3>1. now \in Nat /\ h \in TrueEntries
      BY NumbersAssumption DEF TypeInv, TypeOK, SettledEntries
    <3>2. Marked(h, "final", now) \in TrueEntries
      BY <3>1, MarkedIsTrue
    <3>3. Marked(h, "final", now).id = h.id
      BY DEF Marked
    <3>4. Fate(h.id) # "pending"
      BY <2>1, <3>1 DEF TrueEntries, StoryInv, Fate
    <3> QED BY <2>1, <3>2, <3>3, <3>4 DEF SettledEntries
  <2> QED BY <2>1
<1>6. ASSUME NEW id \in DOMAIN Seen(rows) \ Incoming(rows) PROVE Receipt(rows, id) \in SettledEntries
  <2>1. Receipt(rows, id) \in TrueEntries
    BY <1>2, ReceiptIsTrue
  <2>2. Receipt(rows, id).kind = "received"
    BY DEF Receipt, Entry
  <2> QED BY <2>1, <2>2 DEF SettledEntries
<1>7. S \in SUBSET TrueEntries /\ SettledEntries \in SUBSET TrueEntries
  BY DEF SettledEntries
<1>8. OneSent(hist)
  BY DEF HistInv
<1> HIDE DEF S
<1> QED BY <1>1, <1>2, <1>3, <1>4, <1>5, <1>6, <1>7, <1>8, ReconcileKeeps

\* No row of an event says "final", where there are no shops.
LEMMA MergeSettles ==
    ASSUME TypeInv, IndexInv, RefreshInv, HistInv, NoShopInv, SentInv,
           NEW s \in DOMAIN refreshes, Merge(s)
    PROVE  hist' \in Seq(SettledEntries)
<1> DEFINE n == refreshes[s].upto
           events == SubSeq(index, 1, n)
<1>1. hist' = NewestFirst(Merged(hist, events))
  BY DEF Merge, mergeChainHistory
<1>2. n \in 0..Len(index) /\ index \in Seq(TrueEvents)
  BY DEF RefreshInv, Fetch, IndexInv
<1>3. hist \in Seq(SettledEntries) /\ OneSent(hist) /\ SettledEntries \in SUBSET TrueEntries
  BY DEF SentInv, HistInv, SettledEntries
<1> HIDE DEF n
<1>4. ASSUME NEW k \in 1..n, IsSend(events[k])
      PROVE  Mergeable(SettledEntries, ChainRow(events, events[k]))
  <2> DEFINE r == ChainRow(events, events[k])
  <2>1. /\ Mergeable(TrueEntries, r) /\ r.status \in {"pending", "final", "cancelled"}
        /\ r.status = "final" => events[k].type = "final_send"
    BY <1>2, <1>4, RowIsMergeable
  <2>2. k \in DOMAIN index /\ events[k] = index[k]
    BY <1>2
  <2>3. r.status # "final"
    BY <2>1, <2>2 DEF NoShopInv
  <2> HIDE DEF r
  <2>4. r \in SettledEntries /\ r.kind = "sent"
    BY <2>1, <2>3 DEF Mergeable, SettledEntries
  <2>5. ASSUME NEW h \in SettledEntries, SameSend(h, r), r.status # "pending"
        PROVE  Marked(h, r.status, r.at) \in SettledEntries
    <3>1. Marked(h, r.status, r.at) \in TrueEntries
      BY <1>3, <2>1, <2>5 DEF Mergeable
    <3>2. Marked(h, r.status, r.at).status # "final"
      BY <2>3 DEF Marked
    <3> QED BY <3>1, <3>2 DEF SettledEntries
  <2>6. Mergeable(SettledEntries, r)
    BY <2>4, <2>5 DEF Mergeable
  <2> QED BY <2>6 DEF r
<1> QED BY <1>1, <1>2, <1>3, <1>4, MergeKeeps

\* Steps after which no other send is listed under an id.
LEMMA ListedAreAwaited ==
    ASSUME OneAtATime, TypeInv, StoryInv, WantInv, RefreshInv, HistInv, SentInv,
           [WalletNext]_allVars,
           \A i \in DOMAIN hist' : hist'[i].kind = "sent" /\ hist'[i].id # NoId
              => \E j \in DOMAIN hist : hist[j].kind = "sent" /\ hist[j].id = hist'[i].id
    PROVE  AllAwaited(SentIds)'
<1>1. PICK ids : ids = SentIds
  OBVIOUS
<1>2. ASSUME NEW id \in ids PROVE id \in DOMAIN history /\ history[id].sender = Me
  <2>1. PICK h \in SentEntries : h.id = id /\ id # NoId
    BY <1>1, <1>2 DEF SentIds
  <2>2. h \in TrueEntries /\ h.kind = "sent"
    BY EntriesAreTrue DEF SentEntries
  <2> QED BY <2>1, <2>2 DEF TrueEntries
<1>3. \A id \in ids : id \in DOMAIN pending => Me \in {pending[id].sender, pending[id].recipient}
  BY <1>2 DEF StoryInv
<1>4. AllAwaited(ids)'
  <2>1. ids \in SUBSET (DOMAIN history) /\ AllAwaited(ids)
    BY <1>1, <1>2 DEF SentInv
  <2> QED BY <1>3, <2>1, NothingOverlooked
<1>5. SentIds' \subseteq ids
  BY <1>1 DEF SentIds, SentEntries, Entries
<1> QED BY <1>4, <1>5 DEF AllAwaited

LEMMA SentInvStep ==
    ASSUME OneAtATime, TypeInv, StoryInv, WantInv, NodeInv, IndexInv, RefreshInv, HistInv,
           NoShopInv, SentInv, [WalletNext]_allVars
    PROVE  SentInv'
<1> DEFINE S == SettledEntries
<1>0. S \subseteq SettledEntries' /\ S \in SUBSET TrueEntries /\ S \in SUBSET HistoryEntry
  BY WalletOnlyMovesOn, SettledStay DEF IndexInv, SettledEntries, TrueEntries
<1>1. ASSUME hist' \in Seq(S), AllAwaited(SentIds)' PROVE SentInv'
  <2>1. hist' \in Seq(SettledEntries')
    <3> HIDE DEF S
    <3> QED BY <1>0, <1>1
  <2> QED BY <1>1, <2>1 DEF SentInv
<1>2. hist \in Seq(S)
  BY DEF SentInv
<1>3. CASE UNCHANGED hist
  BY <1>1, <1>2, <1>3, ListedAreAwaited
<1>4. CASE Forget
  <2>1. hist' = <<>>
    BY <1>4 DEF Forget
  <2> QED BY <1>1, <2>1, ListedAreAwaited
<1>5. ASSUME NEW s \in DOMAIN refreshes, Apply(s) \/ Merge(s) PROVE SentInv'
  <2>1. hist' \in Seq(S)
    BY <1>5, ReconcileSettles, MergeSettles
  <2>2. s = 1 /\ DOMAIN refreshes = {1}
    BY DEF OneAtATime, RefreshInv
  <2>3. refreshes'[1].stage \in {"history", "idle"}
    <3> DEFINE r == [Idle EXCEPT !.stage = "history"]
    <3>1. Idle.stage = "idle" /\ r.stage = "history"
      BY DEF Idle
    <3>2. refreshes' = [refreshes EXCEPT ![s] = r] \/ refreshes' = [refreshes EXCEPT ![s] = Idle]
      BY <1>5 DEF Apply, Merge
    <3> HIDE DEF r
    <3> QED BY <2>2, <3>1, <3>2
  <2>4. AllAwaited(SentIds)'
    BY <2>3 DEF AllAwaited, Reading
  <2> QED BY <1>1, <2>1, <2>4
<1>6. ASSUME NEW c \in calls, Sent(c) PROVE SentInv'
  <2> DEFINE h == Entry("sent", IF c.want.window = 0 THEN "final" ELSE "pending",
                        NoId, c.want.to, c.want.amount, now)
  <2>1. h \in TrueEntries /\ h.kind = "sent" /\ h.id = NoId /\ hist' = addHist(hist, h)
    BY <1>6, SentEntryIsTrue
  <2>2. h \in S
    <3> HIDE DEF h
    <3> QED BY <2>1 DEF SettledEntries
  <2> HIDE DEF h, S
  <2>3. /\ hist' \in Seq(S) /\ hist'[1] = h
        /\ \A i \in DOMAIN hist' : i # 1 => i - 1 \in DOMAIN hist /\ hist'[i] = hist[i - 1]
    BY <1>2, <2>1, <2>2 DEF addHist
  <2>4. AllAwaited(SentIds)'
    BY <2>1, <2>3, ListedAreAwaited
  <2> QED BY <1>1, <2>3, <2>4
<1>7. ASSUME NEW c \in calls, Undone(c) PROVE SentInv'
  <2> DEFINE id == c.want.id
  <2>1. hist' = Cancelled(id) /\ id \in DOMAIN history /\ Fate(id) = "cancelled"
    BY <1>7, UndoneMarks
  <2>2. id # NoId /\ now \in Nat
    BY <2>1, NumbersAssumption DEF TypeInv, TypeOK, NoId
  <2> HIDE DEF id
  <2>3. ASSUME NEW h \in S, h.id = id PROVE Marked(h, "cancelled", now) \in S
    <3>1. Marked(h, "cancelled", now) \in TrueEntries
      BY <1>0, <2>1, <2>2, <2>3, MarkedIsTrue
    <3>2. Marked(h, "cancelled", now).status = "cancelled"
      BY DEF Marked
    <3> QED BY <3>1, <3>2 DEF SettledEntries
  <2>4. \A h \in S : IF h.kind = "sent" /\ h.id = id
                     THEN Marked(h, "cancelled", now) \in S ELSE h \in S
    BY <2>3
  <2> HIDE DEF S
  <2>5. Cancelled(id) \in Seq(S) /\ SameIds(Cancelled(id), hist)
    BY <1>0, <1>2, <2>4, CancelledKeeps
  <2>6. AllAwaited(SentIds)'
    BY <2>1, <2>5, ListedAreAwaited DEF SameIds
  <2> QED BY <1>1, <2>1, <2>5, <2>6
<1> QED BY <1>3, <1>4, <1>5, <1>6, <1>7, OnlyTheseWrite

\* Where refreshes come one at a time and nobody has a shop, no entry says "final" of
\* a send that can still be undone.
THEOREM FinalIsTrue == OneAtATime /\ NoShops => (WalletSpec => []FinalIsOver)
<1> SUFFICES ASSUME OneAtATime, NoShops PROVE WalletSpec => []FinalIsOver
  OBVIOUS
<1> DEFINE Inv == WalletInv /\ NoShopInv /\ SentInv
<1>1. WalletInit => Inv
  BY WalletInvInit, NoShopInvInit, SentInvInit
<1>2. Inv /\ [WalletNext]_allVars => Inv'
  BY WalletInvStep, NoShopInvStep, SentInvStep DEF WalletInv, TallyInv
<1>3. Inv => FinalIsOver
  BY DEF SentInv, SettledEntries, FinalIsOver, SentEntries, Entries
<1> QED BY <1>1, <1>2, <1>3, PTL DEF WalletSpec

-----------------------------------------------------------------------------
(* Receipts.                                                               *)

\* A payment with a receipt is over, is not remembered, and no refresh has a row of it.
Received(id) ==
    /\ id \in DOMAIN history \ DOMAIN pending
    /\ id \notin DOMAIN seenIn
    /\ Reading => id \notin DOMAIN refreshes[1].rows
ReceivedEntries == {h \in TrueEntries : h.kind = "received" => Received(h.id)}

ReceiptInv ==
    /\ AllAwaited(DOMAIN seenIn)
    /\ \A id \in DOMAIN seenIn \cap DOMAIN pending : pending[id].recipient = Me
    /\ hist \in Seq(ReceivedEntries) /\ OneReceived(hist)

LEMMA ReceiptInvInit == WalletInit => ReceiptInv
<1> SUFFICES ASSUME WalletInit PROVE ReceiptInv
  OBVIOUS
<1>1. hist = <<>> /\ DOMAIN pending = {} /\ DOMAIN seenIn = {}
  BY DEF WalletInit, Init
<1> QED BY <1>1 DEF ReceiptInv, AllAwaited, OneReceived

\* What a step adds to the rows that were read is in flight.
LEMMA RowsAreOfTheLiving ==
    ASSUME OneAtATime, RefreshInv, [WalletNext]_allVars, Reading'
    PROVE  \A id \in DOMAIN refreshes'[1].rows :
              id \in DOMAIN pending \/ (Reading /\ id \in DOMAIN refreshes[1].rows)
<1>1. CASE UNCHANGED refreshes \/ refreshes'[1] = refreshes[1]
  BY <1>1 DEF Reading
<1>2. CASE refreshes'[1] = Asked
  <2>1. DOMAIN Asked.rows = {}
    BY DEF Asked, Idle
  <2> QED BY <1>2, <2>1
<1>3. CASE refreshes'[1].stage \in {"idle", "history", "merge"}
  BY <1>3 DEF Reading
<1>4. CASE ReadPage(1)
  <2> DEFINE key == refreshes[1].next
             mine == {k \in PageFrom(key) : Me \in {pending[k].sender, pending[k].recipient}}
             rows == WithPage(refreshes[1].rows, mine)
             r == [stage |-> IF Beyond(key) = {} THEN "ready" ELSE "pages",
                   rows |-> rows, next |-> NextKey(key), upto |-> 0]
  <2>1. refreshes' = [refreshes EXCEPT ![1] = r] /\ refreshes[1].stage = "pages"
    BY <1>4 DEF ReadPage
  <2>2. 1 \in DOMAIN refreshes
    BY DEF RefreshInv, OneAtATime
  <2>3. refreshes'[1].rows = rows
    BY <2>1, <2>2
  <2>4. DOMAIN rows = mine \cup DOMAIN refreshes[1].rows
    BY DEF WithPage
  <2>5. mine \subseteq DOMAIN pending
    BY DEF PageFrom
  <2> HIDE DEF mine, rows, r
  <2> QED BY <2>1, <2>3, <2>4, <2>5 DEF Reading
<1> QED BY <1>1, <1>2, <1>3, <1>4, RefreshCases

\* Steps that remember nothing new.
LEMMA ReceivedStay ==
    ASSUME OneAtATime, TypeInv, StoryInv, WantInv, IndexInv, RefreshInv,
           [WalletNext]_allVars, DOMAIN seenIn' \subseteq DOMAIN seenIn
    PROVE  ReceivedEntries \subseteq ReceivedEntries'
<1> SUFFICES ASSUME NEW h \in ReceivedEntries PROVE h \in ReceivedEntries'
  OBVIOUS
<1>1. ChainMovesOn /\ IndexGrows
  BY WalletOnlyMovesOn
<1>2. h \in TrueEntries /\ h \in TrueEntries'
  BY <1>1, EntriesStayTrue DEF IndexInv, ReceivedEntries
<1>3. ASSUME NEW id, Received(id) PROVE Received(id)'
  BY <1>1, <1>3, RowsAreOfTheLiving DEF Received, ChainMovesOn
<1>4. PICK id : id = h.id
  OBVIOUS
<1>5. h.kind = "received" => Received(id)'
  BY <1>3, <1>4 DEF ReceivedEntries
<1>6. h.kind = "received" => Received(h.id)'
  <2>1. Received(id)' => Received(h.id)'
    BY <1>4 DEF Received
  <2> QED BY <1>5, <2>1
<1> QED BY <1>2, <1>6 DEF ReceivedEntries

\* Applying a refresh writes receipts of payments that are over and had none.
LEMMA ReconcileReceives ==
    ASSUME OneAtATime, TypeInv, StoryInv, RefreshInv, HistInv, ReceiptInv,
           NEW s \in DOMAIN refreshes, Apply(s)
    PROVE  /\ hist' \in Seq({h \in TrueEntries : h.kind = "received" =>
                                /\ h.id \in DOMAIN history \ DOMAIN pending
                                /\ h.id \notin DOMAIN seenIn'})
           /\ OneReceived(hist')
           /\ \A id \in DOMAIN seenIn' \cap DOMAIN pending : pending[id].recipient = Me
<1> DEFINE rows == refreshes[s].rows
           gone == DOMAIN Seen(rows) \ Incoming(rows)
           Over(id) == id \in DOMAIN history \ DOMAIN pending /\ id \notin DOMAIN seenIn'
           S == {h \in TrueEntries : h.kind = "received" => Over(h.id) /\ h.id \notin DOMAIN seenIn}
           T == {h \in TrueEntries : h.kind = "received" => Over(h.id)}
<1>1. hist' = WithReceipts(WithFinals(WithIds(hist, rows), rows), rows) /\ seenIn' = StillSeen(rows)
  BY DEF Apply, reconcileHistory
<1>2. /\ rows \in TrueRows /\ s = 1 /\ Reading
      /\ \A id \in DOMAIN seenIn : id \in DOMAIN pending => id \in DOMAIN rows /\ rows[id] = pending[id]
  BY ReadyRows DEF Apply, ReceiptInv, Reading
<1>3. Reading => rows = refreshes[1].rows
  BY <1>2
<1> HIDE DEF rows
<1>4. /\ DOMAIN Seen(rows) = DOMAIN seenIn \cup Incoming(rows)
      /\ DOMAIN Seen(rows) \subseteq DOMAIN history
      /\ DOMAIN seenIn' = Incoming(rows) /\ Incoming(rows) \subseteq DOMAIN rows
  BY <1>1, <1>2, SeenStayKnown DEF Incoming
<1>5. hist \in Seq(S)
  <2>1. ASSUME NEW h \in ReceivedEntries PROVE h \in S
    BY <1>2, <1>3, <1>4 DEF ReceivedEntries, Received
  <2>2. hist \in Seq(ReceivedEntries) /\ ReceivedEntries \subseteq S
    BY <2>1 DEF ReceiptInv
  <2> HIDE DEF S
  <2> QED BY <2>2
<1>6. ASSUME NEW id \in gone PROVE Over(id) /\ id \in DOMAIN seenIn
  <2>1. id \in DOMAIN seenIn /\ id \in DOMAIN history /\ id \notin Incoming(rows)
    BY <1>4
  <2>2. id \notin DOMAIN pending
    BY <1>2, <2>1 DEF ReceiptInv, Incoming
  <2> QED BY <1>4, <2>1, <2>2
<1>7. ASSUME NEW h \in S, NEW id \in Outgoing(rows), Unmatched(h) PROVE Named(h, id) \in S
  <2>1. Named(h, id) \in TrueEntries
    BY <1>2, <1>7, NamedIsTrue
  <2>2. Named(h, id).kind = "sent"
    BY <1>7 DEF Named, Unmatched
  <2> QED BY <2>1, <2>2
<1>8. ASSUME NEW h \in S
      PROVE  IF /\ h.kind = "sent" /\ h.status = "pending"
                /\ h.id # NoId /\ h.id \notin Outgoing(rows)
             THEN Marked(h, "final", now) \in T ELSE h \in T
  <2>1. ASSUME h.kind = "sent" PROVE Marked(h, "final", now) \in T
    <3>1. now \in Nat
      BY NumbersAssumption DEF TypeInv, TypeOK
    <3>2. Marked(h, "final", now) \in TrueEntries
      BY <3>1, MarkedIsTrue
    <3>3. Marked(h, "final", now).kind = "sent"
      BY <2>1 DEF Marked
    <3> QED BY <3>2, <3>3
  <2> QED BY <2>1
<1>9. ASSUME NEW id \in gone PROVE Receipt(rows, id) \in T
  <2>1. Receipt(rows, id) \in TrueEntries
    BY <1>2, ReceiptIsTrue
  <2>2. Receipt(rows, id).id = id
    BY DEF Receipt, Entry
  <2> HIDE DEF Over
  <2> QED BY <1>6, <2>1, <2>2
<1>10. S \in SUBSET TrueEntries /\ T \in SUBSET TrueEntries /\ OneSent(hist)
  BY DEF HistInv
<1>11. /\ hist' \in Seq(T)
       /\ \E new \in Seq(T), old \in Seq(T) :
             hist' = new \o old /\ SameReceipts(old, hist) /\ ReceiptsOf(new, gone)
  <2> HIDE DEF S, T
  <2> QED BY <1>1, <1>2, <1>5, <1>7, <1>8, <1>9, <1>10, ReconcileKeeps
<1>12. OneReceived(hist')
  <2>1. PICK new \in Seq(T), old \in Seq(T) :
           hist' = new \o old /\ SameReceipts(old, hist) /\ ReceiptsOf(new, gone)
    BY <1>11
  <2> HIDE DEF T
  <2>2. /\ \A i \in DOMAIN new : hist'[i] = new[i]
        /\ \A i \in DOMAIN hist' : i \in DOMAIN new
              \/ (i - Len(new) \in DOMAIN old /\ hist'[i] = old[i - Len(new)])
        /\ Len(new) \in Nat /\ DOMAIN hist' \subseteq Nat
    BY <2>1
  <2>3. OneReceived(old)
    BY <2>1, SameReceiptsKeeps DEF ReceiptInv
  <2>4. ASSUME NEW j \in DOMAIN old, old[j].kind = "received" PROVE old[j].id \notin gone
    <3>1. j \in DOMAIN hist /\ hist[j].kind = "received" /\ hist[j].id = old[j].id
      BY <2>1, <2>4 DEF SameReceipts
    <3>2. hist[j] \in S
      <4> HIDE DEF S
      <4> QED BY <1>5, <3>1
    <3> QED BY <1>6, <3>1, <3>2
  <2> SUFFICES ASSUME NEW i \in DOMAIN hist', NEW j \in DOMAIN hist', i # j,
                      hist'[i].kind = "received", hist'[j].kind = "received",
                      hist'[i].id = hist'[j].id
               PROVE  FALSE
    BY DEF OneReceived
  <2> HIDE DEF gone
  <2>5. CASE i \in DOMAIN new /\ j \in DOMAIN new
    BY <2>1, <2>2, <2>5 DEF ReceiptsOf
  <2>6. CASE i \in DOMAIN new /\ j \notin DOMAIN new
    BY <2>1, <2>2, <2>4, <2>6 DEF ReceiptsOf
  <2>7. CASE i \notin DOMAIN new /\ j \in DOMAIN new
    BY <2>1, <2>2, <2>4, <2>7 DEF ReceiptsOf
  <2>8. CASE i \notin DOMAIN new /\ j \notin DOMAIN new
    <3>1. i - Len(new) # j - Len(new)
      BY <2>2
    <3> QED BY <2>2, <2>3, <2>8, <3>1 DEF OneReceived
  <2> QED BY <2>5, <2>6, <2>7, <2>8
<1>13. \A id \in DOMAIN seenIn' \cap DOMAIN pending : pending[id].recipient = Me
  BY <1>2, <1>4, RowByRow DEF Incoming
<1> QED BY <1>11, <1>12, <1>13

LEMMA ReceiptInvStep ==
    ASSUME OneAtATime, TypeInv, StoryInv, WantInv, NodeInv, IndexInv, RefreshInv, HistInv,
           ReceiptInv, [WalletNext]_allVars
    PROVE  ReceiptInv'
<1> DEFINE R == ReceivedEntries
<1>a. ChainMovesOn /\ IndexGrows /\ TrueEntries \subseteq TrueEntries'
  BY WalletOnlyMovesOn, EntriesStayTrue DEF IndexInv
<1>b. hist \in Seq(R) /\ OneReceived(hist) /\ R \in SUBSET TrueEntries /\ R \in SUBSET HistoryEntry
  BY DEF ReceiptInv, ReceivedEntries, TrueEntries
\* Steps that remember nothing new, and write no receipt.
<1>c. ASSUME DOMAIN seenIn' \subseteq DOMAIN seenIn, hist' \in Seq(R), OneReceived(hist')
      PROVE  ReceiptInv'
  <2>1. hist' \in Seq(ReceivedEntries')
    <3>1. R \subseteq ReceivedEntries'
      BY <1>c, ReceivedStay
    <3> HIDE DEF R
    <3> QED BY <1>c, <3>1
  <2>2. ASSUME NEW id \in DOMAIN seenIn' \cap DOMAIN pending' PROVE pending'[id].recipient = Me
    <3>1. id \in DOMAIN seenIn /\ id \in DOMAIN history
      BY <1>c DEF RefreshInv
    <3> QED BY <1>a, <2>2, <3>1 DEF ChainMovesOn, ReceiptInv
  <2>3. PICK ids : ids = DOMAIN seenIn
    OBVIOUS
  <2>4. AllAwaited(ids)'
    <3>1. ids \in SUBSET (DOMAIN history) /\ AllAwaited(ids)
      BY <2>3 DEF RefreshInv, ReceiptInv
    <3>2. \A id \in ids : id \in DOMAIN pending => Me \in {pending[id].sender, pending[id].recipient}
      BY <2>3 DEF ReceiptInv
    <3> QED BY <3>1, <3>2, NothingOverlooked
  <2>5. AllAwaited(DOMAIN seenIn)'
    BY <1>c, <2>3, <2>4 DEF AllAwaited
  <2>6. OneReceived(hist)'
    BY <1>c DEF OneReceived
  <2> QED BY <2>1, <2>2, <2>5, <2>6 DEF ReceiptInv
<1>1. ASSUME UNCHANGED hist, DOMAIN seenIn' \subseteq DOMAIN seenIn PROVE ReceiptInv'
  BY <1>b, <1>c, <1>1
<1>2. CASE Forget
  <2>1. hist' = <<>> /\ DOMAIN seenIn' = {}
    BY <1>2 DEF Forget
  <2> QED BY <1>c, <2>1 DEF OneReceived
<1>3. ASSUME NEW s \in DOMAIN refreshes, Apply(s) PROVE ReceiptInv'
  <2> DEFINE T == {h \in TrueEntries : h.kind = "received" =>
                      h.id \in DOMAIN history \ DOMAIN pending /\ h.id \notin DOMAIN seenIn'}
             r == [Idle EXCEPT !.stage = "history"]
  <2>1. /\ hist' \in Seq(T) /\ OneReceived(hist')
        /\ \A id \in DOMAIN seenIn' \cap DOMAIN pending : pending[id].recipient = Me
    BY <1>3, ReconcileReceives
  <2>2. UNCHANGED pending /\ UNCHANGED history
    BY <1>3 DEF Apply, vars
  <2>3. refreshes'[1].stage = "history"
    <3>1. s = 1 /\ DOMAIN refreshes = {1}
      BY DEF OneAtATime, RefreshInv
    <3>2. refreshes' = [refreshes EXCEPT ![s] = r] /\ r.stage = "history"
      BY <1>3 DEF Apply, Idle
    <3> HIDE DEF r
    <3> QED BY <3>1, <3>2
  <2>4. ~Reading'
    BY <2>3 DEF Reading
  <2>5. ASSUME NEW h \in T PROVE h \in ReceivedEntries'
    BY <1>a, <2>2, <2>4 DEF ReceivedEntries, Received
  <2>6. hist' \in Seq(ReceivedEntries')
    <3>1. T \subseteq ReceivedEntries'
      BY <2>5
    <3> HIDE DEF T
    <3> QED BY <2>1, <3>1
  <2>7. AllAwaited(DOMAIN seenIn)'
    BY <2>4 DEF AllAwaited
  <2>8. OneReceived(hist)'
    BY <2>1 DEF OneReceived
  <2> QED BY <2>1, <2>2, <2>6, <2>7, <2>8 DEF ReceiptInv
<1>4. ASSUME NEW s \in DOMAIN refreshes, Merge(s) PROVE ReceiptInv'
  <2> DEFINE n == refreshes[s].upto
             events == SubSeq(index, 1, n)
  <2>1. hist' = NewestFirst(Merged(hist, events)) /\ UNCHANGED seenIn
    BY <1>4 DEF Merge, mergeChainHistory
  <2>2. n \in 0..Len(index) /\ index \in Seq(TrueEvents) /\ OneSent(hist)
    BY DEF RefreshInv, Fetch, IndexInv, HistInv
  <2> HIDE DEF n
  <2>3. ASSUME NEW k \in 1..n, IsSend(events[k])
        PROVE  Mergeable(R, ChainRow(events, events[k]))
    <3> DEFINE r == ChainRow(events, events[k])
    <3>1. Mergeable(TrueEntries, r)
      BY <2>2, <2>3, RowIsMergeable
    <3> HIDE DEF r
    <3>2. r \in R /\ r.kind = "sent"
      BY <3>1 DEF Mergeable, ReceivedEntries
    <3>3. ASSUME NEW h \in R, SameSend(h, r), r.status # "pending"
          PROVE  Marked(h, r.status, r.at) \in R
      <4>1. Marked(h, r.status, r.at) \in TrueEntries
        BY <1>b, <3>1, <3>3 DEF Mergeable
      <4>2. Marked(h, r.status, r.at).kind = "sent"
        BY <3>2, <3>3 DEF SameSend, Marked
      <4> QED BY <4>1, <4>2 DEF ReceivedEntries
    <3>4. Mergeable(R, r)
      BY <3>2, <3>3 DEF Mergeable
    <3> QED BY <3>4 DEF r
  <2>4. hist' \in Seq(R) /\ OneReceived(hist')
    <3> HIDE DEF R
    <3> QED BY <1>b, <2>1, <2>2, <2>3, MergeKeeps
  <2> QED BY <1>c, <2>1, <2>4
<1>5. ASSUME NEW c \in calls, Sent(c) PROVE ReceiptInv'
  <2> DEFINE h == Entry("sent", IF c.want.window = 0 THEN "final" ELSE "pending",
                        NoId, c.want.to, c.want.amount, now)
  <2>1. h \in TrueEntries /\ h.kind = "sent" /\ hist' = addHist(hist, h)
    BY <1>5, SentEntryIsTrue
  <2>2. h \in R
    <3> HIDE DEF h
    <3> QED BY <2>1 DEF ReceivedEntries
  <2> HIDE DEF h, R
  <2>3. /\ hist' \in Seq(R) /\ hist'[1] = h
        /\ \A i \in DOMAIN hist' : i # 1 => i - 1 \in DOMAIN hist /\ hist'[i] = hist[i - 1]
        /\ DOMAIN hist' \subseteq Nat
    BY <1>b, <2>1, <2>2 DEF addHist
  <2>4. OneReceived(hist')
    <3> SUFFICES ASSUME NEW i \in DOMAIN hist', NEW j \in DOMAIN hist', i # j,
                        hist'[i].kind = "received", hist'[j].kind = "received"
                 PROVE  hist'[i].id # hist'[j].id
      BY DEF OneReceived
    <3>1. i # 1 /\ j # 1 /\ i - 1 # j - 1
      BY <2>1, <2>3
    <3> QED BY <1>b, <2>3, <3>1 DEF OneReceived
  <2>5. UNCHANGED seenIn
    BY <1>5 DEF Sent
  <2> QED BY <1>c, <2>3, <2>4, <2>5
<1>6. ASSUME NEW c \in calls, Undone(c) PROVE ReceiptInv'
  <2> DEFINE id == c.want.id
  <2>1. hist' = Cancelled(id) /\ id \in DOMAIN history /\ Fate(id) = "cancelled"
    BY <1>6, UndoneMarks
  <2>2. id # NoId /\ now \in Nat /\ UNCHANGED seenIn
    BY <1>6, <2>1, NumbersAssumption DEF TypeInv, TypeOK, NoId, Undone
  <2> HIDE DEF id
  <2>3. ASSUME NEW h \in R, h.id = id, h.kind = "sent" PROVE Marked(h, "cancelled", now) \in R
    <3>1. Marked(h, "cancelled", now) \in TrueEntries
      BY <1>b, <2>1, <2>2, <2>3, MarkedIsTrue
    <3>2. Marked(h, "cancelled", now).kind = "sent"
      BY <2>3 DEF Marked
    <3> QED BY <3>1, <3>2 DEF ReceivedEntries
  <2>4. \A h \in R : IF h.kind = "sent" /\ h.id = id
                     THEN Marked(h, "cancelled", now) \in R ELSE h \in R
    BY <2>3
  <2> HIDE DEF R
  <2>5. Cancelled(id) \in Seq(R) /\ SameIds(Cancelled(id), hist)
    BY <1>b, <2>4, CancelledKeeps
  <2>6. OneReceived(Cancelled(id))
    BY <1>b, <2>5, SameIdsKeeps, SameReceiptsKeeps
  <2> QED BY <1>c, <2>1, <2>2, <2>5, <2>6
<1>7. ASSUME ~Forget, \A s \in DOMAIN refreshes : ~Apply(s) PROVE UNCHANGED seenIn
  <2>1. CASE Chain \/ UNCHANGED allVars
    BY <2>1 DEF Chain, allVars, local
  <2>2. ASSUME NEW tx \in mempool, Deliver(tx) \/ Lose(tx) PROVE UNCHANGED seenIn
    BY <2>2 DEF Deliver, Lose, local
  <2>3. CASE RefreshTimer \/ LookUp \/ Back \/ Reload \/ \E to \in Peers : TypeRecipient(to)
    BY <2>3 DEF RefreshTimer, LookUp, Back, Reload, TypeRecipient, local
  <2>4. ASSUME NEW s \in DOMAIN refreshes, RefreshStep(s) PROVE UNCHANGED seenIn
    BY <1>7, <2>4 DEF RefreshStep, ReadPage, ReadHistory, Merge, RefreshFails
  <2>5. ASSUME NEW amount \in Amount, NEW window \in Pick, PressSend(amount, window)
        PROVE  UNCHANGED seenIn
    BY <2>5 DEF PressSend, local
  <2>6. ASSUME NEW id \in DOMAIN shown, PressUndo(id) PROVE UNCHANGED seenIn
    BY <2>6 DEF PressUndo, local
  <2>7. ASSUME NEW finalonly \in OwnSwitch, PressSwitch(finalonly) PROVE UNCHANGED seenIn
    BY <2>7 DEF PressSwitch, local
  <2>8. ASSUME NEW c \in calls, CallStep(c) PROVE UNCHANGED seenIn
    BY <2>8 DEF CallStep, ReadAccount, Broadcast, GiveUp, Sent, Undone, Switched, Refused, Throw, local
  <2> QED BY <1>7, <2>1, <2>2, <2>3, <2>4, <2>5, <2>6, <2>7, <2>8 DEF WalletNext
<1> QED BY <1>1, <1>2, <1>3, <1>4, <1>5, <1>6, <1>7, OnlyTheseWrite

\* Where refreshes come one at a time, no incoming payment is written down twice.
THEOREM ReceiptsAreSingle == OneAtATime => (WalletSpec => []OneReceipt)
<1> SUFFICES ASSUME OneAtATime PROVE WalletSpec => []OneReceipt
  OBVIOUS
<1> DEFINE Inv == WalletInv /\ ReceiptInv
<1>1. WalletInit => Inv
  BY WalletInvInit, ReceiptInvInit
<1>2. Inv /\ [WalletNext]_allVars => Inv'
  BY WalletInvStep, ReceiptInvStep DEF WalletInv, TallyInv
<1>3. Inv => OneReceipt
  BY DEF ReceiptInv, OneReceived, OneReceipt
<1> QED BY <1>1, <1>2, <1>3, PTL DEF WalletSpec
=============================================================================
