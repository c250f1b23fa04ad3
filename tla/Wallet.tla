------------------------------- MODULE Wallet -------------------------------
(***************************************************************************)
(* The web wallet of one address (wallet/src/app.js and chain.js) beside   *)
(* the chain of module Undo: the send form and the Undo button, the        *)
(* signing and polling of sendTx, the refresh that re-reads the chain, and *)
(* the local history that is kept in browser storage.                      *)
(*                                                                         *)
(* JavaScript runs one callback at a time: an action is the code between   *)
(* two awaits.  Queries answer from the last committed block, so they are  *)
(* taken between blocks (phase = "none").  The browser's clock is block    *)
(* time; what is only drawn (balance, banners, countdowns) is left out,    *)
(* and the lists never reach the length at which the code cuts them (50    *)
(* entries kept, 40 transactions searched).                                *)
(***************************************************************************)
EXTENDS Undo, Sequences

CONSTANTS
    Me,          \* the wallet's address
    Pick,        \* the undo windows the send form offers
    PeerWindow,  \* the windows other people send with
    Switch,      \* what other people set their shop switch to
    OwnSwitch,   \* what the wallet's owner sets their shop switch to
    PageSize,    \* rows in one answer of the pending query
    SameMoment,  \* a chain row without id matches an entry less than this apart
    Refreshes,   \* bound: refreshes that may be in flight together
    MaxPresses,  \* bound: presses of Send, Undo and the shop switch
    MaxReloads   \* bound: how often the page is closed or reloaded

ASSUME WalletAssumption ==
    /\ Me \in User
    /\ 0 \in Window
    /\ Pick \subseteq Window \ {0} /\ PeerWindow \subseteq Window
    /\ Switch \subseteq BOOLEAN /\ OwnSwitch \subseteq BOOLEAN
    /\ PageSize \in Nat \ {0} /\ SameMoment \in Nat \ {0}
    /\ Refreshes \in Nat /\ MaxPresses \in Nat /\ MaxReloads \in Nat

VARIABLES
    sequence, \* the chain's account sequence of Me
    mempool,  \* Me's transactions that a node holds: [seq, want]
    landed,   \* sequence -> the transaction in a block: [want, ok]
    index,    \* the node's index of events in Me's transactions, oldest first
    calls,    \* sendTx calls in flight: [want, stage, seq]
    presses,  \* how often a button was pressed that signs something
    reloads,  \* how often the page was closed or reloaded
    form,     \* the send form: the address typed, and recipientInfo.finalonly
    home,     \* the home screen is showing
    refreshes,\* the refreshes in flight
    shown,    \* S.pending: id -> row
    hist,     \* S.history, newest first
    seenIn    \* S.seenIn: id -> the promised payment

node == <<sequence, mempool, landed, index>>
page == <<calls, presses, reloads, form, home>>
local == <<refreshes, shown, hist, seenIn>>
allVars == <<vars, node, page, local>>

NoId == -1
Unset == [to |-> Me, info |-> "unknown"]
Idle == [stage |-> "idle", rows |-> [id \in {} |-> {}], next |-> 0, upto |-> 0]
Asked == [Idle EXCEPT !.stage = "pages"]

-----------------------------------------------------------------------------
(* The local history.                                                      *)

\* A finite set in an order: x is before y if <<x, y>> is a pair of before.
InOrder(S, before) ==
    [n \in 1..Cardinality(S) |->
        CHOOSE x \in S : Cardinality({y \in S : <<y, x>> \in before}) = n - 1]

Entry(kind, status, id, addr, amount, at) ==
    [kind |-> kind, status |-> status, id |-> id, addr |-> addr,
     amount |-> amount, at |-> at]
addHist(entries, entry) == <<entry>> \o entries

Outgoing(rows) == {id \in DOMAIN rows : rows[id].sender = Me}
Incoming(rows) == {id \in DOMAIN rows : rows[id].recipient = Me}
Unmatched(h) == h.kind = "sent" /\ h.status = "pending" /\ h.id = NoId
Ids(entries) == {entries[i].id : i \in DOMAIN entries} \ {NoId}

\* S.pending.outgoing.find: the rows are in the order of their executeat.
FirstOf(rows, ids) ==
    CHOOSE id \in ids : \A other \in ids :
        \/ rows[id].executeat < rows[other].executeat
        \/ rows[id].executeat = rows[other].executeat /\ id <= other

\* Mutant: a row that an entry already owns is handed out again.
WithIdsShared(entries, rows) ==
    [i \in DOMAIN entries |->
        LET h == entries[i]
            free == {id \in Outgoing(rows) :
                        rows[id].recipient = h.addr /\ rows[id].amount = h.amount}
        IN  IF Unmatched(h) /\ free # {} THEN [h EXCEPT !.id = FirstOf(rows, free)] ELSE h]
TakeId(entries, i, rows) ==
    LET h == entries[i]
        free == {id \in Outgoing(rows) \ Ids(entries) :
                    rows[id].recipient = h.addr /\ rows[id].amount = h.amount}
    IN  IF Unmatched(h) /\ free # {}
        THEN [entries EXCEPT ![i].id = FirstOf(rows, free)] ELSE entries
\* First loop of reconcileHistory: entries without an id take the rows that no
\* entry owns, one after the other.
WithIds(entries, rows) ==
    LET sofar[i \in 0..Len(entries)] ==
            IF i = 0 THEN entries ELSE TakeId(sofar[i - 1], i, rows)
    IN  sofar[Len(entries)]

\* Second loop: what vanished from the outgoing rows is final.
WithFinals(entries, rows) ==
    [i \in DOMAIN entries |->
        LET h == entries[i]
        IN  IF /\ h.kind = "sent" /\ h.status = "pending"
               /\ h.id # NoId /\ h.id \notin Outgoing(rows)
            THEN [h EXCEPT !.status = "final", !.at = now] ELSE h]

Seen(rows) ==
    [id \in DOMAIN seenIn \cup Incoming(rows) |->
        IF id \in DOMAIN seenIn THEN seenIn[id]
        ELSE [from |-> rows[id].sender, amount |-> rows[id].amount]]

\* Third and fourth loop: promised payments are remembered, and what vanished
\* from the incoming rows is taken for received; the receipts are put before the
\* list one by one, by ascending id.
WithReceipts(entries, rows) ==
    LET seen == Seen(rows)
        gone == DOMAIN seen \ Incoming(rows)
        last == InOrder(gone, {pair \in gone \X gone : pair[1] > pair[2]})
    IN  [n \in DOMAIN last |->
            Entry("received", "final", last[n], seen[last[n]].from, seen[last[n]].amount, now)]
        \o entries

\* Mutant: a payment stays remembered after its receipt is written.
SeenKept(rows) == Seen(rows)
StillSeen(rows) == Restrict(Seen(rows), Incoming(rows))

reconcileHistory(rows) ==
    /\ hist' = WithReceipts(WithFinals(WithIds(hist, rows), rows), rows)
    /\ seenIn' = StillSeen(rows)

\* historyFromChain: the row that an event makes.  An undoable send is cancelled
\* or pending, never final.
IsSend(e) == e.type \in {"delayed_send", "final_send"}
ChainRow(events, e) ==
    Entry("sent",
          IF e.type = "final_send" THEN "final"
          ELSE IF \E i \in DOMAIN events : events[i].type = "send_cancelled" /\ events[i].id = e.id
               THEN "cancelled" ELSE "pending",
          e.id, e.addr, e.amount, e.at)

SameSend(h, r) ==
    IF r.id # NoId THEN h.id = r.id /\ h.kind = "sent"
    ELSE /\ h.kind = r.kind /\ h.addr = r.addr /\ h.amount = r.amount
         /\ h.at - r.at < SameMoment /\ r.at - h.at < SameMoment

\* S.history.find: the first entry of this send.
Mine(entries, r) == {i \in DOMAIN entries : SameSend(entries[i], r)}
FirstMine(entries, r) == CHOOSE i \in Mine(entries, r) : \A j \in Mine(entries, r) : i <= j

\* Mutant: an entry that is already settled here is left alone.
MergeRowTimidly(entries, r) ==
    LET i == FirstMine(entries, r)
    IN  IF Mine(entries, r) = {} THEN Append(entries, r)
        ELSE IF entries[i].status = "pending" /\ r.status # "pending"
             THEN [entries EXCEPT ![i].status = r.status, ![i].at = r.at] ELSE entries
\* One turn of mergeChainHistory's loop.  Its third branch, an entry without an
\* id that takes the row's, is out of reach: such a row matches by id alone.
MergeRow(entries, r) ==
    LET i == FirstMine(entries, r)
    IN  IF Mine(entries, r) = {} THEN Append(entries, r)
        ELSE IF entries[i].status # r.status /\ r.status # "pending"
             THEN [entries EXCEPT ![i].status = r.status, ![i].at = r.at] ELSE entries

\* The loop over the rows of these events, newest first.
Merged(entries, events) ==
    LET sofar[k \in 0..Len(events)] ==
            IF k = 0 THEN entries
            ELSE LET e == events[Len(events) - k + 1]
                 IN  IF IsSend(e) THEN MergeRow(sofar[k - 1], ChainRow(events, e)) ELSE sofar[k - 1]
    IN  sofar[Len(events)]

\* sort, which keeps the order of what was written at the same time.
NewestFirst(entries) ==
    LET order == InOrder(DOMAIN entries,
                         {pair \in (DOMAIN entries) \X (DOMAIN entries) :
                             \/ entries[pair[1]].at > entries[pair[2]].at
                             \/ entries[pair[1]].at = entries[pair[2]].at /\ pair[1] < pair[2]})
    IN  [i \in DOMAIN entries |-> entries[order[i]]]

mergeChainHistory(n) == hist' = NewestFirst(Merged(hist, SubSeq(index, 1, n)))

-----------------------------------------------------------------------------
(* refresh.                                                                *)

\* A call of refresh.  It is not awaited where it starts; while Refreshes of
\* them are in flight, no further one is considered.
Begin(slots) ==
    IF \A s \in DOMAIN slots : slots[s].stage # "idle" THEN slots
    ELSE LET s == CHOOSE s \in DOMAIN slots : slots[s].stage = "idle"
         IN  [slots EXCEPT ![s] = Asked]

\* setInterval: every six seconds while home is showing.
RefreshTimer ==
    /\ home
    /\ \E s \in DOMAIN refreshes : refreshes[s].stage = "idle"
    /\ refreshes' = Begin(refreshes)
    /\ UNCHANGED <<vars, node, page, shown, hist, seenIn>>

\* The rows of one page, and the key after it.
PageFrom(key) ==
    {id \in DOMAIN pending :
        id >= key /\ Cardinality({k \in DOMAIN pending : k >= key /\ k < id}) < PageSize}
Beyond(key) == {id \in DOMAIN pending : id >= key} \ PageFrom(key)
NextKey(key) ==
    IF Beyond(key) = {} THEN 0
    ELSE CHOOSE k \in Beyond(key) : \A j \in Beyond(key) : k <= j

\* What an answer adds to the rows read so far.
WithPage(rows, mine) ==
    [id \in mine \cup DOMAIN rows |-> IF id \in mine THEN pending[id] ELSE rows[id]]

\* Mutant: only the first page is read.
ReadFirstPage(s) ==
    /\ refreshes[s].stage = "pages" /\ phase = "none"
    /\ refreshes' = [refreshes EXCEPT
           ![s].rows = [id \in {k \in PageFrom(0) : Me \in {pending[k].sender, pending[k].recipient}}
                            |-> pending[id]],
           ![s].stage = "ready"]
    /\ UNCHANGED <<vars, node, page, shown, hist, seenIn>>
\* One round of pendingFor's loop; the next page may come from a later block.
ReadPage(s) ==
    LET key == refreshes[s].next
        mine == {k \in PageFrom(key) : Me \in {pending[k].sender, pending[k].recipient}}
    IN  /\ refreshes[s].stage = "pages" /\ phase = "none"
        /\ refreshes' = [refreshes EXCEPT ![s] =
               [stage |-> IF Beyond(key) = {} THEN "ready" ELSE "pages",
                rows  |-> WithPage(refreshes[s].rows, mine),
                next  |-> NextKey(key),
                upto  |-> 0]]
        /\ UNCHANGED <<vars, node, page, shown, hist, seenIn>>

Apply(s) ==
    /\ refreshes[s].stage = "ready"
    /\ shown' = refreshes[s].rows
    /\ reconcileHistory(refreshes[s].rows)
    /\ refreshes' = [refreshes EXCEPT ![s] = [Idle EXCEPT !.stage = "history"]]
    /\ UNCHANGED <<vars, node, page>>

ReadHistory(s) ==
    /\ refreshes[s].stage = "history" /\ phase = "none"
    /\ refreshes' = [refreshes EXCEPT ![s] = [Idle EXCEPT !.stage = "merge", !.upto = Len(index)]]
    /\ UNCHANGED <<vars, node, page, shown, hist, seenIn>>

Merge(s) ==
    /\ refreshes[s].stage = "merge"
    /\ mergeChainHistory(refreshes[s].upto)
    /\ refreshes' = [refreshes EXCEPT ![s] = Idle]
    /\ UNCHANGED <<vars, node, page, shown, seenIn>>

\* A query fails: the rest of this refresh does not happen.  (The balance and
\* the record are read beside the pages; a refresh that fails because of them
\* leaves what one that fails on its last page leaves.)
RefreshFails(s) ==
    /\ refreshes[s].stage \in {"pages", "history"} /\ phase = "none"
    /\ refreshes' = [refreshes EXCEPT ![s] = Idle]
    /\ UNCHANGED <<vars, node, page, shown, hist, seenIn>>

-----------------------------------------------------------------------------
(* The screens.                                                            *)

TypeRecipient(to) ==
    /\ to # Me
    /\ home' = FALSE
    /\ form' = [to |-> to, info |-> "unknown"]
    /\ UNCHANGED <<vars, node, calls, presses, reloads, local>>

\* send-to.oninput: ask the chain whether the address is a shop.
LookUp ==
    /\ ~home /\ form.to # Me /\ form.info = "unknown" /\ phase = "none"
    /\ form' = [form EXCEPT !.info = IF FinalOnly(form.to) THEN "final only" ELSE "undoable"]
    /\ UNCHANGED <<vars, node, calls, presses, reloads, home, local>>

Back ==
    /\ ~home /\ home' = TRUE
    /\ UNCHANGED <<vars, node, calls, presses, reloads, form, local>>

Press(want) ==
    /\ presses < MaxPresses
    /\ presses' = presses + 1
    /\ calls' = calls \cup {[want |-> want, stage |-> "asking", seq |-> 0]}

PressSend(amount, window) ==
    /\ ~home /\ form.to # Me
    /\ \A c \in calls : c.want.op # "send"
    /\ Press([op |-> "send", to |-> form.to, amount |-> amount,
              window |-> IF form.info = "final only" THEN 0 ELSE window])
    /\ UNCHANGED <<vars, node, reloads, form, home, local>>

\* tick: the button of an outgoing row is live until its countdown is over.
CountingDown(id) == shown[id].executeat > now

PressUndo(id) ==
    /\ home /\ id \in Outgoing(shown) /\ CountingDown(id)
    /\ Press([op |-> "undo", id |-> id])
    /\ UNCHANGED <<vars, node, reloads, form, home, local>>

\* set-finalonly.onchange; the settings screen hides home like the form does.
PressSwitch(finalonly) ==
    /\ Press([op |-> "switch", finalonly |-> finalonly])
    /\ UNCHANGED <<vars, node, reloads, form, home, local>>

\* Closing or reloading the page: storage survives, the rest does not.
FreshPage ==
    /\ reloads < MaxReloads /\ reloads' = reloads + 1
    /\ calls' = {} /\ form' = Unset /\ home' = TRUE
    /\ shown' = [id \in {} |-> {}]
    /\ refreshes' = Begin([s \in DOMAIN refreshes |-> Idle])
    /\ UNCHANGED <<vars, node, presses>>
Reload == FreshPage /\ UNCHANGED <<hist, seenIn>>

\* btn-forget, and later btn-restore-go with the same words.
Forget == FreshPage /\ hist' = <<>> /\ seenIn' = [id \in {} |-> {}]

-----------------------------------------------------------------------------
(* sendTx.                                                                 *)

\* getAccount: the sequence of the last block.
ReadAccount(c) ==
    /\ c.stage = "asking" /\ phase = "none"
    /\ calls' = (calls \ {c}) \cup {[c EXCEPT !.stage = "signed", !.seq = sequence]}
    /\ UNCHANGED <<vars, node, presses, reloads, form, home, local>>

\* The catch branches: an undo refreshes, the others leave no trace.
Throw(c) ==
    /\ calls' = calls \ {c}
    /\ refreshes' = IF c.want.op = "undo" THEN Begin(refreshes) ELSE refreshes
    /\ UNCHANGED <<presses, reloads, form, home, shown, hist, seenIn>>

\* Mutant: a node that compares with the last block alone.
FollowsBlock(seq) == seq = sequence
\* A node takes a transaction whose sequence follows those it already holds.
Follows(seq) == seq = sequence + Cardinality(mempool)

\* The POST of sendTx.
Broadcast(c) ==
    /\ c.stage = "signed" /\ phase = "none"
    /\ IF Follows(c.seq)
       THEN /\ mempool' = mempool \cup {[seq |-> c.seq, want |-> c.want]}
            /\ calls' = (calls \ {c}) \cup {[c EXCEPT !.stage = "waiting"]}
            /\ UNCHANGED <<presses, reloads, form, home, local>>
       ELSE Throw(c) /\ UNCHANGED mempool
    /\ UNCHANGED <<vars, sequence, landed, index>>

\* A failed request, or thirty polls without an answer.
GiveUp(c) == Throw(c) /\ UNCHANGED <<vars, node>>

Landed(c) ==
    /\ c.stage = "waiting" /\ phase = "none"
    /\ c.seq \in DOMAIN landed /\ landed[c.seq].want = c.want

\* Mutant: the entry is written whatever became of the transaction.
SentRegardless(c) ==
    /\ Landed(c) /\ c.want.op = "send"
    /\ hist' = addHist(hist, Entry("sent", IF c.want.window = 0 THEN "final" ELSE "pending",
                                   NoId, c.want.to, c.want.amount, now))
    /\ home' = TRUE
    /\ calls' = calls \ {c}
    /\ refreshes' = Begin(refreshes)
    /\ UNCHANGED <<vars, node, presses, reloads, form, shown, seenIn>>
\* btn-send-go after sendTx returned.
Sent(c) ==
    /\ Landed(c) /\ landed[c.seq].ok /\ c.want.op = "send"
    /\ hist' = addHist(hist, Entry("sent", IF c.want.window = 0 THEN "final" ELSE "pending",
                                   NoId, c.want.to, c.want.amount, now))
    /\ home' = TRUE
    /\ calls' = calls \ {c}
    /\ refreshes' = Begin(refreshes)
    /\ UNCHANGED <<vars, node, presses, reloads, form, shown, seenIn>>

Cancelled(id) ==
    [i \in DOMAIN hist |->
        IF hist[i].kind = "sent" /\ hist[i].id = id
        THEN [hist[i] EXCEPT !.status = "cancelled", !.at = now] ELSE hist[i]]

\* Mutant: being in a block is taken for having succeeded.
UndoneRegardless(c) ==
    /\ Landed(c) /\ c.want.op = "undo"
    /\ hist' = Cancelled(c.want.id)
    /\ calls' = calls \ {c}
    /\ refreshes' = Begin(refreshes)
    /\ UNCHANGED <<vars, node, presses, reloads, form, home, shown, seenIn>>
\* undo after sendTx returned.
Undone(c) ==
    /\ Landed(c) /\ landed[c.seq].ok /\ c.want.op = "undo"
    /\ hist' = Cancelled(c.want.id)
    /\ calls' = calls \ {c}
    /\ refreshes' = Begin(refreshes)
    /\ UNCHANGED <<vars, node, presses, reloads, form, home, shown, seenIn>>

\* set-finalonly after sendTx returned.
Switched(c) ==
    /\ Landed(c) /\ landed[c.seq].ok /\ c.want.op = "switch"
    /\ calls' = calls \ {c}
    /\ refreshes' = Begin(refreshes)
    /\ UNCHANGED <<vars, node, presses, reloads, form, home, shown, hist, seenIn>>

\* The transaction is in a block and its message was refused.
Refused(c) == Landed(c) /\ ~landed[c.seq].ok /\ Throw(c) /\ UNCHANGED <<vars, node>>

-----------------------------------------------------------------------------
(* The chain's side.                                                       *)

Handle(want) ==
    \/ want.op = "send" /\ DelayedSend(Me, want.to, want.amount, want.window)
    \/ want.op = "undo" /\ CancelSend(Me, want.id)
    \/ want.op = "switch" /\ SetFinalOnly(Me, want.finalonly)

\* No handler takes the message.
Refuses(want) == ~ENABLED Handle(want)

EventOf(want) ==
    CASE want.op = "undo" -> [type |-> "send_cancelled", id |-> want.id]
      [] want.op = "switch" -> [type |-> "final_only_set"]
      [] OTHER -> [type |-> IF FinalOnly(want.to) THEN "final_send" ELSE "delayed_send",
                   id |-> IF FinalOnly(want.to) THEN NoId ELSE pendingSeq,
                   addr |-> want.to, amount |-> want.amount, at |-> now]

\* A block includes one of Me's transactions: its message succeeds, or leaves
\* no trace; the sequence moves on either way.
Deliver(tx) ==
    /\ phase = "messages" /\ tx.seq = sequence
    /\ tx.want.op = "send" => pendingSeq < MaxSends
    /\ sequence' = sequence + 1
    /\ mempool' = mempool \ {tx}
    /\ \/ /\ Handle(tx.want)
          /\ index' = Append(index, EventOf(tx.want))
          /\ landed' = Put(landed, tx.seq, [want |-> tx.want, ok |-> TRUE])
       \/ /\ Refuses(tx.want)
          /\ landed' = Put(landed, tx.seq, [want |-> tx.want, ok |-> FALSE])
          /\ UNCHANGED <<vars, index>>
    /\ UNCHANGED <<page, local>>

\* A mempool is not persistent: a transaction in it may be lost.
Lose(tx) ==
    /\ phase = "none" /\ mempool' = mempool \ {tx}
    /\ UNCHANGED <<vars, sequence, landed, index, page, local>>

Peers == User \ {Me}
PeerMessage ==
    \/ \E creator \in Peers, amount \in Amount, window \in PeerWindow :
          DelayedSend(creator, Me, amount, window)
    \/ \E creator \in Peers, id \in DOMAIN pending : CancelSend(creator, id)
    \/ \E creator \in Peers, finalonly \in Switch : SetFinalOnly(creator, finalonly)

Chain == (BeginBlock \/ PeerMessage \/ EndBlocker) /\ UNCHANGED <<node, page, local>>

-----------------------------------------------------------------------------
WalletInit ==
    /\ Init
    /\ sequence = 0 /\ mempool = {} /\ index = <<>>
    /\ landed = [seq \in {} |-> {}]
    /\ calls = {} /\ presses = 0 /\ reloads = 0 /\ form = Unset /\ home = TRUE
    /\ refreshes = Begin([s \in 1..Refreshes |-> Idle])
    /\ shown = [id \in {} |-> {}] /\ hist = <<>> /\ seenIn = [id \in {} |-> {}]

RefreshStep(s) ==
    ReadPage(s) \/ Apply(s) \/ ReadHistory(s) \/ Merge(s) \/ RefreshFails(s)
CallStep(c) ==
    ReadAccount(c) \/ Broadcast(c) \/ GiveUp(c)
    \/ Sent(c) \/ Undone(c) \/ Switched(c) \/ Refused(c)

WalletNext ==
    \/ Chain
    \/ \E tx \in mempool : Deliver(tx) \/ Lose(tx)
    \/ RefreshTimer \/ \E s \in DOMAIN refreshes : RefreshStep(s)
    \/ \E to \in Peers : TypeRecipient(to)
    \/ LookUp \/ Back \/ Reload \/ Forget
    \/ \E amount \in Amount, window \in Pick : PressSend(amount, window)
    \/ \E id \in DOMAIN shown : PressUndo(id)
    \/ \E finalonly \in OwnSwitch : PressSwitch(finalonly)
    \/ \E c \in calls : CallStep(c)

WalletSpec == WalletInit /\ [][WalletNext]_allVars

\* Blocks go on as in Undo.  The owner comes back to home, the page runs its
\* timer and its callbacks, and a query that is asked again and again is
\* answered again and again.  (MaxReloads: the page is not closed for ever.)
RefreshIsFair(s) ==
    /\ SF_allVars(ReadPage(s)) /\ WF_allVars(Apply(s))
    /\ SF_allVars(ReadHistory(s)) /\ WF_allVars(Merge(s))
FairWalletSpec ==
    /\ WalletSpec
    /\ WF_allVars(BeginBlock /\ Chain)
    /\ SF_allVars(BlockTimeAdvances /\ Chain)
    /\ WF_allVars(EndBlocker /\ Chain)
    /\ WF_allVars(Back) /\ SF_allVars(RefreshTimer)
    /\ \A s \in 1..Refreshes : RefreshIsFair(s)
=============================================================================
