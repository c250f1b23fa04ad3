-------------------------- MODULE WalletProperties --------------------------
(***************************************************************************)
(* What a wallet must not get wrong: its list of past payments against     *)
(* what became of them on the chain.                                       *)
(***************************************************************************)
EXTENDS Wallet

Entries == {hist[i] : i \in DOMAIN hist}
SentEntries == {h \in Entries : h.kind = "sent"}
Fate(id) == history[id].fate

\* The variables hold what the code keeps in them: history entries with a known
\* kind and status and an id that exists on the chain, transactions with a
\* sequence the chain has reached.  (app.js: S)
WalletTypeOK ==
    /\ sequence \in Nat /\ DOMAIN landed = 0..sequence - 1
    /\ Cardinality(mempool) <= 1
    /\ presses \in 0..MaxPresses /\ home \in BOOLEAN
    /\ form.to \in User /\ form.info \in {"unknown", "final only", "undoable"}
    /\ \A c \in calls : c.stage \in {"asking", "signed", "waiting"} /\ c.seq <= sequence
    /\ \A s \in 1..Refreshes :
          refreshes[s].stage \in {"idle", "pages", "ready", "history", "merge"}
    /\ DOMAIN shown \cup DOMAIN seenIn \subseteq DOMAIN history
    /\ \A h \in Entries :
          /\ h.kind \in {"sent", "received"}
          /\ h.status \in {"pending", "final", "cancelled"}
          /\ h.id \in DOMAIN history \cup {NoId}

\* An entry says "undone" only if the coins did come back: whatever the order in
\* which the undo lands, a refresh reads and the poll answers.
\* (app.js: undo, mergeChainHistory)
CancelledIsCancelled ==
    \A h \in Entries : h.status = "cancelled" => Fate(h.id) = "cancelled"

\* An entry of an undoable send says "final" only once the send has left the
\* chain's table, so that nobody who could still press Undo is told it is too
\* late.  (app.js: "a 'final' when a pending row disappears")
FinalIsOver ==
    \A h \in SentEntries : h.status = "final" /\ h.id # NoId => Fate(h.id) # "pending"

\* A send has one entry: the one the form wrote and took an id for, or the one
\* read from the chain, never both under one id.  (app.js: reconcileHistory)
OneEntryPerSend ==
    \A i, j \in DOMAIN hist :
        /\ i # j /\ hist[i].kind = "sent" /\ hist[j].kind = "sent"
        /\ hist[i].id = hist[j].id
        => hist[i].id = NoId

\* An incoming payment is written down once, over refreshes, reloads and
\* payments read on different pages.  (app.js: seenIn)
OneReceipt ==
    \A i, j \in DOMAIN hist :
        i # j /\ hist[i].kind = "received" /\ hist[j].kind = "received"
        => hist[i].id # hist[j].id

\* Nothing is listed as sent that the chain refused or never saw.
\* (app.js: btn-send-go, chain.js: sendTx)
NothingListedUnsent ==
    \A h \in SentEntries : \E i \in DOMAIN index :
        /\ index[i].type \in {"delayed_send", "final_send"}
        /\ index[i].addr = h.addr /\ index[i].amount = h.amount

\* While refreshes get through, every undoable send of this address ends up in
\* the list under its true fate, and stays there, also if an undo was taken for
\* a payout in between or the words were typed into a new browser.
\* (app.js: "The chain is the truth")
TruthPrevails ==
    \A id \in 0..MaxSends - 1 :
        (id \in DOMAIN history /\ history[id].sender = Me /\ Fate(id) # "pending")
        ~> [](\E h \in SentEntries : h.id = id /\ h.status = Fate(id))

\* What app.js says of incoming payments: "when one vanishes it landed".
ReceivedMeansPaid ==
    \A h \in Entries : h.kind = "received" => Fate(h.id) = "final"
=============================================================================
