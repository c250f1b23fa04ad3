--------------------------- MODULE UndoProperties ---------------------------
(***************************************************************************)
(* What the undo module promises, stated over the chain of Undo.tla.       *)
(***************************************************************************)
EXTENDS Undo

Send == [sender : User, recipient : Account, amount : Nat,
         executeat : -HalfRange..HalfRange - 1]
Tally == [sent : Nat, cancelled : Nat, finalonly : BOOLEAN]
Story == [sender : User, earliest : Nat, fate : {"pending", "cancelled", "final"}]

\* Every table holds what its Go type holds; ids come from below the counter.
TypeOK ==
    /\ now \in 0..MaxTime
    /\ phase \in {"none", "messages", "endblock"}
    /\ params \in Params
    /\ pendingSeq \in 0..MaxSends
    /\ DOMAIN pending \subseteq 0..pendingSeq - 1
    /\ pending \in [DOMAIN pending -> Send]
    /\ due \subseteq DOMAIN pending
    /\ DOMAIN record \subseteq User
    /\ record \in [DOMAIN record -> Tally]
    /\ balance \in [Account -> Nat]
    /\ history \in [0..pendingSeq - 1 -> Story]

-----------------------------------------------------------------------------
(* Coins.  What holding owes is counted coin by coin: the k-th coin of     *)
(* the send with this id.                                                  *)

CoinsOf(table) == UNION {{id} \X (1..table[id].amount) : id \in DOMAIN table}
Owed == Cardinality(CoinsOf(pending))

\* Holding always has the coins of every send in flight, whatever is sent,
\* cancelled, paid out, refused or given to the undo account directly: a payout
\* is never short because another send was cancelled or paid twice.
Solvent == balance[Holding] >= Owed

\* A send that leaves the pending table has been paid, whole and once: to its
\* sender if a message took it back, to its recipient if the end-blocker did,
\* and to nobody else.  Conversely, coins leave holding for no other reason.
PaidTo(id, payee) ==
    /\ DOMAIN pending' = DOMAIN pending \ {id}
    /\ balance' = [balance EXCEPT ![Holding] = @ - pending[id].amount,
                                  ![payee] = @ + pending[id].amount]
HoldingPaysTheRightParty ==
    [][(DOMAIN pending \ DOMAIN pending' # {} \/ balance'[Holding] < balance[Holding])
         => \E id \in DOMAIN pending :
               PaidTo(id, IF phase = "messages" THEN pending[id].sender
                                                ELSE pending[id].recipient)]_vars

-----------------------------------------------------------------------------
(* Time.                                                                   *)

\* When a block is committed, no send whose window has closed is left waiting,
\* unless the bank will not pay its recipient: the end-blocker has paid them
\* all, and none failed for want of coins.
NothingOverdue ==
    phase = "none" =>
        \A id \in DOMAIN pending :
            pending[id].executeat > now \/ pending[id].recipient \in Blocked

\* No send becomes final before the minimum window of its own block has passed,
\* whatever happens to the parameters in between.
NeverFinalEarly ==
    [][\A id \in DOMAIN history :
          history'[id].fate = "final" /\ history[id].fate # "final"
             => now >= history[id].earliest]_vars

\* A send in flight keeps the terms it started with: no parameter change, shop
\* switch or other send touches it.
TermsNeverChange ==
    [][\A id \in DOMAIN pending \cap DOMAIN pending' : pending'[id] = pending[id]]_vars

\* Under fair block production, every send to an account that can be paid is
\* eventually cancelled or final.  MaxTime bounds the windows this can say
\* something of.
EverySendSettles ==
    \A id \in 0..MaxSends - 1 :
        (id \in DOMAIN pending /\ pending[id].executeat <= MaxTime
                               /\ pending[id].recipient \notin Blocked)
            ~> (id \notin DOMAIN pending)

-----------------------------------------------------------------------------
(* The cap, the tally and the shop switch.                                 *)

\* No address ever has more than MaxOpenPerSender sends in flight.
WithinCap == \A addr \in User : countOpen(addr) <= MaxOpenPerSender

\* The public tally is the truth: an address's sends are its cancelled ones, its
\* open ones and its final ones, and the first count is what the tally shows.
FatesOf(addr, fate) ==
    {id \in DOMAIN history : history[id].sender = addr /\ history[id].fate = fate}
TallyAddsUp ==
    \A addr \in User :
        /\ getRecord(addr).cancelled = Cardinality(FatesOf(addr, "cancelled"))
        /\ getRecord(addr).sent = getRecord(addr).cancelled + countOpen(addr)
                                  + Cardinality(FatesOf(addr, "final"))

\* As long as an address keeps the shop switch on, no undoable payment joins
\* those that were already on their way to it.
PromisedTo(addr) == {id \in DOMAIN pending : pending[id].recipient = addr}
ShopQueueOnlyShrinks ==
    [][\A addr \in User :
          getRecord(addr).finalonly /\ getRecord(addr)'.finalonly
             => PromisedTo(addr)' \subseteq PromisedTo(addr)]_vars

-----------------------------------------------------------------------------
(* The promise behind the tables: coins in holding belong to the sends     *)
(* they wait for, and what is left of holding is the undo account's own.   *)

Purse == [balance EXCEPT ![Holding] = @ - Owed]

Promised == INSTANCE Promise
    WITH Person <- Account, Opening <- InitialBalance,
         time <- now, purse <- Purse, promised <- pending,
         named <- DOMAIN history

\* Every step of the chain is a step of the promise or invisible to it: a payment
\* leaves one purse, enters one purse, once, and not before it is due unless it
\* goes back.
ImplementsPromise == Promised!Spec

-----------------------------------------------------------------------------
(* What the documents say and the code does not do: each is refuted by a   *)
(* run of its own.                                                         *)

\* docs/DESIGN.md: only the sender can undo, "before the window closes".  A
\* message of the block whose time has reached executeat runs before that
\* block's end-blocker, and CancelSend does not look at the clock.
CancelledOnlyBeforeClose ==
    [][\A id \in DOMAIN pending :
          history'[id].fate = "cancelled" => now < pending[id].executeat]_vars

\* README.md: "When the window closes, the chain pays the coins out at the end of
\* the block"; abci.go: a failed payout is left "so it retries next block".  A
\* payout to an account on the bank's block list fails in every block.
EveryClosedSendSettles ==
    \A id \in 0..MaxSends - 1 :
        (id \in DOMAIN pending /\ pending[id].executeat <= MaxTime)
            ~> (id \notin DOMAIN pending)
=============================================================================
