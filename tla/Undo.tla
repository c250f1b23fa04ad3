-------------------------------- MODULE Undo --------------------------------
(***************************************************************************)
(* The undo module of Trefoil (x/undo/keeper): sends that wait in the      *)
(* module's holding account until their undo window has closed, the button *)
(* that takes them back, the shop switch that refuses them, and the        *)
(* end-blocker that pays them out.                                         *)
(*                                                                         *)
(* A message that a handler refuses leaves no trace on the chain (the SDK  *)
(* discards its writes), so every refusal is a guard of the action.        *)
(* Addresses are model values: one value is one account, spelt one way.    *)
(* There is one denomination.                                              *)
(*                                                                         *)
(* A definition whose comment starts with "Mutant" is a mistake somebody   *)
(* could make in the definition after it.  The specification uses none of  *)
(* them; each one shows that a property would notice.                      *)
(***************************************************************************)
EXTENDS Integers, FiniteSets, Functions

CONSTANTS
    User,             \* addresses that sign transactions
    Holding,          \* the undo module's own account, types.ModuleName
    Authority,        \* the governance account, which may set parameters
    Blocked,          \* the accounts the bank refuses to pay (blockAccAddrs)
    MaxOpenPerSender, \* sends one address may have in flight
    HalfRange,        \* 2^63: an int64 lies in -HalfRange..HalfRange-1
    Window,           \* the windows senders ask for (uint64)
    Amount,           \* the amounts senders ask for
    Gift,             \* the amounts of ordinary bank sends
    ParamChoice,      \* the parameters a proposal may carry, valid or not
    DefaultParams,    \* types.DefaultParams()
    InitialBalance,   \* what each account owns at genesis
    MaxTime,          \* bound: the last block time considered
    MaxSends          \* bound: the number of undoable sends considered

Account == User \cup Blocked \cup {Holding, Authority}
Uint64 == 0..2 * HalfRange - 1
Params == [minwindow : Uint64, defaultwindow : Uint64, maxwindow : Uint64]

(***************************************************************************)
(* Params.Validate.  Nothing bounds maxwindow from above.                  *)
(***************************************************************************)
ValidParams(p) ==
    /\ p.minwindow # 0
    /\ p.defaultwindow >= p.minwindow
    /\ p.maxwindow >= p.defaultwindow

ASSUME AccountsAssumption ==
    /\ User \cap Blocked = {}
    /\ {Holding, Authority} \cap (User \cup Blocked) = {}
    /\ Holding # Authority
ASSUME NumbersAssumption ==
    /\ MaxOpenPerSender \in Nat \ {0}
    /\ HalfRange \in Nat \ {0}
    /\ MaxTime \in 0..HalfRange - 1
    /\ MaxSends \in Nat
ASSUME MessagesAssumption ==
    /\ Window \subseteq Uint64
    /\ Amount \subseteq Nat /\ Gift \subseteq Nat
    /\ ParamChoice \subseteq Params
ASSUME GenesisAssumption ==
    /\ DefaultParams \in Params /\ ValidParams(DefaultParams)
    /\ InitialBalance \in [Account -> Nat]

VARIABLES
    now,        \* the block's timestamp, in seconds
    phase,      \* which part of a block runs: none, its messages, its end-blocker
    due,        \* the ids the end-blocker has collected and not yet handled
    params,     \* Keeper.Params
    pending,    \* Keeper.Pending: id -> the send waiting under that id
    pendingSeq, \* Keeper.PendingSeq: the next id
    record,     \* Keeper.Record: address -> its public tally and shop switch
    balance,    \* the bank's balances
    history     \* what an observer of the chain's events knows of each send:
                \* its sender, its fate so far, and the time its block's minimum
                \* window promised it would wait for

vars == <<now, phase, due, params, pending, pendingSeq, record, balance, history>>

-----------------------------------------------------------------------------
(* Integers, tables, and the bank.                                         *)

\* Go's int64(x) for x in -HalfRange..2*HalfRange-1: two's complement.
Int64(x) ==
    IF x >= HalfRange THEN x - 2 * HalfRange
    ELSE IF x < -HalfRange THEN x + 2 * HalfRange ELSE x

\* collections.Map's Set and Remove.
Put(table, key, value) ==
    [k \in DOMAIN table \cup {key} |-> IF k = key THEN value ELSE table[k]]
Remove(table, key) == Restrict(table, DOMAIN table \ {key})

\* Mutant: a transfer nobody checks against the sender's balance.
HasCoinsUnchecked(from, amount) == TRUE
HasCoins(from, amount) == balance[from] >= amount

MoveCoins(from, to, amount) ==
    balance' = [balance EXCEPT ![from] = @ - amount, ![to] = @ + amount]

\* The three bank calls.  SendCoins consults no block list; a payment from a
\* module account to an address does.
SendCoins(from, to, amount) ==
    HasCoins(from, amount) /\ MoveCoins(from, to, amount)
SendCoinsFromAccountToModule(from, amount) ==
    HasCoins(from, amount) /\ MoveCoins(from, Holding, amount)
CanPayOut(to, amount) == to \notin Blocked /\ HasCoins(Holding, amount)
SendCoinsFromModuleToAccount(to, amount) ==
    CanPayOut(to, amount) /\ MoveCoins(Holding, to, amount)

-----------------------------------------------------------------------------
(* Pieces the handlers share.                                              *)

getRecord(addr) ==
    IF addr \in DOMAIN record THEN record[addr]
    ELSE [sent |-> 0, cancelled |-> 0, finalonly |-> FALSE]

FinalOnly(addr) == getRecord(addr).finalonly

Bump(addr, changed) == record' = Put(record, addr, changed)

OpenOf(sender) == {id \in DOMAIN pending : pending[id].sender = sender}
countOpen(sender) == Cardinality(OpenOf(sender))

\* Mutant: the cap is checked with > instead of >=.
UnderCapOrAt(sender) == countOpen(sender) <= MaxOpenPerSender
UnderCap(sender) == countOpen(sender) < MaxOpenPerSender

\* Mutant: the sequence is peeked at, so that two sends get one id.
PeekId == pendingSeq < MaxSends /\ pendingSeq' = pendingSeq
NextId == pendingSeq < MaxSends /\ pendingSeq' = pendingSeq + 1

\* A send's window: what was asked for, or the chain's default for 0.
EffectiveWindow(window) == IF window = 0 THEN params.defaultwindow ELSE window

\* Mutant: the window as asked for, before the default replaces a 0.
ExecuteAtAsked(window) == Int64(now + Int64(window))
ExecuteAt(window) == Int64(now + Int64(EffectiveWindow(window)))

Emit(id, fate) == history' = [history EXCEPT ![id].fate = fate]

-----------------------------------------------------------------------------
(* The messages.                                                           *)

\* A payment to a shop: it lands at once, and only if the sender said window 0.
SendFinal(creator, recipient, amount, window) ==
    /\ window = 0
    /\ SendCoins(creator, recipient, amount)
    /\ UNCHANGED <<now, phase, due, params, pending, pendingSeq, record, history>>

\* A payment to anyone else: parked in holding, to be paid out at executeat.
SendUndoable(creator, recipient, amount, window) ==
    /\ EffectiveWindow(window) >= params.minwindow
    /\ EffectiveWindow(window) <= params.maxwindow
    /\ UnderCap(creator)
    /\ SendCoinsFromAccountToModule(creator, amount)
    /\ NextId
    /\ pending' = Put(pending, pendingSeq,
                      [sender |-> creator, recipient |-> recipient,
                       amount |-> amount, executeat |-> ExecuteAt(window)])
    /\ Bump(creator, [getRecord(creator) EXCEPT !.sent = @ + 1])
    /\ history' = Put(history, pendingSeq,
                     [sender |-> creator, earliest |-> now + params.minwindow,
                      fate |-> "pending"])
    /\ UNCHANGED <<now, phase, due, params>>

\* Mutant: a window other than 0 is not refused but makes the send undoable.
DelayedSendToAnyShop(creator, recipient, amount, window) ==
    /\ phase = "messages"
    /\ creator # recipient
    /\ amount > 0
    /\ IF FinalOnly(recipient) /\ window = 0
       THEN SendFinal(creator, recipient, amount, window)
       ELSE SendUndoable(creator, recipient, amount, window)
DelayedSend(creator, recipient, amount, window) ==
    /\ phase = "messages"
    /\ creator # recipient
    /\ amount > 0
    /\ IF FinalOnly(recipient)
       THEN SendFinal(creator, recipient, amount, window)
       ELSE SendUndoable(creator, recipient, amount, window)

\* Mutant: whoever presses the button gets the coins.
CancelSendByAnyone(creator, id) ==
    /\ phase = "messages"
    /\ id \in DOMAIN pending
    /\ SendCoinsFromModuleToAccount(creator, pending[id].amount)
    /\ pending' = Remove(pending, id)
    /\ Bump(creator, [getRecord(creator) EXCEPT !.cancelled = @ + 1])
    /\ Emit(id, "cancelled")
    /\ UNCHANGED <<now, phase, due, params, pendingSeq>>
\* Mutant: the coins go back and the record stays.
CancelSendKeepsRecord(creator, id) ==
    /\ phase = "messages"
    /\ id \in DOMAIN pending
    /\ pending[id].sender = creator
    /\ SendCoinsFromModuleToAccount(creator, pending[id].amount)
    /\ Bump(creator, [getRecord(creator) EXCEPT !.cancelled = @ + 1])
    /\ UNCHANGED <<now, phase, due, params, pending, pendingSeq, history>>
\* The undo button.  Nothing here looks at the clock.
CancelSend(creator, id) ==
    /\ phase = "messages"
    /\ id \in DOMAIN pending
    /\ pending[id].sender = creator
    /\ SendCoinsFromModuleToAccount(creator, pending[id].amount)
    /\ pending' = Remove(pending, id)
    /\ Bump(creator, [getRecord(creator) EXCEPT !.cancelled = @ + 1])
    /\ Emit(id, "cancelled")
    /\ UNCHANGED <<now, phase, due, params, pendingSeq>>

\* Mutant: the switch is saved in a fresh record instead of the stored one.
SetFinalOnlyAfresh(creator, finalonly) ==
    /\ phase = "messages"
    /\ Bump(creator, [sent |-> 0, cancelled |-> 0, finalonly |-> finalonly])
    /\ UNCHANGED <<now, phase, due, params, pending, pendingSeq, balance, history>>
SetFinalOnly(creator, finalonly) ==
    /\ phase = "messages"
    /\ Bump(creator, [getRecord(creator) EXCEPT !.finalonly = finalonly])
    /\ UNCHANGED <<now, phase, due, params, pending, pendingSeq, balance, history>>

UpdateParams(signer, p) ==
    /\ phase = "messages"
    /\ signer = Authority
    /\ ValidParams(p)
    /\ params' = p
    /\ UNCHANGED <<now, phase, due, pending, pendingSeq, record, balance, history>>

\* The bank's own MsgSend, by any signer, the undo account being no exception
\* among the recipients: it is not on the block list.
BankSend(from, to, amount) ==
    /\ phase = "messages"
    /\ to \notin Blocked
    /\ from # to
    /\ amount > 0
    /\ SendCoins(from, to, amount)
    /\ UNCHANGED <<now, phase, due, params, pending, pendingSeq, record, history>>

-----------------------------------------------------------------------------
(* Blocks.                                                                 *)

\* Consensus picks the timestamp; it never goes back.
BeginBlock ==
    /\ phase = "none"
    /\ phase' = "messages"
    /\ now' \in now..MaxTime
    /\ UNCHANGED <<due, params, pending, pendingSeq, record, balance, history>>

\* Mutant: the second in which the window closes is still inside it.
IsDueOneLate(id) == now > pending[id].executeat
\* Mutant: only a block that falls on the very second pays out.
IsDueOnTheDot(id) == now = pending[id].executeat
IsDue(id) == now >= pending[id].executeat

\* EndBlocker's walk: collect first, act second.
CollectDue ==
    /\ phase = "messages"
    /\ phase' = "endblock"
    /\ due' = {id \in DOMAIN pending : IsDue(id)}
    /\ UNCHANGED <<now, params, pending, pendingSeq, record, balance, history>>

\* EndBlocker's loop takes the collected sends in the order of their ids.
NextDue(id) == phase = "endblock" /\ id \in due /\ \A other \in due : id <= other

\* Mutant: the record is removed although the bank refused the payout.
executeRegardless(id) ==
    /\ NextDue(id)
    /\ \/ SendCoinsFromModuleToAccount(pending[id].recipient, pending[id].amount)
       \/ ~CanPayOut(pending[id].recipient, pending[id].amount) /\ UNCHANGED balance
    /\ pending' = Remove(pending, id)
    /\ Emit(id, "final")
    /\ due' = due \ {id}
    /\ UNCHANGED <<now, phase, params, pendingSeq, record>>
execute(id) ==
    /\ NextDue(id)
    /\ SendCoinsFromModuleToAccount(pending[id].recipient, pending[id].amount)
    /\ pending' = Remove(pending, id)
    /\ Emit(id, "final")
    /\ due' = due \ {id}
    /\ UNCHANGED <<now, phase, params, pendingSeq, record>>

\* A payout the bank refuses is logged and left for the next block.
ExecuteFails(id) ==
    /\ NextDue(id)
    /\ ~CanPayOut(pending[id].recipient, pending[id].amount)
    /\ due' = due \ {id}
    /\ UNCHANGED <<now, phase, params, pending, pendingSeq, record, balance, history>>

Commit ==
    /\ phase = "endblock"
    /\ due = {}
    /\ phase' = "none"
    /\ UNCHANGED <<now, due, params, pending, pendingSeq, record, balance, history>>

EndBlocker ==
    \/ CollectDue
    \/ \E id \in due : execute(id) \/ ExecuteFails(id)
    \/ Commit

-----------------------------------------------------------------------------
\* InitGenesis of the default genesis: empty tables, counter at zero.
Init ==
    /\ now \in 0..MaxTime
    /\ phase = "none"
    /\ due = {}
    /\ params = DefaultParams
    /\ pending = [id \in {} |-> {}]
    /\ pendingSeq = 0
    /\ record = [addr \in {} |-> {}]
    /\ balance = InitialBalance
    /\ history = [id \in {} |-> {}]

Message ==
    \/ \E creator \in User, recipient \in Account, amount \in Amount, window \in Window :
          DelayedSend(creator, recipient, amount, window)
    \/ \E creator \in User, id \in DOMAIN pending : CancelSend(creator, id)
    \/ \E creator \in User, finalonly \in BOOLEAN : SetFinalOnly(creator, finalonly)
    \/ \E signer \in User \cup {Authority}, p \in ParamChoice : UpdateParams(signer, p)
    \/ \E from \in User, to \in Account, amount \in Gift : BankSend(from, to, amount)

Next == BeginBlock \/ Message \/ EndBlocker

Spec == Init /\ [][Next]_vars

\* Validators keep producing blocks, every block runs its end-blocker to the
\* end, and block time does not stand still for ever.  Nobody owes a message.
BlockTimeAdvances == BeginBlock /\ now' > now
FairSpec ==
    /\ Spec
    /\ WF_vars(BeginBlock)
    /\ SF_vars(BlockTimeAdvances)
    /\ WF_vars(EndBlocker)
=============================================================================
