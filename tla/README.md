# Trefoil in TLA+

Trefoil is a Cosmos SDK chain on which an ordinary payment can be taken back.
A send is parked in the account of the `undo` module for an *undo window*;
until the window closes its sender can cancel it; then the chain pays it out at
the end of a block. An address that sells things can turn on a *shop switch*
(`finalonly`): payments to it are final at once and must be sent with window 0.
A web wallet shows all this to people.

This directory models that: the keeper of `x/undo`, what it promises, the chain
stopped and started again from a genesis file, the messages and queries as
bytes, the wallet that watches it all, and the generator of test networks.
`PROJECT.json` maps every definition to the lines it stands for and lists runs,
mutants, hazards, findings and theorems.

## 1. Inventory

| part | state | operations | modelled by |
|---|---|---|---|
| undo keeper, `x/undo/keeper` | `Params`, `Pending` (id to send), `PendingSeq`, `Record` (address to tally and shop switch) | messages `DelayedSend`, `CancelSend`, `SetFinalOnly`, `UpdateParams`; `EndBlocker` (collect the due sends, then `execute` each) | `Undo` |
| bank (SDK, external) | balances | `SendCoins`, account to module, module to account (refuses blocked accounts), `MsgSend` | `Undo`, as far as the keeper and its environment use it |
| parameters and genesis, `x/undo/types`, `keeper/genesis.go` | the genesis file | `Params.Validate`, `DefaultGenesis`, `GenesisState.Validate`, `InitGenesis`, `ExportGenesis` | `Undo`, `Restart` |
| `app/export.go` | none of its own | export at a height; at height zero | `Restart` has the first |
| block production, `app/` and the SDK | block time, the phase of a block | begin block, messages, end-blocker, commit | `Undo` (`BeginBlock` ... `Commit`) |
| generated code, `x/undo/types/*.pb.go` | none | `Marshal`, `Size`, `Unmarshal`, `skip` of 23 messages | `Wire`, `Messages`, `Codec` |
| queries, `keeper/query_*.go`, and the REST gateway, `query.pb.gw.go` | none; they read the stores' bytes | params, one row, pages of two tables | `Service`; `Wallet` (`PageFrom`, `LookUp`) for tables that change between two pages |
| wallet client, `wallet/src/chain.js` | one `sendTx` at a time per press | read the account, sign, broadcast, poll; page loop; history from the node's index; encoders by hand | `Wallet`; the encoders in `Codec` |
| wallet application, `wallet/src/app.js` | `S.pending`, `S.history`, `S.seenIn`, send form | refresh (timer and after actions), reconcile, merge, Send, Undo, shop switch, reload, forget, restore | `Wallet` |
| node index and mempool (CometBFT, external) | account sequence, mempool, transactions, events | accept, include, lose, search | `Wallet` |
| test networks, `cmd/trefoild/cmd/testnet*.go` | an output directory | write a network of several nodes; turn a chain's data into a test network in place | `Testnet` has the first |
| `cmd/`, the rest | none | run a node | no |
| simulation stubs | | | no: empty scaffolding |

**How they interact.** Messages and the end-blocker share the keeper's tables
and holding's coins, within a block in a fixed order: messages first, the
end-blocker last. The keeper calls the bank synchronously; a message that
fails leaves no trace, a payout that fails is logged and left for the next
block. A stopped chain may be exported; the file is all that a new chain has of
the old one. Tables, messages, queries and answers are bytes between programs
that may be of different versions. The wallet reads committed blocks through
queries that may each come from another block, signs one transaction per press,
and learns of its fate by polling. The generator shares with its earlier runs
nothing but the disk.

**What is hard.** Cancel and payout of one send in one block; payouts from one
account that everybody's sends share; parameters and switches that change while
sends are in flight; `uint64` windows cast to `int64`; payouts that fail for
ever; a cap at its boundary; a clock that a genesis file sets back; three
generated descriptions of one message, and a fourth by hand, that must agree at
every varint boundary; in the wallet, everything between two awaits: stale
snapshots, overlapping refreshes, an answer that comes after the timeout, a page
closed in between, payments identified by recipient and amount; in the
generator, what a run that broke off has left. `hazards` in PROJECT.json has
each with its line and the property that would notice.

**What makes it correct.** Coins: holding covers what it owes, every send is
paid once, whole, to one of two parties. Time: not final early, not left
overdue. Fairness to third parties: caps, tallies and shop queues are exact. A
restart changes the clock and nothing else. What one program writes another
reads as it was meant. For the wallet: its list agrees with the chain or comes
to. For the generator: success means one network.

## 2. Modules

    Promise            what undo means, without blocks, tables or a holding account
    Undo               the keeper, the bank as it uses it, blocks
      UndoProperties   its properties; INSTANCE Promise with the refinement mapping
        MCUndo         small chains for TLC
        UndoProofs     types, coins, cap, terms, shops, time, tally,
                       the refinement of Promise              (TLAPS)
      Restart          a chain that is stopped, exported and started again
        RestartProperties
          MCRestart    a small one for TLC
          RestartProofs       what holds on such a chain      (TLAPS)
      Wallet           the wallet of one address, composed with Undo
        WalletProperties
          MCWallet     a wallet and one other person for TLC
        WalletProofs   beside a wallet the chain is the chain of Undo; what
                       requests bring, the index knows and the wallet's
                       loops make of a list                   (TLAPS)
          WalletHistoryProofs   what the history says is true, with any
                       refreshes and with one at a time       (TLAPS)

    Wire               varints, fields, skipping
      Messages         every message of x/undo/types: bytes, size, fields
        Codec          Marshal and Unmarshal over them, the wallet's encoders
          Service      tables of bytes, gateway, query server, messages under way
            ServiceProperties
              MCService       the values at which encodings change
      WireProofs       numbers, names and skipping            (TLAPS)
        CodecProofs    what Marshal writes, Unmarshal reads   (TLAPS; extends
                       Codec as well)
          ServiceProofs     answers, refusals, pages          (TLAPS; extends
                       ServiceProperties as well)

    Testnet            the multi-node generator, run again and again
      TestnetProperties
        MCTestnet      three nodes, three runs
        TestnetProofs  types, and that a run that succeeds has made one
                       network                                (TLAPS)

### Undo

The variables are the keeper's four collections (`params`, `pending`,
`pendingSeq`, `record`), the bank's `balance`, block time `now`, the `phase` of
a block, and `due`, the local slice of `EndBlocker`. `history` is what an
observer of the events knows of each send, its fate among them, which no guard
reads; properties about the past use it.

- `DelayedSend` is `SendFinal` (a shop) or `SendUndoable`; `CancelSend`,
  `SetFinalOnly`, `UpdateParams`, and the bank's `BankSend` are the other
  messages. A handler's checks are the guards. The recipient may be any account,
  those the bank refuses to pay and holding itself included.
- `EndBlocker` is `CollectDue` (walk), then `execute` or `ExecuteFails` for each
  id in ascending order, then `Commit`. Splitting the loop lets properties speak
  of the states between two payouts.
- A window of 0 becomes the default; `ExecuteAt` adds in `int64`, with
  `HalfRange` for 2^63, so that overflow is visible on a small scale.

Abstractions: one denomination; an address is a model value, so that two
spellings of one address do not occur; gas, fees, events other than fates and
error texts are left out. `MaxTime` and `MaxSends` bound time and ids.

### Promise

Purses and promises. A promise takes coins out of its maker's purse; it is kept
(not before its time) or taken back, once. `UndoProperties!Promised` maps a
user's purse to their balance, holding's purse to what is left of it after all
debts, the promises to `pending`, the names ever used to `DOMAIN history`.

### Restart

`Undo` lives on under `Running /\ Next`. Between two blocks the node may `Stop`
(what a half-finished block has written is in no database) and `Resume`, or
`ExportGenesis` writes the tables as lists (a walk of each table, ids
ascending), `InitGenesis` sets them one by one into an empty store, and
`FirstBlock` has whatever time the file's author chose, earlier or later.
`ValidGenesis` is `GenesisState.Validate`, which the import does not call: a
property asks that every exported file would pass. The bank's genesis is the
balances. `MaxStops` bounds the stops.

### Wire, Messages, Codec, Service

`Wire` writes and reads bytes as the generated functions do: `Filled` is
`Marshal` with its buffer of `Size` bytes filled from the end, which fails if
the size was counted too small; `ReadVarint`, `ReadBytes` and `skip` have the
bounds and conversions of the code, so that a length may be negative or beyond
the data. `Messages` has each message as often as the code has it: `...Type` and
`...Zero` (the struct and Go's zero value), `...Bytes` (`MarshalToSizedBuffer`),
`...Size` (`Size`) and `...Cases` (the switch of `Unmarshal`, by field number and
type). `Codec` runs a message through them: `Unmarshalled` is the common loop of
all `Unmarshal` methods, told by the cases what to do, `AfterTag` one turn of it,
`Known` a field it has; `WalletEncodes` is what `chain.js` has written by hand.
The loops that recur into groups and embedded messages (`SkipFrom`,
`Unmarshalled`) are recursive functions of a position, so that they can be proved
about.

`Service` composes them: `tables` are stores of bytes, `call` is the message
under way. A program or the wallet posts a message (`Post`, `WalletPosts`), a
client asks the gateway (`Ask`, `AskUnreadable`) or walks through the pages
(`AskPage`, `Hear`), a newer sender adds a field (`Newer`), bytes come cut short
(`Cut`), the receiver decodes (`Read`), the query server answers (`Serve`,
`ServeFails`).

Abstractions: an integer has `Groups` seven-bit groups, of which the last has one
bit, for the ten of a `uint64`, and a field number `FieldBits` bits; a string is
its bytes; amounts are strings on the wire and stay so. What may fail yields a set,
empty or with the result; a pointer is such a set too. A slice is no longer than an
int counts (`Buffer`), and a message is only sent or stored if its bytes are one
(`HasRoom`). The keys of sends are ids of one byte, so that a key's bytes and its
number are in one order, as they are with the code's eight bytes; the keys of records
are texts of any length, compared byte by byte (`Before`, `InOrder`). One call at a
time, on tables that stand still: what
moves between two pages is in `Wallet`. `Page` and `CollectionPaginate` are the
SDK's, written from what the handlers ask of them.

### Testnet

One action per node and pass of `initTestnetFiles`: `InitNode` (key, account,
genesis transaction), `InitGenFile`, `CopyGenTxs`, `CollectGenFile`; each may
break off (`...Fails`), and `InitNodeCleansUp` is the failures that remove the
output directory. `Start` runs the command again with other arguments. `disk`
survives; `made` is the function's local variables. A key is known by its node
and the run that made it, so that it shows which run a file is of. Ports and
stakes follow the code's index arithmetic: stakes are a map from 0 on, and entries
that are no numbers are passed over.
`GenAppStateFromConfig` is the SDK's: every file of the directory, if each is of
an account in the genesis that has the coins.

### Wallet

`Wallet` extends `Undo`: the chain takes all its steps, except that messages of
`Me` come out of the wallet's transactions. An action is the code between two
awaits.

- A **refresh** reads page after page (`ReadPage`, each page from the block that
  is committed then), is applied (`Apply`: `S.pending`, then `reconcileHistory`
  with its four loops), reads the node's index (`ReadHistory`) and merges it
  (`Merge`); it may fail at each request. `Refreshes` of them may overlap.
- **sendTx** is `ReadAccount`, `Broadcast`, then `Sent`, `Undone` or `Switched` if
  the transaction is in a block and succeeded, `Refused` if it failed there, and
  `GiveUp` on any failed request or after the last poll, while the transaction
  may still land (`Deliver`) or be lost (`Lose`).
- The **form** holds what the chain said of the recipient when the address was
  typed (`LookUp`). **Reload** loses everything but browser storage, **Forget**
  storage too.

Abstractions: the browser's clock is block time (`SameMoment` stands for the two
minutes within which rows without id are matched); lists do not reach the
length at which they are cut; a node's index is complete; drawing, the balance,
addresses, keys and a second tab or device are left out.

## 3. Runs

| run | asks | bounds |
|---|---|---|
| `undo_safety` | types, solvency, who is paid, nothing overdue, never early, terms and shop queues; `Spec => Promise` | 2 users, a blocked account, 2 sends, 3 coins, times 0..3, three windows, one valid and one invalid parameter change, deposits into holding |
| `restart` | cap and tally, valid exports, restarts that change nothing but the clock, every payable send settles | 3 sends against a cap of 2, so that the cap is met, freed by cancel and by payout, and met again; one stop; fair blocks |
| `service` | sizes fit, messages are read as meant by this version and by newer and older ones, cut bytes invent nothing, answers and refusals are true, the page loop sees every send | integers of 15 bits, pages of 2 rows, 3 states of the tables of up to 4 rows; zero, 127, 128, the largest and negative numbers, names of 0, 1, 2 and 130 bytes; five kinds of unknown field at either end; every cut |
| `testnet` | one network, peers and ports, equal states, reruns work | 3 nodes, 3 runs with all arguments, a failure anywhere |
| `wallet_payments` | not final while it can be undone; one receipt per payment | 2 sends on two pages, 2 presses, 1 reload, one refresh at a time |
| `wallet_overlap` | undone means undone; one entry per send; nothing listed that was not sent | two refreshes at a time, 2 sends, a shop that opens meanwhile |
| `wallet_liveness` | the list comes to agree with the chain | 1 send, 2 presses, 1 reload, failures without bound |
| `undo_cancel_after_close`, `undo_unpayable`, `undo_window_overflow`, `wallet_received_undone`, `wallet_stale_refresh` | five claims of the documents and comments that the code does not keep | the smallest in which they fail |

Two sends are enough for the keeper's coins: a send is paid from coins it put
in, and what could go wrong takes one other send to steal from or starve; the
cap needs more, and the proofs cover every number. Three seconds let a window
close in, before and after the block under consideration. One stop puts every
state between two blocks through a file, and the new chain's clock before, at
and after every due time; the proofs cover any number. Three groups of bits
have the three cases of a varint (one byte, full groups, a last group that is
cut), and a name of 130 bytes has a length of two. Three nodes have a first, a
middle and a last one; the third run meets what a failed run on top of a larger
one has left. The wallet's runs are small where TLC is: two sends let entries
and rows be confused, two pages let rows move between requests, one reload and
one lost transaction each meet every await.

Every run checks for deadlock, as a chain can always make another block and a
client ask again, except `testnet`: the generator may have run as often as it is
run.

Each property of a passing run has a *mutant*: a definition of the model changed
as a plausible mistake in the code would change it (comment "Mutant" in the
module), under which TLC finds the property violated.

### Fairness

`FairSpec`: blocks keep coming and each runs its end-blocker (`WF`), and block
time, which consensus only keeps from going back, passes `now` again and again
(`SF` on `BlockTimeAdvances`). No message is fair. `FairRestartSpec` asks the
same while the node runs, and that a stopped chain comes back, resumed or
imported: a chain nobody starts again settles nothing. `FairWalletSpec` adds to
`FairSpec`: the owner comes back to home (`WF(Back)`), the timer runs there
(`SF`, since leaving home stops it), a query asked again and again is answered
again and again (`SF` on `ReadPage` and `ReadHistory`, since any may fail), and
callbacks run (`WF`). Nothing is assumed of transactions. `Service` and
`Testnet` have no liveness: a call may be answered never, a run may be broken
off.

### Findings

1. A cancel still succeeds in the block whose time has reached `Executeat`
   (messages precede the end-blocker, and `CancelSend` does not look at the
   clock); the documents say "before the window closes".
2. A send to an account on the bank's block list is accepted and can never be
   paid out; it stays until its sender cancels it.
3. `Params.Validate` sets no upper bound on the maximum window: one of 2^63 or
   more wraps to a time in the past and the send is final at once.
4. The wallet lists a promised payment that was taken back as received.
5. Two overlapping refreshes can call a send final that can still be undone.

`NeverFinalEarly` holds in `undo_safety` because there no window reaches
`HalfRange`; `FinalIsOver` holds in `wallet_payments` because refreshes do not
overlap and nobody opens a shop. The runs of findings 3 and 5 show that these
bounds matter.

Seen while modelling, without a run: an entry whose row is gone before a refresh
gave it an id stays `pending` for ever (the chain's row appears beside it); a
final payment's row, which has no id, can match the entry of an undoable send of
the same amount to the same address made within two minutes; a genesis time
earlier than the old chain's clock makes the sends in flight wait the
difference longer; an entry of `--validators-stake-amount` that is no number is
not replaced by the default, as the comment beside it says, but passed over, so
that the stakes after it move to the node before (`Stakes`).

## 4. Proofs

For every value of the constants that satisfies the named assumptions of `Undo`
(distinct accounts, a positive cap, times within an int64, valid default
parameters, natural amounts), of `Restart` (a natural number of stops), of
`Wallet` (an address of its own, windows and switches among the chain's), of
`Testnet` (at least one node, flags that are lists of numbers, a default stake
that the funds cover), of `Wire` (at least two groups to an integer; a field number
of five bits or more, for the numbers the messages use, and no wider than the
integer's groups) and of `Service` (books, posts and requests that hold what the
structs can hold, finite tables, records under keys that are not empty, fields that
are unknown to every message, a page of at least one row), TLAPS checks:

| theorem | statement | inductive invariant |
|---|---|---|
| `TypeCorrect` | `Spec => []TypeOK` | `TypeInv`: `TypeOK`, and `due` is empty outside the end-blocker, without which `due` could hold ids that a cancel removed |
| `AlwaysSolvent` | `Spec => []Solvent` | `CoinInv`: what is owed is finite, and covered. Debts are counted coin by coin as a set, so that a send's coming and going is a disjoint union and needs no sum over a table |
| `RightPartyPaid` | `Spec => HoldingPaysTheRightParty` | `TypeInv`; `HoldingStep` says what each step does to holding |
| `AlwaysWithinCap` | `Spec => []WithinCap` | itself with `TypeInv` and the finiteness of the table |
| `TermsKept`, `ShopsAreSafe` | action properties | `TypeInv` (a new id is above all others) |
| `NeverOverdue` | `Spec => []NothingOverdue` | `OverdueInv`: in the end-blocker, what is overdue is still on the list or goes to a blocked account. Needs `CoinInv`: a payout to anybody else cannot fail |
| `WaitsItsWindow` | `WindowsFit => (Spec => NeverFinalEarly)` | `DueInv` (what is on the list is due), `WindowInv` (no window overflows, no send is due before its block's minimum). `WindowsFit`, that the windows of all valid parameters fit an int64, is the hypothesis finding 3 violates |
| `TallyIsTrue` | `Spec => []TallyAddsUp` | `TallyInv`: a send is pending in the history just if it is in the table, under the same sender |
| `PromiseKept` | `Spec => ImplementsPromise` | `TypeInv`, `CoinInv`, `DueInv`: `PromiseStep` maps each action to a step of `Promise` or a stutter; messages that move no coins, and failed payouts, stutter |
| `RestartTypeCorrect` | `RestartSpec => []RestartTypeOK` | `FiniteInv` (an address more at a time, so that the records can be listed to the end) and `FileTypeInv`, with `RestartInv` below; `ListingType`: what a finite table is listed as is a list of its entries |
| `BooksAreKept`, `ExportsAreValid` | `RestartSpec => RestartKeepsTheBooks`, `[]ExportIsValid` | `RestartInv`: `ChainInv` (what the proofs above need of the chain), `NodeInv` (a node that does not run is between two blocks), `FileInv` (an exported file lists just the tables of the chain it was taken from). `TableOf` of a `Listing` is the table again, whatever the order of the walk |
| `SolventAcrossRestarts`, `WithinCapAcrossRestarts`, `TallyAcrossRestarts`, `NeverOverdueAcrossRestarts` | the keeper's invariants under `RestartSpec` | `ChainInv` is kept by the steps of `Undo` (the lemmas above), by steps that leave `vars` alone (`RestartLeavesVars`) and by the first block of a new chain, whose clock may be anything (`FirstBlockKeepsChainInv`): none of these invariants rests on time going forward |
| `TestnetTypeCorrect` | `TestnetSpec => []TestnetTypeOK` | `NetInv` below, of which `SingleInv` (whoever writes a key, an account, a genesis or a configuration replaces the one there was) and `NameInv` are for this one |
| `SuccessMakesOneNetwork`, `StatesNeverDiffer`, `RerunsAlwaysWork` | `TestnetSpec => []...` | `NetInv`: `InitInv` (what the first pass has made of each node, and that later passes keep it), `TxInv` (a transaction of this run is the one its node was given; an older one's account is in no genesis), `CopyInv` (who has been copied to has everybody's), `StateInv` (a state that was made is the full one), `NameInv` (one file per key, named for it) |
| `PeersAlwaysAnswer` | `MaxNodes <= 5000 => (TestnetSpec => []PeersAnswer)` | `NetInv`. The hypothesis keeps the ports that count down from 26658 above those that count down from 9090; with some 850 nodes more they meet |
| `WalletIsAUser` | `WalletSpec => Spec` | `WantInv`: what a press asked for is still, in `calls` and in the mempool, a message somebody may send. A step then is one of `Undo` (`HandledIsMessage`, `PeersSendMessages`) or leaves its variables alone (`PageLeavesVars`) |
| `SolventBesideAWallet`, `WithinCapBesideAWallet`, `PromiseKeptToWallets` | the keeper's theorems under `WalletSpec` | none of their own: they follow from `WalletIsAUser` |
| `WalletTypeCorrect` | `WalletSpec => []WalletTypeOK` | `WalletInv`, below |
| `CancelledIsTrue`, `SendsListedOnce`, `ListedIsSent` | `WalletSpec => []CancelledIsCancelled`, `[]OneEntryPerSend`, `[]NothingListedUnsent` | `WalletInv`: the chain's `TypeInv` and `TallyInv`; `WantInv`, `NodeInv` (the mempool, the presses and the form hold what the chain could have told them) and `IndexInv` (what landed took effect, and an event in the node's index tells so); `RefreshInv` (`TrueRows`: a row that was fetched was one of the chain's, and is as it was if the send is still in flight; `Fetch`: how far a refresh is); `HistInv` (`TrueEntries`: an entry of mine with an id is of a send of mine, one of mine is backed by a send with its recipient and amount, `cancelled` only if the chain says so; `OneSent`: no two of mine have one id). Rows and answers may be out of date when they are used (`ChainMovesOn`), so each part states what stays true of an old answer |
| `ReceiptsAreSingle` | `OneAtATime => (WalletSpec => []OneReceipt)` | `AllAwaited`: while a refresh reads, a send that matters and is in flight is on a page it has read, or its id is still ahead (`NothingOverlooked` keeps this). `ReceiptInv`: so are the sends in `S.seenIn`; the entry of a received payment is of a send that is over, is watched no longer and is on no page that has been read, so that no refresh can add it again |
| `FinalIsTrue` | `OneAtATime /\ NoShops => (WalletSpec => []FinalIsOver)` | `NoShopInv` (nobody the wallet pays has the switch on, and the index knows no final payment) and `SentInv`: `AllAwaited` of the sends the history lists, and `SettledEntries`: an entry is `final` only if its send is over |
| `MarshalWrites` | every message of every type: `Marshal` gives one string of bytes, which `Writes` it | none: a lemma per way to write a field (`UintWrites`, `StringWrites`, `MessageWrites`, `PointerWrites`, `EachWrites`, ...), and one per message (`...Written`) that strings them together |
| `NewerReads`, `CutReads` | what `Unmarshal` makes of such bytes with an unknown field at either end, and of their beginnings | none: both follow from what `Writes` says of a reader that comes to the bytes |
| `WalletMarshals` | the wallet's encoders write what `Marshal` writes | none: concatenation is associative |
| `ServiceTypes`, `MessagesAreReadAsMeant`, `WalletMessagesAreUnderstood`, `NewerMessagesAreUnderstood`, `CutMessagesInventNothing`, `EveryAnswerIsTrue`, `EveryRefusalIsTrue`, `WalkSeesEverySend` | `ServiceSpec => []...`, one for each invariant of `ServiceProperties` | `ServiceInv`, below |

`OneAtATime` is `Refreshes = 1` and `NoShops` is that nobody else
turns a shop switch on.
Both are needed: with two refreshes TLC finds a second receipt and, in
`wallet_stale_refresh`, a send called final that is not; and the entry of a final
payment to a shop has no id, so that an undoable send's row can be taken for it.
The wallet's other theorems need neither.

What the wallet's loops return is a recursive function of how many turns they
have made. The prover cannot take a property as a parameter, so `WalletProofs`
states induction about sets: `SetInduction` (a set of naturals with 0 and every
successor), `Recursion` (a function made step by step exists) and `StepByStep`
(what every turn keeps, the loop keeps). From these it derives one lemma per loop:
what `reconcileHistory`, the merge and the pages keep of a list, whatever its
length.

**The codec.** `WireProofs` does the same for functions that recur over a measure:
`Induction` (a set that has an argument whenever it has all smaller ones has
all) and the existence of a function whose step looks at smaller arguments only, for
`Groups7`, `NumberTo`, `SkipFrom` and, in `CodecProofs`, `Unmarshalled`, whose
measure is the bytes that are left, an embedded message's being fewer. It then
proves that a number that is written is read, that `sov` counts its bytes, and that
skipping a field that is all there ends at its end, with anything behind it.

`CodecProofs` never looks at a whole message. `Reads(t, m, start, bytes)` says of
bytes, wherever they stand, that they lead `Unmarshal` from the partly read message
`start` to `m`, and that their beginnings lead it nowhere or to a message with the
first fields; `Writes` adds that they have the length that `Size` counts. The writers
work from a message's last field to its first, and so do the lemmas: each puts one
field in front of bytes that read the later ones. Lists take an induction over their
length (`EachWrites`), embedded messages the same statement about their own type.

**The service.** `ServiceInv` is

- `Kept`: the tables hold bytes that were written for what is in `books`;
- `CallInv`: a message on the wire is a true one (`Means`: if it is an answer, it tells
  what is stored; if it belongs to a walk, it asks for the next page, or is that
  page), and its bytes travel (`Travels`) as they were written, with an unknown field, or cut;
  one that was read was understood (`Understood`); a refusal is a true one;
- `WalkInv`: a walk has seen the first sends of the listing, and its key is the one of
  the next, or none if it is done.

It is needed because the properties speak of messages when they have arrived: what
was decoded is what was meant only if nothing else has touched the bytes, and the page
a client hears is the next one only if its key was. `Travels` and `Kept` quantify over
all strings of bytes, which TLC cannot evaluate, so that the invariant itself was not
model-checked; its consequences, the eight properties, were. The listing of a table
(`InOrder`) is proved to have every key once, in order, from the order of the bytes
(`BeforeIrreflexive` and its companions) by counting earlier keys, and a page to be a
part of it.

The lemmas come in the order of their use: coins of a table
(`CoinsOfOneMoreSend`, `CoinsOfOneFewerSend`), types of what helpers return,
one preservation lemma per invariant with one step per action, and `PTL` last.

Only model-checked: `EverySendSettles` and `TruthPrevails`, liveness under
fairness, which is beyond the prover. Every invariant and action property that a
passing run checks is a theorem.

## 5. Not modelled

- The zero-height part of `app/export.go` and the in-place generator of
  `cmd/trefoild/cmd/testnet.go`: sequences of calls to the SDK's staking,
  distribution, slashing and bank keepers on a stopped node. Their state and
  their guarantees are in the SDK, not here; a model would check the assumptions
  it made of them.
- The rest of `cmd/` and `app/`: command lines, configuration and the
  composition of modules by the SDK, without behaviour of its own. What `app/`
  decides for the keeper (the order of a block, the block list) is in `Undo`.
- In the generated code: getters, `String`, `Reset`, `Equal`, descriptors and
  the registration of services. Each file has its own copies of
  `encodeVarint`, `sov` and `skip`, which are equal; the model has one.
- In the wallet: keys and signatures, amounts as text, drawing, the address book,
  the node's settings, lists cut at fifty, a node without an index, a second
  device with the same words.
- Simulation stubs: not implemented in the code.

Worth doing next: `FinalIsOver` with shops, for sends no shop payment resembles; an
abstract list of payments with their fates, which `Wallet` implements where
refreshes do not overlap.
