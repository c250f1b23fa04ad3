------------------------------ MODULE Restart ------------------------------
(***************************************************************************)
(* A chain that is stopped, exported to a genesis file and started again   *)
(* from it (x/undo/keeper/genesis.go, x/undo/types/genesis.go and          *)
(* app/export.go at a block height), beside the ordinary life of Undo.tla. *)
(*                                                                         *)
(* A node stops between two blocks: what a half-finished block has written *)
(* is not in its database.  The first block of a started chain carries the *)
(* genesis time, which the file's author chooses, so that the clock may go *)
(* back as well as forward over a restart.                                 *)
(***************************************************************************)
EXTENDS Undo, Sequences

CONSTANT MaxStops   \* bound: how often the node stops
ASSUME StopsAssumption == MaxStops \in Nat

VARIABLES
    node,   \* the node runs, is stopped, has been exported, or starts a new chain
    file,   \* the genesis file: the exported one between export and import
    stops   \* how often it has been stopped so far

rvars == <<vars, node, file, stops>>
books == <<params, pending, pendingSeq, record, balance>>

\* types.DefaultGenesis beside the bank's own genesis.  A file that is no longer
\* of use is forgotten, that is, it is this one again.
DefaultGenesis ==
    [params |-> DefaultParams, pendingList |-> << >>, pendingCount |-> 0,
     recordMap |-> << >>, balances |-> InitialBalance]

-----------------------------------------------------------------------------
(* Genesis states: lists where the chain has tables.                       *)

\* A table walked from end to end: an entry for every key.  Ids come in ascending
\* order; the order of addresses is nobody's business.
Walks(table) == Bijection(1..Cardinality(DOMAIN table), DOMAIN table)
Ascending(keys) == \A i, j \in DOMAIN keys : i < j => keys[i] < keys[j]
Listing(table, keys) == [i \in DOMAIN keys |-> [key |-> keys[i], value |-> table[keys[i]]]]

\* A loop of collections.Map.Set over a list: the last entry of a key stays.
LastOf(list, key) ==
    CHOOSE i \in DOMAIN list :
        list[i].key = key /\ \A j \in DOMAIN list \ {i} : list[j].key = key => j < i
TableOf(list) ==
    [key \in {list[i].key : i \in DOMAIN list} |-> list[LastOf(list, key)].value]

\* GenesisState.Validate.  It looks at ids, indices and parameters, not at coins.
NoDuplicates(list) == \A i, j \in DOMAIN list : list[i].key = list[j].key => i = j
ValidGenesis(gs) ==
    /\ NoDuplicates(gs.pendingList)
    /\ \A i \in DOMAIN gs.pendingList : gs.pendingList[i].key < gs.pendingCount
    /\ NoDuplicates(gs.recordMap)
    /\ ValidParams(gs.params)

-----------------------------------------------------------------------------
\* Nothing but whole blocks is in the database of a node that stops.
Stop ==
    /\ node = "running" /\ phase = "none"
    /\ stops < MaxStops
    /\ node' = "stopped"
    /\ stops' = stops + 1
    /\ UNCHANGED <<vars, file>>

\* The old chain goes on; a file that was exported meanwhile is thrown away.
Resume ==
    /\ node \in {"stopped", "exported"}
    /\ node' = "running"
    /\ file' = DefaultGenesis
    /\ UNCHANGED <<vars, stops>>

\* Mutant: the number of sends in flight is exported for the counter.
ExportGenesisCountsSends ==
    /\ node = "stopped"
    /\ node' = "exported"
    /\ \E ids \in Walks(pending), addrs \in Walks(record) :
          /\ Ascending(ids)
          /\ file' = [params |-> params,
                      pendingList |-> Listing(pending, ids),
                      pendingCount |-> Cardinality(DOMAIN pending),
                      recordMap |-> Listing(record, addrs),
                      balances |-> balance]
    /\ UNCHANGED <<vars, stops>>
ExportGenesis ==
    /\ node = "stopped"
    /\ node' = "exported"
    /\ \E ids \in Walks(pending), addrs \in Walks(record) :
          /\ Ascending(ids)
          /\ file' = [params |-> params,
                      pendingList |-> Listing(pending, ids),
                      pendingCount |-> pendingSeq,
                      recordMap |-> Listing(record, addrs),
                      balances |-> balance]
    /\ UNCHANGED <<vars, stops>>

\* Mutant: the tallies and shop switches are left out of the import.
InitGenesisWithoutRecords ==
    /\ node = "exported"
    /\ pending' = TableOf(file.pendingList)
    /\ pendingSeq' = file.pendingCount
    /\ record' = [addr \in {} |-> {}]
    /\ params' = file.params
    /\ balance' = file.balances
    /\ node' = "starting"
    /\ file' = DefaultGenesis
    /\ UNCHANGED <<now, phase, due, history, stops>>
\* A new chain with nothing in its database but what the file says.  The bank's
\* genesis is imported beside the module's.  Validate is not called here: it has
\* a command of its own.
InitGenesis ==
    /\ node = "exported"
    /\ pending' = TableOf(file.pendingList)
    /\ pendingSeq' = file.pendingCount
    /\ record' = TableOf(file.recordMap)
    /\ params' = file.params
    /\ balance' = file.balances
    /\ node' = "starting"
    /\ file' = DefaultGenesis
    /\ UNCHANGED <<now, phase, due, history, stops>>

\* The first block after InitChain has the genesis time, whatever it is.
FirstBlock ==
    /\ node = "starting"
    /\ node' = "running"
    /\ phase' = "messages"
    /\ now' \in 0..MaxTime
    /\ UNCHANGED <<due, books, history, file, stops>>

Running == node = "running" /\ UNCHANGED <<node, file, stops>>

RestartInit == Init /\ node = "running" /\ file = DefaultGenesis /\ stops = 0

RestartNext ==
    \/ Running /\ Next
    \/ Stop \/ Resume \/ ExportGenesis \/ InitGenesis \/ FirstBlock

RestartSpec == RestartInit /\ [][RestartNext]_rvars

\* The fairness of FairSpec while the node runs, and a stopped chain comes back,
\* one way or the other.
FairRestartSpec ==
    /\ RestartSpec
    /\ WF_rvars(Running /\ BeginBlock)
    /\ SF_rvars(Running /\ BlockTimeAdvances)
    /\ WF_rvars(Running /\ EndBlocker)
    /\ WF_rvars(FirstBlock)
    /\ WF_rvars(Resume \/ InitGenesis)
=============================================================================
