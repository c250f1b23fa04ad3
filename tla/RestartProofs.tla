--------------------------- MODULE RestartProofs ---------------------------
(***************************************************************************)
(* A chain that is exported and imported is the chain it was: proved for   *)
(* any number of accounts, sends and restarts, and with it that the        *)
(* invariants of the undo module outlive restarts.                         *)
(***************************************************************************)
EXTENDS RestartProperties, UndoProofs

-----------------------------------------------------------------------------
(* Listings and tables.                                                    *)

\* A listing of a table has one entry for every key.
LEMMA ListingLists ==
    ASSUME NEW table, NEW keys \in Walks(table)
    PROVE  /\ DOMAIN Listing(table, keys) = 1..Cardinality(DOMAIN table)
           /\ \A i \in DOMAIN Listing(table, keys) :
                 /\ Listing(table, keys)[i].key = keys[i]
                 /\ Listing(table, keys)[i].value = table[keys[i]]
                 /\ keys[i] \in DOMAIN table
           /\ \A key \in DOMAIN table :
                 \E i \in DOMAIN Listing(table, keys) : keys[i] = key
           /\ NoDuplicates(Listing(table, keys))
<1> DEFINE list == Listing(table, keys)
<1>1. /\ DOMAIN keys = 1..Cardinality(DOMAIN table)
      /\ \A i \in DOMAIN keys : keys[i] \in DOMAIN table
      /\ \A key \in DOMAIN table : \E i \in DOMAIN keys : keys[i] = key
      /\ \A i, j \in DOMAIN keys : keys[i] = keys[j] => i = j
  BY DEF Walks, Bijection, Injection, Surjection, IsInjective
<1>2. /\ DOMAIN list = DOMAIN keys
      /\ \A i \in DOMAIN keys : list[i].key = keys[i] /\ list[i].value = table[keys[i]]
  BY DEF Listing
<1>3. NoDuplicates(list)
  BY <1>1, <1>2 DEF NoDuplicates
<1>4. QED
  BY <1>1, <1>2, <1>3

\* Reading a listing back yields the table.
LEMMA TableOfListing ==
    ASSUME NEW table, NEW keys \in Walks(table), table = [key \in DOMAIN table |-> table[key]]
    PROVE  TableOf(Listing(table, keys)) = table
<1> DEFINE list == Listing(table, keys)
<1>1. /\ \A i \in DOMAIN list : list[i].key = keys[i] /\ list[i].value = table[keys[i]]
                                /\ keys[i] \in DOMAIN table
      /\ \A key \in DOMAIN table : \E i \in DOMAIN list : keys[i] = key
      /\ NoDuplicates(list)
  BY ListingLists
<1> HIDE DEF list
<1>2. \A i, j \in DOMAIN list : list[i].key = list[j].key => i = j
  BY <1>1 DEF NoDuplicates
<1>3. {list[i].key : i \in DOMAIN list} = DOMAIN table
  <2>1. \A i \in DOMAIN list : list[i].key \in DOMAIN table
    BY <1>1
  <2>2. \A key \in DOMAIN table : \E i \in DOMAIN list : list[i].key = key
    BY <1>1
  <2>3. QED
    BY <2>1, <2>2
<1>4. ASSUME NEW key \in DOMAIN table
      PROVE  list[LastOf(list, key)].value = table[key]
  <2>1. PICK i \in DOMAIN list : keys[i] = key
    BY <1>1
  <2>2. \A j \in DOMAIN list : list[j].key = key <=> j = i
    BY <1>1, <1>2, <2>1
  <2>3. list[i].key = key /\ \A j \in DOMAIN list \ {i} : list[j].key = key => j < i
    BY <2>2
  <2>4. LastOf(list, key) \in DOMAIN list /\ list[LastOf(list, key)].key = key
    BY <2>3 DEF LastOf
  <2>5. LastOf(list, key) = i
    BY <2>2, <2>4
  <2>6. QED
    BY <1>1, <2>1, <2>5
<1>5. TableOf(list) = [key \in DOMAIN table |-> list[LastOf(list, key)].value]
  BY <1>3 DEF TableOf
<1>6. QED
  BY <1>4, <1>5 DEF list

-----------------------------------------------------------------------------
(* The invariant: what the file says while there is one.                   *)

ParamsInv == ValidParams(params)
NodeInv ==
    /\ node \in {"running", "stopped", "exported", "starting"}
    /\ node # "running" => phase = "none"
FileInv == node = "exported" =>
    /\ ValidGenesis(file)
    /\ file.params = params /\ file.pendingCount = pendingSeq /\ file.balances = balance
    /\ TableOf(file.pendingList) = pending
    /\ TableOf(file.recordMap) = record

\* Parameters on the chain are valid.
LEMMA ParamsInvStep == ParamsInv /\ [Next]_vars => ParamsInv'
<1> SUFFICES ASSUME ParamsInv, [Next]_vars, params' # params PROVE ParamsInv'
  BY DEF ParamsInv, ValidParams
<1>1. \E signer, p : UpdateParams(signer, p)
  BY DEF Next, vars, Message, EndBlocker, BeginBlock, DelayedSend, SendFinal, SendUndoable,
     CancelSend, SetFinalOnly, UpdateParams, BankSend, CollectDue, execute, ExecuteFails,
     Commit
<1>2. QED
  BY <1>1 DEF UpdateParams, ParamsInv, ValidParams

\* Export writes down what the chain has.
LEMMA ExportWritesTheBooks == TypeInv /\ ParamsInv /\ ExportGenesis => FileInv'
<1> SUFFICES ASSUME TypeInv, ParamsInv, ExportGenesis PROVE FileInv'
  OBVIOUS
<1>1. PICK ids \in Walks(pending), addrs \in Walks(record) :
         file' = [params |-> params,
                  pendingList |-> Listing(pending, ids),
                  pendingCount |-> pendingSeq,
                  recordMap |-> Listing(record, addrs),
                  balances |-> balance]
  BY DEF ExportGenesis
<1>2. /\ file'.params = params /\ file'.pendingCount = pendingSeq /\ file'.balances = balance
      /\ file'.pendingList = Listing(pending, ids) /\ file'.recordMap = Listing(record, addrs)
  BY <1>1
<1>3. UNCHANGED <<params, pending, pendingSeq, record, balance>>
  BY DEF ExportGenesis, vars
<1>4. /\ pending = [id \in DOMAIN pending |-> pending[id]]
      /\ record = [addr \in DOMAIN record |-> record[addr]]
      /\ DOMAIN pending \subseteq 0..pendingSeq - 1 /\ pendingSeq \in Int
  BY NumbersAssumption DEF TypeInv, TypeOK
<1>5. TableOf(file'.pendingList) = pending /\ TableOf(file'.recordMap) = record
  BY <1>1, <1>2, <1>4, TableOfListing
<1>6. NoDuplicates(file'.pendingList) /\ NoDuplicates(file'.recordMap)
  BY <1>1, <1>2, ListingLists
<1>7. \A i \in DOMAIN file'.pendingList : file'.pendingList[i].key < file'.pendingCount
  <2>1. \A i \in DOMAIN Listing(pending, ids) :
           Listing(pending, ids)[i].key = ids[i] /\ ids[i] \in DOMAIN pending
    BY ListingLists
  <2>2. \A id \in DOMAIN pending : id < pendingSeq
    BY <1>4
  <2>3. QED
    BY <1>2, <2>1, <2>2
<1>8. ValidGenesis(file')
  BY <1>2, <1>6, <1>7 DEF ValidGenesis, ParamsInv
<1>9. QED
  BY <1>2, <1>3, <1>5, <1>8 DEF FileInv

\* Stopping, exporting and starting again leave every table as it is; with the
\* file in order, so does importing it.
LEMMA RestartLeavesVars ==
    TypeInv /\ FileInv /\ (Stop \/ Resume \/ ExportGenesis \/ InitGenesis) => UNCHANGED vars
BY DEF FileInv, vars, Stop, Resume, ExportGenesis, InitGenesis

LEMMA StepOfTheChain ==
    ASSUME TypeInv, FileInv, [RestartNext]_rvars
    PROVE  [Next]_vars \/ FirstBlock
<1>1. CASE UNCHANGED rvars
  BY <1>1 DEF rvars
<1>2. CASE Running /\ Next
  BY <1>2
<1>3. CASE Stop \/ Resume \/ ExportGenesis \/ InitGenesis
  BY <1>3, RestartLeavesVars
<1>4. QED
  BY <1>1, <1>2, <1>3 DEF RestartNext

\* What the module keeps from block to block.
ChainInv ==
    TypeInv /\ ParamsInv /\ CoinInv /\ WithinCap /\ TallyInv /\ OverdueInv

\* The first block of a started chain may carry any time: the invariants do not
\* mind, for it comes before the messages, and the end-blocker after them.
LEMMA FirstBlockKeepsChainInv == ChainInv /\ NodeInv /\ FirstBlock => ChainInv'
<1> SUFFICES ASSUME ChainInv, NodeInv, FirstBlock PROVE ChainInv'
  OBVIOUS
<1> USE DEF ChainInv
<1>1. /\ phase = "none" /\ phase' = "messages" /\ now' \in 0..MaxTime
      /\ UNCHANGED <<due, params, pending, pendingSeq, record, balance, history>>
  BY DEF FirstBlock, NodeInv, books
<1>2. TypeInv'
  BY <1>1 DEF TypeInv, TypeOK, DueOnlyInEndBlock
<1>3. ParamsInv'
  BY <1>1 DEF ParamsInv, ValidParams
<1>4. CoinInv'
  BY <1>1 DEF CoinInv, Solvent, Owed, CoinsOf
<1>5. WithinCap'
  BY <1>1 DEF WithinCap, countOpen, OpenOf
<1>6. TallyInv'
  BY <1>1 DEF TallyInv, StoryInv, TallyAddsUp, getRecord, countOpen, OpenOf, FatesOf
<1>7. OverdueInv'
  BY <1>1 DEF OverdueInv, NothingOverdue
<1>8. QED
  BY <1>2, <1>3, <1>4, <1>5, <1>6, <1>7

LEMMA ChainInvStep == ChainInv /\ NodeInv /\ FileInv /\ [RestartNext]_rvars => ChainInv'
<1> SUFFICES ASSUME ChainInv, NodeInv, FileInv, [RestartNext]_rvars PROVE ChainInv'
  OBVIOUS
<1>1. CASE [Next]_vars
  BY <1>1, TypeInvStep, ParamsInvStep, CoinInvStep, WithinCapStep, TallyInvStep,
     OverdueInvStep DEF ChainInv
<1>2. CASE FirstBlock
  BY <1>2, FirstBlockKeepsChainInv
<1>3. QED
  BY <1>1, <1>2, StepOfTheChain DEF ChainInv

\* A node that is down is between two blocks.
LEMMA NodeInvStep == NodeInv /\ [RestartNext]_rvars => NodeInv'
<1> SUFFICES ASSUME NodeInv, [RestartNext]_rvars PROVE NodeInv'
  OBVIOUS
<1>1. CASE UNCHANGED rvars
  BY <1>1 DEF rvars, vars, NodeInv
<1>2. CASE Running /\ Next
  BY <1>2 DEF Running, NodeInv
<1>3. CASE Stop \/ Resume \/ ExportGenesis \/ InitGenesis \/ FirstBlock
  BY <1>3 DEF Stop, Resume, ExportGenesis, InitGenesis, FirstBlock, NodeInv, vars
<1>4. QED
  BY <1>1, <1>2, <1>3 DEF RestartNext

LEMMA FileInvStep == TypeInv /\ ParamsInv /\ FileInv /\ [RestartNext]_rvars => FileInv'
<1> SUFFICES ASSUME TypeInv, ParamsInv, FileInv, [RestartNext]_rvars PROVE FileInv'
  OBVIOUS
<1>1. CASE UNCHANGED rvars
  BY <1>1 DEF rvars, vars, FileInv
<1>2. ASSUME node' # "exported" PROVE FileInv'
  BY <1>2 DEF FileInv
<1>3. CASE Running /\ Next
  BY <1>2, <1>3 DEF Running
<1>4. CASE ExportGenesis
  BY <1>4, ExportWritesTheBooks
<1>5. CASE Stop \/ Resume \/ InitGenesis \/ FirstBlock
  BY <1>2, <1>5 DEF Stop, Resume, InitGenesis, FirstBlock
<1>6. QED
  BY <1>1, <1>3, <1>4, <1>5 DEF RestartNext

-----------------------------------------------------------------------------
(* The file's type: its lists are finite because the tables are.           *)

FiniteInv == IsFiniteSet(DOMAIN record)
FileTypeInv == file \in GenesisState /\ stops \in 0..MaxStops

\* A message adds one address to the records, or none.
LEMMA RecordGrowsByOne ==
    ASSUME [Next]_vars
    PROVE  DOMAIN record' = DOMAIN record \/ \E addr : DOMAIN record' = DOMAIN record \cup {addr}
<1>1. CASE UNCHANGED record
  BY <1>1
<1>2. CASE \E addr, changed : Bump(addr, changed)
  BY <1>2 DEF Bump, Put
<1>3. QED
  BY <1>1, <1>2 DEF Next, vars, Message, EndBlocker, BeginBlock, DelayedSend, SendFinal,
     SendUndoable, CancelSend, SetFinalOnly, UpdateParams, BankSend, CollectDue, execute,
     ExecuteFails, Commit

LEMMA FiniteInvStep == TypeInv /\ FileInv /\ FiniteInv /\ [RestartNext]_rvars => FiniteInv'
<1> SUFFICES ASSUME TypeInv, FileInv, FiniteInv, [RestartNext]_rvars PROVE FiniteInv'
  OBVIOUS
<1>1. CASE [Next]_vars
  <2>1. \A addr : IsFiniteSet(DOMAIN record \cup {addr})
    BY FS_AddElement DEF FiniteInv
  <2>2. QED
    BY <1>1, <2>1, RecordGrowsByOne DEF FiniteInv
<1>2. CASE FirstBlock
  BY <1>2 DEF FirstBlock, books, FiniteInv
<1>3. QED
  BY <1>1, <1>2, StepOfTheChain

\* What a finite table is listed as is a list.
LEMMA ListingType ==
    ASSUME NEW table, IsFiniteSet(DOMAIN table), NEW keys \in Walks(table),
           NEW S, NEW T, DOMAIN table \subseteq S, \A key \in DOMAIN table : table[key] \in T
    PROVE  Listing(table, keys) \in Seq([key : S, value : T])
<1>1. Cardinality(DOMAIN table) \in Nat
  BY FS_CardinalityType
<1>2. PICK n \in Nat : n = Cardinality(DOMAIN table)
  BY <1>1
<1>3. keys \in [1..n -> DOMAIN table]
  BY <1>2 DEF Walks, Bijection, Injection
<1>4. Listing(table, keys) \in [1..n -> [key : S, value : T]]
  BY <1>3 DEF Listing
<1>5. \A R : \A f \in [1..n -> R] : f \in Seq(R)
  OBVIOUS
<1>6. QED
  BY <1>4, <1>5, Zenon

\* An export writes a file of the type of genesis files.
LEMMA ExportType == TypeInv /\ FiniteInv /\ ExportGenesis => file' \in GenesisState
<1> SUFFICES ASSUME TypeInv, FiniteInv, ExportGenesis PROVE file' \in GenesisState
  OBVIOUS
<1>1. PICK ids \in Walks(pending), addrs \in Walks(record) :
         file' = [params |-> params,
                  pendingList |-> Listing(pending, ids),
                  pendingCount |-> pendingSeq,
                  recordMap |-> Listing(record, addrs),
                  balances |-> balance]
  BY DEF ExportGenesis
<1>2. /\ params \in Params /\ balance \in [Account -> Nat]
      /\ pendingSeq \in Nat
      /\ DOMAIN pending \subseteq 0..pendingSeq - 1
      /\ \A id \in DOMAIN pending : pending[id] \in Send
      /\ DOMAIN record \subseteq User
      /\ \A addr \in DOMAIN record : record[addr] \in Tally
  BY NumbersAssumption DEF TypeInv, TypeOK
<1>3. IsFiniteSet(DOMAIN pending) /\ DOMAIN pending \subseteq Nat
  <2>1. IsFiniteSet(0..pendingSeq - 1)
    BY <1>2, FS_Interval
  <2>2. QED
    BY <1>2, <2>1, FS_Subset
<1>4. Listing(pending, ids) \in Seq(Listed)
  BY <1>2, <1>3, ListingType DEF Listed
<1>5. Listing(record, addrs) \in Seq(Indexed)
  BY <1>2, ListingType DEF FiniteInv, Indexed
<1>6. QED
  BY <1>1, <1>2, <1>4, <1>5 DEF GenesisState

LEMMA DefaultGenesisType == DefaultGenesis \in GenesisState
BY GenesisAssumption DEF DefaultGenesis, GenesisState

LEMMA FileTypeInvStep ==
    TypeInv /\ FiniteInv /\ FileTypeInv /\ [RestartNext]_rvars => FileTypeInv'
<1> SUFFICES ASSUME TypeInv, FiniteInv, FileTypeInv, [RestartNext]_rvars PROVE FileTypeInv'
  OBVIOUS
<1> USE StopsAssumption
<1>1. CASE UNCHANGED rvars
  BY <1>1 DEF rvars, FileTypeInv
<1>2. CASE Running /\ Next
  BY <1>2 DEF Running, FileTypeInv
<1>3. CASE Stop
  BY <1>3 DEF Stop, FileTypeInv
<1>4. CASE ExportGenesis
  BY <1>4, ExportType DEF ExportGenesis, FileTypeInv
<1>5. CASE Resume \/ InitGenesis \/ FirstBlock
  BY <1>5, DefaultGenesisType DEF Resume, InitGenesis, FirstBlock, FileTypeInv
<1>6. QED
  BY <1>1, <1>2, <1>3, <1>4, <1>5 DEF RestartNext

-----------------------------------------------------------------------------
(* All of it together.                                                     *)

RestartInv == ChainInv /\ NodeInv /\ FileInv /\ FiniteInv /\ FileTypeInv

LEMMA RestartInvInit == RestartInit => RestartInv
<1> SUFFICES ASSUME RestartInit PROVE RestartInv
  OBVIOUS
<1>1. Init /\ node = "running"
  BY DEF RestartInit
<1>2. ParamsInv
  BY <1>1, GenesisAssumption DEF Init, ParamsInv
<1>3. OverdueInv
  BY <1>1 DEF Init, OverdueInv, NothingOverdue
<1>4. ChainInv
  BY <1>1, <1>2, <1>3, TypeInvInit, CoinInvInit, WithinCapInit, TallyInvInit DEF ChainInv
<1>5. FiniteInv
  BY <1>1, FS_EmptySet DEF Init, FiniteInv
<1>6. FileTypeInv
  BY DefaultGenesisType, StopsAssumption DEF RestartInit, FileTypeInv
<1>7. QED
  BY <1>1, <1>4, <1>5, <1>6 DEF RestartInv, NodeInv, FileInv

LEMMA RestartInvStep == RestartInv /\ [RestartNext]_rvars => RestartInv'
BY ChainInvStep, NodeInvStep, FileInvStep, FiniteInvStep, FileTypeInvStep
   DEF RestartInv, ChainInv

-----------------------------------------------------------------------------
(* The theorems.                                                           *)

\* A restart changes nothing but the clock: what the file was written from is
\* what the tables are filled with, whatever the order of its lists.
THEOREM BooksAreKept == RestartSpec => RestartKeepsTheBooks
<1>1. RestartInv /\ [RestartNext]_rvars => [node # "running" => UNCHANGED books]_rvars
  <2> SUFFICES ASSUME RestartInv, [RestartNext]_rvars, node # "running"
               PROVE  UNCHANGED books
    OBVIOUS
  <2>1. CASE UNCHANGED rvars
    BY <2>1 DEF rvars, vars, books
  <2>2. CASE Running /\ Next
    BY <2>2 DEF Running
  <2>3. CASE Stop \/ Resume \/ ExportGenesis \/ InitGenesis
    <3>1. UNCHANGED vars
      BY <2>3, RestartLeavesVars DEF RestartInv, ChainInv
    <3>2. QED
      BY <3>1 DEF vars, books
  <2>4. CASE FirstBlock
    BY <2>4 DEF FirstBlock
  <2>5. QED
    BY <2>1, <2>2, <2>3, <2>4 DEF RestartNext
<1>2. QED
  BY <1>1, RestartInvInit, RestartInvStep, PTL DEF RestartSpec, RestartKeepsTheBooks

\* Every export passes the module's own Validate.
THEOREM ExportsAreValid == RestartSpec => []ExportIsValid
<1>1. RestartInv => ExportIsValid
  BY DEF RestartInv, FileInv, ExportIsValid
<1>2. QED
  BY <1>1, RestartInvInit, RestartInvStep, PTL DEF RestartSpec

\* The node's states and the file's type: what an export writes is a genesis
\* file, of lists, whatever the tables hold and in whatever order it lists them.
THEOREM RestartTypeCorrect == RestartSpec => []RestartTypeOK
<1>1. RestartInv => RestartTypeOK
  BY DEF RestartInv, ChainInv, TypeInv, NodeInv, FileTypeInv, RestartTypeOK
<1>2. QED
  BY <1>1, RestartInvInit, RestartInvStep, PTL DEF RestartSpec

\* Restarts cost no coin: holding covers the sends in flight ever after.
THEOREM SolventAcrossRestarts == RestartSpec => []Solvent
<1>1. RestartInv => Solvent
  BY DEF RestartInv, ChainInv, CoinInv
<1>2. QED
  BY <1>1, RestartInvInit, RestartInvStep, PTL DEF RestartSpec

\* The cap counts the sends of the chain before as well.
THEOREM WithinCapAcrossRestarts == RestartSpec => []WithinCap
<1>1. RestartInv => WithinCap
  BY DEF RestartInv, ChainInv
<1>2. QED
  BY <1>1, RestartInvInit, RestartInvStep, PTL DEF RestartSpec

\* The public tally is the truth about the chain before as well.
THEOREM TallyAcrossRestarts == RestartSpec => []TallyAddsUp
<1>1. RestartInv => TallyAddsUp
  BY DEF RestartInv, ChainInv, TallyInv
<1>2. QED
  BY <1>1, RestartInvInit, RestartInvStep, PTL DEF RestartSpec

\* A send whose window closed while the chain was down is paid by the first block
\* after; none is forgotten.
THEOREM NeverOverdueAcrossRestarts == RestartSpec => []NothingOverdue
<1>1. RestartInv => NothingOverdue
  BY DEF RestartInv, ChainInv, OverdueInv
<1>2. QED
  BY <1>1, RestartInvInit, RestartInvStep, PTL DEF RestartSpec
=============================================================================
