---------------------------- MODULE TestnetProofs ----------------------------
(***************************************************************************)
(* A run of the generator that reports success has made one network, for   *)
(* any number of nodes, runs and failures.                                 *)
(*                                                                         *)
(* The argument follows the passes.  A file of this run in any directory   *)
(* is the transaction of a node that the first pass has done (TxInv): an   *)
(* older one is of an older account, and the genesis has none of those, so *)
(* that a state made with it would be refused.  After the copy every node  *)
(* has everybody's (CopyInv).  What can be made of a directory is then one *)
(* and the same state (StateInv).                                          *)
(***************************************************************************)
EXTENDS TestnetProperties, FiniteSetTheorems, TLAPS

-----------------------------------------------------------------------------
(* Types.  A map of stakes has numbers only.                               *)

StakeMaps == {Stakes(flag) : flag \in StakeFlags} \cup {<< >>}
File == [id : Key, account : AccountOrNone, stake : Nat]
State == [accounts : SUBSET Key, gentxs : SUBSET File]
GenesisDoc == [chain : 1..MaxRuns, accounts : SUBSET Key, gentxs : SUBSET File]
Peer == [id : Key, port : Int]
ConfigFile == [peers : SUBSET Peer, p2p : Int, rpc : SUBSET Int, proxy : Int,
               metrics : Int, grpc : Int]
Directory == [key : SUBSET Key, account : SUBSET Key, gentx : SUBSET File,
              genesis : SUBSET GenesisDoc, config : SUBSET ConfigFile]
Locals == [ids : Seq(Key), accounts : SUBSET Key, peers : SUBSET Peer,
           appState : SUBSET State]
Passes == {"init", "genesis", "copy", "collect"}

\* A run goes on, or it has ended well.
Active == phase \in Passes \cup {"done"}

TypeInv ==
    /\ run \in 0..MaxRuns
    /\ args \in [v : 1..MaxNodes, stakes : StakeMaps, ports : Seq(Nat)]
    /\ phase \in Passes \cup {"idle", "done", "failed"}
    /\ Active => run > 0
    /\ i \in Network
    /\ disk \in [Node -> Directory]
    /\ made \in Locals
    /\ \A n \in Node : disk[n].key = {} \/ \E key \in Key : key.node = n /\ disk[n].key = {key}

LEMMA Shapes ==
    TypeInv => /\ disk \in [Node -> Directory] /\ made \in Locals
               /\ i \in Nat /\ i < args.v /\ args.v \in 1..MaxNodes
BY DEF TypeInv, Network

\* The letters of a flag are in no map.
LEMMA StakesAreNumbers ==
    ASSUME NEW map \in StakeMaps, NEW n \in DOMAIN map
    PROVE  map[n] \in Nat
<1>1. PICK flag \in StakeFlags : map = Stakes(flag)
  BY DEF StakeMaps
<1> DEFINE numbers == {k \in DOMAIN flag : flag[k] # NoNumber}
           Top(k) == Cardinality({m \in numbers : m < k})
<1>2. \A k \in numbers : flag[k] \in Nat
  BY TestnetAssumption
<1> HIDE DEF numbers
<1>3. map = [top \in {Top(k) : k \in numbers} |-> flag[CHOOSE k \in numbers : Top(k) = top]]
  BY <1>1, Zenon DEF Stakes, numbers
<1> HIDE DEF Top
<1>4. PICK k \in numbers : Top(k) = n
  BY <1>3
<1>5. (CHOOSE m \in numbers : Top(m) = n) \in numbers
  BY <1>4, Zenon
<1>6. map[n] = flag[CHOOSE m \in numbers : Top(m) = n]
  BY <1>3
<1> QED BY <1>2, <1>5, <1>6

\* Every helper stays within its type.
LEMMA ArgsTypes ==
    ASSUME TypeInv, NEW n \in Node
    PROVE  /\ StakeOf(n) \in Nat
           /\ P2PPort(n) \in Int /\ RPCPort(n) \subseteq Int /\ ProxyPort(n) \in Int
           /\ MetricsPort(n) \in Int /\ GRPCPort(n) \in Int
<1>1. n \in Nat /\ n + 1 \in 1..MaxNodes
  BY TestnetAssumption DEF Node
<1>2. StakeOf(n) \in Nat
  <2>1. args.stakes \in StakeMaps
    BY DEF TypeInv
  <2> QED BY <2>1, StakesAreNumbers, TestnetAssumption DEF StakeOf
<1>3. RPCPort(n) \subseteq Int
  BY <1>1 DEF RPCPort, TypeInv
<1> QED BY <1>1, <1>2, <1>3 DEF P2PPort, ProxyPort, MetricsPort, GRPCPort

LEMMA NodeTypes ==
    ASSUME TypeInv, Active, NEW n \in Node
    PROVE  /\ Born(n) \in Key
           /\ KeyOf(n) \in Key /\ KeyOf(n).node = n
           /\ GenTx(n) \in File /\ CutShort(GenTx(n)) \in File
<1>1. Born(n) \in Key /\ Born(n).node = n
  BY TestnetAssumption DEF TypeInv, Born, Key
<1>2. KeyOf(n) \in Key /\ KeyOf(n).node = n
  BY <1>1 DEF KeyOf, TypeInv
<1>3. GenTx(n) \in File
  <2>1. Born(n) \in AccountOrNone
    BY <1>1, TestnetAssumption DEF Key, AccountOrNone
  <2> QED BY <1>2, <2>1, ArgsTypes DEF GenTx, Account, File
<1>4. CutShort(GenTx(n)) \in File
  BY <1>3, TestnetAssumption DEF CutShort, File, AccountOrNone
<1> QED BY <1>1, <1>2, <1>3, <1>4

LEMMA CutTypes ==
    ASSUME NEW f \in File
    PROVE  CutShort(f) \in File /\ CutShort(f).id = f.id /\ CutShort(f).account.run = 0
BY TestnetAssumption DEF CutShort, File, AccountOrNone

LEMMA FilesTypes ==
    ASSUME TypeInv, NEW n, NEW count \in 0..args.v
    PROVE  FilesFor(n, count) \subseteq File
BY TestnetAssumption DEF FilesFor, TypeInv, Node, Directory

LEMMA StateTypes ==
    ASSUME TypeInv, NEW n \in Node
    PROVE  AppStateOf(n) \subseteq State
BY DEF AppStateOf, TypeInv, Directory, State, GenesisDoc

LEMMA DocTypes ==
    ASSUME TypeInv, Active, NEW n \in Node, NEW state \in State
    PROVE  Genesis(state) \in GenesisDoc /\ Config(n) \in ConfigFile
<1>1. Genesis(state) \in GenesisDoc
  BY TestnetAssumption DEF TypeInv, Genesis, GenesisDoc, State
<1>2. Config(n) \in ConfigFile
  BY ArgsTypes DEF TypeInv, Config, ConfigFile, Locals
<1> QED BY <1>1, <1>2

LEMMA TypeInit == TestnetInit => TypeInv
<1> SUFFICES ASSUME TestnetInit PROVE TypeInv
  OBVIOUS
<1>1. i \in Network /\ run \in 0..MaxRuns /\ ~Active
  BY TestnetAssumption DEF TestnetInit, Network, Active, Passes
<1>2. args \in [v : 1..MaxNodes, stakes : StakeMaps, ports : Seq(Nat)]
  BY TestnetAssumption DEF TestnetInit, StakeMaps
<1>3. disk \in [Node -> Directory] /\ \A n \in Node : disk[n].key = {}
  BY DEF TestnetInit, NoDir, Directory
<1>4. made \in Locals
  BY DEF TestnetInit, Nothing, Locals
<1> QED BY <1>1, <1>2, <1>3, <1>4 DEF TypeInv, TestnetInit

\* Writing into one directory.
LEMMA WriteTypes ==
    ASSUME TypeInv, Active, NEW n \in Node, NEW dir \in Directory,
           dir.key = {KeyOf(n)} \/ dir.key = disk[n].key
    PROVE  LET new == [disk EXCEPT ![n] = dir]
           IN  /\ new \in [Node -> Directory]
               /\ \A m \in Node : new[m].key = {} \/ \E key \in Key : key.node = m /\ new[m].key = {key}
<1>1. /\ disk \in [Node -> Directory]
      /\ \A m \in Node : disk[m].key = {} \/ \E key \in Key : key.node = m /\ disk[m].key = {key}
  BY DEF TypeInv
<1>2. dir.key = {} \/ \E key \in Key : key.node = n /\ dir.key = {key}
  <2>1. KeyOf(n) \in Key /\ KeyOf(n).node = n
    BY NodeTypes
  <2> QED BY <1>1, <2>1
<1> DEFINE new == [disk EXCEPT ![n] = dir]
<1>3. new \in [Node -> Directory] /\ new[n] = dir /\ \A m \in Node \ {n} : new[m] = disk[m]
  BY <1>1
<1> HIDE DEF new
<1>4. \A m \in Node : new[m].key = {} \/ \E key \in Key : key.node = m /\ new[m].key = {key}
  BY <1>1, <1>2, <1>3
<1> QED BY <1>3, <1>4 DEF new

LEMMA WithTypes ==
    ASSUME TypeInv, Active, NEW n \in Node, NEW gentx \in File
    PROVE  /\ WithKey(disk[n], n) \in Directory /\ WithKey(disk[n], n).key = {KeyOf(n)}
           /\ WithAccount(disk[n], n) \in Directory /\ WithAccount(disk[n], n).key = {KeyOf(n)}
           /\ WithGenTx(disk[n], n, gentx) \in Directory
           /\ WithGenTx(disk[n], n, gentx).key = {KeyOf(n)}
<1>1. disk[n] \in Directory /\ KeyOf(n) \in Key /\ Born(n) \in Key
  BY NodeTypes DEF TypeInv
<1>2. WithKey(disk[n], n) \in Directory /\ WithKey(disk[n], n).key = {KeyOf(n)}
  BY <1>1 DEF WithKey, Directory
<1>3. WithAccount(disk[n], n) \in Directory /\ WithAccount(disk[n], n).key = {KeyOf(n)}
  BY <1>1, <1>2 DEF WithAccount, Account, Directory
<1>4. WithFiles(WithAccount(disk[n], n).gentx, {gentx}) \subseteq File
  BY <1>3 DEF WithFiles, Directory
<1>5. /\ WithGenTx(disk[n], n, gentx) \in Directory
      /\ WithGenTx(disk[n], n, gentx).key = {KeyOf(n)}
  BY <1>3, <1>4 DEF WithGenTx, Directory
<1> QED BY <1>2, <1>3, <1>5

\* Where the next node leaves the pass.
LEMMA NextNodeTypes ==
    ASSUME TypeInv, NEW after \in Passes \cup {"done"}, phase \in Passes, NextNode(after),
           args' = args
    PROVE  phase' \in {phase, after} /\ i' \in Network'
BY TestnetAssumption DEF TypeInv, NextNode, Network

LEMMA TypeStep == TypeInv /\ [TestnetNext]_tvars => TypeInv'
<1> SUFFICES ASSUME TypeInv, [TestnetNext]_tvars PROVE TypeInv'
  OBVIOUS
<1> USE DEF Passes
<1>1. CASE Start
  <2>1. args' \in [v : 1..MaxNodes, stakes : StakeMaps, ports : Seq(Nat)]
    BY <1>1, TestnetAssumption DEF Start, StakeMaps
  <2>2. run' \in 0..MaxRuns /\ run' > 0
    BY <1>1, TestnetAssumption DEF Start, TypeInv
  <2>3. i' \in Network' /\ made' \in Locals
    BY <1>1, <2>1, TestnetAssumption DEF Start, Network, Nothing, Locals
  <2> QED BY <1>1, <2>1, <2>2, <2>3 DEF Start, TypeInv, Active
<1> USE DEF Network
<1>2. ASSUME phase \in Passes
      PROVE  i \in Node /\ Active /\ disk[i] \in Directory /\ disk[i].key \in {{}, {KeyOf(i)}}
  BY <1>2, TestnetAssumption DEF TypeInv, Active, Node, KeyOf
<1>3. CASE InitNode
  <2>1. phase \in Passes
    BY <1>3 DEF InitNode
  <2>2. GenTx(i) \in File
    BY <1>2, <2>1, NodeTypes
  <2>3. WithGenTx(disk[i], i, GenTx(i)) \in Directory /\ WithGenTx(disk[i], i, GenTx(i)).key = {KeyOf(i)}
    BY <1>2, <2>1, <2>2, WithTypes
  <2>4. made' \in Locals
    <3>1. KeyOf(i) \in Key /\ Account(i) \in Key /\ P2PPort(i) \in Int
      BY <1>2, <2>1, NodeTypes, ArgsTypes DEF Account
    <3>2. [id |-> KeyOf(i), port |-> P2PPort(i)] \in Peer /\ made \in Locals
      BY <3>1 DEF Peer, TypeInv
    <3>3. Append(made.ids, KeyOf(i)) \in Seq(Key)
      BY <3>1, <3>2 DEF Locals
    <3> QED BY <1>3, <3>1, <3>2, <3>3 DEF InitNode, Locals
  <2>5. phase' \in Passes /\ i' \in Network' /\ UNCHANGED <<run, args>>
    BY <1>3, <2>1, NextNodeTypes DEF InitNode
  <2>6. /\ disk' \in [Node -> Directory]
        /\ \A n \in Node : disk'[n].key = {} \/ \E key \in Key : key.node = n /\ disk'[n].key = {key}
    BY <1>2, <1>3, <2>1, <2>3, WriteTypes DEF InitNode
  <2> QED BY <1>2, <2>1, <2>4, <2>5, <2>6 DEF TypeInv, Active
<1>4. ASSUME phase \in Passes, Fail, NEW dir \in Directory, dir.key \in {disk[i].key, {KeyOf(i)}},
             disk' = [disk EXCEPT ![i] = dir]
      PROVE  TypeInv'
  <2>1. /\ disk' \in [Node -> Directory]
        /\ \A n \in Node : disk'[n].key = {} \/ \E key \in Key : key.node = n /\ disk'[n].key = {key}
    BY <1>2, <1>4, WriteTypes
  <2> QED BY <1>2, <1>4, <2>1 DEF TypeInv, Active, Fail
<1>5. CASE InitNodeCleansUp
  <2>1. disk' \in [Node -> Directory] /\ \A n \in Node : disk'[n].key = {}
    BY <1>5 DEF InitNodeCleansUp, NoDir, Directory
  <2> QED BY <1>2, <1>5, <2>1 DEF InitNodeCleansUp, TypeInv, Active, Fail
<1>6. CASE InitNodeFails
  <2>1. phase \in Passes /\ CutShort(GenTx(i)) \in File
    BY <1>2, <1>6, NodeTypes DEF InitNodeFails
  <2>2. PICK dir \in {WithKey(disk[i], i), WithAccount(disk[i], i),
                      WithGenTx(disk[i], i, CutShort(GenTx(i)))} :
               disk' = [disk EXCEPT ![i] = dir]
    BY <1>6 DEF InitNodeFails
  <2>3. dir \in Directory /\ dir.key = {KeyOf(i)}
    BY <1>2, <2>1, WithTypes
  <2> QED BY <1>4, <1>6, <2>1, <2>2, <2>3 DEF InitNodeFails
<1>7. ASSUME phase \in Passes, NEW after \in Passes \cup {"done"}, NextNode(after),
             UNCHANGED <<run, args>>, made' \in Locals,
             NEW dir \in Directory, dir.key = disk[i].key, disk' = [disk EXCEPT ![i] = dir]
      PROVE  TypeInv'
  <2>1. phase' \in Passes \cup {"done"} /\ i' \in Network'
    BY <1>7, NextNodeTypes
  <2>2. /\ disk' \in [Node -> Directory]
        /\ \A n \in Node : disk'[n].key = {} \/ \E key \in Key : key.node = n /\ disk'[n].key = {key}
    BY <1>2, <1>7, WriteTypes
  <2> QED BY <1>2, <1>7, <2>1, <2>2 DEF TypeInv, Active
<1>8. CASE InitGenFile
  <2> DEFINE doc == [chain |-> run, accounts |-> made.accounts, gentxs |-> {}]
             dir == [disk[i] EXCEPT !.genesis = {doc}]
  <2>1. phase \in Passes /\ NextNode("copy") /\ UNCHANGED <<run, args, made>>
    BY <1>8 DEF InitGenFile
  <2>2. doc \in GenesisDoc
    BY <1>2, <2>1, TestnetAssumption DEF TypeInv, Locals, GenesisDoc
  <2>3. dir \in Directory /\ dir.key = disk[i].key
    BY <1>2, <2>1, <2>2 DEF Directory
  <2>4. disk' = [disk EXCEPT ![i] = dir]
    BY <1>8 DEF InitGenFile
  <2>5. made' \in Locals
    BY <2>1 DEF TypeInv
  <2> HIDE DEF dir
  <2> QED BY <1>7, <2>1, <2>3, <2>4, <2>5
<1>9. CASE InitGenFails
  <2>1. phase \in Passes /\ Fail
    BY <1>9 DEF InitGenFails
  <2>2. PICK genesis \in {disk[i].genesis, {}} : disk' = [disk EXCEPT ![i].genesis = genesis]
    BY <1>9 DEF InitGenFails
  <2> DEFINE dir == [disk[i] EXCEPT !.genesis = genesis]
  <2>3. dir \in Directory /\ dir.key = disk[i].key
    BY <1>2, <2>1 DEF Directory
  <2>4. disk' = [disk EXCEPT ![i] = dir]
    BY <2>2
  <2> HIDE DEF dir
  <2> QED BY <1>4, <2>1, <2>3, <2>4
<1>10. ASSUME phase \in Passes, NEW files \in SUBSET File
       PROVE  LET dir == [disk[i] EXCEPT !.gentx = WithFiles(@, files)]
              IN  dir \in Directory /\ dir.key = disk[i].key
  BY <1>2, <1>10 DEF WithFiles, Directory
<1>11. CASE CopyGenTxs
  <2> DEFINE dir == [disk[i] EXCEPT !.gentx = WithFiles(@, FilesFor(i, args.v))]
  <2>1. phase \in Passes /\ NextNode("collect") /\ UNCHANGED <<run, args, made>>
    BY <1>11 DEF CopyGenTxs
  <2>2. FilesFor(i, args.v) \subseteq File
    BY FilesTypes DEF TypeInv
  <2>3. dir \in Directory /\ dir.key = disk[i].key
    BY <1>10, <2>1, <2>2
  <2>4. disk' = [disk EXCEPT ![i] = dir]
    BY <1>11 DEF CopyGenTxs
  <2>5. made' \in Locals
    BY <2>1 DEF TypeInv
  <2> HIDE DEF dir
  <2> QED BY <1>7, <2>1, <2>3, <2>4, <2>5
<1>12. CASE CopyFails
  <2>1. phase \in Passes /\ Fail
    BY <1>12 DEF CopyFails
  <2>2. PICK count \in 0..args.v - 1 :
           \E cut \in SUBSET {CutShort(f) : f \in FilesFor(i, count + 1) \ FilesFor(i, count)} :
              disk' = [disk EXCEPT ![i].gentx = WithFiles(@, FilesFor(i, count) \cup cut)]
    BY <1>12 DEF CopyFails
  <2>3. PICK cut \in SUBSET {CutShort(f) : f \in FilesFor(i, count + 1) \ FilesFor(i, count)} :
           disk' = [disk EXCEPT ![i].gentx = WithFiles(@, FilesFor(i, count) \cup cut)]
    BY <2>2
  <2>4. count \in 0..args.v /\ count + 1 \in 0..args.v
    BY DEF TypeInv
  <2>5. FilesFor(i, count) \subseteq File /\ FilesFor(i, count + 1) \subseteq File
    BY <2>4, FilesTypes
  <2>6. FilesFor(i, count) \cup cut \subseteq File
    BY <2>5, CutTypes
  <2> DEFINE dir == [disk[i] EXCEPT !.gentx = WithFiles(@, FilesFor(i, count) \cup cut)]
  <2>7. dir \in Directory /\ dir.key = disk[i].key
    BY <1>10, <2>1, <2>6
  <2>8. disk' = [disk EXCEPT ![i] = dir]
    BY <2>3
  <2> HIDE DEF dir
  <2> QED BY <1>4, <2>1, <2>7, <2>8
<1>13. CASE CollectGenFile
  <2>1. phase \in Passes /\ NextNode("done") /\ UNCHANGED <<run, args>>
    BY <1>13 DEF CollectGenFile
  <2>2. PICK own \in AppStateOf(i) :
           \E state \in IF made.appState = {} THEN {own} ELSE made.appState :
              /\ disk' = [disk EXCEPT ![i].config = {Config(i)}, ![i].genesis = {Genesis(state)}]
              /\ made' = [made EXCEPT !.appState = {state}]
    BY <1>13 DEF CollectGenFile
  <2>3. PICK state \in IF made.appState = {} THEN {own} ELSE made.appState :
              /\ disk' = [disk EXCEPT ![i].config = {Config(i)}, ![i].genesis = {Genesis(state)}]
              /\ made' = [made EXCEPT !.appState = {state}]
    BY <2>2
  <2>4. state \in State
    BY <1>2, <2>1, <2>3, StateTypes DEF TypeInv, Locals
  <2>5. made' \in Locals
    BY <2>3, <2>4 DEF TypeInv, Locals
  <2> DEFINE dir == [disk[i] EXCEPT !.config = {Config(i)}, !.genesis = {Genesis(state)}]
  <2>6. Genesis(state) \in GenesisDoc /\ Config(i) \in ConfigFile
    BY <1>2, <2>1, <2>4, DocTypes
  <2>7. dir \in Directory /\ dir.key = disk[i].key
    BY <1>2, <2>1, <2>6 DEF Directory
  <2>8. disk' = [disk EXCEPT ![i] = dir]
    BY <1>2, <2>1, <2>3 DEF TypeInv
  <2> HIDE DEF dir
  <2> QED BY <1>7, <2>1, <2>5, <2>7, <2>8
<1>14. CASE CollectFails
  <2>1. phase \in Passes /\ Fail
    BY <1>14 DEF CollectFails
  <2>2. PICK dir \in {disk[i], [disk[i] EXCEPT !.config = {}]} \cup
                     {[disk[i] EXCEPT !.config = {}, !.genesis = {Genesis(own)}] : own \in AppStateOf(i)} :
           disk' = [disk EXCEPT ![i] = dir]
    BY <1>14 DEF CollectFails
  <2>3. \A own \in AppStateOf(i) : Genesis(own) \in GenesisDoc
    BY <1>2, <2>1, StateTypes, DocTypes
  <2>4. [disk[i] EXCEPT !.config = {}] \in Directory /\ [disk[i] EXCEPT !.config = {}].key = disk[i].key
    BY <1>2, <2>1 DEF Directory
  <2>5. ASSUME NEW own \in AppStateOf(i)
        PROVE  LET without == [disk[i] EXCEPT !.config = {}, !.genesis = {Genesis(own)}]
               IN  without \in Directory /\ without.key = disk[i].key
    BY <1>2, <2>1, <2>3 DEF Directory
  <2>6. dir \in Directory /\ dir.key = disk[i].key
    BY <1>2, <2>1, <2>2, <2>4, <2>5
  <2> QED BY <1>4, <2>1, <2>2, <2>6
<1>15. CASE UNCHANGED tvars
  BY <1>15 DEF tvars, TypeInv, Active
<1> QED
  BY <1>1, <1>3, <1>5, <1>6, <1>8, <1>9, <1>11, <1>12, <1>13, <1>14, <1>15 DEF TestnetNext

-----------------------------------------------------------------------------
(* How far the run is: the nodes that each pass has done.                  *)

Began == {n \in Network : phase = "init" => n < i}
HasGenesis == {n \in Network : phase # "init" /\ (phase = "genesis" => n < i)}
HasCopies == {n \in Network : phase \notin {"init", "genesis"} /\ (phase = "copy" => n < i)}
Collected == {n \in Network : phase \notin {"init", "genesis", "copy"} /\ (phase = "collect" => n < i)}

LEMMA NetworkIsNodes == TypeInv => Network \subseteq Node /\ i \in Node
BY TestnetAssumption DEF TypeInv, Network, Node

LEMMA ProgressOfStart ==
    ASSUME TypeInv, Start
    PROVE  Active' /\ Began' = {} /\ HasGenesis' = {} /\ HasCopies' = {} /\ Collected' = {}
BY TestnetAssumption DEF Start, Active, Passes, Began, HasGenesis, HasCopies, Collected, Network

LEMMA ProgressOfInit ==
    ASSUME TypeInv, InitNode
    PROVE  /\ Active /\ Active'
           /\ Began = 0..i - 1 /\ Began' = Began \cup {i}
           /\ HasGenesis' = {} /\ HasCopies' = {} /\ Collected' = {}
           /\ (IF phase' = "init" THEN i' ELSE args'.v) = i + 1
BY TestnetAssumption
   DEF InitNode, NextNode, TypeInv, Active, Passes, Began, HasGenesis, HasCopies, Collected, Network

LEMMA ProgressOfGenesis ==
    ASSUME TypeInv, InitGenFile
    PROVE  /\ Active /\ Active' /\ phase' # "init"
           /\ Began = Network /\ Began' = Network
           /\ HasGenesis' = HasGenesis \cup {i} /\ HasCopies' = {} /\ Collected' = {}
BY TestnetAssumption
   DEF InitGenFile, NextNode, TypeInv, Active, Passes, Began, HasGenesis, HasCopies, Collected, Network

LEMMA ProgressOfCopy ==
    ASSUME TypeInv, CopyGenTxs
    PROVE  /\ Active /\ Active' /\ phase' # "init"
           /\ Began = Network /\ Began' = Network
           /\ HasGenesis = Network /\ HasGenesis' = Network
           /\ HasCopies' = HasCopies \cup {i} /\ Collected = {} /\ Collected' = {}
BY TestnetAssumption
   DEF CopyGenTxs, NextNode, TypeInv, Active, Passes, Began, HasGenesis, HasCopies, Collected, Network

LEMMA ProgressOfCollect ==
    ASSUME TypeInv, CollectGenFile
    PROVE  /\ Active /\ Active' /\ phase' # "init"
           /\ Began = Network /\ Began' = Network
           /\ HasGenesis = Network /\ HasGenesis' = Network
           /\ HasCopies = Network /\ HasCopies' = Network
           /\ Collected' = Collected \cup {i} /\ i \notin Collected
BY TestnetAssumption
   DEF CollectGenFile, NextNode, TypeInv, Active, Passes, Began, HasGenesis, HasCopies, Collected, Network

\* The actions that end a run badly.
Fails == InitNodeCleansUp \/ InitNodeFails \/ InitGenFails \/ CopyFails \/ CollectFails

LEMMA FailsEnds ==
    ASSUME Fails
    PROVE  ~Active' /\ phase \in Passes /\ UNCHANGED <<run, args, i, made>>
BY DEF Fails, InitNodeCleansUp, InitNodeFails, InitGenFails, CopyFails, CollectFails, Fail,
       Active, Passes

-----------------------------------------------------------------------------
(* What the first pass makes, and the others keep.                         *)

OwnTx(n) == [id |-> made.ids[n + 1], account |-> Born(n), stake |-> StakeOf(n)]

NodeDone(n) ==
    /\ disk[n].key = {made.ids[n + 1]} /\ made.ids[n + 1].node = n
    /\ disk[n].account = {Born(n)}
    /\ OwnTx(n) \in disk[n].gentx

InitInv ==
    Active =>
        /\ Len(made.ids) = IF phase = "init" THEN i ELSE args.v
        /\ made.accounts = {Born(k) : k \in Began}
        /\ made.peers = {[id |-> made.ids[k + 1], port |-> P2PPort(k)] : k \in Began}
        /\ \A n \in Began : NodeDone(n)

LEMMA InitInvInit == TestnetInit => InitInv
BY DEF TestnetInit, InitInv, Active, Passes

\* No other node's file is named as a node's own.
LEMMA OwnTxSurvives ==
    ASSUME TypeInv, InitInv, phase = "copy", NEW n \in Network
    PROVE  OwnTx(n) \in WithFiles(disk[n].gentx, FilesFor(n, args.v))
<1>1. Began = Network /\ Active
  BY DEF Began, Active, Passes
<1>2. \A k \in Network : made.ids[k + 1].node = k
  BY <1>1 DEF InitInv, NodeDone
<1>3. ASSUME NEW g \in FilesFor(n, args.v) PROVE g.id # made.ids[n + 1]
  <2>1. PICK k \in Network \ {n} : g.id = made.ids[k + 1]
    BY <1>3 DEF FilesFor, Network, TypeInv
  <2> QED BY <1>2, <2>1
<1>4. OwnTx(n) \in disk[n].gentx
  BY <1>1 DEF InitInv, NodeDone
<1> QED BY <1>3, <1>4 DEF WithFiles, OwnTx

LEMMA InitInvStep == TypeInv /\ InitInv /\ [TestnetNext]_tvars => InitInv'
<1> SUFFICES ASSUME TypeInv, InitInv, [TestnetNext]_tvars, Active' PROVE InitInv'
  BY DEF InitInv
<1>1. CASE Start
  BY <1>1, ProgressOfStart DEF Start, InitInv, Nothing
<1>2. CASE InitNode
  <2>1. /\ Active /\ Active' /\ Began = 0..i - 1 /\ Began' = Began \cup {i}
        /\ (IF phase' = "init" THEN i' ELSE args'.v) = i + 1
    BY <1>2, ProgressOfInit
  <2>2. i \in Node /\ i \in Nat /\ made \in Locals /\ disk \in [Node -> Directory]
    BY NetworkIsNodes, Shapes
  <2>3. made.ids \in Seq(Key) /\ Len(made.ids) = i /\ KeyOf(i) \in Key /\ KeyOf(i).node = i
    <3>1. made.ids \in Seq(Key)
      BY <2>2 DEF Locals
    <3>2. phase = "init"
      BY <1>2 DEF InitNode
    <3>3. Len(made.ids) = i
      BY <2>1, <3>2 DEF InitInv
    <3> QED BY <2>1, <2>2, <3>1, <3>3, NodeTypes
  <2>4. made' = [made EXCEPT !.ids = Append(@, KeyOf(i)),
                             !.accounts = @ \cup {Account(i)},
                             !.peers = @ \cup {[id |-> KeyOf(i), port |-> P2PPort(i)]}]
    BY <1>2 DEF InitNode
  <2>5. /\ made'.ids = Append(made.ids, KeyOf(i))
        /\ made'.accounts = made.accounts \cup {Born(i)}
        /\ made'.peers = made.peers \cup {[id |-> KeyOf(i), port |-> P2PPort(i)]}
    BY <2>2, <2>4 DEF Locals, Account
  <2>6. /\ Len(made'.ids) = i + 1 /\ made'.ids[i + 1] = KeyOf(i)
        /\ \A k \in 0..i - 1 : made'.ids[k + 1] = made.ids[k + 1]
    BY <2>2, <2>3, <2>5
  <2>7. \A n \in Node : Born(n)' = Born(n) /\ StakeOf(n)' = StakeOf(n) /\ P2PPort(n)' = P2PPort(n)
    BY <1>2 DEF InitNode, Born, StakeOf, P2PPort
  <2>8. Began \subseteq Node
    BY <2>1, NetworkIsNodes DEF Began
  <2>9. made'.accounts = {Born(k)' : k \in Began'}
    BY <2>1, <2>2, <2>5, <2>7, <2>8 DEF InitInv
  <2>10. made'.peers = {[id |-> made'.ids[k + 1], port |-> P2PPort(k)'] : k \in Began'}
    BY <2>1, <2>2, <2>5, <2>6, <2>7, <2>8 DEF InitInv
  <2>11. ASSUME NEW n \in Began PROVE NodeDone(n)'
    <3>1. n # i /\ n \in Node
      BY <2>1, <2>2, <2>8
    <3>2. disk'[n] = disk[n]
      BY <1>2, <2>2, <3>1 DEF InitNode
    <3>3. OwnTx(n)' = OwnTx(n) /\ made'.ids[n + 1] = made.ids[n + 1]
      BY <2>1, <2>6, <2>7, <3>1 DEF OwnTx
    <3> QED BY <2>1, <2>7, <3>1, <3>2, <3>3 DEF NodeDone, InitInv
  <2>12. ASSUME NEW n \in Node, n = i PROVE NodeDone(n)'
    <3>1. disk'[n] = WithGenTx(disk[n], n, GenTx(n))
      BY <1>2, <2>2, <2>12 DEF InitNode
    <3>2. GenTx(n) = OwnTx(n)'
      BY <2>2, <2>6, <2>7, <2>12 DEF GenTx, OwnTx, Account
    <3>3. /\ disk'[n].key = {KeyOf(n)} /\ disk'[n].account = {Born(n)}
          /\ GenTx(n) \in disk'[n].gentx
      BY <2>2, <3>1 DEF WithGenTx, WithAccount, WithKey, WithFiles, Account, Directory
    <3> QED BY <2>2, <2>3, <2>6, <2>7, <2>12, <3>2, <3>3 DEF NodeDone
  <2>13. \A n \in Began' : NodeDone(n)'
    BY <2>1, <2>2, <2>8, <2>11, <2>12
  <2> QED BY <2>1, <2>6, <2>9, <2>10, <2>13 DEF InitInv
\* The later passes leave the nodes' keys, accounts and own transactions.
<1>3. ASSUME Active, phase # "init", Began = Network, Began' = Network, phase' # "init",
             UNCHANGED <<run, args, made.ids, made.accounts, made.peers>>,
             \A n \in Network : /\ disk'[n].key = disk[n].key /\ disk'[n].account = disk[n].account
                                /\ OwnTx(n) \in disk'[n].gentx
      PROVE  InitInv'
  <2>1. \A n \in Network : Born(n)' = Born(n) /\ StakeOf(n)' = StakeOf(n) /\ P2PPort(n)' = P2PPort(n)
    BY <1>3 DEF Born, StakeOf, P2PPort
  <2>2. \A n \in Network : OwnTx(n)' = OwnTx(n)
    BY <1>3, <2>1 DEF OwnTx
  <2>3. \A n \in Network : NodeDone(n)'
    BY <1>3, <2>1, <2>2 DEF NodeDone, InitInv
  <2> QED BY <1>3, <2>1, <2>3 DEF InitInv
<1>4. i \in Node /\ Network \subseteq Node /\ disk \in [Node -> Directory]
  BY NetworkIsNodes DEF TypeInv
<1>5. ASSUME Active, phase # "init" PROVE \A n \in Network : OwnTx(n) \in disk[n].gentx
  BY <1>5 DEF InitInv, NodeDone, Began
<1>6. CASE InitGenFile
  <2>1. \A n \in Network : /\ disk'[n].key = disk[n].key /\ disk'[n].account = disk[n].account
                           /\ disk'[n].gentx = disk[n].gentx
    BY <1>4, <1>6 DEF InitGenFile, Directory
  <2> QED BY <1>3, <1>5, <1>6, <2>1, ProgressOfGenesis DEF InitGenFile
<1>7. CASE CopyGenTxs
  <2>1. \A n \in Network : disk'[n].key = disk[n].key /\ disk'[n].account = disk[n].account
    BY <1>4, <1>7 DEF CopyGenTxs, Directory
  <2>2. \A n \in Network : disk'[n].gentx = disk[n].gentx
                           \/ disk'[n].gentx = WithFiles(disk[n].gentx, FilesFor(n, args.v))
    BY <1>4, <1>7 DEF CopyGenTxs, Directory
  <2>3. \A n \in Network : OwnTx(n) \in disk'[n].gentx
    BY <1>5, <1>7, <2>2, OwnTxSurvives, ProgressOfCopy DEF CopyGenTxs
  <2> QED BY <1>3, <1>7, <2>1, <2>3, ProgressOfCopy DEF CopyGenTxs
<1>8. CASE CollectGenFile
  <2>1. \A n \in Network : /\ disk'[n].key = disk[n].key /\ disk'[n].account = disk[n].account
                           /\ disk'[n].gentx = disk[n].gentx
    BY <1>4, <1>8 DEF CollectGenFile, Directory
  <2>2. UNCHANGED <<made.ids, made.accounts, made.peers>>
    BY <1>8 DEF CollectGenFile, TypeInv, Locals
  <2> QED BY <1>3, <1>5, <1>8, <2>1, <2>2, ProgressOfCollect DEF CollectGenFile
<1>9. CASE Fails
  BY <1>9, FailsEnds
<1>10. CASE UNCHANGED tvars
  <2>1. Active /\ Began' = Began
    BY <1>10 DEF tvars, Active, Began, Network
  <2> QED BY <1>10, <2>1 DEF tvars, InitInv, NodeDone, OwnTx, Born, StakeOf, P2PPort, Network
<1> QED BY <1>1, <1>2, <1>6, <1>7, <1>8, <1>9, <1>10 DEF TestnetNext, Fails

-----------------------------------------------------------------------------
(* Where transactions come from.                                           *)

\* What an action puts into directories: files of this or another directory, cut short
\* or whole, and the first pass the node's own.
LEMMA FilesOfStep ==
    ASSUME TypeInv, [TestnetNext]_tvars, NEW n \in Node, NEW f \in disk'[n].gentx
    PROVE  \/ \E m \in Node : f \in disk[m].gentx
           \/ f \in File /\ f.account.run = 0
           \/ InitNode /\ n = i /\ f = GenTx(n)
<1> USE NetworkIsNodes
<1>1. i \in Node /\ disk \in [Node -> Directory]
  BY DEF TypeInv
<1>2. ASSUME NEW count, f \in FilesFor(n, count), count \in 0..args.v
      PROVE  f \in File /\ \E m \in Node : f \in disk[m].gentx
  <2>1. PICK k \in 0..count - 1 : f \in disk[k].gentx
    BY <1>2 DEF FilesFor
  <2>2. k \in Node
    BY <1>2, TestnetAssumption DEF Node, TypeInv
  <2> QED BY <1>1, <2>1, <2>2 DEF Directory
<1>3. CASE disk'[n].gentx = disk[n].gentx
  BY <1>3
<1>4. CASE InitNode
  BY <1>1, <1>4 DEF InitNode, WithGenTx, WithAccount, WithKey, WithFiles, Directory
<1>5. CASE InitNodeCleansUp
  BY <1>5 DEF InitNodeCleansUp, NoDir
<1>6. CASE InitNodeFails
  <2>1. CutShort(GenTx(i)) \in File /\ CutShort(GenTx(i)).account.run = 0
    BY <1>1, <1>6, NodeTypes, CutTypes DEF InitNodeFails, Active, Passes
  <2>2. n = i \/ disk'[n] = disk[n]
    BY <1>1, <1>6 DEF InitNodeFails
  <2>3. n = i => f \in disk[i].gentx \cup {CutShort(GenTx(i))}
    <3> DEFINE cut == CutShort(GenTx(i))
    <3>1. PICK dir \in {WithKey(disk[i], i), WithAccount(disk[i], i), WithGenTx(disk[i], i, cut)} :
             disk' = [disk EXCEPT ![i] = dir]
      BY <1>6 DEF InitNodeFails
    <3> HIDE DEF cut
    <3>2. dir.gentx \in {disk[i].gentx, WithFiles(disk[i].gentx, {cut})}
      BY <1>1, <3>1 DEF WithGenTx, WithAccount, WithKey, Directory
    <3>3. dir.gentx \subseteq disk[i].gentx \cup {cut}
      BY <3>2 DEF WithFiles
    <3> QED BY <1>1, <3>1, <3>3 DEF cut
  <2> QED BY <1>1, <2>1, <2>2, <2>3
<1>7. CASE CopyGenTxs
  <2>1. n = i \/ disk'[n].gentx = disk[n].gentx
    BY <1>1, <1>7 DEF CopyGenTxs
  <2>2. n = i => f \in disk[n].gentx \cup FilesFor(n, args.v)
    BY <1>1, <1>7 DEF CopyGenTxs, WithFiles, Directory
  <2> QED BY <1>1, <1>2, <2>1, <2>2 DEF TypeInv
<1>8. CASE CopyFails
  <2>1. PICK count \in 0..args.v - 1 :
           \E cut \in SUBSET {CutShort(g) : g \in FilesFor(i, count + 1) \ FilesFor(i, count)} :
              disk' = [disk EXCEPT ![i].gentx = WithFiles(@, FilesFor(i, count) \cup cut)]
    BY <1>8 DEF CopyFails
  <2>2. PICK cut \in SUBSET {CutShort(g) : g \in FilesFor(i, count + 1) \ FilesFor(i, count)} :
           disk' = [disk EXCEPT ![i].gentx = WithFiles(@, FilesFor(i, count) \cup cut)]
    BY <2>1
  <2>3. count \in 0..args.v /\ count + 1 \in 0..args.v
    BY DEF TypeInv
  <2>4. n = i \/ disk'[n].gentx = disk[n].gentx
    BY <1>1, <2>2
  <2>5. n = i => f \in disk[n].gentx \cup FilesFor(n, count) \cup cut
    BY <1>1, <2>2 DEF WithFiles, Directory
  <2>6. \A g \in cut : g \in File /\ g.account.run = 0
    BY <2>3, FilesTypes, CutTypes
  <2> QED BY <1>1, <1>2, <2>3, <2>4, <2>5, <2>6
<1>9. Start \/ InitGenFile \/ InitGenFails \/ CollectGenFile \/ CollectFails \/ UNCHANGED tvars
      => disk'[n].gentx = disk[n].gentx
  <2>1. Start \/ UNCHANGED tvars => disk' = disk
    BY DEF Start, tvars
  <2>2. InitGenFile \/ InitGenFails => disk'[n].gentx = disk[n].gentx
    BY <1>1 DEF InitGenFile, InitGenFails, Directory
  <2>3. CollectGenFile => disk'[n].gentx = disk[n].gentx
    BY <1>1 DEF CollectGenFile, Directory
  <2>4. CollectFails => disk'[n].gentx = disk[n].gentx
    <3> SUFFICES ASSUME CollectFails PROVE disk'[n].gentx = disk[n].gentx
      OBVIOUS
    <3>1. PICK dir \in {disk[i], [disk[i] EXCEPT !.config = {}]} \cup
                       {[disk[i] EXCEPT !.config = {}, !.genesis = {Genesis(own)}] : own \in AppStateOf(i)} :
             disk' = [disk EXCEPT ![i] = dir]
      BY DEF CollectFails
    <3>2. dir.gentx = disk[i].gentx
      BY <1>1, <3>1 DEF Directory
    <3> QED BY <1>1, <3>1, <3>2
  <2> QED BY <2>1, <2>2, <2>3, <2>4
<1> QED BY <1>3, <1>4, <1>5, <1>6, <1>7, <1>8, <1>9 DEF TestnetNext

\* A transaction of this run is the one its node was given in the first pass.
TxInv ==
    \A n \in Node : \A f \in disk[n].gentx :
        /\ f.account.run <= run
        /\ Active /\ f.account.run = run => \E k \in Began : f = OwnTx(k)

LEMMA TxInvInit == TestnetInit => TxInv
BY DEF TestnetInit, TxInv, NoDir

LEMMA TxInvStep == TypeInv /\ InitInv /\ TxInv /\ [TestnetNext]_tvars => TxInv'
<1> SUFFICES ASSUME TypeInv, InitInv, TxInv, [TestnetNext]_tvars,
                    NEW n \in Node, NEW f \in disk'[n].gentx
             PROVE  /\ f.account.run <= run'
                    /\ Active' /\ f.account.run = run' => \E k \in Began' : f = OwnTx(k)'
  BY DEF TxInv
<1>1. TypeInv' /\ InitInv'
  BY TypeStep, InitInvStep
<1>2. f.account.run \in Nat /\ run \in Nat /\ run' \in Nat /\ run <= run' /\ (Active' => run' > 0)
  <2>1. f \in File
    <3>1. disk' \in [Node -> Directory]
      BY <1>1 DEF TypeInv
    <3>2. disk'[n] \in Directory
      BY <3>1
    <3> QED BY <3>2 DEF Directory
  <2>2. run <= run'
    <3>1. Start => run' = run + 1
      BY DEF Start
    <3>2. ~Start => run' = run
      BY FailsEnds
         DEF TestnetNext, Fails, tvars, InitNode, InitGenFile, CopyGenTxs, CollectGenFile
    <3> QED BY <3>1, <3>2, TestnetAssumption DEF TypeInv
  <2> QED BY <1>1, <2>1, <2>2, TestnetAssumption DEF TypeInv, File, AccountOrNone
<1>3. CASE f \in File /\ f.account.run = 0
  BY <1>2, <1>3
<1>4. CASE InitNode /\ n = i /\ f = GenTx(n)
  <2>1. Began' = Began \cup {n} /\ Active'
    BY <1>4, ProgressOfInit
  <2>2. f.id = made'.ids[n + 1]
    <3>1. disk'[n].key = {made'.ids[n + 1]}
      BY <1>1, <2>1 DEF InitInv, NodeDone
    <3>2. disk'[n].key = {KeyOf(n)}
      BY <1>4 DEF InitNode, TypeInv, WithGenTx, WithAccount, WithKey, Directory
    <3> QED BY <1>4, <3>1, <3>2 DEF GenTx
  <2>3. f = OwnTx(n)'
    BY <1>4, <2>2 DEF GenTx, OwnTx, Account, Born, StakeOf, InitNode
  <2>4. f.account.run = run'
    BY <1>4 DEF GenTx, Account, Born, InitNode
  <2> QED BY <1>2, <2>1, <2>3, <2>4
<1>5. CASE \E m \in Node : f \in disk[m].gentx
  <2>1. /\ f.account.run <= run
        /\ Active /\ f.account.run = run => \E k \in Began : f = OwnTx(k)
    BY <1>5 DEF TxInv
  <2>2. CASE Start
    BY <1>2, <2>1, <2>2 DEF Start, TypeInv
  <2>3. CASE ~Start /\ Active'
    <3>1. Active /\ run' = run /\ Began \subseteq Began'
      BY <2>3, FailsEnds, ProgressOfInit, ProgressOfGenesis, ProgressOfCopy, ProgressOfCollect
         DEF TestnetNext, Fails, InitNode, InitGenFile, CopyGenTxs, CollectGenFile,
             tvars, Active, Began, Network
    <3>2. \A k \in Began : OwnTx(k)' = OwnTx(k)
      <4>1. CASE InitNode
        <5>1. Began = 0..i - 1 /\ made.ids \in Seq(Key) /\ Len(made.ids) = i /\ i \in Nat
          BY <4>1, ProgressOfInit, NetworkIsNodes DEF InitInv, InitNode, TypeInv, Locals, Network
        <5>2. made'.ids = Append(made.ids, KeyOf(i)) /\ KeyOf(i) \in Key
          BY <4>1, ProgressOfInit, NodeTypes, NetworkIsNodes DEF InitNode, TypeInv, Locals
        <5>3. \A k \in Began : made'.ids[k + 1] = made.ids[k + 1]
          BY <5>1, <5>2
        <5> QED BY <4>1, <5>3 DEF OwnTx, Born, StakeOf, InitNode
      <4>2. CASE ~InitNode
        <5>1. UNCHANGED <<run, args, made.ids>>
          BY <2>3, <4>2, FailsEnds DEF TestnetNext, Fails, InitGenFile, CopyGenTxs,
             CollectGenFile, tvars, TypeInv, Locals
        <5> QED BY <5>1 DEF OwnTx, Born, StakeOf
      <4> QED BY <4>1, <4>2
    <3> QED BY <2>1, <3>1, <3>2
  <2>4. CASE ~Active'
    BY <1>2, <2>1, <2>4
  <2> QED BY <2>2, <2>3, <2>4
<1> QED BY <1>3, <1>4, <1>5, FilesOfStep

-----------------------------------------------------------------------------
(* What the other passes make of it.                                       *)

\* Everybody has everybody's transaction.
CopyInv == Active => \A n \in HasCopies, k \in Network : OwnTx(k) \in disk[n].gentx

\* The state that comes out of it, in the end everywhere.
Full == [accounts |-> made.accounts, gentxs |-> {OwnTx(k) : k \in Network}]
Empty == [chain |-> run, accounts |-> made.accounts, gentxs |-> {}]
StateInv ==
    Active =>
        /\ \A n \in HasGenesis \ Collected : disk[n].genesis = {Empty}
        /\ \A n \in Collected : disk[n].genesis = {Genesis(Full)} /\ disk[n].config = {Config(n)}
        /\ phase \in {"init", "genesis", "copy"} => made.appState = {}
        /\ made.appState \subseteq {Full}

\* A node's own transaction stays the same while keys and arguments do.
LEMMA OwnTxStays ==
    ASSUME UNCHANGED <<run, args, made.ids>>
    PROVE  \A k : OwnTx(k)' = OwnTx(k)
BY DEF OwnTx, Born, StakeOf

LEMMA CopyInvInit == TestnetInit => CopyInv /\ StateInv
BY DEF TestnetInit, CopyInv, StateInv, Active, Passes

LEMMA CopyInvStep == TypeInv /\ InitInv /\ CopyInv /\ [TestnetNext]_tvars => CopyInv'
<1> SUFFICES ASSUME TypeInv, InitInv, CopyInv, [TestnetNext]_tvars, Active' PROVE CopyInv'
  BY DEF CopyInv
<1>1. i \in Node /\ Network \subseteq Node /\ disk \in [Node -> Directory]
  BY NetworkIsNodes DEF TypeInv
<1>2. Start \/ InitNode \/ InitGenFile => HasCopies' = {}
  BY ProgressOfStart, ProgressOfInit, ProgressOfGenesis
<1>3. CASE CopyGenTxs
  <2>1. /\ Active /\ HasCopies' = HasCopies \cup {i} /\ Began = Network
        /\ UNCHANGED <<run, args, made>> /\ phase = "copy"
    BY <1>3, ProgressOfCopy DEF CopyGenTxs
  <2>2. \A k \in Network : OwnTx(k)' = OwnTx(k) /\ OwnTx(k) \in disk[k].gentx
    BY <2>1, OwnTxStays DEF InitInv, NodeDone
  <2>3. ASSUME NEW n \in HasCopies, n # i PROVE disk'[n] = disk[n]
    BY <1>1, <1>3, <2>3 DEF CopyGenTxs, HasCopies
  <2>4. disk'[i].gentx = WithFiles(disk[i].gentx, FilesFor(i, args.v))
    BY <1>1, <1>3 DEF CopyGenTxs, Directory
  <2>5. OwnTx(i) \in disk'[i].gentx
    BY <2>1, <2>4, OwnTxSurvives DEF TypeInv
  <2>6. ASSUME NEW k \in Network, k # i PROVE OwnTx(k) \in disk'[i].gentx
    <3>1. OwnTx(k) \in FilesFor(i, args.v)
      <4>1. OwnTx(k) \in {f \in disk[k].gentx : f.id = made.ids[k + 1]}
        BY <2>2 DEF OwnTx
      <4>2. k \in (0..args.v - 1) \ {i}
        BY <2>6 DEF Network
      <4> QED BY <4>1, <4>2 DEF FilesFor
    <3> QED BY <2>4, <3>1 DEF WithFiles
  <2>7. \A n \in HasCopies \cup {i}, k \in Network : OwnTx(k) \in disk'[n].gentx
    BY <2>1, <2>3, <2>5, <2>6 DEF CopyInv
  <2>8. Network' = Network
    BY <2>1 DEF Network
  <2> QED BY <2>1, <2>2, <2>7, <2>8 DEF CopyInv
<1>4. CASE CollectGenFile
  <2>1. Active /\ HasCopies' = Network /\ HasCopies = Network /\ UNCHANGED <<run, args, made.ids>>
    BY <1>4, ProgressOfCollect DEF CollectGenFile, TypeInv, Locals
  <2>2. \A n \in Network : disk'[n].gentx = disk[n].gentx
    BY <1>1, <1>4 DEF CollectGenFile, Directory
  <2>3. Network' = Network
    BY <2>1 DEF Network
  <2> QED BY <2>1, <2>2, <2>3, OwnTxStays DEF CopyInv
<1>5. CASE UNCHANGED tvars
  <2>1. Active /\ HasCopies' = HasCopies /\ Network' = Network
    BY <1>5 DEF tvars, Active, HasCopies, Network
  <2> QED BY <1>5, <2>1, OwnTxStays DEF tvars, CopyInv
<1> QED BY <1>2, <1>3, <1>4, <1>5, FailsEnds DEF TestnetNext, Fails, CopyInv

\* What can be made of a directory with everybody's files, if it can be at all.
LEMMA OneState ==
    ASSUME TypeInv, InitInv, TxInv, CopyInv, StateInv, phase = "collect"
    PROVE  AppStateOf(i) \subseteq {Full}
<1>1. /\ Active /\ Began = Network /\ HasCopies = Network
      /\ i \in HasGenesis \ Collected /\ i \in Node /\ i \in Network /\ Network \subseteq Node
  BY NetworkIsNodes DEF Active, Passes, Began, HasGenesis, HasCopies, Collected, TypeInv, Network
<1> SUFFICES ASSUME NEW g \in disk[i].genesis,
                    \A f \in disk[i].gentx : f.account \in g.accounts
             PROVE  [accounts |-> g.accounts, gentxs |-> disk[i].gentx] = Full
  BY DEF AppStateOf
<1>2. g.accounts = made.accounts
  BY <1>1 DEF StateInv, Empty
<1>3. ASSUME NEW f \in disk[i].gentx PROVE f \in {OwnTx(k) : k \in Network}
  <2>1. f.account \in {Born(k) : k \in Network}
    BY <1>1, <1>2 DEF InitInv
  <2>2. f.account.run = run
    BY <2>1 DEF Born
  <2> QED BY <1>1, <2>2 DEF TxInv
<1>4. {OwnTx(k) : k \in Network} \subseteq disk[i].gentx
  BY <1>1 DEF CopyInv
<1> QED BY <1>2, <1>3, <1>4 DEF Full

LEMMA StateInvStep ==
    TypeInv /\ InitInv /\ TxInv /\ CopyInv /\ StateInv /\ [TestnetNext]_tvars => StateInv'
<1> SUFFICES ASSUME TypeInv, InitInv, TxInv, CopyInv, StateInv, [TestnetNext]_tvars, Active'
             PROVE  StateInv'
  BY DEF StateInv
<1>1. i \in Node /\ Network \subseteq Node /\ disk \in [Node -> Directory] /\ made \in Locals
  BY NetworkIsNodes DEF TypeInv
<1>2. CASE Start
  BY <1>2, ProgressOfStart DEF Start, StateInv, Nothing
<1>3. CASE InitNode
  <2>1. made'.appState = made.appState /\ phase = "init"
    BY <1>1, <1>3 DEF InitNode, Locals
  <2> QED BY <1>3, <2>1, ProgressOfInit DEF StateInv
<1>4. ASSUME UNCHANGED <<run, args, made.ids, made.accounts, made.peers>>
      PROVE  /\ Network' = Network /\ Full' = Full /\ Empty' = Empty /\ Genesis(Full)' = Genesis(Full)
             /\ \A n : Config(n)' = Config(n)
  <2>1. Network' = Network /\ \A k : OwnTx(k)' = OwnTx(k)
    BY <1>4, OwnTxStays DEF Network
  <2>2. Full' = Full
    BY <1>4, <2>1 DEF Full
  <2> QED BY <1>4, <2>1, <2>2
          DEF Empty, Genesis, Config, P2PPort, RPCPort, ProxyPort, MetricsPort, GRPCPort
<1>5. CASE InitGenFile
  <2>1. /\ Active /\ HasGenesis' = HasGenesis \cup {i} /\ Collected' = {} /\ Collected = {}
        /\ UNCHANGED <<run, args, made>> /\ phase = "genesis"
    BY <1>5, ProgressOfGenesis DEF InitGenFile, Collected
  <2>2. Full' = Full /\ Empty' = Empty
    BY <1>4, <2>1
  <2>3. disk'[i].genesis = {Empty}
    BY <1>1, <1>5 DEF InitGenFile, Directory, Empty
  <2>4. \A n \in HasGenesis : n # i => disk'[n] = disk[n]
    BY <1>1, <1>5 DEF InitGenFile, HasGenesis
  <2>5. \A n \in HasGenesis \cup {i} : disk'[n].genesis = {Empty}
    BY <2>1, <2>3, <2>4 DEF StateInv
  <2> QED BY <2>1, <2>2, <2>5 DEF StateInv
<1>6. CASE CopyGenTxs
  <2>1. /\ Active /\ HasGenesis' = Network /\ HasGenesis = Network /\ Collected' = {} /\ Collected = {}
        /\ UNCHANGED <<run, args, made>> /\ phase = "copy"
    BY <1>6, ProgressOfCopy DEF CopyGenTxs
  <2>2. Full' = Full /\ Empty' = Empty
    BY <1>4, <2>1
  <2>3. \A n \in Network : disk'[n].genesis = disk[n].genesis
    BY <1>1, <1>6 DEF CopyGenTxs, Directory
  <2> QED BY <2>1, <2>2, <2>3 DEF StateInv
<1>7. CASE CollectGenFile
  <2>1. /\ Active /\ phase = "collect" /\ phase' \in {"collect", "done"}
        /\ HasGenesis' = Network /\ HasGenesis = Network
        /\ Collected' = Collected \cup {i} /\ i \notin Collected /\ Collected \subseteq Network
        /\ UNCHANGED <<run, args, made.ids, made.accounts, made.peers>>
    BY <1>1, <1>7, ProgressOfCollect DEF CollectGenFile, NextNode, Collected, Locals
  <2>2. PICK own \in AppStateOf(i) :
           \E state \in IF made.appState = {} THEN {own} ELSE made.appState :
              /\ disk' = [disk EXCEPT ![i].config = {Config(i)}, ![i].genesis = {Genesis(state)}]
              /\ made' = [made EXCEPT !.appState = {state}]
    BY <1>7 DEF CollectGenFile
  <2>3. PICK state \in IF made.appState = {} THEN {own} ELSE made.appState :
              /\ disk' = [disk EXCEPT ![i].config = {Config(i)}, ![i].genesis = {Genesis(state)}]
              /\ made' = [made EXCEPT !.appState = {state}]
    BY <2>2
  <2>4. state = Full
    BY <2>1, <2>3, OneState DEF StateInv
  <2>5. made'.appState = {Full}
    BY <1>1, <2>3, <2>4 DEF Locals
  <2>6. disk'[i].config = {Config(i)} /\ disk'[i].genesis = {Genesis(Full)}
    BY <1>1, <2>3, <2>4 DEF Directory
  <2>7. \A n \in Network : n # i => disk'[n] = disk[n]
    BY <1>1, <2>3
  <2>8. /\ Network' = Network /\ Full' = Full /\ Empty' = Empty /\ Genesis(Full)' = Genesis(Full)
        /\ \A n : Config(n)' = Config(n)
    BY <1>4, <2>1
  <2>9. \A n \in Network \ Collected' : disk'[n].genesis = {Empty}
    BY <2>1, <2>7 DEF StateInv
  <2>10. \A n \in Collected' : disk'[n].genesis = {Genesis(Full)} /\ disk'[n].config = {Config(n)}
    BY <1>1, <2>1, <2>6, <2>7 DEF StateInv
  <2> QED BY <2>1, <2>5, <2>8, <2>9, <2>10 DEF StateInv
<1>8. CASE UNCHANGED tvars
  <2>1. Active /\ HasGenesis' = HasGenesis /\ Collected' = Collected
    BY <1>8 DEF tvars, Active, HasGenesis, Collected, Network
  <2>2. /\ Full' = Full /\ Empty' = Empty /\ Genesis(Full)' = Genesis(Full)
        /\ \A n : Config(n)' = Config(n)
    BY <1>4, <1>8 DEF tvars
  <2> QED BY <1>8, <2>1, <2>2 DEF tvars, StateInv
<1> QED BY <1>2, <1>3, <1>5, <1>6, <1>7, <1>8, FailsEnds DEF TestnetNext, Fails

-----------------------------------------------------------------------------
(* Names of files.                                                         *)

\* A directory has one file of a name, and the name is the key of a node that still
\* has it: nothing removes a key but what removes everything.
NameInv ==
    /\ \A n \in Node : \A f, g \in disk[n].gentx : f.id = g.id => f = g
    /\ \A n \in Node : \A f \in disk[n].gentx : disk[f.id.node].key = {f.id}

LEMMA NameInvInit == TestnetInit => NameInv
BY DEF TestnetInit, NameInv, NoDir

LEMMA NamesKept ==
    ASSUME TypeInv, NameInv,
           \A n \in Node : disk'[n].gentx = disk[n].gentx /\ disk'[n].key = disk[n].key
    PROVE  NameInv'
<1>1. \A n \in Node : \A f \in disk[n].gentx : f.id.node \in Node
  BY DEF TypeInv, Directory, File, Key
<1> QED BY <1>1 DEF NameInv

\* One more file, named as the directory's node.
LEMMA NamesOfOwn ==
    ASSUME TypeInv, NameInv, phase \in Passes, NEW gentx \in File, gentx.id = KeyOf(i),
           \A n \in Node : n # i => disk'[n] = disk[n],
           disk'[i].key = {KeyOf(i)},
           disk'[i].gentx \in {disk[i].gentx, WithFiles(disk[i].gentx, {gentx})}
    PROVE  NameInv'
<1>1. i \in Node /\ KeyOf(i) \in Key /\ KeyOf(i).node = i
  BY NetworkIsNodes, NodeTypes DEF Active
<1>2. \A n \in Node : \A f \in disk'[n].gentx : f \in disk[n].gentx \/ (n = i /\ f = gentx)
  BY <1>1 DEF WithFiles
<1>3. ASSUME NEW n \in Node, NEW f \in disk[n].gentx PROVE disk'[f.id.node].key = {f.id}
  <2>1. f.id.node \in Node /\ disk[f.id.node].key = {f.id}
    BY <1>3 DEF TypeInv, Directory, File, Key, NameInv
  <2>2. f.id.node = i => KeyOf(i) = f.id
    BY <2>1 DEF KeyOf
  <2> QED BY <1>1, <2>1, <2>2
<1>4. \A n \in Node : \A f \in disk'[n].gentx : disk'[f.id.node].key = {f.id}
  BY <1>1, <1>2, <1>3
<1>5. \A n \in Node : \A f, g \in disk'[n].gentx : f.id = g.id => f = g
  BY <1>1 DEF NameInv, WithFiles
<1> QED BY <1>4, <1>5 DEF NameInv

\* Files from other directories, each named once and as the node it comes from.
LEMMA NamesOfCopies ==
    ASSUME TypeInv, NameInv, NEW files \in SUBSET File,
           \A f, g \in files : f.id = g.id => f = g,
           \A f \in files : disk[f.id.node].key = {f.id},
           disk' = [disk EXCEPT ![i].gentx = WithFiles(@, files)]
    PROVE  NameInv'
<1>1. i \in Node /\ disk \in [Node -> Directory]
  BY NetworkIsNodes DEF TypeInv
<1>2. \A n \in Node : /\ disk'[n].key = disk[n].key
                      /\ disk'[n].gentx = IF n = i THEN WithFiles(disk[n].gentx, files) ELSE disk[n].gentx
  <2> DEFINE dir == [disk[i] EXCEPT !.gentx = WithFiles(@, files)]
  <2>1. dir.key = disk[i].key /\ dir.gentx = WithFiles(disk[i].gentx, files)
    BY <1>1 DEF Directory
  <2>2. disk' = [disk EXCEPT ![i] = dir]
    OBVIOUS
  <2> HIDE DEF dir
  <2> QED BY <1>1, <2>1, <2>2
<1>3. \A n \in Node : \A f \in disk'[n].gentx : f.id.node \in Node /\ disk[f.id.node].key = {f.id}
  <2>1. ASSUME NEW n \in Node, NEW f \in disk'[n].gentx
        PROVE  f \in File /\ disk[f.id.node].key = {f.id}
    <3>1. f \in disk[n].gentx \/ f \in files
      BY <1>1, <1>2 DEF WithFiles
    <3>2. disk[n].gentx \subseteq File
      BY <1>1 DEF Directory
    <3> QED BY <3>1, <3>2 DEF NameInv
  <2> QED BY <2>1 DEF File, Key
<1>4. \A n \in Node : \A f, g \in disk'[n].gentx : f.id = g.id => f = g
  BY <1>2 DEF NameInv, WithFiles
<1>5. \A n \in Node : \A f \in disk'[n].gentx : disk'[f.id.node].key = {f.id}
  BY <1>2, <1>3
<1> QED BY <1>4, <1>5 DEF NameInv

LEMMA FilesForNames ==
    ASSUME TypeInv, InitInv, NameInv, phase = "copy", NEW n, NEW count \in 0..args.v,
           NEW f \in FilesFor(n, count)
    PROVE  /\ \E k \in 0..count - 1 : f \in disk[k].gentx /\ f.id = made.ids[k + 1] /\ f.id.node = k
           /\ \A g \in FilesFor(n, count) : f.id = g.id => f = g
           /\ disk[f.id.node].key = {f.id}
<1>1. ASSUME NEW g \in FilesFor(n, count)
      PROVE  \E k \in 0..count - 1 :
                 k \in Node /\ g \in disk[k].gentx /\ g.id = made.ids[k + 1] /\ g.id.node = k
  <2>1. PICK k \in (0..count - 1) \ {n} : g \in {h \in disk[k].gentx : h.id = made.ids[k + 1]}
    BY <1>1 DEF FilesFor
  <2>2. k \in Network /\ k \in Node
    BY NetworkIsNodes, Shapes DEF Network
  <2>3. made.ids[k + 1].node = k
    BY <2>2 DEF InitInv, NodeDone, Active, Passes, Began
  <2> QED BY <2>1, <2>2, <2>3
<1> QED BY <1>1 DEF NameInv

LEMMA NameInvStep == TypeInv /\ InitInv /\ NameInv /\ [TestnetNext]_tvars => NameInv'
<1> SUFFICES ASSUME TypeInv, InitInv, NameInv, [TestnetNext]_tvars PROVE NameInv'
  OBVIOUS
<1>1. i \in Node /\ disk \in [Node -> Directory] /\ disk[i] \in Directory
  BY NetworkIsNodes DEF TypeInv
<1>2. Start \/ UNCHANGED tvars => NameInv'
  BY NamesKept DEF Start, tvars
<1>3. CASE InitGenFile \/ InitGenFails
  BY <1>1, <1>3, NamesKept DEF InitGenFile, InitGenFails, Directory
<1>4. CASE CollectGenFile
  BY <1>1, <1>4, NamesKept DEF CollectGenFile, Directory
<1>5. CASE CollectFails
  <2>1. PICK dir \in {disk[i], [disk[i] EXCEPT !.config = {}]} \cup
                     {[disk[i] EXCEPT !.config = {}, !.genesis = {Genesis(own)}] : own \in AppStateOf(i)} :
           disk' = [disk EXCEPT ![i] = dir]
    BY <1>5 DEF CollectFails
  <2>2. dir.gentx = disk[i].gentx /\ dir.key = disk[i].key
    BY <1>1, <2>1 DEF Directory
  <2> QED BY <1>1, <2>1, <2>2, NamesKept
<1>6. CASE InitNode
  <2>1. phase \in Passes /\ GenTx(i) \in File /\ GenTx(i).id = KeyOf(i)
    BY <1>1, <1>6, ProgressOfInit, NodeTypes DEF InitNode, Passes, GenTx
  <2>2. /\ \A n \in Node : n # i => disk'[n] = disk[n]
        /\ disk'[i].key = {KeyOf(i)} /\ disk'[i].gentx = WithFiles(disk[i].gentx, {GenTx(i)})
    BY <1>1, <1>6 DEF InitNode, WithGenTx, WithAccount, WithKey, Directory
  <2> QED BY <2>1, <2>2, NamesOfOwn
<1>7. CASE InitNodeCleansUp
  BY <1>7 DEF InitNodeCleansUp, NameInv, NoDir
<1>8. CASE InitNodeFails
  <2> DEFINE cut == CutShort(GenTx(i))
  <2>1. phase \in Passes /\ cut \in File /\ cut.id = KeyOf(i)
    BY <1>1, <1>8, NodeTypes, CutTypes DEF InitNodeFails, Passes, Active, GenTx
  <2>2. PICK dir \in {WithKey(disk[i], i), WithAccount(disk[i], i), WithGenTx(disk[i], i, cut)} :
               disk' = [disk EXCEPT ![i] = dir]
    BY <1>8 DEF InitNodeFails
  <2> HIDE DEF cut
  <2>3. dir.key = {KeyOf(i)} /\ dir.gentx \in {disk[i].gentx, WithFiles(disk[i].gentx, {cut})}
    BY <1>1, <2>2 DEF WithGenTx, WithAccount, WithKey, Directory
  <2>4. (\A n \in Node : n # i => disk'[n] = disk[n]) /\ disk'[i] = dir
    BY <1>1, <2>2
  <2> QED BY <2>1, <2>3, <2>4, NamesOfOwn
<1>9. CASE CopyGenTxs
  <2>1. phase = "copy" /\ args.v \in 0..args.v
    BY <1>9 DEF CopyGenTxs, TypeInv
  <2>2. FilesFor(i, args.v) \in SUBSET File
    BY <2>1, FilesTypes
  <2>3. \A f, g \in FilesFor(i, args.v) : f.id = g.id => f = g
    BY <2>1, FilesForNames
  <2>4. \A f \in FilesFor(i, args.v) : disk[f.id.node].key = {f.id}
    BY <2>1, FilesForNames
  <2> QED BY <1>9, <2>2, <2>3, <2>4, NamesOfCopies DEF CopyGenTxs
<1>10. CASE CopyFails
  <2>1. PICK count \in 0..args.v - 1 :
           \E cut \in SUBSET {CutShort(g) : g \in FilesFor(i, count + 1) \ FilesFor(i, count)} :
              disk' = [disk EXCEPT ![i].gentx = WithFiles(@, FilesFor(i, count) \cup cut)]
    BY <1>10 DEF CopyFails
  <2>2. PICK cut \in SUBSET {CutShort(g) : g \in FilesFor(i, count + 1) \ FilesFor(i, count)} :
           disk' = [disk EXCEPT ![i].gentx = WithFiles(@, FilesFor(i, count) \cup cut)]
    BY <2>1
  <2>3. phase = "copy" /\ count \in 0..args.v /\ count + 1 \in 0..args.v
    BY <1>10 DEF CopyFails, TypeInv
  <2>4. FilesFor(i, count) \subseteq File /\ FilesFor(i, count + 1) \subseteq File
    BY <2>3, FilesTypes
  <2>5. \A f \in cut : \E g \in FilesFor(i, count + 1) \ FilesFor(i, count) :
           f = CutShort(g) /\ g \in File /\ f \in File /\ f.id = g.id
    BY <2>4, CutTypes
  <2>6. ASSUME NEW f \in FilesFor(i, count)
        PROVE  f.id.node < count /\ disk[f.id.node].key = {f.id}
    <3>1. /\ \E k \in 0..count - 1 : f.id.node = k
          /\ disk[f.id.node].key = {f.id}
      BY <2>3, FilesForNames
    <3> QED BY <3>1
  <2>7. ASSUME NEW g \in FilesFor(i, count + 1) \ FilesFor(i, count)
        PROVE  g.id.node = count /\ disk[g.id.node].key = {g.id}
    <3>1. PICK k \in 0..count : g \in disk[k].gentx /\ g.id = made.ids[k + 1] /\ g.id.node = k /\ k # i
      <4>1. PICK m \in (0..(count + 1) - 1) \ {i} : g \in {h \in disk[m].gentx : h.id = made.ids[m + 1]}
        BY <2>7 DEF FilesFor
      <4>2. m \in Network /\ m \in 0..count
        BY NetworkIsNodes, Shapes DEF Network
      <4>3. made.ids[m + 1].node = m
        BY <2>3, <4>2 DEF InitInv, NodeDone, Active, Passes, Began
      <4> QED BY <4>1, <4>2, <4>3
    <3>2. k = count
      <4> SUFFICES ASSUME k \in 0..count - 1 PROVE FALSE
        BY <2>3
      <4>1. g \in {h \in disk[k].gentx : h.id = made.ids[k + 1]} /\ k \in (0..count - 1) \ {i}
        BY <3>1
      <4>2. g \in FilesFor(i, count)
        BY <4>1 DEF FilesFor
      <4> QED BY <2>7, <4>2
    <3> QED BY <2>3, <2>7, <3>1, <3>2, FilesForNames
  <2> DEFINE files == FilesFor(i, count) \cup cut
  <2>8. files \in SUBSET File
    BY <2>4, <2>5
  <2>9. \A f \in files : disk[f.id.node].key = {f.id}
    BY <2>5, <2>6, <2>7
  <2>10. ASSUME NEW f \in files, NEW g \in files, f.id = g.id PROVE f = g
    <3>1. CASE f \in FilesFor(i, count) /\ g \in FilesFor(i, count)
      BY <2>3, <2>10, <3>1, FilesForNames
    <3>2. CASE f \in cut /\ g \in cut
      BY <2>3, <2>5, <2>10, <3>2, FilesForNames
    <3>3. f \in FilesFor(i, count) => f.id.node < count
      BY <2>6
    <3>4. f \in cut => f.id.node = count
      BY <2>5, <2>7
    <3>5. g \in FilesFor(i, count) => g.id.node < count
      BY <2>6
    <3>6. g \in cut => g.id.node = count
      BY <2>5, <2>7
    <3> QED BY <2>3, <2>10, <3>1, <3>2, <3>3, <3>4, <3>5, <3>6
  <2> QED BY <2>2, <2>8, <2>9, <2>10, NamesOfCopies
<1> QED BY <1>2, <1>3, <1>4, <1>5, <1>6, <1>7, <1>8, <1>9, <1>10 DEF TestnetNext

-----------------------------------------------------------------------------
(* One of each.                                                            *)

\* Whoever writes a key, an account, a genesis or a configuration replaces the one
\* that was there.
AtMostOne(files) == \A f, g \in files : f = g
OneOfEach(dir) == /\ AtMostOne(dir.key) /\ AtMostOne(dir.account)
                  /\ AtMostOne(dir.genesis) /\ AtMostOne(dir.config)
SingleInv == \A n \in Node : OneOfEach(disk[n])

LEMMA SingleInvInit == TestnetInit => SingleInv
BY DEF TestnetInit, SingleInv, NoDir, OneOfEach, AtMostOne

LEMMA SingleAfterWrite ==
    ASSUME TypeInv, SingleInv, NEW dir, OneOfEach(dir), disk' = [disk EXCEPT ![i] = dir]
    PROVE  SingleInv'
<1>1. disk \in [Node -> Directory]
  BY DEF TypeInv
<1> QED BY <1>1 DEF SingleInv, OneOfEach

LEMMA SingleInvStep == TypeInv /\ SingleInv /\ [TestnetNext]_tvars => SingleInv'
<1> SUFFICES ASSUME TypeInv, SingleInv, [TestnetNext]_tvars PROVE SingleInv'
  OBVIOUS
<1>1. i \in Node /\ disk \in [Node -> Directory] /\ disk[i] \in Directory
  BY NetworkIsNodes DEF TypeInv
<1>2. OneOfEach(disk[i])
  BY <1>1 DEF SingleInv
<1>3. CASE Start \/ UNCHANGED tvars
  BY <1>3 DEF Start, tvars, SingleInv, OneOfEach
<1>4. \A gentx : /\ OneOfEach(WithKey(disk[i], i)) /\ OneOfEach(WithAccount(disk[i], i))
                 /\ OneOfEach(WithGenTx(disk[i], i, gentx))
  BY <1>1, <1>2 DEF WithKey, WithAccount, WithGenTx, Directory, OneOfEach, AtMostOne
<1>5. CASE InitNode
  BY <1>4, <1>5, SingleAfterWrite DEF InitNode
<1>6. CASE InitNodeCleansUp
  BY <1>6 DEF InitNodeCleansUp, SingleInv, NoDir, OneOfEach, AtMostOne
<1>7. CASE InitNodeFails
  BY <1>4, <1>7, SingleAfterWrite DEF InitNodeFails
<1>8. ASSUME NEW genesis, AtMostOne(genesis), disk' = [disk EXCEPT ![i].genesis = genesis]
      PROVE  SingleInv'
  <2>1. OneOfEach([disk[i] EXCEPT !.genesis = genesis])
    BY <1>1, <1>2, <1>8 DEF Directory, OneOfEach
  <2> QED BY <1>8, <2>1, SingleAfterWrite
<1>9. CASE InitGenFile \/ InitGenFails
  <2>1. AtMostOne(disk[i].genesis) /\ AtMostOne({})
    BY <1>2 DEF OneOfEach, AtMostOne
  <2>2. AtMostOne({[chain |-> run, accounts |-> made.accounts, gentxs |-> {}]})
    BY DEF AtMostOne
  <2>3. \E genesis : AtMostOne(genesis) /\ disk' = [disk EXCEPT ![i].genesis = genesis]
    BY <1>9, <2>1, <2>2 DEF InitGenFile, InitGenFails
  <2> QED BY <1>8, <2>3
<1>10. ASSUME NEW gentxs, disk' = [disk EXCEPT ![i].gentx = gentxs] PROVE SingleInv'
  <2>1. OneOfEach([disk[i] EXCEPT !.gentx = gentxs])
    BY <1>1, <1>2 DEF Directory, OneOfEach
  <2> QED BY <1>10, <2>1, SingleAfterWrite
<1>11. CASE CopyGenTxs \/ CopyFails
  BY <1>10, <1>11 DEF CopyGenTxs, CopyFails
<1>12. ASSUME NEW config, AtMostOne(config)
       PROVE  /\ OneOfEach([disk[i] EXCEPT !.config = config])
              /\ \A doc : OneOfEach([disk[i] EXCEPT !.config = config, !.genesis = {doc}])
  BY <1>1, <1>2, <1>12 DEF Directory, OneOfEach, AtMostOne
<1>13. CASE CollectGenFile
  <2>1. PICK state :
           disk' = [disk EXCEPT ![i].config = {Config(i)}, ![i].genesis = {Genesis(state)}]
    BY <1>13 DEF CollectGenFile
  <2>2. disk' = [disk EXCEPT ![i] =
                    [disk[i] EXCEPT !.config = {Config(i)}, !.genesis = {Genesis(state)}]]
    BY <1>1, <2>1
  <2>3. AtMostOne({Config(i)})
    BY DEF AtMostOne
  <2> QED BY <1>12, <2>2, <2>3, SingleAfterWrite
<1>14. CASE CollectFails
  <2>1. AtMostOne({})
    BY DEF AtMostOne
  <2> QED BY <1>2, <1>12, <1>14, <2>1, SingleAfterWrite DEF CollectFails
<1> QED BY <1>3, <1>5, <1>6, <1>7, <1>9, <1>11, <1>13, <1>14 DEF TestnetNext

-----------------------------------------------------------------------------
(* The theorems.                                                           *)

NetInv == TypeInv /\ InitInv /\ TxInv /\ CopyInv /\ StateInv /\ NameInv /\ SingleInv

LEMMA NetInvHolds == TestnetSpec => []NetInv
<1>1. TestnetInit => NetInv
  BY TypeInit, InitInvInit, TxInvInit, CopyInvInit, NameInvInit, SingleInvInit DEF NetInv
<1>2. NetInv /\ [TestnetNext]_tvars => NetInv'
  BY TypeStep, InitInvStep, TxInvStep, CopyInvStep, StateInvStep, NameInvStep, SingleInvStep
     DEF NetInv
<1> QED BY <1>1, <1>2, PTL DEF TestnetSpec

\* Types, one file of a kind, and no two transactions of a name: no run, whatever it
\* finds and wherever it fails, leaves a directory with two keys, two accounts, two
\* genesis files or two configurations.
THEOREM TestnetTypeCorrect == TestnetSpec => []TestnetTypeOK
<1>1. ASSUME NetInv PROVE TestnetTypeOK
  <2>1. TypeInv /\ NameInv /\ SingleInv
    BY <1>1 DEF NetInv
  <2>2. \A files : AtMostOne(files) => Cardinality(files) <= 1
    <3> SUFFICES ASSUME NEW files, AtMostOne(files) PROVE Cardinality(files) <= 1
      OBVIOUS
    <3>1. CASE files = {}
      BY <3>1, FS_EmptySet
    <3>2. CASE files # {}
      <4>1. PICK f \in files : TRUE
        BY <3>2
      <4>2. files = {f}
        BY <4>1 DEF AtMostOne
      <4> QED BY <4>2, FS_Singleton
    <3> QED BY <3>1, <3>2
  <2>3. ASSUME NEW n \in Node
        PROVE  /\ disk[n] \in Dir
               /\ \A file \in {"key", "account", "genesis", "config"} : Cardinality(disk[n][file]) <= 1
               /\ \A f, g \in disk[n].gentx : f.id = g.id => f = g
    <3>1. disk[n] \in Dir
      BY <2>1 DEF TypeInv, Directory, Dir, File, GenesisDoc, ConfigFile, Peer
    <3>2. /\ Cardinality(disk[n].key) <= 1 /\ Cardinality(disk[n].account) <= 1
          /\ Cardinality(disk[n].genesis) <= 1 /\ Cardinality(disk[n].config) <= 1
      BY <2>1, <2>2 DEF SingleInv, OneOfEach
    <3> QED BY <2>1, <3>1, <3>2 DEF NameInv
  <2> QED BY <2>1, <2>3 DEF TypeInv, Passes, TestnetTypeOK
<1> QED BY <1>1, NetInvHolds, PTL

\* collectGenFiles' comment holds: what the nodes make of their own directories does
\* not differ, so that it does not matter whose state is written to all.
THEOREM StatesNeverDiffer == TestnetSpec => []StatesDoNotDiffer
<1>1. NetInv => StatesDoNotDiffer
  <2> SUFFICES ASSUME NetInv, phase = "collect", NEW state \in made.appState
               PROVE  AppStateOf(i) \subseteq {state}
    BY DEF StatesDoNotDiffer
  <2>1. state = Full
    BY DEF NetInv, StateInv, Active, Passes
  <2> QED BY <2>1, OneState DEF NetInv
<1> QED BY <1>1, NetInvHolds, PTL

\* At the end of a run every node has been through every pass.
LEMMA AtTheEnd ==
    ASSUME NetInv, phase = "done"
    PROVE  /\ Active /\ Began = Network /\ Collected = Network
           /\ \A n \in Network : NodeDone(n) /\ disk[n].genesis = {Genesis(Full)}
                                /\ disk[n].config = {Config(n)}
BY DEF NetInv, InitInv, StateInv, Active, Passes, Began, Collected

LEMMA TheOnly == \A x : The({x}) = x
BY DEF The

\* A run of initTestnetFiles that reports success leaves one network, whatever earlier
\* runs, finished or broken off, had left in the output directory.
THEOREM SuccessMakesOneNetwork == TestnetSpec => []NetworkIsOne
<1>1. NetInv => NetworkIsOne
  <2> SUFFICES ASSUME NetInv, phase = "done", NEW n \in Network
               PROVE  disk[n].genesis = {[chain |-> run,
                                          accounts |-> UNION {disk[k].account : k \in Network},
                                          gentxs |-> {GenTxNow(k) : k \in Network}]}
    BY DEF NetworkIsOne
  <2>1. made.accounts = UNION {disk[k].account : k \in Network}
    <3>1. made.accounts = {Born(k) : k \in Network}
      BY AtTheEnd DEF NetInv, InitInv
    <3>2. \A k \in Network : disk[k].account = {Born(k)}
      BY AtTheEnd DEF NodeDone
    <3> QED BY <3>1, <3>2
  <2>2. \A k \in Network : GenTxNow(k) = OwnTx(k)
    BY AtTheEnd, TheOnly DEF NodeDone, GenTxNow, OwnTx
  <2>3. disk[n].genesis = {Genesis(Full)}
    BY AtTheEnd
  <2> QED BY <2>1, <2>2, <2>3 DEF Genesis, Full
<1> QED BY <1>1, NetInvHolds, PTL

\* Nothing that an earlier run of as many nodes or fewer has left keeps a run from
\* making its state.
THEOREM RerunsAlwaysWork == TestnetSpec => []RerunsWork
<1>1. NetInv => RerunsWork
  <2> SUFFICES ASSUME NetInv, phase = "collect",
                      \A n \in Node \ Network : disk[n] = NoDir,
                      \A n \in Network : StakeOf(n) <= Funds
               PROVE  AppStateOf(i) # {}
    BY DEF RerunsWork
  <2>1. /\ Active /\ Began = Network /\ HasCopies = Network
        /\ i \in HasGenesis \ Collected /\ i \in Node /\ i \in Network /\ Network \subseteq Node
    BY NetworkIsNodes
       DEF NetInv, Active, Passes, Began, HasGenesis, HasCopies, Collected, TypeInv, Network
  <2>2. disk[i].genesis = {Empty} /\ disk[i].gentx # {}
    BY <2>1 DEF NetInv, StateInv, InitInv, NodeDone
  <2>3. ASSUME NEW f \in disk[i].gentx PROVE f.account \in made.accounts /\ f.stake <= Funds
    <3>1. disk[f.id.node].key = {f.id} /\ f.id.node \in Node
      BY <2>1 DEF NetInv, NameInv, TypeInv, Directory, File, Key
    <3>2. f.id.node \in Network
      BY <3>1 DEF NoDir
    <3>3. PICK k \in Network : k = f.id.node
      BY <3>2
    <3>4. f.id = OwnTx(k).id /\ OwnTx(k) \in disk[i].gentx
      <4>1. disk[k].key = {made.ids[k + 1]} /\ disk[k].key = {f.id}
        BY <2>1, <3>1, <3>3 DEF NetInv, InitInv, NodeDone
      <4>2. OwnTx(k) \in disk[i].gentx
        BY <2>1 DEF NetInv, CopyInv
      <4> QED BY <4>1, <4>2 DEF OwnTx
    <3>5. f = OwnTx(k)
      BY <2>1, <3>4 DEF NetInv, NameInv
    <3> QED BY <2>1, <3>5 DEF OwnTx, NetInv, InitInv
  <2>4. [accounts |-> Empty.accounts, gentxs |-> disk[i].gentx] \in AppStateOf(i)
    BY <2>2, <2>3 DEF AppStateOf, Empty
  <2> QED BY <2>4
<1> QED BY <1>1, NetInvHolds, PTL

LEMMA ConfigAtTheEnd ==
    ASSUME NetInv, phase = "done", NEW n \in Network
    PROVE  The(disk[n].config) = Config(n) /\ The(disk[n].key) = made.ids[n + 1]
<1>1. disk[n].config = {Config(n)} /\ disk[n].key = {made.ids[n + 1]}
  BY AtTheEnd DEF NodeDone
<1>2. The({Config(n)}) = Config(n) /\ The({made.ids[n + 1]}) = made.ids[n + 1]
  BY TheOnly
<1> QED BY <1>1, <1>2

\* The ports of one node of a machine's network: P2P, RPC, proxy, metrics and gRPC.
PortTuple(k) == <<26656 - 3 * k, 26657 - 3 * k, 26658 - 3 * k, 26660 + k, 9090 - 2 * k>>

\* Peers answer and ports are nobody else's, as long as the ports that count down from
\* 26658 do not come to those that count down from 9090.
THEOREM PeersAlwaysAnswer == MaxNodes <= 5000 => (TestnetSpec => []PeersAnswer)
<1> SUFFICES ASSUME MaxNodes <= 5000 PROVE TestnetSpec => []PeersAnswer
  OBVIOUS
<1>1. phase # "done" => PeersAnswer
  BY DEF PeersAnswer
<1>2. ASSUME NetInv, phase = "done" PROVE PeersAnswer
  <2> USE <1>2
  <2>1. [n \in Network |-> The(disk[n].config)] = [n \in Network |-> Config(n)]
    BY ConfigAtTheEnd
  <2>2. ASSUME NEW n \in Network
        PROVE  Config(n).peers = {[id |-> The(disk[k].key), port |-> Config(k).p2p] : k \in Network}
    <3>1. Config(n).peers = made.peers /\ \A k \in Network : Config(k).p2p = P2PPort(k)
      BY DEF Config
    <3>2. made.peers = {[id |-> made.ids[k + 1], port |-> P2PPort(k)] : k \in Network}
      BY AtTheEnd DEF NetInv, InitInv
    <3>3. \A k \in Network : The(disk[k].key) = made.ids[k + 1]
      BY ConfigAtTheEnd
    <3> QED BY <3>1, <3>2, <3>3
  <2>3. ASSUME args.ports = << >>, NEW n \in Network, NEW m \in Network, NEW s \in 1..5, NEW t \in 1..5,
               PortsOf(Config(n))[s] \cap PortsOf(Config(m))[t] # {}
        PROVE  n = m /\ s = t
    <3>1. n \in 0..4999 /\ m \in 0..4999
      BY TestnetAssumption DEF NetInv, TypeInv, Network
    <3>2. s \in {1, 2, 3, 4, 5} /\ t \in {1, 2, 3, 4, 5}
      BY <2>3
    <3>3. \A k \in Network : PortsOf(Config(k)) =
             <<{26656 - 3 * k}, {26657 - 3 * k}, {26658 - 3 * k}, {26660 + k}, {9090 - 2 * k}>>
      BY <2>3 DEF PortsOf, Config, P2PPort, RPCPort, ProxyPort, MetricsPort, GRPCPort
    <3>4. PICK p : p = PortTuple(n)[s]
      OBVIOUS
    <3>5. PICK q : q = PortTuple(m)[t]
      OBVIOUS
    <3>6. PortsOf(Config(n))[s] = {p}
      BY <3>2, <3>3, <3>4 DEF PortTuple
    <3>7. PortsOf(Config(m))[t] = {q}
      BY <3>2, <3>3, <3>5 DEF PortTuple
    <3>8. p = q
      BY <2>3, <3>6, <3>7
    <3> QED BY <3>1, <3>2, <3>4, <3>5, <3>8 DEF PortTuple
  <2> QED BY <2>1, <2>2, <2>3 DEF PeersAnswer
<1>3. NetInv => PeersAnswer
  BY <1>1, <1>2
<1> QED BY <1>3, NetInvHolds, PTL
=============================================================================
