------------------------------ MODULE Testnet ------------------------------
(***************************************************************************)
(* The multi-node generator (cmd/trefoild/cmd/testnet_multi_node.go), run  *)
(* again and again over one output directory.                              *)
(*                                                                         *)
(* A run makes four passes over the nodes: keys and a genesis transaction  *)
(* for each, an empty genesis for each, everybody's transactions to        *)
(* everybody, and the finished genesis and configuration for each.  Any    *)
(* access to the disk may fail; some failures remove the whole output      *)
(* directory, the others leave what is there for the next run to find.     *)
(*                                                                         *)
(* A key or an account is known by its node and the run that has made it;  *)
(* a chain by its run, since its id is random.  A value that may be        *)
(* missing is a set with one element or none.                              *)
(***************************************************************************)
EXTENDS Integers, Sequences, FiniteSets

CONSTANTS
    MaxNodes,     \* bound: the largest number of nodes anybody asks for
    MaxRuns,      \* bound: how often the generator is run
    StakeFlags,   \* values of --validators-stake-amount, split at the commas
    PortFlags,    \* values of --list-ports, split; the empty list for no flag
    NoNumber,     \* an entry of the first that is no number
    DefaultStake, \* 100 units of power
    Funds         \* what a validator's account has to stake: 500 units of power

ASSUME TestnetAssumption ==
    /\ MaxNodes \in Nat \ {0} /\ MaxRuns \in Nat
    /\ DefaultStake \in Nat /\ Funds \in Nat /\ DefaultStake <= Funds
    /\ NoNumber \notin Nat
    /\ StakeFlags \subseteq Seq(Nat \cup {NoNumber})
    /\ PortFlags \subseteq Seq(Nat)

Node == 0..MaxNodes - 1

VARIABLES
    disk,   \* the output directory: a directory for each node
    run,    \* the number of the run
    args,   \* its arguments
    phase,  \* which of the four passes it is in, if it has not ended
    i,      \* the node the pass has come to
    made    \* its local variables: node ids, accounts, peers and the app state

tvars == <<disk, run, args, phase, i, made>>

NoDir == [key |-> {}, account |-> {}, gentx |-> {}, genesis |-> {}, config |-> {}]
Nothing == [ids |-> << >>, accounts |-> {}, peers |-> {}, appState |-> {}]

-----------------------------------------------------------------------------
(* Arguments.                                                              *)

\* A map from 0, 1, 2... to the numbers of the list.  Entries that are no numbers
\* are passed over: those after them move up.
Stakes(flag) ==
    LET numbers == {k \in DOMAIN flag : flag[k] # NoNumber}
        Top(k) == Cardinality({m \in numbers : m < k})
    IN  [top \in {Top(k) : k \in numbers} |-> flag[CHOOSE k \in numbers : Top(k) = top]]
StakeOf(n) == IF n \in DOMAIN args.stakes THEN args.stakes[n] ELSE DefaultStake

\* Mutant: a port apart between two nodes, where each has three.
P2PPortNextDoor(n) == 26656 - n
P2PPort(n) == 26656 - 3 * n
RPCPort(n) == IF args.ports = << >> THEN {26657 - 3 * n}
              ELSE {args.ports[k] : k \in {n + 1} \cap DOMAIN args.ports}
ProxyPort(n) == 26658 - 3 * n
MetricsPort(n) == 26660 + n
GRPCPort(n) == 9090 - 2 * n

Start ==
    /\ phase \in {"idle", "done", "failed"}
    /\ run < MaxRuns
    /\ run' = run + 1
    /\ \E v \in 1..MaxNodes, stakes \in StakeFlags, ports \in PortFlags :
          args' = [v |-> v, stakes |-> Stakes(stakes), ports |-> ports]
    /\ phase' = "init" /\ i' = 0
    /\ made' = Nothing
    /\ UNCHANGED disk

\* After a node the pass goes on with the next one, after the last the next pass begins.
NextNode(after) ==
    IF i + 1 < args.v THEN phase' = phase /\ i' = i + 1 ELSE phase' = after /\ i' = 0
Fail == phase' = "failed" /\ UNCHANGED <<run, args, i, made>>

-----------------------------------------------------------------------------
(* First pass: initTestnetFiles.                                           *)

Born(n) == [node |-> n, run |-> run]

\* InitializeNodeValidatorFiles keeps the keys it finds; GenerateSaveCoinKey
\* overwrites the account.
KeyOf(n) == IF disk[n].key = {} THEN Born(n) ELSE CHOOSE key \in disk[n].key : TRUE
Account(n) == Born(n)

\* The file is named for the node's id: it replaces one of the same name.
GenTx(n) == [id |-> KeyOf(n), account |-> Account(n), stake |-> StakeOf(n)]
WithFiles(old, new) == {f \in old : \A g \in new : f.id # g.id} \cup new
\* A file that was cut short belongs to no account.
CutShort(gentx) == [gentx EXCEPT !.account.run = 0]

WithKey(dir, n) == [dir EXCEPT !.key = {KeyOf(n)}]
WithAccount(dir, n) == [WithKey(dir, n) EXCEPT !.account = {Account(n)}]
\* Mutant: the file is named for the account.
WithGenTxOfAccount(dir, n, gentx) ==
    [WithAccount(dir, n) EXCEPT !.gentx = {f \in @ : f.account # gentx.account} \cup {gentx}]
WithGenTx(dir, n, gentx) == [WithAccount(dir, n) EXCEPT !.gentx = WithFiles(@, {gentx})]

InitNode ==
    /\ phase = "init"
    /\ disk' = [disk EXCEPT ![i] = WithGenTx(@, i, GenTx(i))]
    /\ made' = [made EXCEPT !.ids = Append(@, KeyOf(i)),
                            !.accounts = @ \cup {Account(i)},
                            !.peers = @ \cup {[id |-> KeyOf(i), port |-> P2PPort(i)]}]
    /\ NextNode("genesis")
    /\ UNCHANGED <<run, args>>

\* No directory, no node key or no account: everything goes.
InitNodeCleansUp ==
    /\ phase = "init"
    /\ disk' = [n \in Node |-> NoDir]
    /\ Fail

\* No keyring and no such algorithm; no seed file and no signature; no file for
\* the transaction, or half of it.
InitNodeFails ==
    /\ phase = "init"
    /\ \E dir \in {WithKey(disk[i], i), WithAccount(disk[i], i),
                   WithGenTx(disk[i], i, CutShort(GenTx(i)))} :
          disk' = [disk EXCEPT ![i] = dir]
    /\ Fail

-----------------------------------------------------------------------------
(* Second pass: initGenFiles.  Third pass: the genesis transactions.       *)

InitGenFile ==
    /\ phase = "genesis"
    /\ disk' = [disk EXCEPT ![i].genesis =
                   {[chain |-> run, accounts |-> made.accounts, gentxs |-> {}]}]
    /\ NextNode("copy")
    /\ UNCHANGED <<run, args, made>>

\* Nothing has been written, or a part.
InitGenFails ==
    /\ phase = "genesis"
    /\ \E genesis \in {disk[i].genesis, {}} : disk' = [disk EXCEPT ![i].genesis = genesis]
    /\ Fail

\* The files that go to node n, of the first nodes; isSubDir leaves out its own.
FilesFor(n, count) ==
    UNION {{f \in disk[k].gentx : f.id = made.ids[k + 1]} : k \in (0..count - 1) \ {n}}

\* Mutant: a node gets the files of the nodes before it.
CopyGenTxsOfEarlierNodes ==
    /\ phase = "copy"
    /\ disk' = [disk EXCEPT ![i].gentx = WithFiles(@, FilesFor(i, i))]
    /\ NextNode("collect")
    /\ UNCHANGED <<run, args, made>>
CopyGenTxs ==
    /\ phase = "copy"
    /\ disk' = [disk EXCEPT ![i].gentx = WithFiles(@, FilesFor(i, args.v))]
    /\ NextNode("collect")
    /\ UNCHANGED <<run, args, made>>

\* Some files have been copied, of the next one a part or nothing.
CopyFails ==
    /\ phase = "copy"
    /\ \E count \in 0..args.v - 1 :
          \E cut \in SUBSET {CutShort(f) : f \in FilesFor(i, count + 1) \ FilesFor(i, count)} :
             disk' = [disk EXCEPT ![i].gentx = WithFiles(@, FilesFor(i, count) \cup cut)]
    /\ Fail

-----------------------------------------------------------------------------
(* Fourth pass: collectGenFiles.                                           *)

\* genutil.GenAppStateFromConfig: every file in the directory, if each is of an
\* account that has the coins it stakes.
\* Mutant: nobody asks whether the account is in the genesis state.
AppStateOfAnyone(n) ==
    {[accounts |-> g.accounts, gentxs |-> disk[n].gentx]
     : g \in {g \in disk[n].genesis :
                 /\ disk[n].gentx # {}
                 /\ \A f \in disk[n].gentx : f.stake <= Funds}}
AppStateOf(n) ==
    {[accounts |-> g.accounts, gentxs |-> disk[n].gentx]
     : g \in {g \in disk[n].genesis :
                 /\ disk[n].gentx # {}
                 /\ \A f \in disk[n].gentx : f.account \in g.accounts /\ f.stake <= Funds}}

Genesis(state) == [chain |-> run, accounts |-> state.accounts, gentxs |-> state.gentxs]
Config(n) ==
    [peers |-> made.peers, p2p |-> P2PPort(n), rpc |-> RPCPort(n), proxy |-> ProxyPort(n),
     metrics |-> MetricsPort(n), grpc |-> GRPCPort(n)]

\* The first node's state becomes everybody's.
CollectGenFile ==
    /\ phase = "collect"
    /\ \E own \in AppStateOf(i) :
          \E state \in IF made.appState = {} THEN {own} ELSE made.appState :
             /\ disk' = [disk EXCEPT ![i].config = {Config(i)}, ![i].genesis = {Genesis(state)}]
             /\ made' = [made EXCEPT !.appState = {state}]
    /\ NextNode("done")
    /\ UNCHANGED <<run, args>>

\* The node's state cannot be made; or the configuration has been written without
\* what follows, or the genesis with the node's own state has as well.
CollectFails ==
    /\ phase = "collect"
    /\ \E dir \in {disk[i], [disk[i] EXCEPT !.config = {}]} \cup
                  {[disk[i] EXCEPT !.config = {}, !.genesis = {Genesis(own)}] : own \in AppStateOf(i)} :
          disk' = [disk EXCEPT ![i] = dir]
    /\ Fail

-----------------------------------------------------------------------------
TestnetInit ==
    /\ disk = [n \in Node |-> NoDir]
    /\ run = 0
    /\ args = [v |-> 1, stakes |-> << >>, ports |-> << >>]
    /\ phase = "idle" /\ i = 0
    /\ made = Nothing

TestnetNext ==
    \/ Start
    \/ InitNode \/ InitNodeCleansUp \/ InitNodeFails
    \/ InitGenFile \/ InitGenFails
    \/ CopyGenTxs \/ CopyFails
    \/ CollectGenFile \/ CollectFails

TestnetSpec == TestnetInit /\ [][TestnetNext]_tvars
=============================================================================
