-------------------------- MODULE TestnetProperties --------------------------
(***************************************************************************)
(* What the generator leaves behind.                                       *)
(***************************************************************************)
EXTENDS Testnet

The(option) == CHOOSE value \in option : TRUE
Network == 0..args.v - 1

Key == [node : Node, run : 1..MaxRuns]
AccountOrNone == [node : Node, run : 0..MaxRuns]
Dir == [key : SUBSET Key, account : SUBSET Key,
        gentx : SUBSET [id : Key, account : AccountOrNone, stake : Nat],
        genesis : SUBSET [chain : 1..MaxRuns, accounts : SUBSET Key,
                          gentxs : SUBSET [id : Key, account : AccountOrNone, stake : Nat]],
        config : SUBSET [peers : SUBSET [id : Key, port : Int], p2p : Int, rpc : SUBSET Int,
                         proxy : Int, metrics : Int, grpc : Int]]

\* A directory has at most one of each file, and two transactions never share a name.
TestnetTypeOK ==
    /\ run \in 0..MaxRuns
    /\ phase \in {"idle", "init", "genesis", "copy", "collect", "done", "failed"}
    /\ i \in Network
    /\ \A n \in Node :
          /\ disk[n] \in Dir
          /\ \A file \in {"key", "account", "genesis", "config"} : Cardinality(disk[n][file]) <= 1
          /\ \A f, g \in disk[n].gentx : f.id = g.id => f = g

\* After a run that reports success the directories are one network, whatever earlier
\* runs have left in them: every node has the same genesis, of this run's chain, with
\* just the accounts of these nodes and one transaction for each, by the node key and
\* the account that lie in its directory, with the stake that was asked for it.
GenTxNow(n) == [id |-> The(disk[n].key), account |-> The(disk[n].account), stake |-> StakeOf(n)]
NetworkIsOne ==
    phase = "done" =>
        \A n \in Network :
            disk[n].genesis = {[chain |-> run,
                                accounts |-> UNION {disk[k].account : k \in Network},
                                gentxs |-> {GenTxNow(k) : k \in Network}]}

\* Every peer that a node is told to dial is a node of this network at the port that
\* node's own configuration listens on; and unless ports were listed, all nodes and all
\* their services run beside each other on one machine.
PortsOf(c) == <<{c.p2p}, c.rpc, {c.proxy}, {c.metrics}, {c.grpc}>>
PeersAnswer ==
    phase = "done" =>
        LET config == [n \in Network |-> The(disk[n].config)]
        IN  /\ \A n \in Network :
                  config[n].peers = {[id |-> The(disk[k].key), port |-> config[k].p2p] : k \in Network}
            /\ args.ports = << >> =>
                  \A n, m \in Network : \A s, t \in 1..5 :
                      PortsOf(config[n])[s] \cap PortsOf(config[m])[t] # {} => n = m /\ s = t

\* "set the canonical application state (they should not differ)": the states that the
\* nodes make of their own directories are equal, also after earlier runs that failed
\* when some nodes had files which others had not.
StatesDoNotDiffer ==
    phase = "collect" => \A state \in made.appState : AppStateOf(i) \subseteq {state}

\* A directory that an earlier run has left, finished or not, is no obstacle to a run
\* with as many nodes or more: only files of nodes that are no longer asked for, or
\* stakes nobody can pay, can keep it from making a state.
RerunsWork ==
    phase = "collect"
    /\ (\A n \in Node \ Network : disk[n] = NoDir)
    /\ (\A n \in Network : StakeOf(n) <= Funds)
        => AppStateOf(i) # {}
=============================================================================
