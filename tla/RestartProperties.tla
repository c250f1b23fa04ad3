------------------------- MODULE RestartProperties -------------------------
(***************************************************************************)
(* What a chain keeps when it is exported and started again.               *)
(***************************************************************************)
EXTENDS Restart, UndoProperties

Listed == [key : Nat, value : Send]
Indexed == [key : User, value : Tally]
GenesisState ==
    [params : Params, pendingList : Seq(Listed), pendingCount : Nat,
     recordMap : Seq(Indexed), balances : [Account -> Nat]]

\* The node's part of the state, and the kind of file an export writes.
RestartTypeOK ==
    /\ TypeOK
    /\ node \in {"running", "stopped", "exported", "starting"}
    /\ file \in GenesisState
    /\ stops \in 0..MaxStops
    /\ node # "running" => phase = "none"

\* Whatever the chain went through, its export passes the module's own Validate:
\* no send twice, no id that the counter would give out again, no address twice.
ExportIsValid == node = "exported" => ValidGenesis(file)

\* A restart changes nothing but the clock: every send in flight, its terms, the
\* counter, every tally and shop switch, the parameters and all balances come out
\* of the file as they went in.
RestartKeepsTheBooks == [][node # "running" => UNCHANGED books]_rvars
=============================================================================
