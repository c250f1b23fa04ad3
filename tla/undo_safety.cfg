\* Two users, an account the bank refuses to pay, three coins, two sends,
\* ordinary bank sends, a valid and an invalid parameter change.
CONSTANTS
    alice = alice
    bob = bob
    undo = undo
    gov = gov
    fees = fees
    User = {alice, bob}
    Holding = undo
    Authority = gov
    Blocked = {fees}
    MaxOpenPerSender = 2
    HalfRange = 32
    Window = {0, 1, 3}
    Amount = {0, 1, 2}
    Gift = {1}
    ParamChoice <- MCParamChoice
    DefaultParams <- MCDefaultParams
    InitialBalance <- Coins21
    MaxTime = 3
    MaxSends = 2
SPECIFICATION Spec
INVARIANTS TypeOK Solvent NothingOverdue
PROPERTIES ImplementsPromise HoldingPaysTheRightParty NeverFinalEarly TermsNeverChange 
