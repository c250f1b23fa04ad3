\* Three sends against a cap of two, on a chain stopped once.
CONSTANTS
    alice = alice
    bob = bob
    undo = undo
    gov = gov
    fees = fees
    User = {alice, bob}
    Holding = undo
    Authority = gov
    Blocked = {fees}
    MaxOpenPerSender = 2
    HalfRange = 32
    Window = {1}
    Amount = {1}
    Gift = {}
    ParamChoice = {}
    DefaultParams <- MCDefaultParams
    InitialBalance <- Coins30
    MaxTime = 2
    MaxSends = 3
    MaxStops = 1
SPECIFICATION FairRestartSpec
INVARIANTS   RestartTypeOK ExportIsValid
PROPERTIES RestartKeepsTheBooks EverySendSettles
