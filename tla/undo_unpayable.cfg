\* One send, to an account the bank refuses to pay.
CONSTANTS
    alice = alice
    bob = bob
    undo = undo
    gov = gov
    fees = fees
    User = {alice, bob}
    Holding = undo
    Authority = gov
    Blocked = {fees}
    MaxOpenPerSender = 2
    HalfRange = 32
    Window = {1}
    Amount = {1}
    Gift = {}
    ParamChoice = {}
    DefaultParams <- MCDefaultParams
    InitialBalance <- Coins31
    MaxTime = 2
    MaxSends = 1
SPECIFICATION FairSpec
PROPERTIES EveryClosedSendSettles
