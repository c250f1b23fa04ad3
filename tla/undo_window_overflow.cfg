\* A window of 12 where an int64 ends at 7.
CONSTANTS
    alice = alice
    bob = bob
    undo = undo
    gov = gov
    fees = fees
    User = {alice, bob}
    Holding = undo
    Authority = gov
    Blocked = {fees}
    MaxOpenPerSender = 2
    HalfRange = 8
    Window = {1, 12}
    Amount = {1}
    Gift = {}
    ParamChoice <- HugeWindow
    DefaultParams <- MCDefaultParams
    InitialBalance <- Coins31
    MaxTime = 3
    MaxSends = 1
SPECIFICATION Spec
PROPERTIES NeverFinalEarly
