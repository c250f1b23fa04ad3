\* One send; refreshes one at a time that may fail any number of times.
CONSTANTS
    me = me
    bob = bob
    undo = undo
    gov = gov
    User = {me, bob}
    Me = me
    Holding = undo
    Authority = gov
    Blocked = {}
    MaxOpenPerSender = 2
    HalfRange = 32
    Window = {0, 1}
    Amount = {1}
    Gift = {}
    ParamChoice = {}
    DefaultParams <- MCDefaultParams
    InitialBalance <- TwoEach
    MaxTime = 1
    MaxSends = 1
    Pick = {1}
    PeerWindow = {}
    Switch = {}
    OwnSwitch = {}
    PageSize = 1
    SameMoment = 1
    Refreshes = 1
    MaxPresses = 2
    MaxReloads = 1
SPECIFICATION FairWalletSpec
PROPERTIES TruthPrevails
