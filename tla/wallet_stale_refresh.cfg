\* One send and two refreshes, of which the older read is applied last.
CONSTANTS
    me = me
    bob = bob
    undo = undo
    gov = gov
    User = {me, bob}
    Me = me
    Holding = undo
    Authority = gov
    Blocked = {}
    MaxOpenPerSender = 2
    HalfRange = 32
    Window = {0, 1}
    Amount = {1}
    Gift = {}
    ParamChoice = {}
    DefaultParams <- MCDefaultParams
    InitialBalance <- TwoEach
    MaxTime = 1
    MaxSends = 1
    Pick = {1}
    PeerWindow = {}
    Switch = {}
    OwnSwitch = {}
    PageSize = 1
    SameMoment = 1
    Refreshes = 2
    MaxPresses = 1
    MaxReloads = 0
SPECIFICATION WalletSpec
INVARIANTS FinalIsOver
