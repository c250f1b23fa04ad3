\* Two refreshes at a time, recipients who open a shop, an owner who does.
CONSTANTS
    me = me
    bob = bob
    undo = undo
    gov = gov
    User = {me, bob}
    Me = me
    Holding = undo
    Authority = gov
    Blocked = {}
    MaxOpenPerSender = 2
    HalfRange = 32
    Window = {0, 1}
    Amount = {1}
    Gift = {}
    ParamChoice = {}
    DefaultParams <- MCDefaultParams
    InitialBalance <- TwoEach
    MaxTime = 1
    MaxSends = 2
    Pick = {1}
    PeerWindow = {}
    Switch = {TRUE}
    OwnSwitch = {}
    PageSize = 1
    SameMoment = 1
    Refreshes = 2
    MaxPresses = 2
    MaxReloads = 0
SPECIFICATION WalletSpec
INVARIANTS WalletTypeOK CancelledIsCancelled OneEntryPerSend NothingListedUnsent
