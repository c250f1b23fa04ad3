\* Three runs over three directories: the third finds what two others have left.
CONSTANTS
    letters = letters
    NoNumber = letters
    MaxNodes = 3
    MaxRuns = 3
    StakeFlags <- MCStakeFlags
    PortFlags <- MCPortFlags
    DefaultStake = 1
    Funds = 5
SPECIFICATION TestnetSpec
INVARIANTS TestnetTypeOK NetworkIsOne PeersAnswer StatesDoNotDiffer RerunsWork
CHECK_DEADLOCK FALSE
