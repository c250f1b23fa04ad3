\* Integers of fifteen bits, pages of two rows.
CONSTANTS
    Groups = 3
    FieldBits = 8
    BooksChoice <- MCBooks
    Posts <- MCPosts
    Requests <- MCRequests
    UnknownFields <- MCUnknownFields
    DefaultLimit = 2
SPECIFICATION ServiceSpec
INVARIANTS ServiceTypeOK ReadAsMeant  NewerPeersAreUnderstood
    CutNeverInvents AnswersAreTrue RefusalsAreTrue WalkListsEverySend
