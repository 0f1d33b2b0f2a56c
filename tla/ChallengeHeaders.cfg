SPECIFICATION FairReaderSpec
CONSTANTS
    Word = 256
    MaxSymbols = 6
    MaxFragments = 5
    MaxFields = 3
    Letters <- MCLetters
    PKeyAuthHeaders <- MCPKeyAuthHeaders
    BearerHeaders <- MCBearerHeaders
    PKeyAuthLists <- MCPKeyAuthLists
    BearerLists <- MCBearerLists
INVARIANTS
    ServerIsUnderstood
    RaisesOnlyAtTheEnd
PROPERTIES
    ReadersEnd
