SPECIFICATION FairReaderSpec
CONSTANTS
    Word = 256
    MaxSymbols = 6
    MaxFragments = 0
    MaxFields = 1
    Letters <- MCLetters
    PKeyAuthHeaders <- MCPKeyAuthHeaders
    BearerHeaders <- MCBearerHeaders
    PKeyAuthLists <- MCPKeyAuthLists
    BearerLists <- MCBearerLists
PROPERTIES
    EscapedQuotesAllowed
