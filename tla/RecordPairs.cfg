CONSTANTS
    Limit = 9
    NoSignature = NoSignature
    Tokens <- TextTokens
    Leaves <- JsonLeaves
    MaxTokens = 3
    MaxNext = 3
    MaxLeaves = 3
CHECK_DEADLOCK FALSE
SPECIFICATION Spec
INVARIANTS OnlyVolatileErased ShortCutsComplete MatcherFaithful JsonPayloadKept
