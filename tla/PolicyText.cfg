SPECIFICATION Spec
CONSTANTS
    Q = 5
    Texts <- MCTexts
    Trees <- MCTrees
    Height <- MCHeight
    Attributes <- MCAttributes
    MaxCoeffNorm = 1
    Words <- MCWords
    Says <- MCSays
    Reserved <- MCReserved
    Ends <- MCEnds
    Starts <- MCStarts
    Letters <- MCLetters
    Wide <- MCWide
    Rank <- MCRank
    MaxDepth = 2
    Refused = Refused
    Panicked = Panicked
    NoName = NoName
    None = None
INVARIANT IsSatisfiedAsDocumented
CHECK_DEADLOCK FALSE
