SPECIFICATION FairSpec
CONSTANTS
    Texts <- AllTexts
    Settings <- TwoSettings
    MaxLength = 7
INVARIANTS
    NoGap
    ChunkBounds
    SolidTextReturned
    EachChunkAddsText
PROPERTY Terminates
