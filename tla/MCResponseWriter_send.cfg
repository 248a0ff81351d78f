CONSTANTS
    Chunk = 3
    Lengths <- UpToThree
SPECIFICATION FairSpec
INVARIANTS
    TypeOK
    InOrder
    LossBounded
PROPERTY Ends
