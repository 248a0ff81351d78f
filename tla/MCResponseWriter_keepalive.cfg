CONSTANTS
    Chunk = 3
    Lengths <- UpToThree
SPECIFICATION Spec
INVARIANT KeepAliveKept
