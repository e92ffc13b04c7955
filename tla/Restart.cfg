CONSTANTS
    n1 = n1 n2 = n2 broken = broken empty = empty a = a b = b
    Names = {n1, n2, broken, empty}
    NoName = NoName
    Unreadable = {empty}
    Broken <- BrokenName
    Users <- OneUser
    Modes <- LongMode
    UnsignedRange = 4096
    Values = {a, b}
    Zero = a
    BlockSize = 1
    NumBlocks = 2
    FileMaxBlocks = 1
    Buffers <- TwoBuffers
    Sizes = {0}
    MaxIndex = 1
    MaxDesc = 0
SPECIFICATION LifeSpec
CONSTRAINT OddEmpty
VIEW LifeView
INVARIANTS ConsistentAfterCrash
PROPERTIES OrderlyRestart SavedDataKept
CHECK_DEADLOCK FALSE
