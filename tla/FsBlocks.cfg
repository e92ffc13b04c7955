CONSTANTS
    n1 = n1 n2 = n2 n3 = n3 a = a b = b
    Names = {n1, n2}
    NoName = NoName
    Users <- OneUser
    Modes <- OpenMode
    UnsignedRange = 4096
    Values = {a, b}
    Zero = a
    BlockSize = 2
    NumBlocks = 2
    FileMaxBlocks = 2
    Buffers <- TwoBuffers
    Sizes = {0, 3}
    MaxIndex = 1
    MaxDesc = 1
SPECIFICATION Spec
SYMMETRY NameSymmetry
VIEW StateView
INVARIANTS BlocksExclusive DataFileCoversSlots
PROPERTIES OnlyWriterChanges WriteReadsBack
CHECK_DEADLOCK FALSE
