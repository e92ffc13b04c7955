CONSTANTS
    n1 = n1 n2 = n2 n3 = n3 a = a b = b
    Names = {n1, n2, n3}
    NoName = NoName
    Users <- OwnerGroupOther
    Modes <- TwoModes
    UnsignedRange = 4096
    Values = {a, b}
    Zero = a
    BlockSize = 1
    NumBlocks = 1
    FileMaxBlocks = 1
    Buffers = {}
    Sizes = {0}
    MaxIndex = 1
    MaxDesc = 1
SPECIFICATION Spec
SYMMETRY NameSymmetry
VIEW StateView
PROPERTIES MissingNameRefused
CHECK_DEADLOCK FALSE
