\* Every single-byte corruption of every example row
CONSTANTS
    ByteBase = 16
    GuidMarker = 9
    DateTimeWidth = 8
    DecimalWidth = 16
    GuardedReads <- Reads
    Chars <- MCChars
    Utf8Of <- MCUtf8Of
    Floats <- MCFloats
    FloatBits <- MCFloatBits
    Others <- MCOthers
    OtherText <- MCOtherText
    Rows <- MCRows
    Modes = {"flip"}

SPECIFICATION Spec

INVARIANT FailuresAreTyped
