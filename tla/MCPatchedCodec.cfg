\* Truncated slices decoded with the guards the patch scripts insert
CONSTANTS
    ByteBase = 16
    GuidMarker = 9
    DateTimeWidth = 8
    DecimalWidth = 16
    GuardedReads <- MCPatchedReads
    Chars <- MCChars
    Utf8Of <- MCUtf8Of
    Floats <- MCFloats
    FloatBits <- MCFloatBits
    Others <- MCOthers
    OtherText <- MCOtherText
    Rows <- MCRows
    Modes = {"prefix"}

SPECIFICATION Spec

INVARIANT TruncationSafety
