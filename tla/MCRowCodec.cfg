\* Intact, truncated and single-byte-corrupted slices of every example row,
\* decoded with the guards the patch scripts insert
CONSTANTS
    ByteBase = 16
    GuidMarker = 9
    DateTimeWidth = 8
    DecimalWidth = 16
    GuardedReads <- MCScriptGuardedReads
    Chars <- MCChars
    Utf8Of <- MCUtf8Of
    Floats <- MCFloats
    FloatBits <- MCFloatBits
    Others <- MCOthers
    OtherText <- MCOtherText
    Rows <- MCRows
    Modes = {"intact", "prefix", "flip"}

SPECIFICATION Spec

INVARIANT TypeOK
INVARIANT RoundTrip
INVARIANT Minimality
