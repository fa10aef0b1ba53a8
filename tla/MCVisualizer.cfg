\* print_visualization over every row of at most two columns
CONSTANTS
    ByteBase = 16
    Chars <- MCChars
    Utf8Of <- MCUtf8Of
    Floats <- MCFloats
    FloatBits <- MCFloatBits
    Others <- MCOthers
    OtherText <- MCOtherText
    Rows <- MCRows
    NameLengthWord <- MCNameLengthWord

SPECIFICATION Spec

INVARIANT TableAnnotatesData
