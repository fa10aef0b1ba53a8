------------------------- MODULE BinaryRowSerializer -------------------------
(***************************************************************************)
(* The row encoder of src/docs/scripts/visualize_serialization.py          *)
(* (class BinaryRowSerializer): the value model, the type markers, the     *)
(* little-endian struct packing and serialize(row), which also returns the *)
(* visualisation steps (offset and size of every field it writes).         *)
(*                                                                         *)
(* Data abstraction.  A byte holds ByteBase values (256 in the code); every *)
(* width (4-byte lengths, 4/8-byte integers) is kept, so the integer ranges *)
(* scale with ByteBase: with ByteBase = 16 an Int32 spans -32768..32767.    *)
(* A text is a sequence of characters, each with its own UTF-8 encoding     *)
(* (Utf8Of), so byte length and character count differ as in the code.     *)
(* A float is a token whose 8 IEEE-754 bytes are given by FloatBits; any    *)
(* other Python object is a token whose str() is given by OtherText.        *)
(***************************************************************************)
EXTENDS Integers, Sequences, SequencesExt

CONSTANTS
    ByteBase,     \* number of values of one byte (256 in the code)
    Chars,        \* characters a text may contain
    Utf8Of,       \* Utf8Of[c]: the UTF-8 bytes of character c
    Floats,       \* float values (tokens)
    FloatBits,    \* FloatBits[f]: struct.pack('<d', f)
    Others,       \* values of a type _encode_value does not know
    OtherText     \* OtherText[o]: str(o), a text

Byte == 0..(ByteBase - 1)

ASSUME /\ ByteBase \in Nat /\ ByteBase >= 16 /\ ByteBase % 2 = 0
       /\ Utf8Of \in [Chars -> Seq(Byte)]
       /\ \A c \in Chars : Len(Utf8Of[c]) \in 1..4
       /\ FloatBits \in [Floats -> Seq(Byte)]
       /\ \A f \in Floats : Len(FloatBits[f]) = 8

\* class BinaryTypeMarker(IntEnum)
BinaryTypeMarker ==
    [Null |-> 0, Int32 |-> 1, Int64 |-> 2, Double |-> 3, Boolean |-> 4,
     DateTime |-> 5, String |-> 6, Bytes |-> 7, Decimal |-> 8]

(***************************************************************************)
(* Python values.  bool is a subclass of int, so isinstance(v, int) holds   *)
(* for a bool as well: the order of the isinstance tests matters.          *)
(***************************************************************************)
PyNone == [t |-> "None"]
PyBool(b) == [t |-> "bool", v |-> b]
PyInt(n) == [t |-> "int", v |-> n]
PyFloat(f) == [t |-> "float", v |-> f]
PyStr(s) == [t |-> "str", v |-> s]
PyBytes(bs) == [t |-> "bytes", v |-> bs]
PyObject(o) == [t |-> "object", v |-> o]

IsInstanceInt(x) == x.t \in {"bool", "int"}

\* str.encode('utf-8')
Utf8Encode(s) == FlattenSeq([i \in 1..Len(s) |-> Utf8Of[s[i]]])

(***************************************************************************)
(* struct.pack with '<I', '<i', '<q': k little-endian bytes of n in two's   *)
(* complement (TLA+ % and \div round towards minus infinity, so a negative *)
(* n yields its two's-complement digits).  struct.pack raises struct.error *)
(* when n is out of range; Fits* say when it does not.                     *)
(***************************************************************************)
RECURSIVE LittleEndian(_, _)
LittleEndian(n, k) ==
    IF k = 0 THEN <<>>
    ELSE <<n % ByteBase>> \o LittleEndian(n \div ByteBase, k - 1)

FitsUnsigned(n, k) == n >= 0 /\ n \div ByteBase^(k - 1) < ByteBase
FitsSigned(n, k) == n \div ByteBase^(k - 1) \in -(ByteBase \div 2)..(ByteBase \div 2 - 1)

\* The literals -2147483648 and 2147483647 of _encode_value, at this byte width
Int32Min == -(ByteBase^3 * (ByteBase \div 2))
Int32Max == ByteBase^3 * (ByteBase \div 2) - 1

\* The result of _encode_value: (type_marker, value_bytes), ok = FALSE when
\* struct.pack raised.
Encoded(ok, marker, bytes) == [ok |-> ok, marker |-> marker, bytes |-> bytes]

\* The str branch: 4-byte byte length, then the UTF-8 bytes
EncodeText(s) ==
    LET encoded == Utf8Encode(s)
    IN  Encoded(FitsUnsigned(Len(encoded), 4), BinaryTypeMarker.String,
                LittleEndian(Len(encoded), 4) \o encoded)

\* Mutant: the int test placed before the bool test
EncodeValueIntBeforeBool(value) ==
    IF value.t = "None" THEN Encoded(TRUE, BinaryTypeMarker.Null, <<>>)
    ELSE IF IsInstanceInt(value)
    THEN LET n == IF value.t = "bool" THEN IF value.v THEN 1 ELSE 0 ELSE value.v
         IN  IF Int32Min <= n /\ n <= Int32Max
             THEN Encoded(FitsSigned(n, 4), BinaryTypeMarker.Int32, LittleEndian(n, 4))
             ELSE Encoded(FitsSigned(n, 8), BinaryTypeMarker.Int64, LittleEndian(n, 8))
    ELSE IF value.t = "float"
    THEN Encoded(TRUE, BinaryTypeMarker.Double, FloatBits[value.v])
    ELSE IF value.t = "str" THEN EncodeText(value.v)
    ELSE IF value.t = "bytes"
    THEN Encoded(FitsUnsigned(Len(value.v), 4), BinaryTypeMarker.Bytes,
                 LittleEndian(Len(value.v), 4) \o value.v)
    ELSE EncodeText(OtherText[value.v])

\* Mutant: the Int32 range test with strict bounds
EncodeValueStrictRange(value) ==
    IF value.t = "None" THEN Encoded(TRUE, BinaryTypeMarker.Null, <<>>)
    ELSE IF value.t = "bool"
    THEN Encoded(TRUE, BinaryTypeMarker.Boolean, <<IF value.v THEN 1 ELSE 0>>)
    ELSE IF IsInstanceInt(value)
    THEN IF Int32Min < value.v /\ value.v < Int32Max
         THEN Encoded(FitsSigned(value.v, 4), BinaryTypeMarker.Int32,
                      LittleEndian(value.v, 4))
         ELSE Encoded(FitsSigned(value.v, 8), BinaryTypeMarker.Int64,
                      LittleEndian(value.v, 8))
    ELSE IF value.t = "float"
    THEN Encoded(TRUE, BinaryTypeMarker.Double, FloatBits[value.v])
    ELSE IF value.t = "str" THEN EncodeText(value.v)
    ELSE IF value.t = "bytes"
    THEN Encoded(FitsUnsigned(Len(value.v), 4), BinaryTypeMarker.Bytes,
                 LittleEndian(Len(value.v), 4) \o value.v)
    ELSE EncodeText(OtherText[value.v])

\* _encode_value(value): the isinstance chain, in the code's order
EncodeValue(value) ==
    IF value.t = "None" THEN Encoded(TRUE, BinaryTypeMarker.Null, <<>>)
    ELSE IF value.t = "bool"
    THEN Encoded(TRUE, BinaryTypeMarker.Boolean, <<IF value.v THEN 1 ELSE 0>>)
    ELSE IF IsInstanceInt(value)
    THEN IF Int32Min <= value.v /\ value.v <= Int32Max
         THEN Encoded(FitsSigned(value.v, 4), BinaryTypeMarker.Int32,
                      LittleEndian(value.v, 4))
         ELSE Encoded(FitsSigned(value.v, 8), BinaryTypeMarker.Int64,
                      LittleEndian(value.v, 8))
    ELSE IF value.t = "float"
    THEN Encoded(TRUE, BinaryTypeMarker.Double, FloatBits[value.v])
    ELSE IF value.t = "str" THEN EncodeText(value.v)
    ELSE IF value.t = "bytes"
    THEN Encoded(FitsUnsigned(Len(value.v), 4), BinaryTypeMarker.Bytes,
                 LittleEndian(Len(value.v), 4) \o value.v)
    ELSE EncodeText(OtherText[value.v])   \* default: convert to string

(***************************************************************************)
(* serialize(row): a row is a sequence of <<name, value>> pairs (a dict in *)
(* insertion order).  The accumulator holds the BytesIO buffer, the steps  *)
(* list, the separately maintained 'offset' counter, and ok = FALSE once a *)
(* struct.pack has raised (the exception ends serialize).                  *)
(***************************************************************************)
(***************************************************************************)
(* A SerializationStep.  'value' is left out (it is only printed).  The    *)
(* description is kept as what a substring test can see in it: its kind   *)
(* (the fixed words it starts with) and the user text it quotes, a column  *)
(* name or a string value; numbers, type names and str() of None, bools,   *)
(* ints and floats are digits and fixed words and are left out.            *)
(***************************************************************************)
Step(offset, size, description, hex) ==
    [offset |-> offset, size |-> size, description |-> description, hex |-> hex]

Description(kind, text) == [kind |-> kind, text |-> text]

\* _bytes_to_hex: the two hex digits f'{b:02X}' of every byte
BytesToHex(data) == [i \in 1..Len(data) |-> << data[i] \div 16, data[i] % 16 >>]

\* value_desc: the quoted text of a String step; Bytes and other values quote none
ValueDescription(marker, value) ==
    CASE marker = BinaryTypeMarker.String ->
           Description("String", IF value.t = "str" THEN value.v ELSE OtherText[value.v])
      [] marker = BinaryTypeMarker.Bytes -> Description("Bytes", << >>)
      [] OTHER -> Description("Value", << >>)

\* _get_type_name: names.get(marker, "Unknown") over its own dict 0..8
GetTypeName(marker) ==
    LET names == <<"Null", "Int32", "Int64", "Double", "Boolean", "DateTime",
                   "String", "Bytes", "Decimal">>
    IN  IF marker \in 0..8 THEN names[marker + 1] ELSE "Unknown"

\* The four steps one column appends, at the offsets serialize computes
ColumnSteps(offset, column, name_bytes, enc, lengthHex, valueOffset) ==
    << Step(offset, 4, Description("NameLength", column[1]), lengthHex),
       Step(offset + 4, Len(name_bytes), Description("ColumnName", column[1]),
            BytesToHex(name_bytes)),
       Step(offset + 4 + Len(name_bytes), 1,
            Description("TypeMarker", << GetTypeName(enc.marker) >>),
            BytesToHex(<< enc.marker >>)),
       Step(valueOffset, Len(enc.bytes), ValueDescription(enc.marker, column[2]),
            BytesToHex(enc.bytes)) >>

\* Mutant: the NameLength step's bytes packed from len(name), the character count
WriteColumnHexCharCount(acc, column) ==
    LET name_bytes == Utf8Encode(column[1])
        enc == EncodeValue(column[2])
        valueOffset == acc.offset + 4 + Len(name_bytes) + 1
    IN  [buf    |-> acc.buf \o LittleEndian(Len(name_bytes), 4) \o name_bytes
                            \o <<enc.marker>> \o enc.bytes,
         steps  |-> acc.steps \o ColumnSteps(acc.offset, column, name_bytes, enc,
                        BytesToHex(LittleEndian(Len(column[1]), 4)), valueOffset),
         offset |-> valueOffset + Len(enc.bytes),
         ok     |-> acc.ok /\ FitsUnsigned(Len(name_bytes), 4) /\ enc.ok]

\* One iteration of 'for name, value in row.items()'; the name length is
\* packed twice, once for the buffer and once for the step's hex bytes
WriteColumn(acc, column) ==
    LET name_bytes == Utf8Encode(column[1])
        enc == EncodeValue(column[2])
        valueOffset == acc.offset + 4 + Len(name_bytes) + 1
    IN  [buf    |-> acc.buf \o LittleEndian(Len(name_bytes), 4) \o name_bytes
                            \o <<enc.marker>> \o enc.bytes,
         steps  |-> acc.steps \o ColumnSteps(acc.offset, column, name_bytes, enc,
                        BytesToHex(LittleEndian(Len(name_bytes), 4)), valueOffset),
         offset |-> valueOffset + Len(enc.bytes),
         ok     |-> acc.ok /\ FitsUnsigned(Len(name_bytes), 4) /\ enc.ok]

Serialize(row) ==
    FoldLeft(WriteColumn,
             [buf    |-> LittleEndian(Len(row), 4),
              steps  |-> << Step(0, 4, Description("ColumnCount", << >>),
                                 BytesToHex(LittleEndian(Len(row), 4))) >>,
              offset |-> 4,
              ok     |-> FitsUnsigned(Len(row), 4)],
             row)
=============================================================================
