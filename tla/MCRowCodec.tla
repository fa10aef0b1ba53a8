------------------------------ MODULE MCRowCodec ------------------------------
(***************************************************************************)
(* Instance of RowCodec for TLC: 4-bit bytes (ByteBase = 16, markers 0..8  *)
(* and the Guid marker fit, 7 byte values are unknown markers), the        *)
(* example rows of visualize_serialization.py and one row on the integer   *)
(* boundaries with the other value kinds.                                  *)
(***************************************************************************)
EXTENDS RowCodec

\* Characters by UTF-8 width: 'A' ASCII, 'E' as in Cafe-acute, 'J' CJK, 'R' emoji
MCChars == {"A", "E", "J", "R"}
MCUtf8Of == [c \in MCChars |->
               CASE c = "A" -> <<4>>
                 [] c = "E" -> <<12, 9>>
                 [] c = "J" -> <<14, 9, 10>>
                 [] c = "R" -> <<15, 9, 10, 11>>]
MCFloats == {"f1"}
MCFloatBits == [f \in MCFloats |-> <<0, 0, 0, 0, 0, 0, 8, 3>>]
MCOthers == {"dec"}
\* str(Decimal('1.5')) is three ASCII characters
MCOtherText == [o \in MCOthers |-> <<"A", "A", "A">>]

Ascii(n) == [i \in 1..n |-> "A"]

\* example_1_simple_types: UserId 42, Name "John Doe", Active True
Example1 == << <<Ascii(6), PyInt(42)>>, <<Ascii(4), PyStr(Ascii(8))>>,
               <<Ascii(6), PyBool(TRUE)>> >>
\* example_2_unicode_strings: City "Café", Country "日本", Emoji "🚀"
Example2 == << <<Ascii(4), PyStr(<<"A", "A", "A", "E">>)>>,
               <<Ascii(7), PyStr(<<"J", "J">>)>>,
               <<Ascii(5), PyStr(<<"R">>)>> >>
\* example_3_large_strings: Id 1, LargeText "A" * 1000.  1000 = 0x03E8 takes
\* two bytes of its length field at base 256; scaled to base 16 the text has
\* 1000 * 16 \div 256 = 62 = 0x3E characters, two digits of the length field.
LargeTextLength == (1000 * ByteBase) \div 256
Example3 == << <<Ascii(2), PyInt(1)>>, <<Ascii(9), PyStr(Ascii(LargeTextLength))>> >>
\* example_4_null_handling: Id 1, OptionalField None, Name "Test"
Example4 == << <<Ascii(2), PyInt(1)>>, <<Ascii(13), PyNone>>,
               <<Ascii(4), PyStr(Ascii(4))>> >>
\* The Int32 boundary from both sides, and the remaining value kinds (the
\* names are distinct: a row is a dict)
EdgeRow == << <<<<"A">>, PyInt(Int32Max)>>, <<<<"E">>, PyInt(Int32Max + 1)>>,
              <<<<"A", "A">>, PyInt(Int32Min)>>, <<<<"J">>, PyInt(Int32Min - 1)>>,
              <<<<"A", "E">>, PyFloat("f1")>>, <<<<"R">>, PyBytes(<<7, 0>>)>>,
              <<<<"E", "A">>, PyObject("dec")>>, <<<<"A", "A", "A">>, PyBool(FALSE)>> >>
EmptyRow == << >>

MCRows == {Example1, Example2, Example3, Example4, EdgeRow, EmptyRow}

\* The Read methods the patch scripts guard: the six find_and_fix_method
\* calls of fix_bounds_v3.py (v1 and v2 patch the same six)
MCScriptGuardedReads ==
    {"ReadString", "ReadBytes", "ReadGuid", "ReadBoolean", "ReadInt32", "ReadInt64"}
=============================================================================
