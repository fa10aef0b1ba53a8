---------------------------- MODULE MCVisualizer ----------------------------
(***************************************************************************)
(* Instance of Visualizer for TLC: 4-bit bytes, every row of at most two   *)
(* columns over three names and nine values.  The word "NameLength" is the *)
(* two-character text <<"N", "L">>; no other text of the model contains   *)
(* either character, so a text contains the word exactly when it is meant *)
(* to.                                                                     *)
(***************************************************************************)
EXTENDS Visualizer

MCChars == {"A", "E", "N", "L"}
MCUtf8Of == [c \in MCChars |->
               CASE c = "A" -> <<4>> [] c = "N" -> <<5>> [] c = "L" -> <<6>>
                 [] c = "E" -> <<12, 9>>]
MCFloats == {"f1"}
MCFloatBits == [f \in MCFloats |-> <<0, 0, 0, 0, 0, 0, 8, 3>>]
MCOthers == {"dec"}
MCOtherText == [o \in MCOthers |-> <<"A", "A", "A">>]
MCNameLengthWord == <<"N", "L">>

Names == {<<"A">>, <<"E">>, MCNameLengthWord}
\* One value of every kind and an Int64 (an int struct.pack('<q') rejects is
\* 2^31 or more at this byte width, beyond TLC's integers)
Values == {PyNone, PyBool(TRUE), PyInt(7), PyInt(Int32Max + 1),
           PyFloat("f1"), PyStr(<<"E">>), PyStr(MCNameLengthWord), PyBytes(<<7>>),
           PyObject("dec")}
Columns == Names \X Values

\* Dicts of at most two items: the names are distinct
MCRows == {<< >>} \cup {<<c>> : c \in Columns}
          \cup {r \in Columns \X Columns : r[1][1] # r[2][1]}
=============================================================================
