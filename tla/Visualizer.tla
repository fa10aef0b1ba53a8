------------------------------ MODULE Visualizer ------------------------------
(***************************************************************************)
(* print_visualization(row) of src/docs/scripts/visualize_serialization.py *)
(* as one action: it serializes the row and prints the steps table (one    *)
(* line per SerializationStep: offset, size, a "Type" label, the step's    *)
(* hex bytes and its description) and the final binary data.  Banner      *)
(* lines, json.dumps of the input, column widths and the 16-byte hex dump *)
(* layout are output only and are left out; the printed table keeps the   *)
(* fields the properties compare.  When serialize raises (struct.error)   *)
(* nothing is printed: serialize runs before the first print.             *)
(***************************************************************************)
EXTENDS BinaryRowSerializer

CONSTANTS
    Rows,            \* the rows print_visualization is called with
    NameLengthWord   \* the text "NameLength" as a sequence of Chars

VARIABLES
    row,   \* the argument of the call
    out    \* what the call printed: status "pending", "printed" or "raised"

vars == <<row, out>>

\* 'if "NameLength" in step.description': the word is in the description's
\* fixed words (a NameLength step) or inside the user text it quotes
MentionsNameLength(d) ==
    \/ d.kind = "NameLength"
    \/ \E i \in 0..(Len(d.text) - Len(NameLengthWord)) :
          SubSeq(d.text, i + 1, i + Len(NameLengthWord)) = NameLengthWord

\* type_name = "Column" if "NameLength" in step.description else "Type/Value"
TypeName(step) == IF MentionsNameLength(step.description) THEN "Column" ELSE "Type/Value"

\* One printed line of the steps table
PrintedRow(step) ==
    [offset |-> step.offset, size |-> step.size, type |-> TypeName(step),
     hex |-> step.hex, description |-> step.description]

Init ==
    /\ row \in Rows
    /\ out = [status |-> "pending", table |-> << >>, data |-> << >>]

PrintVisualization ==
    /\ out.status = "pending"
    /\ LET s == Serialize(row)
       IN  out' = IF s.ok
                  THEN [status |-> "printed",
                        table  |-> [k \in 1..Len(s.steps) |-> PrintedRow(s.steps[k])],
                        data   |-> s.buf]
                  ELSE [status |-> "raised", table |-> << >>, data |-> << >>]
    /\ UNCHANGED row

\* The call has returned (or raised)
Terminating == out.status # "pending" /\ UNCHANGED vars

Next == PrintVisualization \/ Terminating

Spec == Init /\ [][Next]_vars

-----------------------------------------------------------------------------
(***************************************************************************)
(* The printed table annotates the final binary data exactly: read in      *)
(* order, the Hex Bytes column spells out the data, and every line's hex   *)
(* bytes are the data's bytes at that line's Offset.  serialize keeps the  *)
(* offset counter apart from the BytesIO and re-packs the count, the name  *)
(* length and the marker for the steps apart from the bytes it writes, so *)
(* three separately computed things must agree.                            *)
(***************************************************************************)
TableAnnotatesData ==
    out.status = "printed" =>
        /\ FoldLeft(LAMBDA acc, line : acc \o line.hex, << >>, out.table)
              = BytesToHex(out.data)
        /\ \A k \in DOMAIN out.table :
              out.table[k].hex
                = BytesToHex(SubSeq(out.data, out.table[k].offset + 1,
                                    out.table[k].offset + out.table[k].size))

(***************************************************************************)
(* The Type column says "Column" on exactly the NameLength lines, the      *)
(* lines where a column begins, and "Type/Value" on the others.  The code  *)
(* decides it by searching the description, which quotes the column name  *)
(* and a string value.                                                     *)
(***************************************************************************)
ColumnLabelOnlyOnNameLength ==
    out.status = "printed" =>
        \A k \in DOMAIN out.table :
           (out.table[k].type = "Column") <=> (out.table[k].description.kind = "NameLength")
=============================================================================
