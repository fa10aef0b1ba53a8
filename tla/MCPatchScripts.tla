---------------------------- MODULE MCPatchScripts ----------------------------
(***************************************************************************)
(* Instance of PatchScripts: the six Read methods in Allman layout, as the *)
(* scripts' patterns expect them, after one line of other code.            *)
(***************************************************************************)
EXTENDS PatchScripts

MCMethods == {"ReadString", "ReadBytes", "ReadGuid", "ReadBoolean", "ReadInt32", "ReadInt64"}
MCLengthMethods == {"ReadString", "ReadBytes"}

BodyLine(m) == Line("body", m, "-")
CloseLine == Line("close", "-", "-")
OtherLine == Line("other", "-", "-")

\* A Read method before patching
Method(m) ==
    << SigLine(m), OpenLine >> \o (IF m \in MCLengthMethods THEN <<LenLine>> ELSE << >>)
      \o << BodyLine(m), CloseLine >>

MCPristine ==
    << OtherLine >> \o Method("ReadString") \o Method("ReadBytes") \o Method("ReadGuid")
      \o Method("ReadBoolean") \o Method("ReadInt32") \o Method("ReadInt64")

\* After one guard insertion, ReadString's throw is line 6; a second throw
\* right after it, where fix_duplicate.py looks, is line 7.
MCDupIndex == 7
=============================================================================
