---------------------------- MODULE MCPatchedCodec ----------------------------
(***************************************************************************)
(* The decoder as the patch scripts leave it: a primitive read carries a   *)
(* bounds guard exactly when the file fix_bounds_v3.py writes has one in   *)
(* that Read method (v1 and v2 guard the same methods).  The codec is     *)
(* otherwise MCRowCodec.                                                   *)
(***************************************************************************)
EXTENDS MCRowCodec

\* The unpatched file of MCPatchScripts (its own constants are not used)
Layout == INSTANCE MCPatchScripts
    WITH Methods <- {}, LengthMethods <- {}, Pristine <- << >>, DupIndex <- 0,
         Available <- {}, MaxRuns <- 0, file <- << >>, runs <- << >>

Patch == INSTANCE PatchScripts
    WITH Methods <- Layout!MCMethods, LengthMethods <- Layout!MCLengthMethods,
         Pristine <- Layout!MCPristine, DupIndex <- Layout!MCDupIndex,
         Available <- {"v3"}, MaxRuns <- 1, file <- << >>, runs <- << >>

PatchedFile == Patch!FixBoundsV3(Layout!MCPristine)

\* The reads whose method has a guard before its read in the patched file
MCPatchedReads ==
    {r \in Reads \cap Layout!MCMethods :
        Patch!GuardedBeforeRead(Patch!MethodLines(PatchedFile, r), r)}
=============================================================================
