----------------------------- MODULE PatchScripts -----------------------------
(***************************************************************************)
(* The scripts that insert bounds guards into the C# Read methods of        *)
(* src/SharpCoreDB/DatabaseExtensions.cs: src/fix_bounds_checking.py (v1),  *)
(* src/fix_bounds_v2.py (v2), src/fix_bounds_v3.py (v3) and                *)
(* src/fix_duplicate.py.  A developer runs them from the repository root,  *)
(* in any order, and runs one again when its output looks wrong.  Each run  *)
(* reads the whole file, transforms its list of lines and writes it back:  *)
(* one action per script.                                                  *)
(*                                                                         *)
(* A line of the C# file is abstracted to what the scripts' tests can see:  *)
(* its kind, the Read method it belongs to, and for an inserted throw the   *)
(* wording of its message ("named": "<Type> truncated at offset" of v1 and  *)
(* v2; "plain": "Truncated at offset" of v3).  The substring tests of the   *)
(* scripts become predicates on these records.                             *)
(***************************************************************************)
EXTENDS Integers, Sequences, SequencesExt, FiniteSets

CONSTANTS
    Methods,        \* the patched Read methods
    LengthMethods,  \* those that start with 'var length = ReadInt32(...)'
    Pristine,       \* the file before any script ran: a sequence of lines
    DupIndex,       \* 1-based position of lines[1415] in fix_duplicate.py
    Available,      \* the scripts the developer runs
    MaxRuns         \* bound on the number of script runs

Scripts == {"v1", "v2", "v3", "dup"}

ASSUME Available \subseteq Scripts /\ LengthMethods \subseteq Methods /\ MaxRuns \in Nat

VARIABLES
    file,   \* the lines of DatabaseExtensions.cs
    runs    \* the scripts run so far, in order

vars == <<file, runs>>

Line(k, m, s) == [k |-> k, m |-> m, s |-> s]
SigLine(m) == Line("sig", m, "-")          \* private static T ReadX(ReadOnlySpan<byte> data, ref int offset)
OpenLine == Line("open", "-", "-")         \* {
LenLine == Line("len", "-", "-")           \* var length = ReadInt32(data, ref offset);
IfLine(m) == Line("if", m, "-")            \* if (offset + n > data.Length)  /  if (length < 0 || ...)
ThrowLine(m, s) == Line("throw", m, s)     \* throw new InvalidOperationException($"... {offset} ...");

(***************************************************************************)
(* The substring tests.  Every inserted throw interpolates {offset}, so it *)
(* contains '{' as the brace line does.                                    *)
(***************************************************************************)
HasSig(l, m) == l.k = "sig" /\ l.m = m
HasBrace(l) == l.k \in {"open", "throw"}
HasLengthRead(l) == l.k = "len"
HasTruncatedAtOffset(l) == l.k = "throw" /\ l.s = "named"
HasStringTruncated(l) == HasTruncatedAtOffset(l) /\ l.m = "ReadString"

\* The guard pair a script inserts: the if line, then the throw line
Guard(m, s) == << IfLine(m), ThrowLine(m, s) >>

\* list.insert of each line of t from position i: an index past the end appends
InsertSeqAt(ls, i, t) ==
    LET j == Min({i, Len(ls) + 1})
    IN  SubSeq(ls, 1, j - 1) \o t \o SubSeq(ls, j, Len(ls))

-----------------------------------------------------------------------------
(***************************************************************************)
(* v1: one re.sub per method over the whole content.  The pattern is the    *)
(* signature, blanks, '{' (and for ReadString/ReadBytes blanks and the      *)
(* length read); the guard goes right after the match.                     *)
(***************************************************************************)
V1Match(ls, m, i) ==
    /\ i + 1 <= Len(ls)
    /\ HasSig(ls[i], m)
    /\ ls[i + 1] = OpenLine
    /\ m \in LengthMethods => i + 2 <= Len(ls) /\ HasLengthRead(ls[i + 2])

\* Mutant: the ReadString/ReadBytes pattern ending at '{', before the length read
V1SubBraceOnly(ls, m) ==
    LET at == {i \in 1..(Len(ls) - 1) : HasSig(ls[i], m) /\ ls[i + 1] = OpenLine}
    IN  IF at = {} THEN ls
        ELSE InsertSeqAt(ls, (CHOOSE i \in at : TRUE) + 2, Guard(m, "named"))

V1Sub(ls, m) ==
    LET at == {i \in 1..Len(ls) : V1Match(ls, m, i)}
        end == IF m \in LengthMethods THEN 3 ELSE 2
    IN  IF at = {} THEN ls
        ELSE LET i == CHOOSE i \in at : TRUE
             IN  InsertSeqAt(ls, i + end, Guard(m, "named"))

\* An exception: the script stops before its write (see v3)
Raised == << Line("raised", "-", "-") >>

V1Order == <<"ReadString", "ReadBytes", "ReadGuid", "ReadInt32", "ReadInt64", "ReadBoolean">>

\* The script's statements, one per method, applied in the script's order;
\* an exception (Raised, see v3) ends the script
RECURSIVE ForEachMethod(_, _, _)
ForEachMethod(Op(_, _), ls, order) ==
    IF order = << >> THEN ls
    ELSE LET next == Op(ls, Head(order))
         IN  IF next = Raised THEN Raised ELSE ForEachMethod(Op, next, Tail(order))

FixBoundsChecking(ls) == ForEachMethod(V1Sub, ls, V1Order)

-----------------------------------------------------------------------------
(***************************************************************************)
(* v2 works on Python's list of lines, into which it inserts strings that  *)
(* hold several lines; they only split when the file is read again.  Here  *)
(* that list is a sequence of chunks, each a sequence of lines.            *)
(***************************************************************************)
Holds(c, P(_)) == \E i \in 1..Len(c) : P(c[i])

\* The first index from i on whose element satisfies P, Len(s) + 1 if none:
\* a scan loop's iterations over the other elements change nothing
FirstFrom(s, i, P(_)) ==
    LET ks == {k \in i..Len(s) : P(s[k])}
    IN  IF ks = {} THEN Len(s) + 1 ELSE Min(ks)

\* check_code of the add_bounds_check call: '{', the length read, the guard
V2Block == << OpenLine, LenLine >> \o Guard("ReadString", "named")

\* add_bounds_check(lines, 'private static string ReadString(...)', check_code)
RECURSIVE AddBoundsCheck(_, _)
AddBoundsCheck(cs, i) ==
    LET k == FirstFrom(cs, i, LAMBDA c : Holds(c, LAMBDA l : HasSig(l, "ReadString")))
    IN  IF k > Len(cs) THEN cs
        ELSE IF k + 1 <= Len(cs) /\ Holds(cs[k + 1], HasTruncatedAtOffset)
             THEN AddBoundsCheck(cs, k + 1)
        ELSE AddBoundsCheck(InsertAt(cs, k + 1, V2Block), k + 2)

\* The chunks of a guard, inserted one line each
GuardChunks(m, s) == << <<IfLine(m)>>, <<ThrowLine(m, s)>> >>

\* ReadString/ReadBytes branch: the first length read among the next 9
\* chunks gets a guard unless the chunk after it has 'truncated at offset'
V2GuardLength(cs, i, m) ==
    LET js == {j \in (i + 1)..(i + 9) : j <= Len(cs) /\ Holds(cs[j], HasLengthRead)}
        j == CHOOSE j \in js : \A k \in js : j <= k
    IN  IF js = {} THEN cs
        ELSE IF j + 1 <= Len(cs) /\ ~Holds(cs[j + 1], HasTruncatedAtOffset)
             THEN InsertSeqAt(cs, j + 1, GuardChunks(m, "named"))
        ELSE cs

\* ReadGuid/ReadBoolean/ReadInt32/ReadInt64 branch: '{' on the next line,
\* and no 'truncated at offset' two lines down
V2GuardFixed(cs, i, m) ==
    IF Holds(cs[i + 1], HasBrace) /\ ~Holds(cs[i + 2], HasTruncatedAtOffset)
    THEN InsertSeqAt(cs, i + 2, GuardChunks(m, "named"))
    ELSE cs

\* The while loop over the lines, one elif per method
RECURSIVE V2Loop(_, _)
V2Loop(cs, i) ==
    LET k == FirstFrom(cs, i, LAMBDA c : \E m \in Methods : Holds(c, LAMBDA l : HasSig(l, m)))
        m == CHOOSE m \in Methods : Holds(cs[k], LAMBDA l : HasSig(l, m))
    IN  IF k > Len(cs) THEN cs
        ELSE V2Loop(IF m \in LengthMethods THEN V2GuardLength(cs, k, m)
                    ELSE V2GuardFixed(cs, k, m),
                    k + 1)

(***************************************************************************)
(* f.writelines(lines): the chunks, multi-line strings included, are       *)
(* written one after the other and split into lines again when the file   *)
(* is next read.  Concatenated by halves, so that the depth of the         *)
(* recursion is logarithmic in the length of the file.                     *)
(***************************************************************************)
RECURSIVE FlattenChunks(_)
FlattenChunks(cs) ==
    IF Len(cs) <= 1 THEN IF cs = << >> THEN << >> ELSE cs[1]
    ELSE LET h == Len(cs) \div 2
         IN  FlattenChunks(SubSeq(cs, 1, h)) \o FlattenChunks(SubSeq(cs, h + 1, Len(cs)))

FixBoundsV2(ls) ==
    FlattenChunks(V2Loop(AddBoundsCheck([i \in 1..Len(ls) |-> <<ls[i]>>], 1), 1))

-----------------------------------------------------------------------------
(***************************************************************************)
(* v3: find_and_fix_method for each method in turn, on single lines.       *)
(* lines[brace_line] is read without a bound: a signature on the last line *)
(* raises IndexError, the script stops before its write and the file keeps *)
(* its content: the outcome Raised, after which no statement runs.        *)
(***************************************************************************)
\* Mutant: the fixed-size guard inserted one line too low, after the read
RECURSIVE FindAndFixMethodLate(_, _, _)
FindAndFixMethodLate(ls, m, i0) ==
    LET i == FirstFrom(ls, i0, LAMBDA l : HasSig(l, m))
    IN  IF i > Len(ls) THEN ls
        ELSE IF i = Len(ls) THEN Raised
        ELSE
          LET brace == IF HasBrace(ls[i + 1]) THEN i + 1 ELSE i
              check == brace + 1
              js == {j \in brace..(brace + 9) : j <= Len(ls) /\ HasLengthRead(ls[j])}
          IN  IF check <= Len(ls) /\ HasTruncatedAtOffset(ls[check])
              THEN ls
              ELSE IF m \notin LengthMethods
              THEN InsertSeqAt(ls, check + 1, Guard(m, "plain"))
              ELSE IF js = {} THEN FindAndFixMethodLate(ls, m, i + 1)
              ELSE LET j == CHOOSE j \in js : \A k \in js : j <= k
                   IN  InsertSeqAt(ls, j + 1, Guard(m, "plain"))

RECURSIVE FindAndFixMethod(_, _, _)
FindAndFixMethod(ls, m, i0) ==
    LET i == FirstFrom(ls, i0, LAMBDA l : HasSig(l, m))
    IN  IF i > Len(ls) THEN ls                    \* "Could not find"
        ELSE IF i = Len(ls) THEN Raised               \* IndexError
        ELSE
          LET brace == IF HasBrace(ls[i + 1]) THEN i + 1 ELSE i
              check == brace + 1
              js == {j \in brace..(brace + 9) : j <= Len(ls) /\ HasLengthRead(ls[j])}
          IN  IF check <= Len(ls) /\ HasTruncatedAtOffset(ls[check])
              THEN ls                             \* "already has bounds check"
              ELSE IF m \notin LengthMethods
              THEN InsertSeqAt(ls, check, Guard(m, "plain"))
              ELSE IF js = {} THEN FindAndFixMethod(ls, m, i + 1)
              ELSE LET j == CHOOSE j \in js : \A k \in js : j <= k
                   IN  InsertSeqAt(ls, j + 1, Guard(m, "plain"))

V3Order == <<"ReadString", "ReadBytes", "ReadGuid", "ReadBoolean", "ReadInt32", "ReadInt64">>

FixBoundsV3(ls) == ForEachMethod(LAMBDA acc, m : FindAndFixMethod(acc, m, 1), ls, V3Order)

-----------------------------------------------------------------------------
\* fix_duplicate.py: delete lines[1415] if it and lines[1414] both say 'String truncated'
FixDuplicate(ls) ==
    IF /\ Len(ls) >= DupIndex
       /\ HasStringTruncated(ls[DupIndex - 1])
       /\ HasStringTruncated(ls[DupIndex])
    THEN RemoveAt(ls, DupIndex)
    ELSE ls

Apply(s, ls) ==
    CASE s = "v1"  -> FixBoundsChecking(ls)
      [] s = "v2"  -> FixBoundsV2(ls)
      [] s = "v3"  -> FixBoundsV3(ls)
      [] s = "dup" -> FixDuplicate(ls)

Init ==
    /\ file = Pristine
    /\ runs = << >>

\* python3 <script>: read, transform, write back unless the transform raised
Run(s) ==
    /\ s \in Available
    /\ Len(runs) < MaxRuns
    /\ file' = IF Apply(s, file) = Raised THEN file ELSE Apply(s, file)
    /\ runs' = Append(runs, s)

RunV1 == Run("v1")
RunV2 == Run("v2")
RunV3 == Run("v3")
RunFixDuplicate == Run("dup")

\* The developer stops after MaxRuns runs
Done == Len(runs) = MaxRuns /\ UNCHANGED vars

Next == RunV1 \/ RunV2 \/ RunV3 \/ RunFixDuplicate \/ Done

Spec == Init /\ [][Next]_vars

-----------------------------------------------------------------------------
\* The lines of method m, from its signature to its body line
MethodLines(ls, m) ==
    LET sig == CHOOSE i \in 1..Len(ls) : HasSig(ls[i], m)
        body == CHOOSE i \in 1..Len(ls) : ls[i].k = "body" /\ ls[i].m = m
    IN  SubSeq(ls, sig, body)

\* Positions in a method where a guard of m starts
GuardsAt(ml, m) == {i \in 1..(Len(ml) - 1) : ml[i] = IfLine(m) /\ ml[i + 1].k = "throw"}

\* A guard sits after the length read (if any) and before the body's read
GuardedBeforeRead(ml, m) ==
    \E i \in GuardsAt(ml, m) :
        m \in LengthMethods => \E j \in 1..(i - 1) : HasLengthRead(ml[j])

\* The file with the inserted guard lines taken out
WithoutGuards(ls) == SelectSeq(ls, LAMBDA l : l.k \notin {"if", "throw"})

(***************************************************************************)
(* Once any of the three bounds scripts has run, whatever ran before or    *)
(* after it, every Read method has an if/throw guard ahead of its read,    *)
(* and in ReadString/ReadBytes behind the length read the guard tests.     *)
(***************************************************************************)
EveryReadGuarded ==
    (\E i \in 1..Len(runs) : runs[i] \in {"v1", "v2", "v3"}) =>
        \A m \in Methods : GuardedBeforeRead(MethodLines(file, m), m)

(***************************************************************************)
(* The intended use: one run of fix_bounds_checking.py or of               *)
(* fix_bounds_v3.py on the unpatched file inserts exactly one guard per    *)
(* method, after the length read, and changes nothing else.               *)
(***************************************************************************)
SingleRunPatchesExactly ==
    runs \in {<<"v1">>, <<"v3">>} =>
        /\ WithoutGuards(file) = Pristine
        /\ \A m \in Methods :
             /\ Cardinality(GuardsAt(MethodLines(file, m), m)) = 1
             /\ GuardedBeforeRead(MethodLines(file, m), m)

(***************************************************************************)
(* Re-running a script is harmless: no Read method ever carries more than *)
(* one guard (each script's "already has bounds check" test is meant to    *)
(* make a second run a no-op).                                             *)
(***************************************************************************)
AtMostOneGuard ==
    \A m \in Methods : Cardinality(GuardsAt(MethodLines(file, m), m)) <= 1

(***************************************************************************)
(* The scripts insert guard lines and nothing else: removing the if/throw  *)
(* lines gives back the unpatched file, so no method gains a second block  *)
(* or a second declaration of 'length'.                                    *)
(***************************************************************************)
OnlyGuardsInserted == WithoutGuards(file) = Pristine

\* The number of guards of method m in the file ls
GuardCount(ls, m) == Cardinality(GuardsAt(MethodLines(ls, m), m))

=============================================================================
