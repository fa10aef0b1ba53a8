------------------------------- MODULE RowCodec -------------------------------
(***************************************************************************)
(* The codec as the storage layer uses it (spec.md section 6): a row is     *)
(* serialized, the bytes are stored as an opaque slice, and the slice is   *)
(* later handed back to the decoder -- intact, cut short, or with one byte *)
(* changed by storage-layer corruption.  Each behaviour is one decode call *)
(* of that slice.                                                          *)
(***************************************************************************)
EXTENDS RowDeserializer, FiniteSets

CONSTANTS
    Rows,     \* the rows the caller serializes
    Modes     \* subset of {"intact", "prefix", "flip"}

VARIABLES
    src,      \* the row that was serialized (fixed for the behaviour)
    mode      \* how the stored slice relates to serialize(src)

vars == <<src, mode, decoderVars>>

\* The slices the storage layer can hand back for an encoded buffer b
Slices(b, m) ==
    CASE m = "intact" -> {b}
      [] m = "prefix" -> {SubSeq(b, 1, k) : k \in 0..(Len(b) - 1)}
      [] m = "flip"   -> {[b EXCEPT ![i] = x] : i \in 1..Len(b), x \in Byte} \ {b}

Init ==
    /\ src \in Rows
    /\ mode \in Modes
    /\ \E slice \in Slices(Serialize(src).buf, mode) : DecoderInit(slice)

\* The call has returned
Terminating == phase = "done" /\ UNCHANGED vars

\* One step of the decode call
DecoderStep == DecoderNext /\ UNCHANGED <<src, mode>>

Next == DecoderStep \/ Terminating

Spec == Init /\ [][Next]_vars

-----------------------------------------------------------------------------
(***************************************************************************)
(* Reference definitions, from the spec rather than the code.              *)
(***************************************************************************)

\* Section 4.1: the variant a Python value must decode as
ExpectedValue(value) ==
    CASE value.t = "None"   -> [t |-> 0, v |-> <<>>]
      [] value.t = "bool"   -> [t |-> 4, v |-> value.v]
      [] value.t = "int"    -> IF value.v \in Int32Min..Int32Max
                               THEN [t |-> 1, v |-> value.v]
                               ELSE [t |-> 2, v |-> value.v]
      [] value.t = "float"  -> [t |-> 3, v |-> FloatBits[value.v]]
      [] value.t = "str"    -> [t |-> 6, v |-> Utf8Encode(value.v)]
      [] value.t = "bytes"  -> [t |-> 7, v |-> value.v]
      [] value.t = "object" -> [t |-> 6, v |-> Utf8Encode(OtherText[value.v])]

\* Decoded values are compared marker first (payload types differ by marker)
SameValue(a, b) == a.t = b.t /\ a.v = b.v

DecodesTo(decoded, original) ==
    /\ Len(decoded) = Len(original)
    /\ \A i \in 1..Len(original) :
          /\ decoded[i][1] = Utf8Encode(original[i][1])
          /\ SameValue(decoded[i][2], ExpectedValue(original[i][2]))

\* Section 3: payload size of a value, by the variant it must decode as
PayloadSize(value) ==
    LET e == ExpectedValue(value) IN
    CASE e.t \in {6, 7} -> 4 + Len(e.v)
      [] e.t = 0 -> 0 [] e.t = 1 -> 4 [] e.t = 2 -> 8 [] e.t = 3 -> 8 [] e.t = 4 -> 1

RECURSIVE ColumnsSize(_)
ColumnsSize(r) ==
    IF r = <<>> THEN 0
    ELSE 4 + Len(Utf8Encode(Head(r)[1])) + 1 + PayloadSize(Head(r)[2])
         + ColumnsSize(Tail(r))

-----------------------------------------------------------------------------
TypeOK ==
    /\ src \in Rows
    /\ mode \in Modes
    /\ buf \in Seq(Byte)
    /\ offset \in 0..Len(buf)
    /\ count \in -IntHalf..(IntWord - 1)
    /\ col \in Nat
    /\ name \in Seq(Byte)
    /\ marker \in Byte
    /\ phase \in {"count", "name", "marker", "value", "done"}
    /\ outcome \in {"none", "ok", "truncated", "unsupported", "unguarded"}
    /\ (outcome = "none") <=> (phase # "done")

(***************************************************************************)
(* Round trip (spec 4.4, 8): serializing a row of the Python encoder and   *)
(* decoding the intact bytes with the C# decoder returns the same columns, *)
(* in order, each with the variant section 4.1 prescribes (bool before     *)
(* int, the Int32/Int64 boundary, the str() fallback).                     *)
(***************************************************************************)
RoundTrip ==
    (mode = "intact" /\ phase = "done") =>
        /\ Serialize(src).ok
        /\ outcome = "ok"
        /\ DecodesTo(row, src)

(***************************************************************************)
(* Minimality (spec 3, 8): serialize writes exactly 4 + sum of (4 + name   *)
(* bytes + 1 + payload) bytes, with UTF-8 byte counts, not character       *)
(* counts, and the narrowest integer width.                                *)
(***************************************************************************)
Minimality == Len(Serialize(src).buf) = 4 + ColumnsSize(src)

(***************************************************************************)
(* Truncation safety (spec 8): decoding any strict prefix of an encoded    *)
(* row ends in the guards' "truncated" failure -- never a row, never an    *)
(* unsupported marker, never an exception the guards did not raise.        *)
(***************************************************************************)
TruncationSafety ==
    (mode = "prefix" /\ phase = "done") => outcome = "truncated"

(***************************************************************************)
(* Every failure of a decode call is one of the codec's typed failures:    *)
(* no corrupted or crafted slice gets past the inserted bounds guards to a *)
(* span slice that throws (spec 4.3, 7).                                   *)
(***************************************************************************)
FailuresAreTyped == outcome # "unguarded"
=============================================================================
