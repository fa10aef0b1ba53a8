--------------------------- MODULE RowDeserializer ---------------------------
(***************************************************************************)
(* The row decoder of SharpCoreDB (DatabaseExtensions.cs, which is not in  *)
(* this repository): one decode call over a caller-supplied byte slice.    *)
(* Its bounds guards are those the patch scripts src/fix_bounds_*.py       *)
(* insert into the C# Read methods; the decode loop and the reads the      *)
(* scripts do not touch (marker byte, Double, DateTime, Decimal) follow    *)
(* spec.md section 4.3.                                                    *)
(*                                                                         *)
(* The guards compute 'offset + length' in C# int arithmetic, which wraps  *)
(* (unchecked context); CsAdd keeps that width (4 bytes of ByteBase).      *)
(* When a guard lets a read through that the span cannot satisfy, the     *)
(* span slice throws ArgumentOutOfRangeException: the outcome "unguarded", *)
(* which is not one of the codec's typed failures.                         *)
(***************************************************************************)
EXTENDS BinaryRowSerializer

CONSTANTS
    GuidMarker,      \* the marker byte of Guid ("(ext)" in the spec's table)
    DateTimeWidth,   \* payload width of marker 5 (left open by the spec)
    DecimalWidth,    \* payload width of marker 8 (left open by the spec)
    GuardedReads     \* the primitive reads that carry a bounds guard

\* The primitive reads of spec.md 4.3, by the C# method that performs them
Reads == {"ReadByte", "ReadInt32", "ReadInt64", "ReadDouble", "ReadBoolean",
          "ReadDateTime", "ReadString", "ReadBytes", "ReadDecimal", "ReadGuid"}

ASSUME GuardedReads \subseteq Reads

VARIABLES
    buf,       \* the slice being decoded (ReadOnlySpan<byte> data)
    offset,    \* the cursor (ref int offset), 0-based
    count,     \* the column count read first
    col,       \* the loop index over the columns
    name,      \* the name bytes of the column being read
    marker,    \* the marker byte of the column being read
    row,       \* the partially built row: <<name bytes, decoded value>> pairs
    phase,     \* the next read: "count", "name", "marker", "value", or "done"
    outcome    \* "none" while decoding; then "ok", "truncated", "unsupported", "unguarded"

decoderVars == <<buf, offset, count, col, name, marker, row, phase, outcome>>

\* C# int: 4 bytes, two's complement, wrapping on overflow
IntWord == ByteBase^4
IntHalf == IntWord \div 2
CsAdd(a, b) == ((a + b + IntHalf) % IntWord) - IntHalf

\* Little-endian unsigned value of a byte sequence
RECURSIVE Unsigned(_)
Unsigned(bs) == IF bs = <<>> THEN 0 ELSE Head(bs) + ByteBase * Unsigned(Tail(bs))

\* BinaryPrimitives.ReadInt32LittleEndian / ReadInt64LittleEndian
ReadI32(bs) == LET u == Unsigned(bs) IN IF u >= IntHalf THEN u - IntWord ELSE u
ReadI64(bs) ==
    LET top == bs[8]
        low == Unsigned(SubSeq(bs, 1, 7))
    IN  low + (IF top >= ByteBase \div 2 THEN top - ByteBase ELSE top) * ByteBase^7

KnownMarkers == {0, 1, 2, 3, 4, 5, 6, 7, 8, GuidMarker}

\* Payload width of a fixed-size marker
FixedWidth(m) ==
    CASE m = 0 -> 0 [] m = 1 -> 4 [] m = 2 -> 8 [] m = 3 -> 8 [] m = 4 -> 1
      [] m = 5 -> DateTimeWidth [] m = 8 -> DecimalWidth [] m = GuidMarker -> 16

ReadResult(status, bytes, next) == [status |-> status, bytes |-> bytes, next |-> next]

\* Mutant: the cursor advanced one byte too far
FixedReadPastField(r, o, w) ==
    IF r \in GuardedReads /\ CsAdd(o, w) > Len(buf) THEN ReadResult("truncated", <<>>, o)
    ELSE IF o + w > Len(buf) THEN ReadResult("unguarded", <<>>, o)
    ELSE ReadResult("ok", SubSeq(buf, o + 1, o + w), o + w + 1)

(***************************************************************************)
(* A fixed-size read r of w bytes at o: the inserted guard, if r has one,  *)
(*   if (offset + w > data.Length) throw ... truncated ...                *)
(* then the read of data.Slice(offset, w).                                 *)
(***************************************************************************)
FixedRead(r, o, w) ==
    IF r \in GuardedReads /\ CsAdd(o, w) > Len(buf) THEN ReadResult("truncated", <<>>, o)
    ELSE IF o + w > Len(buf) THEN ReadResult("unguarded", <<>>, o)
    ELSE ReadResult("ok", SubSeq(buf, o + 1, o + w), o + w)

\* Mutant: the decoder before the patch, only the sign of length checked
LengthPrefixedReadUnpatched(r, o) ==
    LET lenRead == FixedRead("ReadInt32", o, 4)
        length == ReadI32(lenRead.bytes)
        o2 == lenRead.next
    IN  IF lenRead.status # "ok" THEN lenRead
        ELSE IF r \in GuardedReads /\ length < 0 THEN ReadResult("truncated", <<>>, o2)
        ELSE IF o2 + length > Len(buf) THEN ReadResult("unguarded", <<>>, o2)
        ELSE ReadResult("ok", SubSeq(buf, o2 + 1, o2 + length), o2 + length)

(***************************************************************************)
(* ReadString / ReadBytes: var length = ReadInt32(data, ref offset); then  *)
(* the inserted guard                                                      *)
(*   if (length < 0 || offset + length > data.Length) throw ... truncated *)
(* then the copy of data.Slice(offset, length).                            *)
(***************************************************************************)
LengthPrefixedRead(r, o) ==
    LET lenRead == FixedRead("ReadInt32", o, 4)
        length == ReadI32(lenRead.bytes)
        o2 == lenRead.next
    IN  IF lenRead.status # "ok" THEN lenRead
        ELSE IF r \in GuardedReads /\ (length < 0 \/ CsAdd(o2, length) > Len(buf))
             THEN ReadResult("truncated", <<>>, o2)
        ELSE IF o2 + length > Len(buf) THEN ReadResult("unguarded", <<>>, o2)
        ELSE ReadResult("ok", SubSeq(buf, o2 + 1, o2 + length), o2 + length)

\* The primitive read a marker dispatches to (Null reads nothing)
PrimitiveOf(m) ==
    CASE m = 0 -> "none" [] m = 1 -> "ReadInt32" [] m = 2 -> "ReadInt64"
      [] m = 3 -> "ReadDouble" [] m = 4 -> "ReadBoolean" [] m = 5 -> "ReadDateTime"
      [] m = 6 -> "ReadString" [] m = 7 -> "ReadBytes" [] m = 8 -> "ReadDecimal"
      [] m = GuidMarker -> "ReadGuid"

ValueRead(m, o) ==
    IF m \in {BinaryTypeMarker.String, BinaryTypeMarker.Bytes}
    THEN LengthPrefixedRead(PrimitiveOf(m), o)
    ELSE FixedRead(PrimitiveOf(m), o, FixedWidth(m))

\* The decoded value: marker plus payload (integers and booleans interpreted)
Decoded(m, bs) ==
    CASE m = BinaryTypeMarker.Int32   -> [t |-> m, v |-> ReadI32(bs)]
      [] m = BinaryTypeMarker.Int64   -> [t |-> m, v |-> ReadI64(bs)]
      [] m = BinaryTypeMarker.Boolean -> [t |-> m, v |-> bs[1] # 0]
      [] OTHER                        -> [t |-> m, v |-> bs]

DecoderInit(slice) ==
    /\ buf = slice
    /\ offset = 0
    /\ count = 0
    /\ col = 0
    /\ name = <<>>
    /\ marker = 0
    /\ row = <<>>
    /\ phase = "count"
    /\ outcome = "none"

\* A read failed: the exception ends the call, the partial row is dropped
Fail(kind) ==
    /\ phase' = "done"
    /\ outcome' = kind
    /\ UNCHANGED <<buf, offset, count, col, name, marker, row>>

\* The column count, read first
ReadCount ==
    /\ phase = "count"
    /\ LET r == FixedRead("ReadInt32", offset, 4) IN
         IF r.status # "ok" THEN Fail(r.status)
         ELSE /\ count' = Unsigned(r.bytes)
              /\ offset' = r.next
              /\ phase' = "name"
              /\ UNCHANGED <<buf, col, name, marker, row, outcome>>

\* Loop body, first read: var name = ReadString(data, ref offset);
ReadName ==
    /\ phase = "name"
    /\ col < count
    /\ LET r == LengthPrefixedRead("ReadString", offset) IN
         IF r.status # "ok" THEN Fail(r.status)
         ELSE /\ name' = r.bytes
              /\ offset' = r.next
              /\ phase' = "marker"
              /\ UNCHANGED <<buf, count, col, marker, row, outcome>>

\* The marker byte
ReadMarker ==
    /\ phase = "marker"
    /\ LET r == FixedRead("ReadByte", offset, 1) IN
         IF r.status # "ok" THEN Fail(r.status)
         ELSE /\ marker' = r.bytes[1]
              /\ offset' = r.next
              /\ phase' = "value"
              /\ UNCHANGED <<buf, count, col, name, row, outcome>>

\* switch (marker): the variant's read, or UnsupportedType
ReadValue ==
    /\ phase = "value"
    /\ IF marker \notin KnownMarkers THEN Fail("unsupported")
       ELSE LET r == ValueRead(marker, offset) IN
         IF r.status # "ok" THEN Fail(r.status)
         ELSE /\ row' = Append(row, <<name, Decoded(marker, r.bytes)>>)
              /\ col' = col + 1
              /\ offset' = r.next
              /\ phase' = "name"
              /\ UNCHANGED <<buf, count, name, marker, outcome>>

\* The loop ends after count columns and the row is returned
Complete ==
    /\ phase = "name"
    /\ col >= count
    /\ phase' = "done"
    /\ outcome' = "ok"
    /\ UNCHANGED <<buf, offset, count, col, name, marker, row>>

DecoderNext == ReadCount \/ ReadName \/ ReadMarker \/ ReadValue \/ Complete
=============================================================================
