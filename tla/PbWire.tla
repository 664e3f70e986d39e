-------------------------------- MODULE PbWire --------------------------------
(***************************************************************************)
(* The wire format as nanopb reads and writes it (pb_encode.c, pb_decode.c, *)
(* pb_common.c), for the field types the generated descriptors use.  The    *)
(* library is built without PB_ENABLE_MALLOC.                               *)
(*                                                                          *)
(* Widths are constants, so that TLC can reach every boundary: the code has *)
(* GroupBits = 7, Bits32 = 32, Bits64 = 64.  What the code relies on is     *)
(* assumed of any other choice: a 64-bit varint leaves one bit for its last *)
(* group, a 32-bit one leaves some, but not all, of it.                     *)
(***************************************************************************)
EXTENDS Integers, Sequences, FiniteSets

CONSTANTS GroupBits, Bits32, Bits64, Absent

ByteBits == GroupBits + 1

ASSUME WidthAssumption ==
    /\ GroupBits \in Nat \ {0, 1}
    /\ Bits64 = 2 * Bits32
    /\ Bits64 % GroupBits = 1
    /\ Bits32 % GroupBits # 0
    /\ Bits32 % ByteBits = 0

More == 2 ^ GroupBits                   \* the bit 0x80: another byte follows
Group(b) == b % More                    \* byte & 0x7F

Signed(v, bits) ==                      \* the cast to a signed type
    LET u == v % 2 ^ bits IN IF u >= 2 ^ (bits - 1) THEN u - 2 ^ bits ELSE u

-----------------------------------------------------------------------------
(* Reading.  A reader takes the bytes left in the stream and gives whether  *)
(* it succeeded, what it read and the bytes left after it.                  *)

Fail == [ok |-> FALSE, val |-> 0, rest |-> <<>>]
Read(v, s) == [ok |-> TRUE, val |-> v, rest |-> s]
From(s, i) == SubSeq(s, i, Len(s))

Take(s, n) ==
    IF Len(s) < n THEN Fail ELSE Read(SubSeq(s, 1, n), From(s, n + 1))

\* How many bytes the varint at the head of s has: 0 when it does not end.
VarintLen(s) ==
    IF \E i \in DOMAIN s : s[i] < More
    THEN CHOOSE i \in DOMAIN s : s[i] < More /\ \A j \in 1 .. i - 1 : s[j] >= More
    ELSE 0

\* The value of the first n groups of s.
RECURSIVE Groups(_, _)
Groups(s, n) ==
    IF n = 0 THEN 0 ELSE Groups(s, n - 1) + Group(s[n]) * 2 ^ (GroupBits * (n - 1))

\* Where the group of the i-th byte goes.  (The code's bitpos has 8 bits and
\* wraps in a 32-bit varint of more than 37 bytes, which is not modelled.)
BitPos(i) == GroupBits * (i - 1)

Varint64OfLen(s, n) ==
    IF n = 0 \/ BitPos(n) >= Bits64 THEN Fail
    ELSE Read(Groups(s, n) % 2 ^ Bits64, From(s, n + 1))

Varint64(s) == Varint64OfLen(s, VarintLen(s))

\* Variant: the last group is as the others.
AlwaysFull(i) == 2 * More - 1

SignExtension(i) == IF BitPos(i) < Bits64 - 1 THEN 2 * More - 1 ELSE 1

\* Groups past bit 32 must be empty, or the sign extension of a negative
\* number; of the last group below, a varint that ends there may use only the
\* bits that fit.
LowGroups == CHOOSE i \in 1 .. Bits32 : BitPos(i) < Bits32 /\ BitPos(i + 1) >= Bits32
Varint32OfLen(s, n, value) ==
    LET fits(i) == \/ Group(s[i]) = 0
                   \/ value >= 2 ^ (Bits32 - 1) /\ s[i] = SignExtension(i)
    IN  IF \/ n = 0
           \/ \E i \in LowGroups + 1 .. n : ~fits(i)
           \/ n = LowGroups /\ Group(s[n]) >= 2 ^ (Bits32 - BitPos(n))
        THEN Fail
        ELSE Read(value, From(s, n + 1))

Varint32(s) ==
    LET n == VarintLen(s) IN
    Varint32OfLen(s, n, Groups(s, IF n < LowGroups THEN n ELSE LowGroups) % 2 ^ Bits32)

VarintWire == 0
Word64Wire == 1
StringWire == 2
Word32Wire == 5

\* eof says that there is no further field: nothing is left, or the tag is 0.
Tag(r, empty) ==
    [ok |-> r.ok /\ r.val # 0, eof |-> empty \/ (r.ok /\ r.val = 0),
     tag |-> r.val \div 8, wire |-> r.val % 8, rest |-> r.rest]

ReadTag(s) == Tag(Varint32(s), s = <<>>)

\* pb_make_string_substream() with pb_close_string_substream(): the bytes of
\* the substream, whatever its reader leaves of them.
TakeLen(r) == IF r.ok THEN Take(r.rest, r.val) ELSE Fail
ReadString(s) == TakeLen(Varint32(s))

ReadRaw(s, wire) ==
    CASE wire = VarintWire -> IF VarintLen(s) = 0 THEN Fail ELSE Take(s, VarintLen(s))
      [] wire = Word64Wire -> Take(s, Bits64 \div ByteBits)
      [] wire = Word32Wire -> Take(s, Bits32 \div ByteBits)
      [] OTHER -> Fail

SkipField(s, wire) == IF wire = StringWire THEN ReadString(s) ELSE ReadRaw(s, wire)

-----------------------------------------------------------------------------
(* Fields.  A message is a function from tags to values, Absent for one     *)
(* that is not there; its type is a sequence of fields.                     *)

Field(tag, kind, rule) == [tag |-> tag, kind |-> kind, rule |-> rule]
SubMessage(tag, rule, fields) ==
    [tag |-> tag, kind |-> "message", rule |-> rule, sub |-> fields]
Required(fields) == {fields[i].tag : i \in {j \in DOMAIN fields : fields[j].rule = "required"}}
Tags(fields) == {fields[i].tag : i \in DOMAIN fields}
FieldOf(fields, tag) == fields[CHOOSE i \in DOMAIN fields : fields[i].tag = tag]

IsCallback(f) == f.kind = "string"
DataBits(kind) == CASE kind = "bool" -> ByteBits [] kind = "uint64" -> Bits64 [] OTHER -> Bits32

\* pb_message_set_to_defaults(): a callback field is left alone.
Defaults(fields, m) ==
    [t \in Tags(fields) |->
        LET f == FieldOf(fields, t) IN
        IF IsCallback(f) THEN m[t] ELSE IF f.rule = "required" THEN 0 ELSE Absent]

\* pb_dec_varint() and pb_dec_uvarint(): the cast to the field may not change
\* the value, but an int32 may come as an int64 or cut to 32 bits.
Cast(r, kind) ==
    LET wide == IF kind \in {"int32", "bool"} THEN Signed(r.val, Bits32) ELSE r.val
        narrow == IF kind \in {"int32", "bool"} THEN Signed(wide, DataBits(kind))
                                                ELSE wide % 2 ^ DataBits(kind)
    IN  IF r.ok /\ narrow = wide THEN Read(narrow, r.rest) ELSE Fail

DecodeInt(s, kind) == Cast(Varint64(s), kind)

RECURSIVE LittleEndian(_)
LittleEndian(bs) ==
    IF bs = <<>> THEN 0 ELSE Head(bs) + 2 ^ ByteBits * LittleEndian(Tail(bs))

DecodeFixed32(s) ==
    LET r == Take(s, Bits32 \div ByteBits) IN
    IF r.ok THEN Read(LittleEndian(r.val), r.rest) ELSE Fail

\* decode_callback_field() with the SDK's callback, decode_string(), which does
\* nothing with an empty string.
KeepIfEmpty(r, old) == IF r.ok /\ r.val = <<>> THEN [r EXCEPT !.val = old] ELSE r
DecodeCallback(s, wire, old) == KeepIfEmpty(SkipField(s, wire), old)

\* pb_decode_noinit().  The wire type counts for nothing but a callback field.
\* Of a message that is rejected val is what was read before, and nothing of it
\* outlives the next ParseFromArray().
RECURSIVE DecodeFields(_, _, _, _)
DecodeField(f, wire, s, old) ==
    CASE f.kind = "string" -> DecodeCallback(s, wire, old)
      [] f.kind = "float" -> DecodeFixed32(s)
      [] f.kind = "message" ->
            LET r == ReadString(s)
                init == IF old = Absent THEN Defaults(f.sub, [t \in Tags(f.sub) |-> Absent])
                                        ELSE old
                d == DecodeFields(r.val, f.sub, init, {})
            IN  IF r.ok /\ d.ok THEN Read(d.val, r.rest) ELSE Fail
      [] OTHER -> DecodeInt(s, f.kind)

AfterField(t, r, fields, m, seen) ==
    IF ~r.ok THEN [ok |-> FALSE, val |-> m]
    ELSE DecodeFields(r.rest, fields, [u \in DOMAIN m |-> IF u = t.tag THEN r.val ELSE m[u]],
                      seen \cup {t.tag})

AfterTag(t, fields, m, seen) ==
    IF t.eof THEN [ok |-> Required(fields) \subseteq seen, val |-> m]
    ELSE IF ~t.ok THEN [ok |-> FALSE, val |-> m]
    ELSE AfterField(t, IF t.tag \in Tags(fields)
                       THEN DecodeField(FieldOf(fields, t.tag), t.wire, t.rest, m[t.tag])
                       ELSE SkipField(t.rest, t.wire), fields, m, seen)

DecodeFields(s, fields, m, seen) == AfterTag(ReadTag(s), fields, m, seen)

Decode(s, fields, m) == DecodeFields(s, fields, Defaults(fields, m), {})

-----------------------------------------------------------------------------
(* Writing.  An output stream has a limit, or only counts (sizing).         *)

Stream(max) == [out |-> <<>>, max |-> max, ok |-> TRUE, sizing |-> FALSE]
SizingStream == [Stream(0) EXCEPT !.sizing = TRUE]

Put(o, bs) ==
    IF o.ok /\ (o.sizing \/ Len(o.out) + Len(bs) <= o.max)
    THEN [o EXCEPT !.out = @ \o bs] ELSE [o EXCEPT !.ok = FALSE]

RECURSIVE VarintBytes(_)
VarintBytes(v) ==
    IF v < More THEN <<v>> ELSE <<More + Group(v)>> \o VarintBytes(v \div More)

WireType(kind) ==
    CASE kind \in {"string", "message"} -> StringWire
      [] kind = "float" -> Word32Wire
      [] OTHER -> VarintWire

TagBytes(tag, wire) == VarintBytes(tag * 8 + wire)

\* Variant: the length is not a varint.
OneByteLength(bs) == <<Len(bs)>> \o bs

StringBytes(bs) == VarintBytes(Len(bs)) \o bs

Fixed32Bytes(v) ==
    [i \in 1 .. Bits32 \div ByteBits |-> (v \div 2 ^ (ByteBits * (i - 1))) % 2 ^ ByteBits]

\* encode_basic_field() and encode_callback_field(): a callback that is not set
\* and an optional field that is not there write nothing, required or not.  A
\* message is written twice, first to learn its size.
RECURSIVE PutFields(_, _, _)
PutMessage(o, fields, m) ==
    LET size == Len(PutFields(SizingStream, fields, m).out)
        head == Put(o, VarintBytes(size))
        body == PutFields(Stream(size), fields, m)
    IN  IF o.sizing THEN Put(head, PutFields(SizingStream, fields, m).out)
        ELSE IF body.ok /\ Len(body.out) = size THEN Put(head, body.out)
        ELSE [head EXCEPT !.ok = FALSE]

PutField(o, f, v) ==
    LET t == Put(o, TagBytes(f.tag, WireType(f.kind))) IN
    CASE v = Absent -> o
      [] f.kind = "string" -> Put(t, StringBytes(v))
      [] f.kind = "float" -> Put(t, Fixed32Bytes(v))
      [] f.kind = "message" -> PutMessage(t, f.sub, v)
      [] OTHER -> Put(t, VarintBytes(v % 2 ^ Bits64))

PutFields(o, fields, m) ==
    IF fields = <<>> THEN o
    ELSE PutFields(PutField(o, Head(fields), m[Head(fields).tag]), Tail(fields), m)

Encode(fields, m, max) == PutFields(Stream(max), fields, m)
=============================================================================
