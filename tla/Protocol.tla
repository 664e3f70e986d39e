------------------------------- MODULE Protocol -------------------------------
(***************************************************************************)
(* The messages of the SDK and the server: the generated descriptors        *)
(* (nanopb-gen), the classes that build and parse them (nanopb_encoder.cc,  *)
(* nanopb_decoder.cc) and who fills them in.  A message sent is serialized  *)
(* into the shared buffer; the responses of a whole session are parsed into *)
(* one object, which gen_results() keeps (that to a login has its own).     *)
(*                                                                          *)
(* The server is the environment: it reads what it is sent as proto2 says,  *)
(* and may send the fields of a response in any order, more than once, with *)
(* fields this version does not know, and with the end cut off.  It keeps to *)
(* the wire types of the descriptors.                                       *)
(***************************************************************************)
EXTENDS PbWire, SequencesExt, TLC

CONSTANT BufferSize       \* encodeBuffer: 1 MB in the code

AuthRequestFields == [i \in 1 .. 7 |-> Field(i, "string", "required")]
AuthResponseFields == <<Field(1, "uenum", "required")>>
TtsRequestFields == <<
    Field(1, "int32", "required"), Field(2, "string", "required"),
    Field(3, "string", "optional"), Field(4, "string", "optional"),
    Field(5, "uint32", "optional")>>
TtsResponseFields == <<
    Field(1, "int32", "required"), Field(2, "uenum", "required"),
    Field(3, "string", "optional"), Field(4, "string", "optional"),
    Field(5, "bool", "optional")>>
SpeechOptionsFields == <<
    Field(1, "uenum", "required"), Field(2, "uenum", "required"),
    Field(3, "uenum", "required"), Field(4, "uint32", "optional"),
    Field(5, "bool", "required"), Field(6, "bool", "required"),
    Field(7, "string", "optional"), Field(8, "string", "optional"),
    Field(9, "float", "optional"), Field(10, "uint32", "optional"),
    Field(11, "uint32", "optional"), Field(12, "string", "optional"),
    Field(13, "string", "optional"), Field(14, "uint32", "optional"),
    Field(15, "bool", "optional")>>
SpeechRequestFields == <<
    Field(1, "int32", "required"), Field(2, "uenum", "required"),
    Field(3, "string", "optional"), Field(4, "string", "optional"),
    SubMessage(5, "optional", SpeechOptionsFields)>>
SpeechResponseFields == <<
    Field(1, "int32", "required"), Field(2, "uenum", "required"),
    Field(3, "uenum", "required"), Field(4, "string", "optional"),
    Field(5, "string", "optional"), Field(6, "string", "optional"),
    Field(7, "string", "optional"), Field(11, "string", "optional")>>
PingPayloadFields == <<
    Field(1, "int32", "required"), Field(2, "uint64", "required"),
    Field(3, "uint64", "required"), Field(4, "uint64", "required")>>

-----------------------------------------------------------------------------
(* Building a message.  A new one has its defaults and no strings.          *)

New(fields) == Defaults(fields, [t \in Tags(fields) |-> Absent])
Set(m, t, v) == [m EXCEPT ![t] = v]
SetAll(m, values) == [t \in DOMAIN m |-> IF t \in DOMAIN values THEN values[t] ELSE m[t]]

AuthRequest(strings) == SetAll(New(AuthRequestFields), strings)
TtsRequest(id, text, declaimer, codec, rate) ==
    SetAll(New(TtsRequestFields), <<id, text, declaimer, codec, rate>>)
SpeechRequest(id, type) == SetAll(New(SpeechRequestFields), <<id, type>>)
PingPayload(id, now, req, resp) ==
    LET p == SetAll(New(PingPayloadFields), <<id, now, req>>) IN
    Set(p, 3, resp)                     \* set_resp_tp() assigns req_tp

\* With HAS_OPUS_CODEC the voice is encoded on its way, and PCM is not sent.
CodecOf(codec) == IF codec = 0 THEN 1 ELSE codec

\* req_config(): vend_timeout and vad_begin are always set, the rest of the
\* optional fields when the request has VoiceOptions (Absent for none).
ReqConfig(o, voice) ==
    LET config == SetAll(New(SpeechOptionsFields),
            (1 :> o.lang) @@ (2 :> CodecOf(o.codec)) @@ (3 :> o.vad) @@ (4 :> o.vendTimeout)
            @@ (5 :> o.noNlp) @@ (6 :> o.noIntermediate) @@ (14 :> o.vadBegin))
    IN  IF voice = Absent THEN config
        ELSE SetAll(config, (7 :> voice.stack) @@ (8 :> voice.trigger) @@ (9 :> voice.power)
            @@ (10 :> voice.start) @@ (11 :> voice.length) @@ (12 :> voice.skill)
            @@ (13 :> voice.extra) @@ (15 :> 1 - voice.confirmByCloud))

\* SpeechImpl::do_request(): what each type of request carries.
SpeechMessage(id, type, data, options) ==
    LET m == SpeechRequest(id, type) IN
    CASE type = 3 -> Set(Set(m, 4, data), 5, options)       \* TEXT
      [] type = 0 -> Set(m, 5, options)                     \* START
      [] type = 1 -> Set(m, 3, data)                        \* VOICE
      [] type = 2 -> m                                      \* END

-----------------------------------------------------------------------------
(* What the SDK is asked to send, and what a server may answer.             *)

Ids == {1, -2, 2 ^ (Bits32 - 1) - 1, -(2 ^ (Bits32 - 1))}
Long == [i \in 1 .. More + 1 |-> 5]     \* its length takes two bytes
Texts == {<<>>, <<0>>, Long}

Options == [lang |-> 1, codec |-> 0, vad |-> 1, vendTimeout |-> 2 ^ Bits32 - 1,
            noNlp |-> 0, noIntermediate |-> 1, vadBegin |-> 0]
Voices == {Absent} \cup
    {[stack |-> t, trigger |-> <<6>>, power |-> 2 ^ Bits32 - 3, start |-> 0, length |-> 9,
      skill |-> <<>>, extra |-> <<7>>, confirmByCloud |-> c] : t \in Texts, c \in {0, 1}}

\* A request: the values its setters were called with, and the object they left.
Request(fields, values, m) == [fields |-> fields, values |-> values, msg |-> m]
SpeechMessages ==
    {SpeechMessage(id, type, t, ReqConfig(Options, v)) :
        id \in Ids, type \in 0 .. 3, t \in Texts, v \in Voices}
Requests ==
    {Request(AuthRequestFields, s, AuthRequest(s)) : s \in {[i \in 1 .. 7 |-> t] : t \in Texts}}
    \cup {Request(TtsRequestFields, <<id, t, <<1>>, t, 2 ^ Bits32 - 1>>,
                  TtsRequest(id, t, <<1>>, t, 2 ^ Bits32 - 1)) : id \in Ids, t \in Texts}
    \cup {Request(SpeechRequestFields, m, m) : m \in SpeechMessages}
    \cup {Request(PingPayloadFields, <<id, 2 ^ Bits64 - 1, 5, 9>>,
                  PingPayload(id, 2 ^ Bits64 - 1, 5, 9)) : id \in Ids}

\* One field as a server writes it, with the value it has for the receiver.
Segment(tag, wire, val, bytes) == [tag |-> tag, val |-> val, bytes |-> TagBytes(tag, wire) \o bytes]
IntSegment(tag, v) == Segment(tag, VarintWire, v, VarintBytes(v % 2 ^ Bits64))
TextSegment(tag, s) == Segment(tag, StringWire, s, StringBytes(s))

ResponseTypes == {AuthResponseFields, TtsResponseFields, SpeechResponseFields}
KnownSegments(fields) ==
    CASE fields = AuthResponseFields -> {IntSegment(1, 3)}
      [] fields = TtsResponseFields -> {
            IntSegment(1, -2), IntSegment(2, 2), IntSegment(5, 1),
            TextSegment(3, <<9, 0>>), TextSegment(4, <<>>), TextSegment(4, Long)}
      [] fields = SpeechResponseFields -> {
            IntSegment(1, -2), IntSegment(2, 2), IntSegment(3, 5),
            Segment(1, VarintWire, -2, VarintBytes(2 ^ Bits32 - 2)),    \* cut to 32 bits
            TextSegment(4, <<9, 0>>), TextSegment(4, <<>>), TextSegment(11, Long)}
UnknownSegments == {
    TextSegment(9, <<9>>), IntSegment(12, 2 ^ Bits64 - 1),
    Segment(8, Word32Wire, 0, Fixed32Bytes(3)),
    Segment(13, Word64Wire, 0, [i \in 1 .. Bits64 \div ByteBits |-> 8])}
EndMark == [tag |-> 0, val |-> 0, bytes |-> TagBytes(0, VarintWire)]

\* Responses as a session has them; and odd ones: the required fields in any
\* order, or not all of them, with a segment put anywhere and one at the end.
Ordinary(fields) ==
    LET texts == {TextSegment(t, <<9>>) : t \in {u \in Tags(fields) : IsCallback(FieldOf(fields, u))}}
    IN  {SetToSeq({IntSegment(t, 1) : t \in Required(fields)}) \o s : s \in {<<>>, SetToSeq(texts)}}
Bare(fields) == UNION {
    {[i \in DOMAIN p |-> IntSegment(p[i], i)] : p \in SetToSeqs(tags)} : tags \in SUBSET Required(fields)}
Extra(fields) == KnownSegments(fields) \cup UnknownSegments \cup {EndMark}

\* Numbers the writer does not write, too: the bytes at the boundaries of a
\* group, as many as a 64-bit number has, and one more.
NumberBytes == {0, 1, 2 ^ (Bits32 % GroupBits) - 1, 2 ^ (Bits32 % GroupBits), More, 2 * More - 1}
NumberLen == 1 .. Bits64 \div GroupBits + 1

RECURSIVE Bytes(_)
Bytes(segs) == IF segs = <<>> THEN <<>> ELSE Head(segs).bytes \o Bytes(Tail(segs))

-----------------------------------------------------------------------------
VARIABLES
    sent,       \* the last request and what SerializeToString() made of it
    resp,       \* the object the responses are parsed into
    received,   \* the last response, its type, how much of it came, whether it parsed
    number      \* the bytes of a number, as the readers meet it

vars == <<sent, resp, received, number>>

None == [fields |-> <<>>, cut |-> 0, segs |-> <<>>, ok |-> FALSE, count |-> 0]

Init ==
    /\ sent = [ok |-> FALSE, out |-> <<>>] @@ Request(<<>>, <<>>, <<>>)
    /\ resp = <<>>
    /\ received = None
    /\ number = <<>>

Fresh == sent.fields = <<>> /\ received.count = 0 /\ number = <<>>

\* SerializeToString() of a request: nothing when it does not fit.
SerializeToString(fields, m) ==
    LET o == Encode(fields, m, BufferSize) IN
    [ok |-> o.ok, out |-> IF o.ok THEN o.out ELSE <<>>]

Serialize(r) ==
    /\ Fresh
    /\ sent' = SerializeToString(r.fields, r.msg) @@ r
    /\ UNCHANGED <<resp, received, number>>

\* Variant: the strings of the last response stay.
KeepStrings(fields, m) == m

\* ParseFromArray(): clear_super_data(), then pb_decode().
ClearSuperData(fields, m) ==
    [t \in Tags(fields) |-> IF IsCallback(FieldOf(fields, t)) THEN Absent ELSE m[t]]

ParseFromArray(bytes, fields, m) == Decode(bytes, fields, ClearSuperData(fields, m))

\* recv() of a response of which the first cut bytes arrive.
Receive(fields, object, segs, cut) ==
    \E r \in {ParseFromArray(SubSeq(Bytes(segs), 1, cut), fields, object)} :
    /\ received' = [fields |-> fields, segs |-> segs, cut |-> cut, ok |-> r.ok,
                    count |-> received.count + 1]
    /\ resp' = r.val
    /\ UNCHANGED <<sent, number>>

ReceiveOrdinary ==
    /\ Fresh
    /\ \E fields \in ResponseTypes : \E segs \in Ordinary(fields) :
        Receive(fields, New(fields), segs, Len(Bytes(segs)))
ReceiveOdd ==
    /\ received.count = 1
    /\ LET fields == received.fields IN
       \E s \in Bare(fields) :
       \E i \in 0 .. Len(s), x \in Extra(fields), last \in {<<>>} \cup {<<y>> : y \in Extra(fields)} :
        LET segs == InsertAt(s, i + 1, x) \o last IN
        \E cut \in 0 .. Len(Bytes(segs)) : Receive(fields, resp, segs, cut)

ReadNumber ==
    /\ Fresh
    /\ \E n \in NumberLen, tail \in {<<>>, <<0>>} : \E s \in [1 .. n -> NumberBytes] :
        number' = s \o tail
    /\ UNCHANGED <<sent, resp, received>>

Next ==
    \/ \E r \in Requests : Serialize(r)
    \/ ReceiveOrdinary
    \/ ReceiveOdd
    \/ ReadNumber

Spec == Init /\ [][Next]_vars

-----------------------------------------------------------------------------
(* Properties.                                                             *)

\* A request is serialized whole or, when it does not fit the buffer, not at
\* all, and the server reads the values that the setters were called with,
\* negative ids, empty strings and nested options included; an empty string
\* reads as no string.  The two times of a ping are left out: set_resp_tp()
\* writes req_tp (nanopb_encoder.cc:31-39, 270-276, pb_encode.c:497-519 and
\* 685-733).
RECURSIVE Same(_, _, _)
Same(fields, m, w) ==
    \A t \in Tags(fields) :
        LET f == FieldOf(fields, t) IN
        CASE f.kind = "message" /\ Absent \notin {m[t], w[t]} -> Same(f.sub, m[t], w[t])
          [] f.kind = "string" /\ m[t] = <<>> -> w[t] = Absent
          [] OTHER -> m[t] = w[t]
ReadBack == Decode(sent.out, sent.fields, New(sent.fields))
PingTimes == {3, 4}
Comparable(fields) ==
    SelectSeq(fields, LAMBDA f : fields = PingPayloadFields => f.tag \notin PingTimes)
RequestUnderstood ==
    sent.fields # <<>> =>
        IF sent.ok
        THEN ReadBack.ok /\ Same(Comparable(sent.fields), sent.values, ReadBack.val)
        ELSE Len(Encode(sent.fields, sent.msg, 1000).out) > BufferSize

\* A response is taken exactly when it was cut between two fields, if at all,
\* and has what is required; then the object holds the last value of each field
\* that came before an end mark, and nothing of an earlier response
\* (nanopb_decoder.cc:11-37, speech_impl.cc:727).
Arrived == {i \in DOMAIN received.segs :
    /\ Len(Bytes(SubSeq(received.segs, 1, i))) <= received.cut
    /\ \A j \in 1 .. i : received.segs[j] # EndMark}
Complete ==
    \/ \E i \in 0 .. Len(received.segs) : received.cut = Len(Bytes(SubSeq(received.segs, 1, i)))
    \/ \E i \in DOMAIN received.segs :
        /\ received.segs[i] = EndMark
        /\ received.cut > Len(Bytes(SubSeq(received.segs, 1, i - 1)))
LastOf(t) ==
    LET text == IsCallback(FieldOf(received.fields, t))
        at == {i \in Arrived : /\ received.segs[i].tag = t
                               /\ text => received.segs[i].val # <<>>}
    IN
    IF at = {} THEN Absent ELSE received.segs[CHOOSE i \in at : \A j \in at : j <= i].val
ResponseUnderstood ==
    LET required == Required(received.fields) IN
    received.count > 0 =>
        /\ received.ok <=> Complete /\ required \subseteq {received.segs[i].tag : i \in Arrived}
        /\ received.ok => \A t \in Tags(received.fields) : resp[t] = LastOf(t)

\* The two readers agree: what the 32-bit one takes is what the 64-bit one
\* takes, cut to 32 bits, with the same bytes left; and it takes every number
\* the writer writes for 32 bits, also the negative one extended to 64 bits
\* (pb_decode.c:182-270, pb_encode.c:577-597).
NumbersAgree ==
    LET a == Varint32(number)
        b == Varint64(number)
        fits == b.val < 2 ^ Bits32 \/ b.val >= 2 ^ Bits64 - 2 ^ (Bits32 - 1)
        written == VarintBytes(b.val) = SubSeq(number, 1, VarintLen(number))
    IN  /\ a.ok /\ b.ok => a.val = b.val % 2 ^ Bits32 /\ a.rest = b.rest
        /\ b.ok /\ fits /\ written => a.ok
        /\ VarintLen(number) = 0 => ~a.ok /\ ~b.ok
=============================================================================
