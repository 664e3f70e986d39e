--------------------------------- MODULE Voice ---------------------------------
(***************************************************************************)
(* put_voice() with the Opus encoder (speech_impl.cc, rkcodec.cc, compiled  *)
(* with HAS_OPUS_CODEC and with PCM configured): the PCM of a call is cut   *)
(* into frames, each encoded to a packet with its length in one byte before *)
(* it; what is left of the last frame waits for the next call.  One encoder *)
(* serves all requests.  The bytes are cut into fragments for the queue and *)
(* put together again by the server.                                        *)
(*                                                                          *)
(* The bytes given to put_voice() are numbered as they are put.  A sample   *)
(* is two of them, and has the number of its first byte.  A byte of a       *)
(* packet names the frame it is of: libopus is external and decodes whole   *)
(* packets only.                                                            *)
(***************************************************************************)
EXTENDS Naturals, Sequences, SequencesExt

CONSTANTS
    Requests,       \* ids of requests, 1 to Requests
    FrameSize,      \* _pcm_frame_size: 320 samples
    ByteLimit,      \* 256
    MaxPacket,      \* the longest packet libopus makes of a frame at this bitrate
    BufferSize,     \* OPUS_BUFFER_SIZE: 16 KB
    Fragments,      \* what voice_fragment is set to
    MaxLength, MaxBytes     \* bounds: bytes of a call, and of all of them

ASSUME VoiceAssumption ==
    /\ {Requests, ByteLimit, MaxPacket, BufferSize, MaxLength, MaxBytes} \subseteq Nat
    /\ FrameSize \in Nat \ {0} /\ Fragments \subseteq Nat
    /\ MaxPacket < ByteLimit       \* so has libopus at 27800 bit/s: the code only has a TODO

VARIABLES
    carry,          \* a_pcm_frame, of which pcm_frame_used_bytes are used
    fragment,       \* voice_fragment
    fed,            \* how many bytes were put
    open,           \* requests that were started and take voice
    started,        \* requests that were started
    put,            \* the bytes put for each request (history)
    fragments,      \* what the queue took for each
    lost,           \* samples encoded that went nowhere, and left when released (history)
    odd,            \* the last bytes of calls of an odd length (history)
    failed,         \* opus_encode() failed once (history)
    stopped         \* put_voice() used a null pointer, or never ends

vars == <<carry, fragment, fed, open, started, put, fragments, lost, odd, failed, stopped>>

Init ==
    /\ carry = <<>> /\ fed = 0 /\ fragment \in Fragments
    /\ open = {} /\ started = 0
    /\ put = [r \in 1 .. Requests |-> {}]
    /\ fragments = [r \in 1 .. Requests |-> <<>>]
    /\ lost = {} /\ odd = {} /\ failed = FALSE /\ stopped = FALSE

Start ==
    /\ ~stopped /\ started < Requests
    /\ started' = started + 1
    /\ open' = open \cup {started + 1}
    /\ UNCHANGED <<carry, fragment, fed, put, fragments, lost, odd, failed, stopped>>

\* end_voice(), cancel() or the end of the operation: the queue takes no more.
\* The encoder is not told.
Close(r) ==
    /\ ~stopped /\ r \in open
    /\ open' = open \ {r}
    /\ UNCHANGED <<carry, fragment, fed, started, put, fragments, lost, odd, failed, stopped>>

\* config() at any time, 0 not excepted.
SetFragment ==
    /\ ~stopped
    /\ fragment' \in Fragments
    /\ UNCHANGED <<carry, fed, open, started, put, fragments, lost, odd, failed, stopped>>

-----------------------------------------------------------------------------
(* RKOpusEncoder::encode()                                                  *)

Frame(pcm, j) == SubSeq(pcm, FrameSize * (j - 1) + 1, FrameSize * j)
Frames(pcm) == Len(pcm) \div FrameSize

\* Variant: the length counts its own byte.
CountsItself(len) == (len + 1) % ByteLimit

LengthByte(len) == len % ByteLimit

\* A byte of a packet of len bytes: before the first one is the length.
PacketByte(frame, len, at) ==
    [samples |-> frame, of |-> len, at |-> at,
     value |-> IF at = 0 THEN LengthByte(len) ELSE 0]

\* enc_size after each of n frames: every packet of any length, in the room left.
EncSizes(n) ==
    {size \in [0 .. n -> 0 .. BufferSize] :
        /\ size[0] = 0
        /\ \A j \in 1 .. n : size[j] \in (size[j - 1] + 2) .. (size[j - 1] + 1 + MaxPacket)}

\* _opus_buffer: the j-th packet and its length from size[j - 1] on.
Encoded(pcm, size) ==
    LET n == Frames(pcm)
        PacketOf(i) == CHOOSE j \in 1 .. n : size[j - 1] < i /\ i <= size[j]
    IN  [i \in 1 .. size[n] |->
            LET j == PacketOf(i)
            IN  PacketByte(Frame(pcm, j), size[j] - size[j - 1] - 1, i - size[j - 1] - 1)]

\* Variant: pcm is not moved on.
FirstAgain(pcm) == SubSeq(pcm, 1, Len(pcm) % FrameSize)

\* What is left for the next call.
Rest(pcm) == SubSeq(pcm, FrameSize * Frames(pcm) + 1, Len(pcm))

-----------------------------------------------------------------------------
(* put_voice()                                                              *)

Cut(bytes) ==
    LET end(k) == IF fragment * k < Len(bytes) THEN fragment * k ELSE Len(bytes)
    IN  [k \in 1 .. ((Len(bytes) + fragment - 1) \div fragment) |->
            SubSeq(bytes, fragment * (k - 1) + 1, end(k))]

\* length / sizeof(uint16_t) samples: the last byte of an odd length is not used.
Samples(length) == [i \in 1 .. length \div 2 |-> fed + 2 * i - 1]
OddByte(length) == IF length % 2 = 0 THEN {} ELSE {fed + length}

Feed(r, length) ==
    /\ fed + length <= MaxBytes
    /\ fed' = fed + length
    /\ put' = [put EXCEPT ![r] = @ \cup (fed + 1) .. (fed + length)]
    /\ odd' = odd \cup OddByte(length)

\* Also of a request that is not open the voice goes through the encoder.
PutVoice(r, length) ==
    LET pcm == carry \o Samples(length) IN
    /\ ~stopped /\ r <= started
    /\ fragment # 0 \/ Frames(pcm) = 0
    /\ Feed(r, length)
    /\ carry' = Rest(pcm)
    /\ \E size \in EncSizes(Frames(pcm)) :
        fragments' = IF r \notin open \/ Frames(pcm) = 0 THEN fragments
                     ELSE [fragments EXCEPT ![r] = @ \o Cut(Encoded(pcm, size))]
    /\ lost' = IF r \in open THEN lost ELSE lost \cup (ToSet(pcm) \ ToSet(carry'))
    /\ UNCHANGED <<fragment, open, started, failed, stopped>>

\* In fragments of 0 the loop does not end, and req_mutex_ stays locked.
PutVoiceHangs(r, length) ==
    LET pcm == carry \o Samples(length) IN
    /\ ~stopped /\ r <= started
    /\ fragment = 0 /\ Frames(pcm) > 0
    /\ Feed(r, length)
    /\ carry' = Rest(pcm)
    /\ stopped' = TRUE
    /\ UNCHANGED <<fragment, open, started, fragments, lost, failed>>

\* opus_encode() fails at the frame after the n encoded, at the latest when
\* the buffer is full.  The call gives null with the size of what it had
\* encoded, and put_voice() returns only when that is 0.
PutVoiceFails(r, length) ==
    LET pcm == carry \o Samples(length) IN
    /\ ~stopped /\ r <= started
    /\ Feed(r, length)
    /\ \E n \in 0 .. Frames(pcm) - 1 :
        /\ carry' = IF n = 0 THEN carry ELSE <<>>
        /\ stopped' = (n > 0)
    /\ failed' = TRUE
    /\ UNCHANGED <<fragment, open, started, fragments, lost>>

\* release() and prepare(): the encoder is closed, and made anew.
Reopen ==
    /\ ~stopped
    /\ carry' = <<>> /\ open' = {}
    /\ lost' = lost \cup ToSet(carry)
    /\ UNCHANGED <<fragment, fed, started, put, fragments, odd, failed, stopped>>

Next ==
    \/ Start
    \/ \E r \in open : Close(r)
    \/ SetFragment
    \/ \E r \in 1 .. Requests, length \in 1 .. MaxLength : PutVoice(r, length)
    \/ \E r \in 1 .. Requests, length \in 1 .. MaxLength : PutVoiceHangs(r, length)
    \/ \E r \in 1 .. Requests, length \in 1 .. MaxLength : PutVoiceFails(r, length)
    \/ Reopen

Spec == Init /\ [][Next]_vars

-----------------------------------------------------------------------------
(* Properties.                                                             *)

\* The fragments put together, as the server gets them.
Joined(fs) ==
    LET join[n \in 0 .. Len(fs)] == IF n = 0 THEN <<>> ELSE join[n - 1] \o fs[n]
    IN  join[Len(fs)]

Bytes(r) == Joined(fragments[r])

\* Where the encoder wrote the lengths.
Lengths(s) == {b \in DOMAIN s : s[b].at = 0}

\* The server, which reads a length, as many bytes, the next length and so on,
\* finds at each length the packet it is of, and after the last one the end.
PacketsFollow(s) ==
    /\ s # <<>> => 1 \in Lengths(s)
    /\ \A b \in Lengths(s) :
        LET len == s[b].value IN
        /\ len > 0 /\ b + len + 1 \in Lengths(s) \cup {Len(s) + 1}
        /\ \A i \in 1 .. len :
            s[b + i].samples = s[b].samples /\ s[b + i].at = i /\ s[b + i].of = len

\* However the calls cut the voice, and the queue the bytes, the server finds the
\* packets of a request, and in them the samples in the order they were put,
\* also when the encoder failed in between; and every packet ends with voice of
\* this request.  (It may begin with what another one left in the encoder.)
\* (rkcodec.cc:118-170, speech_impl.cc:213-253)
FramesInOrder ==
    \A r \in 1 .. Requests : LET s == Bytes(r) IN
        /\ PacketsFollow(s)
        /\ \A b \in Lengths(s) :
            Len(s[b].samples) = FrameSize /\ s[b].samples[FrameSize] \in put[r]
        /\ \A b, c \in Lengths(s), i, j \in 1 .. FrameSize :
            b < c \/ (b = c /\ i < j) => s[b].samples[i] < s[c].samples[j]

Heard(r) == UNION {ToSet(Bytes(r)[b].samples) : b \in Lengths(Bytes(r))}

\* The samples that are heard in a request, wait in the encoder for the next
\* call, or were put for a request that took no more.
Accounted == (UNION {Heard(r) : r \in 1 .. Requests}) \cup ToSet(carry) \cup lost

BytesOf(samples) == samples \cup {x + 1 : x \in samples}

\* Unless the encoder failed or put_voice() hangs, every byte is in a sample that
\* is heard in one request, waits, or was put for a request that took no more,
\* never two of these and never in two samples.  Excepted are the last bytes of
\* calls of an odd length.  (That a request has no sample twice is in FramesInOrder.)
\* (rkcodec.cc:118-170, speech_impl.cc:213-253)
EverySampleOnce ==
    ~failed /\ ~stopped =>
        /\ BytesOf(Accounted) = (1 .. fed) \ odd
        /\ \A x \in Accounted : x + 1 \notin Accounted
        /\ \A r \in 1 .. Requests :
            /\ Heard(r) \cap (ToSet(carry) \cup lost) = {}
            /\ \A q \in 1 .. Requests : q # r => Heard(q) \cap Heard(r) = {}
        /\ ToSet(carry) \cap lost = {} /\ IsInjective(carry)
=============================================================================
