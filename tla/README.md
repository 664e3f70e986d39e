# Verification of the rokid open voice SDK

TLA+ models, TLC runs and TLAPS proofs for the SDK: its C++ core
(`src/src/speech`, `src/src/tts`, `src/src/common`, `src/src/codec`), the
protocol under it (`src/nanopb`, `src/nanopb-gen`) and the Android bindings over
it (`src/android`). Paths are relative to the root of the project, where the
repository is the directory `src`. The SDK is a client library: an application
issues voice or text requests, the library sends them over one websocket to a
server, and the application polls the results. Most of what is interesting
happens between a handful of threads that share a few lists, so most models are
about interleavings, lost wakeups, stale reads and shutdown; the voice and the
messages are pure algorithms, checked against what the other side reads.

1. [The system](#the-system)
2. [The modules](#the-modules)
3. [The runs](#the-runs)
4. [What the violations show](#what-the-violations-show)
5. [The proofs](#the-proofs)
6. [Abstractions and what is left out](#abstractions-and-what-is-left-out)
7. [The plan](#the-plan)

## The system

### Threads and locks

| thread | runs | model |
|---|---|---|
| requesting thread of the application | `put_text`, `start_voice`, `put_voice`, `end_voice` | `appPc`, `AppStep` |
| cancelling threads (any number) | `cancel` | `cancels`, `CancelStep` |
| lifecycle thread | `prepare`, `release` | `relPc`, `LifecycleStep` |
| polling thread (one) | `poll` | `pollPc`, `PollStep` |
| `req_thread_` | `send_reqs`: takes requests off the queues, makes operations, sends | `sendPc`, `SendStep` |
| `resp_thread_` | `gen_results`: receives, fills `responses_`, ends operations | `recvPc`, `RecvStep` |
| work and keepalive threads of the connection | `SpeechConnection::run`, `keepalive_run` | environment of `Speech` and `Tts`; `workPc`, `hubPc`, `keepPc` of `SpeechConnection` |
| Java callers, and the native poll thread with the callbacks | `putText`, `startVoice`, `release`, `handle_callback` | `caller`, `control`, `poller` of `Binding` |

`req_mutex_` guards the request queues (`voice_reqs_`, `text_reqs_`) and
`initialized_`; `resp_mutex_` guards the `OperationController` and
`responses_`. `req_cond_` and `op_cond_` wake `send_reqs`, `resp_cond_` wakes
`poll`. Several accesses take neither mutex, and several calls take first one,
then the other: these are the places the models are about.

### Life of a request

1. `start_voice` draws an id and starts a stream in `voice_reqs_`;
   `put_voice` appends chunks, `end_voice` completes it. `put_text` appends to
   `text_reqs_`.
2. `send_reqs` pops the next item. The first item of a request makes an
   *operation* (`new_op(id, START)`), which becomes `current_op_` and is pushed
   on `operations_`. The item is sent. After the last item of a request
   `send_reqs` sleeps on `op_cond_` until the operation is no longer current:
   one request is answered before the next one starts.
3. `gen_results` turns the responses for the current operation into a stream of
   `responses_`; the last one ends the operation (`finish_op`), an error or a
   timeout fails it (`set_op_error`), and either way the rest of the request is
   erased (`erase_req`).
4. `poll` returns results in the order of `operations_`: of a cancelled or
   failed operation the single last result, of any other the stream of
   `responses_`.
5. `cancel` erases what is still queued, and otherwise marks the operation.
   `release` ends all of it from any state.

### Components

For each: the state it keeps, its operations, what is hard, what makes it right.

**StreamQueue** (`src/src/common/pending_queue.h:163-398`). State: `queue_`, one
flat list of data items and tags; `item_tags_`, a map from id to the tag's
position; `front_tag_`. Operations: `start`, `stream`, `end`, `erase`, `clear`,
`close`, `pop`, `set_arg`. Hard: the index must follow every insertion and
removal; an id erased stays in the queue until popped; `end` after `erase`.
Right when: it behaves as a sequence of streams.

**OperationController** (`src/src/common/op_ctl.h`). State: `operations_`,
`current_op_`, a condition variable. Operations: `new_op`, `set_op_error`,
`finish_op`, `cancel_op`, `wait_op_finish`, `remove_front_op`,
`refresh_op_time`, `op_timeout`. It has no mutex of its own; callers must hold
`resp_mutex_`. Hard: `wait_op_finish` tests once and waits once; `cancel_op`
matches by id; unsigned subtraction of times. Right when: only the newest
operation can be in progress, and whoever ends it wakes its waiter.

**SpeechImpl** (`src/src/speech/speech_impl.cc`). State: the queues, the
controller, `initialized_`, `next_id_`, two threads. Operations: as above.
Hard: everything in *Threads and locks*. Right when: every request is answered,
in order, once; the server sees each request well-formed; `release` returns and
leaves nothing running; nothing survives into the next session.

**TtsImpl** (`src/src/tts/tts_impl.cc`). The same structure with one request
list and no voice stream: a request is one message. Hard: `cancel` of a request
`send_reqs` is just taking; `release` while an operation is in progress.

**SpeechConnection** (`src/src/common/speech_connection.cc`). State: `stage_`, a
list of received responses, the websocket `ws_`, a reconnect time, a work thread
and a keepalive thread. Operations: `initialize`, `release`, `send`, `recv`,
`reconn`, callbacks of the websocket. Hard: the callbacks read and write
`stage_` and `ws_` without the mutex that everybody else takes; `send` uses the
socket after it let go of that mutex. Right when: READY means an authorised
socket; a stop holds until it is undone on purpose; a request lost is followed
by an ERROR; `release` returns and `recv` then returns `NOT_READY`.

**Opus codec** (`src/src/codec/rkcodec.cc`). State: the last frame, as far as it
is filled. Operations: `init`, `encode`, `close`. Hard: calls of any length, a
failure in the middle of one, one encoder for all requests. Right when: the
server finds every frame, and every byte put once and in order.

**Protocol encoding** (`src/src/common/nanopb_encoder.cc`, `nanopb_decoder.cc`,
the descriptors in `src/nanopb-gen`). State: one structure with its strings per
message object; responses of a session are parsed into the same one. Hard: what
a parse leaves of the response before; a response that is cut or has more in it
than this version knows.
**nanopb** (`src/nanopb`). Vendored, and the code every message goes through:
two varint readers with different rules, submessages written twice, callback
fields. Right when: what is written is read, and what is cut is not taken.

**JNI and Java bindings** (`src/android`). State: a map from ids to callbacks
under its own lock, a poll thread and a global reference for each `prepare`.
Operations: `putText`, `startVoice`, `speak`, `release`, `finalize`,
`handle_callback`. Hard: the result may be there before the callback; `release`
joins a thread that runs callbacks; a second `prepare`; ids begin again.
Right when: each result is told to the callback of its request, and none after
`release`.

**PendingQueue, PendingStreamQueue** (`src/src/common/pending_queue.h`).
Thread-safe wrappers that nothing in the repository uses.
**TraceUploader** (`src/src/common/trace-uploader.cc`). Optional telemetry.
**Logging and clocks** (`src/src/common/log_plugin.cc`, `alt_chrono.cc`). I/O.
**Demos and tests** (`src/demo`). Clients: read for what they assert.

`PROJECT.json` lists the hazards of this code line by line, with the properties
that cover each, or why none does yet.

## The modules

| module | models | source |
|---|---|---|
| `StreamQueue` | the operations of `StreamQueue<T, A>` on its value, a sequence of streams | `pending_queue.h` |
| `StreamQueueSpec` | the abstract machine: a queue of streams under those operations | `pending_queue.h` |
| `StreamQueueList` | the representation: the flat list and its tag index | `pending_queue.h` |
| `OperationController` | the state of the controller and what each method does to it | `op_ctl.h` |
| `Speech` | `SpeechImpl` with its controller, queues and threads | `speech_impl.cc` |
| `Tts` | `TtsImpl` with its controller, list, queue and threads | `tts_impl.cc` |
| `SpeechConnection` | the connection: stages, threads, callbacks, `send`, `recv` | `speech_connection.cc`, `.h` |
| `PbWire` | the wire format, both ways | `pb_encode.c`, `pb_decode.c`, `pb_common.c` |
| `Protocol` | the messages, who fills them in, and what a server may answer | `nanopb_encoder.cc`, `nanopb_decoder.cc`, `nanopb-gen` |
| `Voice` | `put_voice` with the encoder: frames, packets, fragments | `rkcodec.cc`, `speech_impl.cc` |
| `Binding` | one Java object, its native side and its poll threads | `Speech.java`, `Tts.java`, `com_rokid_speech_*.cc` |
| `SpeechInvariant`, `SpeechAnswersInvariant`, `TtsInvariant`, `SpeechConnectionInvariant`, `BindingInvariant` | the inductive invariants | |
| `ClientLemmas` | lemmas on the queue and on the controller | |
| `StreamQueueListProofs`, `SpeechProofs`, `SpeechAnswersProofs`, `TtsProofs`, `SpeechConnectionProofs`, `BindingProofs`, `VoiceProofs` | the proofs | |

`StreamQueueList` implements `StreamQueueSpec` (the refinement mapping cuts the
list at its tags), which is a machine over the operators of `StreamQueue`.
`Speech` uses the same operators for `voice_reqs_` and `responses_`: the
refinement is what allows it to speak of sequences of streams where the code has
the flat list. `Speech` and `Tts` extend `OperationController`, which, like the
class, has no behaviour of its own: its methods run in the regions its callers
lock.

### How `Speech` corresponds to the code

*A locked region is one action*, named for what it does, with the notify calls
it makes; whatever a function does after it unlocks is another action, so that
every thread can come between. `cancel` is `CancelQueued` (under `req_mutex_`)
and `CancelOperations` (under `resp_mutex_`). `do_ctl_change_op` is
`ControlReadOp`, which reads `current_op_` under the lock, then `ControlStart`,
`ControlContinue`, `ControlCancel`, `ControlCancelUnsent` or `ControlDrop`, which
use what was read. `release` is five actions.

*Condition variables.* A sleeping thread is a value of its program counter
(`"waitreq"`, `"waitop"`, `"wait"`) that a notify changes; a notify with no
sleeper is lost. `Spurious` names the variables that may wake up by themselves.
`wait_op_finish` is two actions: `resp_mutex_` is held between its test and its
wait (`RespFree` is false in between), and only a thread that ignores the mutex,
`release` at line 153, can come there.

*Stale pointers.* `opRef` is the local `op` of `send_reqs`. It keeps its value
while the thread sleeps after a text request had to wait.

*Who missed what.* Three values of the program counters tell a sleep apart from
the ordinary one, so that a property can except it and nothing else: `send_reqs`
asleep on `op_cond_` although its operation had ended when it fell asleep
(`"lostop"`) or on `req_cond_` although `release` had notified (`"lostreq"`), and
`poll` asleep with something in `responses_` that it was not told of
(`"passed"`). A notify wakes them like the others, and no guard tells them apart.

*Operations.* `ops` keeps every operation ever allocated, and `operations_` is
what follows the first `removed` of them: the shared pointers of the code are
indices, and an operation `send_reqs` still points to after `poll` removed it is
still there.

*Unlocked reads of `initialized_`.* `start_voice` and its kin test
`initialized_` before they lock. While the SDK stays initialised this is one
step with the locked region; `release` may find the thread past the test
(`appPc = "late"`).

*The environment.* `RequestSent` or `RequestFailed` is the choice of
`connection_.send`. A response to any request the server has seen may come at
any time and any number of times (`RecvIntermediate`, `RecvLast`, `RecvStale`, and
`RecvUnknown` of a type the client does not know, with an extra or without:
the default branch of `gen_result_by_resp`, which returns before the notify),
and `recv` may time out or report a broken connection.

`Tts` is modelled in the same way. Its `cancel` holds both mutexes, and so does
`send_reqs` while it takes a request and makes its operation, so each is one
action; nobody touches the operations without `resp_mutex_`, so `wait_op_finish`
is one action too. A request is one message: there is nothing to erase when its
operation ends early.

### How `SpeechConnection` corresponds to the code

One turn of the loops of `run` and `keepalive_run`, under `stage_mutex_`, is one
action (`WorkConnects`, `KeepPauses`, ...); `workPc` and `keepPc` say whether the
thread is at the top of its loop, asleep on `stage_changed_` or in `hub_.run()`.
The callbacks of the library run on the work thread, and `hubPc` says how far
one has come: `onDisconnection` is `SocketLost`, `OnDisconnectionClears`,
`OnDisconnectionTests`, `OnDisconnectionSets`, because each of its accesses can
be overtaken; `onMessage` is `OnMessage`, which reads `stage_`, and then
`OnData`, `OnLoginAccepted` or `OnLoginRejected`. When the code itself closes
the socket, `onDisconnection` runs in the calling thread with the mutex held:
that is `CloseWs`.

The keepalive thread can loop without waiting (`continue` at line 252 with no
`ws_`); it then keeps `stage_mutex_`, which is `keepPc = "spin"` and makes
`StageFree` false for everybody else. `Crash` is a user of `ws_` whose test and
use the library's `onDisconnection` came between.

`SpeechConnection` is the environment of `Speech` and `Tts` seen from inside:
`SendFrame` and `SendTimesOut` are their `RequestSent` and `RequestFailed`, and
what `recv` takes is DATA (a response), ERROR (a broken connection) or CLOSED
(the end of `gen_results`). They are not composed yet (see the plan).

History variables: `reported` (the connections an ERROR was pushed for),
`overtaken` (a login was accepted after the stage had moved on) and `login`
(what the server knows of the socket's authorisation).

### How `PbWire` and `Protocol` correspond to the code

A reader of `PbWire` takes the bytes left in the stream and returns whether it
succeeded, what it read and the bytes left; a writer takes an output stream,
which has a limit or only counts. A message is a function from tags to values,
`Absent` for a field that is not there. `Varint32` and `Varint64` are the two
readers with their different treatment of the bits past the width;
`DecodeInt` is `pb_dec_varint` and `pb_dec_uvarint` with the casts by which a
value may be rejected; `PutMessage` writes a submessage once to learn its size
and once more. The widths are constants. TLC runs them at `GroupBits = 3` (7),
`Bits32 = 8` (32) and `Bits64 = 16` (64): `WidthAssumption` states what the code
relies on of the real ones and the small ones share (one bit left for the last
group of a 64-bit varint, some but not all of it for a 32-bit one), so that each
comparison in the readers meets both of its cases.

`Protocol` has the eight descriptors, the setters, and the messages that
`do_request` and `req_config` make of a request. Its state is an object of a
response type, `resp`, in the hands of `gen_results`: an ordinary response is
parsed into it (`ReceiveOrdinary`), then any odd one (`ReceiveOdd`: fields in
every order, one more anywhere, unknown ones, one more at the end, cut at every
byte). `clear_super_data`, at the head of `ParseFromArray`, clears the strings;
`pb_decode` resets the rest. `ResponseUnderstood` compares what was parsed with
the list of fields that arrived, without a reader. In `RequestUnderstood` the
server reads with `Decode`, and what it finds is compared with the values the
setters were called with (`values` of `sent`), not with the object they left; a
setter that writes another field, as `PingPayload::set_resp_tp` does, is then seen,
and the two times of a ping are left out for that reason.

### How `Voice` corresponds to the code

The bytes given to `put_voice` are numbered as they are put; a sample is two of
them and has the number of its first. `carry` is `a_pcm_frame` up to
`pcm_frame_used_bytes`. `PutVoice(r, length)` is a whole call with `length` bytes:
halve them to samples (`Samples`; `OddByte` is the last one of an odd length, which
goes nowhere), encode the frames, keep the rest, cut the packets into fragments and
append them to the stream of the request if it takes any. The length of each
packet is any that libopus may give, within `MaxPacket` and the room left in the
buffer: `EncSizes` has every sequence of values `enc_size` may take over the
frames of a call, and `Encoded` is what `_opus_buffer` then holds, byte by byte.
`PutVoiceFails` is a call in which `opus_encode` fails at some frame.
`SetFragment` is `config` with another `voice_fragment`, 0 included; a call that has
frames to put then never leaves the loop that cuts them (`PutVoiceHangs`).
The server is in the property: `Joined` puts the fragments together, and
`PacketsFollow` follows the lengths in them, which must lead from packet to
packet and at last to the end. Voice may be put for any request that was
started, in any order, ended or not.

### How `Binding` corresponds to the code

The native methods are the actions `Prepare`, `ReleaseNative` and `Join`, and `PutNative`;
the Java methods around them add `PutCallback` (the second half of
`synchronized (_callbacks)`), and `Drop` and `Delete`, the end of the object.
The poll thread is `Poll`, `GetCallback`, `Invoke`, `RemoveCallback` and `Leave`:
`handle_callback` takes the lock to read the map and again to change it, and runs
the callback without it. Of the SDK below only what the other modules show is
assumed: results in order, requests one after the other, and after `release` what
`operations_` and `responses_` may keep for the next session (`Leftover`, the
hazard at `speech_impl.cc:158`). `poll` sleeps on `resp_cond_` while there is
nothing (`PollSleeps`, `asleep`), and each notify wakes one of its sleepers
(`NotifyOne`): that of a result (`NativeResult`, which may be one nobody is told
of, see `RecvUnknown`) and the single one of `release`. That is two steps:
`ReleaseNative` goes up to the join of `send_reqs`, after which `control` is
`"release"` or, where that join never ends (`tts_impl.cc:91`, run
`tts_release`), `"hung"` for good; `ReleaseNotifies` is the rest.

### History and variants

Two variables of `Speech` are not in the code: `wire` (what the server has been sent of each
id) and `told` (what `poll` has returned of each id). They record history for
the properties; `told` is read by no guard. `wire` (`sent` in `Tts`) stands for the server: a
response needs a request that reached it.

Definitions marked `Variant:` in the modules are mutated forms of the definition
that follows them. No action uses them; each stands for a plausible mistake, and
substituting it for the definition must break the property it is paired with in
`PROJECT.json`. `put`, `lost`, `odd` and `failed` of `Voice` and `given`, `told`,
`threw`, `stale` and `doubled` of `Binding` are history, too.

## The runs

All bounds are constants named in the modules. `Spec` has no fairness.

| run | property kind | bounds |
|---|---|---|
| `stream_queue` | invariant, refinement | 2 ids, 2 data values, lists up to 6 items |
| `speech_session` | 9 invariants | 2 requests (voice, text), 1 chunk, 1 result, 1 canceller, no release, responses of 4 types |
| `speech_answers` | liveness | 2 voice requests, 1 canceller, no release |
| `speech_shutdown` | 2 liveness | 2 requests, 1 release, spurious wakeups, responses of 2 types |
| `tts_session` | 6 invariants, 2 liveness | 2 texts, 1 result, 1 release, spurious wakeups |
| `connection_session` | 3 invariants, 2 action properties, 3 liveness | 2 connects, data while fewer than 2 responses wait, one session |
| `protocol` | 3 invariants | scaled widths, buffer of 60 bytes, 2 responses into one object, numbers of up to 7 bytes |
| `binding` | 3 invariants, 2 liveness | 2 sessions, 2 poll threads, 1 caller, 2 requests then 1, 2 results each |
| `voice` | 2 invariants | 2 requests, 10 bytes in calls of up to 6, frames of 2 samples, packets of 1 or 2 bytes, buffer of 5, fragments of 2 or 0 |
| `speech_cancel_end`, `speech_reprepare`, `tts_release` | one property each, violated | as small as the counterexample allows |

**`stream_queue`**: `IndexAgrees` (every tag is in the index at its position and
`front_tag_` is the first tag) and `ImplementsStreams`. Two ids suffice for
every case of the representation: first and other stream, erased or not; ids are
reused after they are popped.

**`speech_session`**, one session without release. `OnlyCurrentIsLive`: no
operation is left START or STREAMING unless it is current, so `poll` never waits
for one that nobody will finish. `ControlFindsOwnOp`: the operation read before
the unlock is the request's own or none, and still is when it is used.
`PollServesFrontOp`: the three `assert(id == op->id)` of `poll`.
`PollSleepsOnlyForCurrent`: no wakeup of `poll` is lost but those of responses of
unknown types, and even then the operation is still in progress, so that its end
wakes `poll`. `SleepsForOwnOp`: nor is one of `send_reqs`. `AnswersInOrder`: what the application
sees of one id and of two. `WireInOrder`: what the server sees. `RequestsKept`:
no request is dropped without an answer. Two requests are needed for every
property that relates an operation to another one (a stale response, a text
request that must wait, a cancellation of the queued one); a third adds no new
pair. One chunk allows a stream to be empty, filled or refilled between any two
steps. One canceller between its two regions at a time; cancel can be called
any number of times one after another.

**`speech_answers`**: `EveryRequestAnswered` under `FairSpec`.

**`speech_shutdown`**: `release` at any point of two requests, with spurious
wakeups of all three condition variables. `ReleaseEnds` names the four ways in
which `release` can fail to return (next section): any other would be a
violation. Two of them are sleeps, and only those that began after the notify that
should have ended them (`"lostop"`, `"lostreq"`): `send_reqs` asleep on either
condition variable when `release` comes has to be woken, and without the notify of
line 153, which `Tts` lacks, the run fails. Three need a text queued behind an
operation, hence two requests. `PollSeesRelease` says what the polling thread
finds. To keep the run small there is no voice data, no cancel and two types of
response; `CurrentAlone` is proved with all of them.

**`tts_session`**: the same questions of `Tts`, with one stronger answer:
`AnsweredOnce` holds, every text has exactly one last result, where `Speech`
repeats a cancellation. `NoLostWakeup` says of both sleepers what
`SleepsForOwnOp` and `PollSleepsOnlyForCurrent` say in `Speech`.
`EveryRequestAnswered` is checked together with
`release`, so it excuses what a released session leaves.

**`connection_session`**: losses, refused connects, silence, pauses, rejected
logins, `reconn` and `release` at any point. Two connects are needed for every
property that tells a connection from the one before; two waiting responses and
one more in the hands of the work thread show every order of data and ERROR.
The properties name their races, and each was found necessary by leaving it out:

* `StageMatchesSocket` and `SuccessMeans`: `reconn` or `release` between the read of
  `stage_` and the lock in `onMessage` (lines 399-401) leaves READY without a
  socket (`overtaken`). `keepalive_run` may then spin with the mutex locked.
* `StopsHold`: CLOSED is overwritten by a login, a loss or a failed connect whose
  callback had read the stage, PAUSED by a loss. The comment at line 441, that
  the mutex is held in `onError`, is true only of a connect that fails at once.
* `SuccessMeans`: a request goes to a socket not yet authorised only if a whole
  reconnect came between the wait and the write; it is dropped without an ERROR
  only while the connection is paused or closed.
* `ReleaseEnds`: `release` waits for a socket that opened after it closed the
  group, until the server closes it; and it may wait for ever when CLOSED was
  overwritten.

`StageMatchesSocket` also confirms the comment at line 440; `ResponsesInOrder`,
`Reconnects` and `ReceiverToldClosed` hold without exception but a crash and the
bound on connects.

**`protocol`**: `RequestUnderstood`, for every message the SDK sends and every field
but the times of a ping, with ids at both ends of their range, empty, short and long strings (a length of two bytes),
with and without the nested options and with a buffer some of them do not fit.
`ResponseUnderstood`, for the three response types: two responses are enough to
leave something behind, and the first fills every string. `NumbersAgree`
compares the readers on every sequence of boundary bytes, one longer than a
64-bit number has.

**`binding`**: `Delivered` accounts for every result between the SDK and its
callback, from whatever moment it comes. Its exceptions were each found
necessary: a second `prepare` (two poll threads overtake each other), a callback
that threw (it is removed), and a request with the id of a result left over from
the session before (the callback is told that one, or removed with it). Two
sessions are needed for the last, two poll threads for the first; both requests
of a session are needed for results of different requests to be in the queue at
once. `DeletedAlone` holds also after two `prepare`s: the thread that is never
joined keeps a reference, and so its object is never finalized. For the same
reason an object dropped without `release` stays for ever, and
the run does not check deadlock: a system at rest is what the properties want.
`LastTold` and `ReleaseReturns` are the liveness. `ReleaseReturns` begins where the
`release` of the SDK has come past its join of `send_reqs` (in Tts it may hang there),
and excepts one thing: after a second `prepare` both poll threads may be
asleep, the one notify wakes the one that is not in the handle, and `release` joins
the other for ever.

**`voice`**: ten bytes, five samples, in frames of two leave a rest, fill it exactly and
overfill it, in calls of less than a frame, of a frame and a half, and of any odd
length; a fragment cuts
packets and lengths apart; the buffer takes one long packet more or less. Two
requests share the encoder. `EverySampleOnce` is about the bytes: each is in one sample,
and each sample is heard once, waits in the encoder, or was put for a request that
took no more. It excepts the last byte of a call of odd length, and says nothing
once the encoder has failed or a call hangs in fragments of 0.

### Fairness

`Fairness` assumes weak fairness of each thread separately: `send_reqs`, `poll`
(the application calls it again), `erase_req`, the end of `gen_results`, the
second half of each `cancel`, each step of `release`. A thread that can run
runs; no mutex is held for ever, so weak fairness is all that
`std::mutex` scheduling is asked for. Two assumptions are about the world.
`EndsCurrent`: the operation in progress is answered or times out; this is what
`op_timeout` is for, given a recv that returns (the hazard at
`speech_impl.cc:735`, where the timeout is compared with zero a second time, is
listed in `PROJECT.json` and not covered yet). `EndVoice`: the application ends
the voice requests it starts, without which a request waits for its voice for
ever, as it should. Nothing is assumed of cancellation, broken connections or
new requests, which may happen or not.

`Binding` assumes weak fairness of the poll threads while they are awake, of the
second half of a call, of `ReleaseNotifies` and of `Join`, that callbacks return, and of
`NativeResult`: that the SDK gives every request a last result is `EveryRequestAnswered` of `Speech` and `Tts`.
`prepare`, `release` and new requests may happen or not. `Protocol` and `Voice`
have no liveness to speak of: each call is one step.

`SpeechConnection` assumes weak fairness of each of its threads, of the caller of
`recv` and of the rest of `release`; of the library, that a connect ends in
success or failure and that a socket closed on this side goes away (both have
timeouts there). Nothing is assumed of the server: it need never answer or close.

## What the violations show

Each violation run checks one statement the repository makes about itself and
finds an execution of the code against it.

* `speech_cancel_end`: `StreamQueue::end` (line 252) sets the tag to *completed*
  without looking at it. `start_voice`, `cancel`, `end_voice`, all before
  `send_reqs` gets there: the cancelled request is sent after all, empty.
* `speech_reprepare`: `operations_` outlives `release`. After the next
  `prepare` the front operation is one of the last session, and `poll` takes
  results of this session for it.
* `tts_release`: `TtsImpl::release` does not end the current operation before it
  joins `send_reqs` (the line `SpeechImpl::release` has for that purpose is
  missing). A `release` while a text is being spoken never returns, and `poll`
  neither.

Other behaviour met while modelling has no run of its own. Where a property
would be false because of it, the property excepts it by name:

* A response of a type the client does not know makes the operation STREAMING, starts
  its stream and may queue an extra (`speech_impl.cc:809-823`); the default branch then
  returns (866) past the only notify. `poll` sleeps on with START, or the extra, to be
  returned, until another notify comes. `PollSleepsOnlyForCurrent` excepts it (`"passed"`).
* `PingPayload::set_resp_tp` assigns `req_tp` (`nanopb_encoder.cc:274-276`).
  The keepalive thread sets both times (`speech_connection.cc:295-298`); the server finds
  that of the response where the schema has that of the request
  (`speech_types.proto:32-35`), and 0 for the response. `RequestUnderstood` leaves both
  times out.
* Voice is put in bytes, in pieces as the application likes; of a piece of odd length
  `put_voice` drops the last byte (`speech_impl.cc:223`), and the next piece begins a
  new sample, so a cut inside a sample shifts all that follows. `EverySampleOnce`
  excepts those bytes (`odd`).
* `cancel(0)` turns the stream that is being sent into a removed one
  (`speech_impl.cc:289`); when the operation is reset before `send_reqs` pops it, the
  server never sees an end of it. `WireInOrder` says what may be sent, not that every
  request opened is ended.

* A second last result (`speech_impl.cc:589`): the operation of a voice request
  ends, its rest is erased by a cancel, and `do_ctl_change_op` makes a second
  operation of the same id. `AnswersInOrder` allows a repeated CANCELLED.
* `release` calls `set_op_error` without `resp_mutex_` (`speech_impl.cc:153`).
  Its notify can fall between the test and the wait of `wait_op_finish`;
  `send_reqs` then sleeps for ever and `release` joins it for ever. Its own test of the
  current operation and the write after it can be overtaken, too: a null pointer.
* `send_reqs` drops `req_mutex_` to look at the current operation
  (`speech_impl.cc:521-535`) and takes the front of `text_reqs_` without testing
  again; `release` may have emptied it. In the same gap it misses the notify of
  `release`. `ReleaseEnds` excepts these, and the race of line 153.
* In the same gap it also misses the end of the operation in its way: a text then
  waits on `req_cond_` until the next call notifies. This is why
  `speech_answers` has voice requests only.
* The encoder is told neither of the end of a request nor of the start of the
  next (`rkcodec.cc:118-135`): up to one frame of a request is heard at the
  beginning of the voice of the next one.
* `encode` that fails after its first frame returns null with the size of what
  it had encoded (`rkcodec.cc:152-154`), and `put_voice` returns only on size 0:
  it reads from null (`stopped`).
* A `voice_fragment` of 0 is accepted, and the loop of `put_voice`
  (`speech_impl.cc:237-248`) then never ends; it holds `req_mutex_`.
* A second `prepare` of the bindings leaves a poll thread that `release` does not
  join (`com_rokid_speech_Speech.cc:196`), and results reach the callbacks in
  whatever order the two threads run. With both asleep, the one notify of `release`
  (`speech_impl.cc:161`) may go to that thread, and the join of the other never ends.

## The proofs

`tlapm` proves every obligation of the eight proof modules. The constants are
arbitrary within the assumptions of the modules: any number of requests, chunks,
results, cancellers, connections, poll threads, and any set of kinds of request
and response.

| theorem | property | needs |
|---|---|---|
| `StreamQueueListProofs!IndexHolds`, `...!ListImplementsStreams` | the invariant and the refinement of `stream_queue` | |
| `SpeechProofs!TypeCorrect` | `TypeOK` | |
| `SpeechProofs!CurrentAlone` | `OnlyCurrentIsLive` | `SingleSession` |
| `SpeechProofs!ControlSafe` | `ControlFindsOwnOp` | `SingleSession` |
| `SpeechProofs!SleepsSafely` | `SleepsForOwnOp` | `SingleSession`, `MaxReleases = 0` |
| `SpeechAnswersProofs!PollServesFrontOpHolds`, `...!PollSleepsOnlyForCurrentHolds`, `...!AnswersInOrderHolds`, `...!WireInOrderHolds`, `...!RequestsKeptHolds` | the other five invariants of `speech_session` | `SingleSession` |
| `TtsProofs!TypeCorrect`, `...!OnlyCurrentIsLiveHolds`, `...!NoLostWakeupHolds`, `...!PollServesFrontOpHolds`, `...!AnsweredOnceHolds`, `...!RequestsKeptHolds` | all six invariants of the run | `SingleSession` |
| `SpeechConnectionProofs!TypeCorrect`, `...!StageMatchesSocketHolds`, `...!ResponsesInOrderHolds` | all three invariants of the run | |
| `SpeechConnectionProofs!StopsHoldAlways`, `...!SuccessMeansHolds` | both action properties of the run | |
| `BindingProofs!QuietAfterReleaseHolds`, `...!DeletedAloneHolds`, `...!DeliveredHolds` | all three invariants of the run | |
| `VoiceProofs!FramesHold`, `...!SamplesHold` | both invariants of the run | `VoiceAssumption` |

`SpeechProofs`, `TtsProofs`, `SpeechConnectionProofs` and `BindingProofs` prove
`Spec => []IInv` first (`InvariantHolds`), the invariant being the one of the
module named `...Invariant`, and the properties from it; `VoiceProofs` does the
same with an `IInv` of its own; `SpeechAnswersProofs`
adds a second invariant of `Speech` on top of the first (`AnswersInvariant`), and
`BindingProofs` one of `Binding` (`ResultsInvariant`). TLC checked every `IInv`,
`AInv`, `DInv` and `ListInv` on small instances before: `DInv` on that of
`binding`, the `IInv` of `VoiceProofs` on that of `voice`. `ClientLemmas` says what
each operator of `StreamQueue` does to types, ids, and the front of the queue, and what the
methods of the controller leave of `ops`; the proofs about `Speech` and `Tts`
cite it.

### The flat list

`IndexAgrees` says that tags and index agree; which data item is of which stream
is nowhere written down, it is where the item lies. `ListInv` says that the list
is `Indexed`: some `at` enumerates the places of the tags in start order, their
ids are apart, the last item is a tag, and an erased stream has no data before
its tag. The last part is not in `IndexAgrees` and is what makes the representation
right: the exits of `pop` for an erased stream drop whatever is at the front of
the list (`PopFrontTag`), which is the tag only if `erase` left nothing in front
of it.

Under an enumeration the mapping is a cut of the list (`CutAt`): the stream of a
tag is the items between the tag before it and itself. Every operation but `clear` and
`close` then changes one stream at one end, which is shown once for all: if a
step replaces the items between two cuts and shifts the rest
(`Rewrites`, `ReplacesOne`, `Retags`), the new list is cut into the same streams
but for that one. `clear` keeps the tags alone; it needs that two enumerations of the same tags are
equal, and that one exists (`Enumerates`). Such facts are inductions over the
list, and are proved with `LeastElement`: a set of naturals that is not empty has a least
element. `ListImplementsStreams` then maps each action to the one of
`StreamQueueSpec`, or to a stutter.

It is this theorem that lets `Speech` and `Tts` use sequences of streams for
`voice_reqs_` and `responses_`.

### `Speech`

*Why a stronger invariant.* `OnlyCurrentIsLive` is disturbed only by
`ControlStart`, which pushes a new operation: it is preserved if no operation is
current then. That holds because `send_reqs` pops an item that starts a request
only when the previous request has been popped to its end and waited for; which
must be said of `voice_reqs_`. So `IInv` ties three pieces of state that three
threads write: while an operation is current and `send_reqs` is about to pop,
the stream at the front of `voice_reqs_` is the one of that operation and has
begun (`FrontIsCurrent` in `SenderFollows`), hence the next item popped cannot
start another request; once the last item is in hand, `send_reqs` goes through
`send` and `wait_op_finish` before it pops again. The rest says that ids are not
mixed up (`IdsKnown`, `IdsApart`, `NotBegun`, `CurrentIsNewest`), so that
`cancel_op` and `erase_req`, which match by id, hit what is meant.

*Why `SingleSession`* (`MaxSessions <= 1 /\ "op" \notin Spurious`). Operations of
an earlier session have the ids of this one (`next_id_` restarts), and
`cancel_op` stops at the first that matches: with two sessions the claim is
false, as `speech_reprepare` shows for its neighbour. And `wait_op_finish` waits
in an `if`: a spurious wakeup lets `send_reqs` start the next request while the
operation is in progress. `SleepsSafely` needs `MaxReleases = 0` for the reason
the race at `speech_impl.cc:153` shows.

### What the application and the server see of `Speech`

The other invariants of `Speech` need `AInv` (`SpeechAnswersInvariant`), which is
inductive together with `IInv`. It has five parts.

* `StreamsFollow`. The assertions of `poll` compare the stream at the front of
  `responses_` with the front of `operations_`. So every stream belongs to an
  operation still to be polled, and in the same order; an operation whose answer
  has begun has its stream, until `release` drops them. What `Tts` does not have
  is a second operation of one id (`speech_impl.cc:589`): streams belong to the
  *leading* operation of their id, and the ones behind it are CANCELLED
  (`RepeatsCancel`), so that `poll` finds no stream for them and needs none.
* `TalesFollow`. What `poll` has said of an id is `<<>>` while the id has no
  operation, at most START until the leading one is removed, and has its last
  result afterwards; nothing is said of any operation behind the front one, which
  is the order of `AnswersInOrder`.
* `PollSleepsOnlyForCurrent`, which is inductive with these two: whoever ends the
  operation at the front wakes `poll`, and so does whoever touches its stream, but for
  `RecvUnknown`, which leaves the operation current.
* `RequestsFollow`. An id is queued, in hand, or has an operation (`IdsKept`).
  `send_reqs` may drop an item only if its id has an operation already, which
  must be known of a voice request that was begun, and of one that `erase_req`
  failed (`BegunHasOp`); otherwise `ControlDrop` would lose it.
* `WireFollows`. At each place of `send_reqs` before a send, what the server has
  seen of the request in hand: nothing without an operation, an open request
  wherever `send_reqs` goes on with one. It rests on `IInv`: the operation that
  `send_reqs` read before it let go of the lock is that of its own request.

`SingleSession` is needed for the same reason as before: with operations of the
session before, ids are no longer unique and `PollServesFrontOp` is what
`speech_reprepare` refutes. Nothing else is assumed: `release` may come at any
point, and so may spurious wakeups of the other two condition variables.

### `Tts`

*Why a stronger invariant.* The assertions of `poll` are about the fronts of two
lists, `operations_` and `responses_`, that other threads append to, complete
and erase from. `IInv` says how the two keep step: ids grow along `requests_`,
along `operations_` and from one to the other (`IdsOrdered`); every stream
belongs to an operation still to be polled, the streams are in the order of the
operations, and a completed one is of an operation that is over
(`StreamsFollow`); an operation whose answer has begun has its stream
(`BegunHasStream`). Then the stream at the front cannot be of any other
operation than the front one. `AnsweredOnce` needs what `poll` has said of an id
to follow both (`TalesFollow`): nothing of an id still queued, at most START of
an operation not yet removed, a last result of a removed one, and a stream that
was polled is one that was announced. `RequestsKept` is `IdsKept` with the rest.
The invariant covers `release` and what it leaves behind.

*Why `SingleSession`.* In the second session even `TypeOK` fails: `erase` of a
stream of the session before may hand `poll` a REMOVED item that belongs to no
operation, and `poptype_to_restype` has no entry for it
(`tts_impl.cc:156-164`, an assertion). A spurious wakeup of `op_cond_` breaks the
rest, as in `Speech`; one of `resp_cond_` does not.

### `SpeechConnection`

*Why a stronger invariant.* The callbacks take no lock, so what holds of
`stage_` depends on how far a callback has come. `ThreadsFollow` and
`SocketFollows` say what `sock` and `ws_` can be at each place of the work
thread; `StageFollows` what the stage can be, the delicate part: a loss sets
`ws_` to null at once and the stage two steps later, so READY or AUTHORIZING
without a socket is possible in `"cleared"` and `"losing"` and nowhere else;
`ReportsFollow` that the ERROR is pushed before the stage says so and that its
socket is gone. `ResponsesInOrder` alone is not inductive: the message in the
hands of `onMessage` must not be the second after the ERROR of its connection
(`DataFollows`), and the list must be empty when `release` pushes CLOSED
(`ResponsesFollow`, from the joined work thread). `SuccessMeans` rests on
`SenderFollows`: the connection `send` was told is available is current and
authorised, or paused or closed, or its loss was reported.

No assumption is made beyond `ConnectionBoundsAssumption`, and `IInv` also
describes the states after `Crash`.

### `Binding`

`refs` counts the poll threads that run (`RefsCount`): with no reference left,
none does, which is what `finalize` relies on. Without a second `prepare` the
thread in the handle is the only one (`HandleFollows`), so `release`, which joins
that one, leaves none. `LockFollows` and `ObjectFollows` say that no request is
under way when the object is let go, and that nothing starts again.
`NullAssumption` says that null is neither a poll thread nor a caller.

*`Delivered`* is about where each result is: told, in the hand of the poll thread, or
in the queue of the SDK, with consecutive numbers (`InOrder`). What could break it is
a result that finds no callback, or another's. So `DInv` follows the requests
whose results are still to be looked up (`Coming`) and their callbacks:

* `RegularFollow`: the callback of such a request, if it is one `Delivered` speaks
  of (`Regular`), is in the map, or will be before the lock is free
  (`Registered`). The map is
  read under the same lock, so a result that comes before `putText` has stored
  its callback waits for it. A callback is taken out of the map only when nothing of its request is
  coming, which after a last result is `LastFollows`: the request is no longer
  pending, and no result of it has a higher number.
* `CallbacksFollow`: ids begin again with each session, and a callback of an
  older session may still be in the map. A result never finds one older than its own request:
  a newer one has replaced it (`put` of the same id), or is about to with the
  lock held. The converse does happen, a result left over finds the callback of a request of a
  later session; that request is then `stale`, and `ToldOwn` says that this is the only
  way in which a callback is told what is not its own.
* `PendingFollow` and `SessionsFollow`: ids grow along the pending requests and
  are given out in order, so a new request is none of those whose results are
  still on the way.

With a second `prepare` two threads have a hand and nothing is claimed; without,
`HandleFollows` says there is one hand, and each step of it moves a result from
the queue to the hand or from the hand to the callback (`CarriesTail`,
`CarriesAppend`). Which poll threads sleep matters to none of the three, only to
`ReleaseReturns`.

### `Voice`

*Why a stronger invariant.* `FramesInOrder` compares the samples of one request
with each other; the next call appends frames that begin with what waits in the
encoder, and one encoder serves all requests. So `IInv` says that what waits is
less than a frame and in the order it was put (`CarryInOrder`), and that
everything heard so far, in any request, was put before it (`HeardBefore`).
`Sound` is `FramesInOrder` for one sequence of bytes. `EverySampleOnce` is inductive with
these: the bytes of a call are those of its samples and, of an odd length, the last
(`NewSamplesLemma`), all of them above those put before (`BytesGrow`).

The step of `put_voice` goes back through its layers. The fragments of a call
put together are the bytes of the encoder (`JoinedCut`: neighbouring pieces of
the cut meet). Those bytes are packets that follow each other (`EncodedSound`):
`enc_size` grows with each frame (`SizesGrow`), so every place of the buffer is in exactly
one packet, and the length fits its byte because `MaxPacket` is below
256, the one thing assumed of libopus. And a sound sequence after a sound one whose
samples are all older is sound (`AppendSound`). A failed call changes neither
fragments nor order: the frame that waited is still there or dropped whole.

Sums over a sequence (`Joined`) and places found by `CHOOSE` (`Encoded`) need
induction on numbers, which is done with `LeastNatural`: a set of naturals that is
not empty has a least element.

No theorem needs the bounds: `Requests`, `MaxLength` and `MaxBytes` are any numbers,
`Fragments` is any set of them.

### Layout, and what is only model-checked

One lemma per action or small group of actions that share what they leave alone,
each with one step per part of `IInv` they can disturb; `InvariantStep` splits
`Next`, `InvariantHolds` is the temporal step. In `SpeechConnectionProofs` the
actions are first sorted by what they do to the response list (`ListStep`: keep,
clear, take, push an ERROR, a message or CLOSED), and the order is proved of
those six.

Only model-checked:

* the liveness properties (weak fairness is beyond the prover);
* whatever `Speech` and `Tts` keep with more than one session or with spurious
  wakeups of `op_cond_`, beyond `SpeechProofs!TypeCorrect`;
* the three invariants of `Protocol`: `PbWire` reads and writes messages by
  recursion over bytes, fields and nested descriptors, with `RECURSIVE` operators.

## Abstractions and what is left out

* A text, a chunk of voice and a result are one value each; option arguments and
  error codes are not told apart.
* `RecvIntermediate` covers one INTERMEDIATE or ASR_FINISH response; the optional
  further item of the same response (`extra`) goes to the same stream and is not
  separate. Of a response of an unknown type it is (`"EXTRA"`), as nothing else is
  queued then. `speech_answers` leaves unknown types out to stay small: they end
  nothing. `speech_session` has them with an extra, `speech_shutdown` without; the
  proofs cover both.
* `put_text` draws its id outside the lock. One thread issues requests in the
  model, and then the draw is unobservable; with several it is a data race.
* The data race on `current_op_` in `release` is modelled as a test followed by
  a write, not as a torn `shared_ptr`.
* `front()` of an empty list, undefined in C++, stops the thread (`"crashed"`).
* The clock of `op_timeout` is the flag `calc_op_timeout`: an operation whose
  flag is set may time out at any time.
* Of `config` only the fragment size is modelled (`Voice`); the other options it copies
  and the trace records under `SPEECH_STATISTIC` do not touch the state modelled. In
  `Speech` a chunk of voice is put whole; how calls become chunks is `Voice`.
* libopus is external: a packet is the frame it was made of, of any length up to
  `MaxPacket`, which is assumed to be below 256 (`VoiceAssumption`; the code has
  a TODO there). Not modelled: `config` changing the codec in a session, two
  threads in the encoder at once (`put_voice` calls it before it locks), the
  decoder.
* `PbWire` reads and writes the field types the descriptors have: no repeated,
  oneof, extension, pointer or fixed-length fields, and no `PB_ENABLE_MALLOC`.
  The 8-bit `bitpos` of the 32-bit reader wraps in a varint of more than 37
  bytes, which is not modelled. The server keeps the wire types of the
  descriptors (the decoder does not look at them, except for strings). An empty string
  reads as none; enum values are not checked, by the code or here. A byte is a
  number, a string a sequence of them. The buffer and the clock of the login's
  signature are not modelled.
* In `Binding` one thread calls `prepare` and `release`, and no callback does
  (`release` would join the thread it runs on). A callback may throw an Exception, which
  is caught; an Error is not (`Speech.java:132`) and stays pending in the native poll
  thread, where the next call of the JVM is undefined: callbacks are taken to throw
  none. The conversion of options and the
  reading of the configuration file are left out. `Tts.java` and its native side have
  the same structure and share the module; where the two differ in the names of
  types only, the lines of one are mapped.
* The websocket library is external to the repository: `hub_.run()` serves one
  socket and returns when none is left, `close()` calls `onDisconnection` in the
  calling thread. A socket `release` leaves in the hub would meet the next
  session; `SpeechConnection` follows one session.
* The connection has no clock: silence, the end of `conn_duration` and the
  timeouts of `send` and `recv` may come whenever they are waited for. When pings
  are sent and trace info are left out, and the contents of messages are in
  `Protocol`; a serialisation or parse error returns to the caller and changes nothing here.
* Not modelled at all: `PendingQueue` and `PendingStreamQueue`, which nothing
  uses; `TraceUploader` and the trace records, compiled in only for telemetry and
  without effect on requests; logging and the clock wrapper, which are I/O; the
  demos and tests, which are clients.

## The plan

In this order; done items first.

1. `StreamQueue`, `StreamQueueSpec`, `StreamQueueList`: done.
2. `Speech` and its runs: done.
3. Type invariant, `IInv` and what follows from it: done.
4. `Tts`: the speech-synthesis client over the same controller, with the proofs
   of all its invariants: done.
5. `SpeechConnection` and the proofs of its invariants and action properties:
   done. To follow: the contract `Speech` and `Tts` assume of it as an abstract
   specification it implements, and two sessions with a socket left over.
6. `PbWire`, `Protocol`, `Voice`, `Binding`: done, with the proofs of
   `QuietAfterRelease` and `DeletedAlone`.
7. `OpTimeout`: the arithmetic of `op_timeout` with its unsigned widths, and what
   a timeout of 0 does to `recv`.
8. An abstract specification of the results protocol, implemented by `Speech`,
   and used by `Binding` in place of `NativeResult`.
9. The proofs of what `Speech` tells the application and the server, of
   `IndexAgrees` and the refinement of item 1, of `Delivered`, and of both
   invariants of `Voice`: done. With them every invariant and action property
   that a passing run checks is proved but those of `Protocol`.
