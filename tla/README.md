# TLA+ specifications of ironsight

ironsight is a Rust client library for the FlightScope Mevo+ launch monitor. A
program opens a TCP connection to the device, synchronises with its three nodes
(DSP, AVR and PI), configures and arms it, and then receives shots until it
disconnects. The device decides when shots happen and in which order its
messages come; the client has to keep one consistent picture through that,
through lost answers and through write errors. These specifications model that
picture, check it with TLC and prove part of it with TLAPS.

## 1. Inventory

| Part | Source | State | Operations | Specified |
|---|---|---|---|---|
| Sequencers | `src/src/seq.rs` | step, index, results so far, deadline | `new`, `feed`, `is_complete`, `check_*_timeout`, `into_result` | `Sequencers` |
| BinaryClient | `src/src/client.rs` | queue, active operation and its deadline, keepalive flags, caches, `armed`, `shot_in_progress` | `handshake`, `configure_avr`, `configure_cam`, `arm`, `poll` | `BinaryClient`, `OperationQueue` |
| BinaryConnection | `src/src/conn.rs` | splitter, pending frames | `send`, `recv` | `Connection`, `FrameBag`, `ReadBatch`, under `BinaryClient` in `Session` |
| Frames | `src/src/frame.rs` | the partial frame | stuffing, checksum, `FrameSplitter::feed` | `FrameCodec`, `FrameSplitter`, `FrameLink` |
| GVP connection and client | `src/src/gvp/` | pending messages, cached config | `recv`, `poll`, `NullSplitter::feed` | `GvpLink`, `NullSplitter`, `GvpMessages`; `GvpClient` over `Connection` |
| Blocking wrappers | `src/src/seq.rs` from line 1497, and `drive` | none between calls | `sync_*`, `configure_*`, `arm`, `keepalive`, `complete_shot` | `Blocking` |
| FRP server | `src/src/frp/` | controller connection, shot number and key | `handle_event`, `check_controller`, `send_device_info` | `FrpDevice` |
| ironsight-frp | `src/src/bin/ironsight-frp.rs` | its own `armed` | the loop over client and server, recovery | `FrpDevice` |
| Codec | `src/src/codec.rs` | none | integers of 8 to 32 bits, 40-bit floats | `Codec` |
| Protocol messages | `src/src/protocol/` | none | `encode`, `decode`, dispatch | `Payloads` |
| GVP messages | `src/src/gvp/` | none | `decode` | `GvpMessages`: dispatch and errors; field layouts are derived by serde |
| Addresses, errors, crate root, examples, tests | `src/src/addr.rs`, `error.rs`, `lib.rs`, `src/examples`, `src/tests` | none | | not specified |

How they interact: the caller calls `poll()` in a loop and enqueues operations
between two polls. `poll()` starts the next operation, lets the active
sequencer's deadline act, receives one envelope from the connection and feeds
it to the active sequencer, whose answers it writes to the connection. What no
operation takes is looked at for a shot (`BALL TRIGGER`, `PROCESSED`) and
otherwise handed to the caller. There are no threads: concurrency is that of
the device, the clock and the caller with the steps of `poll()`. The blocking
functions of `seq.rs` use the same sequencers and the same connection without
`BinaryClient`. `ironsight-frp` is a caller: between two polls it turns what the
last one returned into messages of `FrpServer` for a controller, and takes the
controller's detection modes as operations to enqueue. `GvpClient` has a
connection and a splitter of its own, for the camera.

What is hard about it: an operation and its deadline are separate fields set and
cleared in seven places; `keepalive_queued` duplicates a fact about the queue;
`armed` is tested in one poll and acted upon in later ones; two different
timeouts race answers that are merely late; frames of one read are handed out in
an order nobody intended; a write can fail in the middle of a batch of commands;
the network cuts frames, escapes and characters anywhere, and a program joins a
stream in the middle of a frame; a read that ends inside a frame starts its
timeout again; the server keeps the key of a shot of which the beginning, the
end or the controller may be missing; a mode change arrives while an arm is
queued or running; and three hundred fields are read from payloads at offsets
written by hand, behind guards of their own.
`PROJECT.json` lists these hazards line by line with the properties that cover
them.

What makes each part correct: a sequencer sends each request once, in order, and
leaves no result missing; the client runs operations one at a time in the order
asked, never configures an armed device, never waits without a limit and keeps
polling the device between shots; a connection hands out each frame once; a
splitter returns the frames of the stream, wherever it is cut; a blocking call
returns close to its deadline, unless half a frame keeps it, and with a complete
result; the controller sees each
shot begin before its data and nothing of it after its end, and the program
leaves the device armed or ends; a decoder never reads behind a payload, reads
nothing twice, leaves nothing out, and agrees with its encoder.

## 2. Modules

**`Sequencers`** has the eight sequencers of `seq.rs` and the keepalive
sequencer of `client.rs`. A sequencer is a record; what a step does with an
envelope is a set of rows (source buses, message, what is kept, next step,
commands), one row for each arm of a `match` that changes something. `Fed` and
`Replies` are `feed()`, `NewSeq` and `InitialSends` are `new()`, `TimedOut` and
`TimeoutSends` are `check_cal_timeout` and `check_drain_timeout`, `Unwrapped`
names the fields `into_result()` unwraps. Messages are told apart as far as some
match does: a Text is named by the substring searched in it, `DspStatus6` is a
DspStatus whose `state()` is 6. Parameter ids, settings values and payloads are
abstracted. The filters `should_skip*` need no rows: no row awaits a message
that the filter of its step drops, so what remains of them is the bus test.

**`BinaryClient`** has the fields of the struct as variables and `poll()` as four
steps, `pc` being the place between them: the deadline check (comment 1 in the
code), starting an operation (2), sequencer timers and the automatic keepalive
(3, 3b, 4), and receiving and handling one envelope (5 to 11). Nothing but the
clock can come between two of them, and `Tick` may. `ret` is what the last poll
returned and `out` what the last step wrote. Envelopes come from an arbitrary
peer: any member of `Envelopes`, at any time, solicited or not. A write fails
when `SendMayFail` is TRUE; the commands before the failing one are out, and the
fields are left as the code's `?` leaves them. Deadlines count down in ticks and
stay at 0 until they are read; `sinceKa` stops at the interval.

**`OperationQueue`** is what the caller may rely on: requests run one at a time
and in order, a configuration may be preceded by a disarm of its own, a shot is
handled only between two of them; where writes may fail a request can be lost as it
begins (`MayLose`), and in no other way. `BinaryClient` implements it
(`ServesInOrder`) with keepalives invisible and the three phases of a handshake as
one operation.

**`Connection`** is `recv()` at the level of frames: a read completes some number
of frames, one is handed out, the rest is pending; a frame that does not decode
is an error to the caller. **`ReadBatch`** has the two operators that decide the
order, `First` and `Stash`, for everything that receives. **`FrameBag`** is the
abstract specification: each frame handed out once, no promise of order.
`GvpConnection::recv` is the same code, and **`GvpClient`** extends `Connection`
with the configuration `poll()` caches of the messages it hands out. What a
failing read leaves of the connection is not modelled.

**`GvpLink`** is the GVP side in detail, from the bytes of the camera to the
events of `poll()`, and implements `GvpClient` (`ImplementsClient`): messages are
the frames, bytes and segments are invisible. It composes **`NullSplitter`**, the
splitter of the JSON messages, one action for each round of its loop, with bytes
told apart as null, white space, a character of one byte, and the two bytes of a
longer one; `ReadBatch`; and **`GvpMessages`**, the dispatch and the errors of
`GvpMessage::decode`, where a text is what `decode()` asks about it.

**`Session`** composes `BinaryClient`, `recv()` and a device, from a finished
handshake on. `inbox` holds commands on their way, `wire` envelopes on their way
back, `pending` is the vector of `recv()`. The device is external: it does what
`docs/SEQUENCE.md` and the sequencers say of it, answers commands in order and at
once, always sends PROCESSED, and may leave out IDLE, as some firmware does. Time
passes only when nothing is on its way, so that what times out here has been
lost, not delayed. The histories (`batched`, `mixed`, `swallowed`, `noIdle`,
`owed`) record why something may be lost, which is what the properties are about.

**`Codec`** has the reads and writes of `codec.rs` on bytes; an `f64` is its sign,
exponent and mantissa, the mantissa cut into the part that fits and a rest.
**`Payloads`** has every `decode()` of `src/protocol/` as the length it demands and
the fields it reads, in order, every `encode()` as the bytes it writes, and the two
dispatches. A read through the codec fails behind the end of the payload, an index
or a slice panics there; `result` is what came of the last payload.

**`FrameCodec`** has the byte stuffing, the checksum, `encode` and `parse` of
`RawFrame` as operators on bytes. **`FrameSplitter`** is `feed()`, one action for
each round of its loop, over a stream that is cut anywhere; `frames` is what it
has returned so far. **`FrameLink`** puts both ends together: a device encodes
frames, the program joins its stream at some byte, splits and parses. Streams of
any other origin are among its initial states too.

**`Blocking`** has `drive()` and the seven functions built on it, `recv_msg()`,
and `keepalive()` with `send_recv()`. A call is a loop: `"loop"` is the place
where the deadline is looked at, `"read"` the one where `recv()` waits in a
`read()`. A read ends with a frame, with bytes that complete none (`ReadPartial`,
after which `recv()` reads again with a whole timeout, any number of times), with
the read timeout or with an error. `left` is what remains until the deadline of the
loop, `late` the time since the deadline or, if that is later, since the last read
that brought part of a frame.

**`FrpDevice`** is the program `ironsight-frp`. It extends `BinaryClient`: a
`Poll` is a step of the client's `poll()`, and when it has returned (`pc` is
`"ready"`, `handled` FALSE) `Main` does what the loop does with that outcome.
`payload` holds the shot data in the returned event, `key` the shot number in
`current_key`, `told` the shot events the controller has been sent. Sending
several events can fail after any of them; `Closed` drops the connection. The
UUID of a shot is its number. The telemetry of the device (`DeviceInfo`), unit
conversions, and commands of a controller other than the detection mode change
nothing that is modelled.

**`SequencersProofs`**, **`ClientProofs`** (of `BinaryClient`, `FrpDevice` and `Session`),
**`BlockingProofs`**, **`FrameLinkProofs`**, **`ConnectionProofs`**, **`GvpLinkProofs`**
and **`PayloadsProofs`** (of `Codec` and `Payloads`) hold the proofs,
**`SequenceLemmas`** what several of them need about sets of numbers, recursion,
flattened sequences and sequences that elements are taken from; the **`MC`** modules the values of constants for TLC. Definitions
commented "Faulty variant" are not part of the specifications: each is a
plausible mistake, put in the place of the definition it stands before to see
that a property fails then.

## 3. Runs

| Run | Module, configuration | Checks |
|---|---|---|
| reconfigure | `MCBinaryClient`, `BinaryClient_reconfigure.cfg` | `DeadlineIffActive`, `KeepaliveFlagHonest`, `KeepaliveBound`, `ConfigureOnlyDisarmed`, refinement `ServesInOrder`: arms, shots, keepalives and configurations |
| client | `MCBinaryClient`, `BinaryClient_calls.cfg` | `NoPanic`, `ArmsOncePerShot`, `TimeoutIsFinal`, refinement `ServesInOrder`: the handshake, both configurations, arms and shots together, with failing writes |
| liveness | `MCBinaryClient`, `BinaryClient_liveness.cfg` | `OperationEnds`, `ArmStarts`, `KeepalivesContinue` |
| session | `MCSession`, `Session_calls.cfg` | `TimeoutsExplained`, `BeliefHonest`, `DataReturned`, `ReArmed`: client and device through shots, keepalives, a configuration or an arm, with frames out of order |
| gvp | `MCGvpLink`, `GvpLink_streams.cfg` | `OneMessagePerSegment`, refinement `ImplementsClient`, `OvertakenOnce`, `NothingLeftBehind`, `ConfigLagsByOne`, `EveryMessageArrives` |
| splitter | `MCFrameLink`, `FrameLink_streams.cfg` | `SplitsLikeWhole`, `BufferIsOpenFrame`, `FramesAreFramed`, `WholeFramesArrive`, `StreamIsRead` |
| payloads | `MCPayloads`, `Payloads_wire.cfg` | `NeverPanics`, `ReadsOnce`, `DocumentedIsDecoded`, `RoundTrip`: every message type at every length, every command at the ends of its ranges |
| blocking | `MCBlocking`, `Blocking_calls.cfg` | `OverrunBounded`, `ResultsComplete`, `CallReturns`: calls against a peer that answers anything, in pieces, with pieces that never end, or not at all |
| frp | `MCFrpDevice`, `FrpDevice_loop.cfg` | `TriggerTold`, `ArmFollowsConfigure`, `FinishedIsLast`, `TimeoutEndsProgram`, `ConfiguredIsArmed` |

All of them pass. Three more runs check a sentence of the documentation or of a
comment and show that the code does something else:

| Run | The sentence | What the code does |
|---|---|---|
| arrival_order | `conn.rs:210`, extras are stashed "in arrival order" | `pop()` hands out the last frame of a read first. Answers that arrive together are swapped. |
| best_effort | `SEQUENCE.md:296`, without an answer to ShotResultReq "proceed to arm anyway" | the sequencer waits for it until the operation times out; the device stays unarmed. |
| blocking_drain | `seq.rs:1332`, without IDLE in the drain window "proceed directly to ARM" | `complete_shot()` uses `drive()`, which never calls `check_drain_timeout()`: it waits out its 30 s and returns Timeout. |

Other differences between a comment and the code can be read off the
specifications and have no run of their own:

- `client.rs:308` suppresses keepalives during a shot; a keepalive queued in the
  poll that receives BALL TRIGGER starts in the next (`AutoKeepalive`, `Trigger`).
- `SEQUENCE.md:213` has each status poll wait for the answer to the one before;
  `InitialSends` of a keepalive sends all three at once.
- `client.rs:45` yields shot data between Trigger and ShotComplete; a FlightResult
  before PROCESSED is passed on as a plain message (`PassOn`).
- `gvp/client.rs:153` calls `config()` the latest configuration; of two in one
  read the older one stays cached. `ConfigLagsByOne` says how far it can lag.
- `conn.rs:279` promises that `recv_timeout()` blocks up to its timeout and returns
  `Timeout` if no complete frame arrives in time. `recv()` reads again, for a whole
  read timeout, after every read that completes no frame: a call is late by as long as
  pieces keep coming (`OverrunBounded`), and never returns if they never complete a
  frame (`KeptReading` in `CallReturns`).
- `ironsight-frp.rs:127` recovers from an error by arming again; after a Timeout
  that arm never starts and the program ends (`TimeoutEndsProgram`).
- `frp/mod.rs:187` sends with ShotComplete the "data not already sent"; it sends
  all of it again (`OnShotComplete`).
- `SEQUENCE.md` takes answers one by one; when a ConfigAck and the ARMED CANCELLED
  (or ARMED) behind it come in one read, `recv()` returns the second first, which
  is skipped, and the disarm (or arm) waits for it until it times out: the
  disjunct `batched` of `TimeoutsExplained`.
- `client.rs:481` disarms before a configuration when `armed` is set. A
  configuration asked for during a shot finds `armed` FALSE, starts without a
  disarm, and its sequencer skips the messages of the shot (`swallowed`).
- `client.rs:352` looks for BALL TRIGGER and PROCESSED only in what no operation
  takes: those of a ball hit while the shot before is still re-arming are lost.
- `seq.rs:1405` starts the drain timeout with the first flight result it collects;
  one that came before PROCESSED does not count, and without IDLE the shot ends in
  Timeout (`UndatedDrain`).
- A flight or spin result that PROCESSED or IDLE overtakes in one read is lost, and
  one before PROCESSED is missing from ShotComplete (`DataReturned`).
- `error.rs:33` has an error for a float with a non-zero exponent and a zero
  mantissa; nothing returns it, `read_float40` makes it 0.0.
- `status.rs` reads byte 10 of an AVR status into two fields, the identifier's last
  and the temperature's first, as `WIRE.md` has it (`ReadsOnce` excepts it).

**Bounds.** `MaxQueue` is 1 or 2 calls waiting when the caller makes another; the
automatic keepalive comes on top of it. Two are needed for an operation to be
overtaken or separated from its disarm, and nothing looks further into the queue
than its head. Timeouts are one tick (calibration, drain, keepalive, interval)
and two (operations): a deadline can pass before, between and after any two
steps, and the operation deadline is the longer one, as 30 s is to 2 and 3 s.
`MaxRetries` is 1: the counter is only read by a caller. Settings have zero, one
or two parameters, with and without a calibration, which covers every branch of
`AvrConfigSequencer`. The envelope sets hold, for the operations a run is about,
every message some step reacts to, each from its own bus, plus messages that are
skipped; the bus tests are exercised by types two nodes send (DevInfoResp,
ParamValue, ConfigAck). The drain timeout takes part in the client run and is left
out of liveness, where only the operation timeout ends a shot that hangs.
The client run has one setting, of two parameters and a calibration; the settings
without them are in reconfigure. In arrival_order `MaxFrames` is 5, which allows two
reads of several frames, with the second frame corrupt. Streams for the frame
splitter are all those of up to six bytes that are markers or another byte, which
is room for two frames with garbage before, between and behind, and the encodings
of one and two frames whose payload or checksum consists of bytes that are escaped,
joined at every byte. A stream of JSON has five messages: three configurations with a
failing and an unknown message between them, the first with white space around or of
a two-byte character, with an empty or corrupt segment in two places; every cut of it
is tried. `Session` has two balls (the second meets what the first left
behind; none is hit after a message was swallowed, because no property says more of
such a session) and one call, with one parameter and a calibration. `Payloads` takes
every length from 0 to 190, which is beyond the longest fixed layout and three
records of a batch, with every value of the first and the fourth byte that some
decoder tests or counts with; commands take the ends of each range and both signs.
In `Blocking` a call takes three ticks, a read two: the deadline can pass between
two reads, at the end of a read and within one. Reads that complete no frame are not
bounded: `FramesInPieces` says whether there are any (blocking_drain has none, so that
its trace is about the drain timeout alone), and `late` counts from the last one, so
that any number of them is a finite number of states. `FrpDevice` has one shot, which is
enough for its events to be late, missing or repeated; a mode change may be made
whenever no other operation waits (`MaxQueue` 2, a configuration and its arm). It
starts with the handshake just completed, in any belief about the device being
armed, and timeouts of one tick.

**Fairness.** `FairSpec` assumes that the caller keeps calling `poll()`, also
after an error, that a poll terminates (its stream does not block), and that
time passes. All three are what the documentation of `BinaryClient` asks of its
caller. Nothing is assumed of the peer: no fairness lets an answer arrive.
`FairSpec` of `GvpLink` assumes that `poll()` is called again and that the bytes the
camera sent reach the host, as TCP delivers them while the connection lasts;
`SessionFairSpec` that the device goes on with a shot and answers commands, that
`poll()` is called, that what is on its way arrives and that time passes (both
strongly, since polls that find nothing come in between);
`LinkFairSpec` that the stream is read to its end. `FairSpec` of `Blocking` has
the code run and time pass. Time passes only in its reads and a peer that keeps
sending interrupts every one of them, so `Tick` is strongly fair: such a peer
cannot stop the clock. It can stop a call: bytes that never complete a frame keep
`recv()` reading, and no fairness excludes them. `CallReturns` therefore says that a
call returns or is kept in one `recv()` by such bytes for ever (`KeptReading`);
frames that come in pieces but are completed, however many, do not excuse a call. The
same bytes keep a `poll()` on a blocking stream, which is why `FairSpec` above has to
assume that a poll terminates. `FrpFairSpec` has the loop go round and time pass.

**Deadlock** is checked wherever the system never stops: the client can always be
polled and a blocking function called. A split stream ends, so the splitter run does not
check it; that the end is reached is `StreamIsRead`.

## 4. Proofs

`ClientProofs` proves about `BinaryClient`, for every value of the constants that satisfies
`TimeoutAssumption` and `ClientAssumption` (timeouts positive, any queue bound,
any set of settings, any set of envelopes, writes failing or not):

- `TypeCorrect`: `Spec => []TypeOK`. Its core is in `SequencersProofs`: the rows
  of all nine scripts are well typed, hence `Fed`, `Replies` and the timeouts map
  sequencers to sequencers of the same kind and commands. The type invariant is
  inductive as it stands.
- `DeadlineMatchesActive`, `NoUnlimitedOperation`, `DisarmBeforeConfigure`,
  `ConfigureWhileDisarmed`: the invariants `DeadlineIffActive`,
  `DeadlineWhenActive`, `DisarmThenConfigure` and `ConfigureOnlyDisarmed`. They
  are proved together, with the types, as the inductive invariant `Inv`. Whatever
  a step does to the active operation is one of five things: it goes on, ends, is
  lost in a write error, starts from the queue, or gives way to a sequencer that
  is neither a disarm nor a configuration. Each has a lemma
  (`GoesOnSafe`, `EndsSafe`, `IsLostSafe`, `StartsSafe`, `TakesOverSafe`), and
  each action is one of these cases. The types are needed because a disarm and a
  configuration are recognised by the kind of a sequencer that `Fed` must keep.
- `FlagHonest`: `KeepaliveFlagHonest`, inductive given the types. `start_op`
  takes a keepalive out of the queue only to make it active, and whoever ends it
  resets the flag.
- `TimeoutStays`: the action property `TimeoutIsFinal`.
- `NeverPanicking`: `NoPanic`, from the inductive invariant `Paid`: the active
  sequencer is `Supplied`, and the handshake has kept the results of its finished
  phases. `Supplied` (in `SequencersProofs`) gives every step of the three handshake
  sequencers the fields it counts on (`DspNeeds`, `AvrNeeds`, `PiNeeds`); every row,
  and every calibration answer given up, adds what its next step lacks, and `Done`
  counts on all that `into_result()` unwraps (`CompleteSupplied`).
- `KeepalivesAreFew`: `KeepaliveBound`. It is not inductive: a shot resets the flag
  while no operation is active, and two keepalives might wait then. The invariant
  `Few` adds that they cannot, because the same poll has just emptied the queue.
  `WaitsAppend` and `WaitsTail` count what an append adds and a start takes away.
- `ArmsOnce`: the action property `ArmsOncePerShot`. `ShotRowsOnward` says of the
  rows of the shot that they lead onward and that those that send Arm are those that
  lead to `WaitingForArmAck`; `StepOnward` carries it through every step.

- `ServedInOrder`: `ServesInOrder`, that `BinaryClient` implements `OperationQueue`.
  The mapping drops keepalives from the queue with the recursive function
  `RequestsUpTo`; `RequestsAppend` and `RequestsTail` say what an append adds to the
  requests and what the head takes from them, whatever else is queued. Given the
  inductive invariant above, each step of the client is then a step of the queue or a
  stutter: `StepServed`, by the same cases as for the deadlines.

`BlockingProofs` proves, for any timeouts, any peer, frames that come in pieces or
never end, with and without write errors:

- `TypeCorrect`, and `ResultsAreComplete`: `ResultsComplete`. The invariant `Drives`
  says that a call that drives has a sequencer, supplied as above, and that Ok means
  it is complete.
- `OverrunIsBounded`: `OverrunBounded`. It is not inductive: a read could be late
  already when it begins. The invariant `Timed` adds that nothing is late before the
  deadline, which is when a `recv()` is entered, and that what is late and what the
  read may still wait are together no more than its timeout; each tick moves one from
  the second to the first, and a piece of a frame starts both again. A call that gets
  k pieces after its deadline is thus over k + 1 read timeouts after it.

`FrameLinkProofs` proves for every set of streams and every way to cut them
`SplitsLikeTheWhole`, `KeepsOpenFrame` and `ReturnsFramed`, the invariants `SplitsLikeWhole`,
`BufferIsOpenFrame` and `FramesAreFramed`. `BufferIsOpenFrame` holds only between two
calls of `feed()`; the inductive invariant for it and `FramesAreFramed` is the type
invariant with both properties: each round of the loop cuts at the positions `StartPos`
and `EndPos`, of which `StartPosIs` and `EndPosIs` say that they are the first ones, or
that there is none. For `SplitsLikeWhole` the invariant `Tracks` says in the middle of a
call what the property says at its end: the buffer is the last part of what has been
read, nothing open was cut off before it, and `frames` are the frames of the part
before (`FramesTo`). `OneMoreFrame` closes a frame: the frames up to its last byte are
those before its START and itself.

`ParsesEncoded` is about the operators alone: `Parse(Encode(f)) = f` for every frame,
of any length, so also where the sum of its bytes wraps. `Placed` (in
`SequenceLemmas`) says where the parts of a flattened sequence lie, `UnstuffsStuffed` that stuffed bytes become the bytes
again wherever they stand, with the offset of the first; that offset is how `parse()`
finds the end of the bytes the checksum was computed over. The operators recurse along a
sequence, which the prover does not know to terminate: `RecursionOnNat` gives each
recursion a solution, by induction on its length.

`FramesArrive` is the invariant `WholeFramesArrive`, for any frames a device sends and
any byte at which the client connects. It rests on the two results above: the spans of
what is left of the stream are the frames that begin there (`SpansOfRest`, because no
marker stands inside an encoded frame), and a list of spans in order that misses none is
the list of them (`TailFrames`).

The second part of `ClientProofs` proves about `FrpSpec`, for any peer, timeouts, number of shots
and send errors:

- `ArmIsBehind`: `ArmFollowsConfigure`, inductive given the types of the client's
  variables. A step leaves the queue alone, appends to it, or takes its head
  (`QueueStaysArms`, `EnqueuedArms`, `TakeHeadArms`), and what the loop enqueues has
  its arm behind its configuration.
- `TriggerIsFirst` and `FinishIsLast`: `TriggerTold` and the action property
  `FinishedIsLast`, from the invariant `Told`: the shots told of are numbered up
  to the current one, finished ones lie before the open one, and while the
  controller is connected the trigger of the open shot is among what was told.
  `SentIsTold` says what a send that fails half way has told.

The third part of `ClientProofs` proves about `SessionSpec`, for any number of balls and
calls, any settings, any timeouts with `DrainTimeout < OpTimeout` (3 s and 30 s in the
code), writes that succeed, and any envelopes that include the device's
(`SessionAssumption`):

- `HonestAboutTheDevice`: `BeliefHonest`. It speaks of states in which nothing is on
  its way, so the inductive invariant has to say of everything on its way whose it is.
  `Line` is what is on its way back, in the order without overtaking: `pending` backwards
  and `wire`. `InSession` says that the session consists of operations of four kinds.
  `Exchanges` and `Results` say that one acknowledgement and one result at most is asked
  for or on its way, and that the active operation awaits it; `Stages` says where device,
  shot operation and line are in a shot; `Triggers`, that no shot operation outlives the
  trigger of the next shot; `Beliefs`, that wherever `armed` is wrong something is on its way
  that will correct it. `InStep` is all five, and holds until a message of a shot is
  swallowed (`Honest`).
- `ShotDataReachTheCaller`: `DataReturned`, from `Honest` and `Deliveries`: what is owed is
  on its way, and no drain begins that would throw it away, because the trigger leads
  the data, which are ahead of the IDLE that ends the drain. That order is lost in a read
  of several frames, hence the exception `mixed`.
- `TimeoutsHaveReasons`: `TimeoutsExplained`, from `Honest` and `Timely`. `Underway` says
  for every step of every operation that its answer is on its way, or the request that
  brings it, and that an answer is ahead of what it announces (`ArmAnnounced`,
  `CancelAnnounced`, `IdleAnnounced`); that order is lost when one read brings several frames,
  hence the exception `Lost`. Time only passes when nothing is on its way, and then
  `Underway` leaves only a drain without IDLE (`QuietUnderway`). `DrainDated` says that such a
  drain has a deadline before the operation's from its first flight result on. What an
  answer does at each step is a fact about the scripts (`DisarmAnswers` and its kin, in
  `SequencersProofs`).

  A step of the client in a session is one of a few, whatever its action: `Stands`,
  `Drops`, `Begins`, `GivesUp`, and for a receipt `Passes`, `ShotBegins`, `KeepaliveEnds`,
  `MovesOn`. Which one is a matter of the client's code (`AloneMoves`, `ReceiptMoves` and their
  lemmas); what each does to the invariant is then a lemma of its own. `DeviceMoves` and its
  kin do the same for the device. `TakenAt` says how a read of several frames reorders
  them, so that `Without` (in `SequenceLemmas`) covers every way one leaves the line.

`ConnectionProofs` proves, for any number of frames, any reads and any frames that
do not decode, about `Connection`: `Implements`, that it implements `FrameBag`;
`Overtaken` and `Nothing`, the invariants `OvertakenOnce` and `NothingLeftBehind`; and
about `GvpClient` `ConfigLag`, the invariant `ConfigLagsByOne`. The inductive
invariant says where each frame is: those above `Top` are on the wire, in order;
`pending` holds the ones directly below `Top`, the lowest last; the others and `Top`
itself have been handed out, none twice. So the next frame handed out is behind
every other but `Top`.

`GvpLinkProofs` proves about the bytes of the camera, cut anywhere, what
`ConnectionProofs` says of whole messages: `ImplementsTheClient`, the refinement
`ImplementsClient` of `GvpClient`; through it `OvertakenByOne`, `NothingIsLeft` and
`ConfigIsRecent`, the invariants `OvertakenOnce`, `NothingLeftBehind` and
`ConfigLagsByOne`; and `SegmentsAreMessages`, the invariant `OneMessagePerSegment`. The streams are any
that `GvpLinkAssumption` allows: up to 26 messages, each with its number somewhere in
it, and any bytes and empty segments besides. The invariant `Tracks` describes the
splitter in the middle of a call: the buffer holds what was read behind `Cut`, a
position where a segment begins (`InPlace`); the texts taken so far and those of the
running call are as many as the messages up to `Cut`, and numbered on (`Counted`);
and each of these messages is among them (`Found`). `RoundIs` cuts a segment at the
first null byte, `ReadStep` appends what a read brings. The
invariant of `ConnectionProofs` is taken over through the refinement mapping (the
instance `P`), as are its theorems; the steps of `GvpLink` are steps or stutters of
`GvpClient` because a text's number is its place in the stream, so that a batch of
texts is the interval of numbers `Stash` expects.

`PayloadsProofs` begins with the codecs: `Int24RoundTrip`, `Float40RoundTrip`, and
`Int16RoundTrip` on the way, say that whatever number fits is read back as it was
written, for a float up to the thirty bits of the mantissa that five bytes cannot
hold. The proofs are the arithmetic of the bytes (`Bytes24` and its kin give a number
its digits) and, for floats, of shifting the implicit one in and out.

From these follow the four invariants of the payloads run, for every payload, of any
length and any bytes, of every type and from every bus, and for every command
(`PayloadsAssumption`: a payload is a sequence of bytes, a command has values of the
types of its struct, of `i32` parameters those of 24 bits and of floats zero and the
normal ones): `NoPayloadPanics` (`NeverPanics`), `NoByteReadTwice` (`ReadsOnce`),
`DocumentedDecoded` (`DocumentedIsDecoded`) and `CommandsRoundTrip` (`RoundTrip`). The
invariant `Explained` says that the last result is that of the last payload, or of what
the last command encodes to. What the properties say of results is then a fact about
each decoder: `MessageSound` says that none panics and that its fields lie apart,
`DocumentedRead` that a documented length passes its guard and yields the fields
counted. For the fixed layouts that is a comparison of offsets; the records of a batch
are apart because a record is no longer than the stride between them, however
many there are, and `Fitting` counts the complete ones. `CommandReturned`
follows each encoder to its decoder, the camera configuration field by field.

`DeadlineWhenActive` (`NoUnlimitedOperation`), `DisarmThenConfigure`
(`DisarmBeforeConfigure`, which the run sees as a part of `ServesInOrder`),
`EachFrameOnce` (`Implements`), the type invariants and the invariants of `Connection`
and `GvpClient` alone are theorems no run repeats.

Every invariant, action property and refinement that a passing run checks is a theorem. Only
model-checked are the liveness properties: liveness under fairness is beyond the
prover. `TimeoutEndsProgram` and `ConfiguredIsArmed` of `FrpDevice` are among those.

## 5. Plan

Done, in this order: `Sequencers`, `BinaryClient` with `OperationQueue`, their
proofs, `Connection`, the codec and splitters of frames and JSON, `GvpClient`,
`Blocking`, `FrpDevice`, then `GvpLink` as an implementation of `GvpClient`,
`Session`, `Codec` and `Payloads`, and the proofs about connections, frames, payloads,
results, the blocking calls and sessions.
Next is the handshake in `Session`, with parameter ids, so that a shifted ParamValue can be
seen.

## 6. Not modelled

- Scale factors, presets, accessors and debug output of the messages; the request
  of club records, which nothing sends; the fields of the GVP messages, which serde
  derives, and the GVP commands, which are one JSON object each.
- Floats that are NaN, infinite or subnormal: no setting of the device is one.
- TCP options and callbacks; a write that ends inside a frame (what the device makes
  of half a frame is not in this repository); what a failing read leaves.
- The durations themselves and the setters that change them between polls. They are
  2 s (calibration), 3 s (drain, keepalive), 30 s (operations), 1 s (interval).
- Which parameter a ParamValue answers: the PI sync matches answers by type alone.
- A device that never sends PROCESSED, and one that is still in its handshake, in
  `Session`; `BinaryClient` alone has a peer that does anything.
- Unit conversions and the telemetry of `FrpServer`; the data ShotComplete repeats;
  a second controller, which the program never accepts (`frp/mod.rs:110`).
- `addr.rs`, `error.rs`, `lib.rs`, the examples and the tests: types without
  behaviour, and programs that print what the library returns.
