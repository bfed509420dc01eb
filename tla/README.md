# Specifications of HaierProtocol

TLA+ modules for the HaierProtocol library: the protocol engine, the transport
that finds frames in a byte stream, the frame format and the ring buffer below
it, two engines that talk to each other, and the simulated hOn appliance on top.
TLC checks them on small instances, TLAPS proves the most important properties
for every value of the constants. Definitions keep the names of the
C++ code; `PROJECT.json` maps each to the lines it stands for.

## Inventory

| Component | State | Operations | What makes it correct |
|---|---|---|---|
| `ProtocolHandler` (src/protocol/haier_protocol.cpp) | state_, outgoing_messages_, three time points, two intervals, processing_message_, answer_sent_, last_message_type_ | loop, send_message, send_message_without_answer, send_answer, no_answer, setters | messages are decided in order, within their retries, for a reason; cooldown, retry and answer times are kept; an answer reaches the handler of its request; every message is decided at last |
| Handler registry (same file) | three maps, three defaults | set_…, remove_…, lookup in loop | the handler last registered is called; not modelled |
| `TransportLevelHandler` (src/transport/protocol_transport.cpp) | buffer_, pos_, sep_count_, frame_start_found_, current_frame_, incoming_queue_ | send_data, read_data, process_data, pop, drop, reset_protocol | what was sent arrives, once, in order, unchanged, however it is split and whatever noise precedes it; nothing else arrives; process_data ends |
| `HaierFrame` (src/transport/haier_frame.cpp) | one frame | constructor, get_buffer_size, fill_buffer, parse_buffer, reset | parsing what was written gives it back |
| CRC-16 (same file) | none | crc16 | is CRC-16/ARC |
| `CircularBuffer` (include/utils/circular_buffer.h) | is_empty_, head_, tail_, buffer_ | push, pop, reserve, drop, clear, copy | is a bounded queue |
| `HaierMessage` | immutable | encoding | not modelled |
| `ProtocolStream`, serial stream, bridge | the operating system's | available, read_array, write_array | a stream gives what it announced |
| hOn server and simulator (tools/) | ac_status, alarm mask and flags, config_mode, four keyboard flags | message handlers, process_alarms, preloop, keys, in two threads | an alarm is reported until it is reset or stopped; no key is lost; settings stay in their ranges |
| SmartAir2 server and simulator | one packet | message handlers | answers what it was asked; not modelled |
| Tests (test/hon_test) | a client and a server on a virtual stream | turns of the two | each request is answered by its own answer; the two never talk at once |
| Logging | none of consequence | | not modelled |

How they interact. The application calls `loop()` again and again from one
thread. `loop()` calls `read_data` and `process_data` of the transport, pops at
most one frame from its queue, and calls back into the application: a message,
answer or timeout handler, which may call the public operations. `read_data`
fills the ring in up to two pieces from the stream; `process_data` parses frames
out of it. Sending goes the other way in one call: `write_message_`,
`send_data`, `fill_buffer`, `write_array`.

What is hard: one sample of the clock used before and after a callback; answers
that come late, together or uninvited; three independent timers; four places
that pop the queue; frames in pieces with escapes, noise and overflows; eight bit
arithmetic in sizes that can reach 256; two threads of the simulator that share
plain variables, and alarm reports that cross the messages that end them. The list with lines is `hazards` in
`PROJECT.json`.

## Modules

| Module | What it is |
|---|---|
| `ProtocolHandler` | the engine and its environment (application, device, time) |
| `MessageLedger` | what the engine promises: the abstract specification it implements |
| `Dialogue` | two engines, client and server, and the line between them |
| `ProtocolHandlerProofs`, `TimingProofs`, `LedgerProofs` | theorems about the engine |
| `DialogueProofs` | theorems about the two engines |
| `TransportLevelHandler` | the receiving transport, the line and the sending end |
| `HaierFrame` | the frame format as operators, used by the transport |
| `TransportProofs` | theorems about the transport |
| `FrameProofs` | that frames are parsed as written, and lemmas for the proofs of the transport |
| `Crc16` | the check code as operators; TLC only, it needs bitwise operators |
| `CircularBuffer` | the ring |
| `BoundedFifo` | the bounded queue that it implements |
| `CircularBufferProofs` | theorems about it |
| `HonServer` | the simulated hOn appliance, with its protocol and keyboard thread |
| `HonServerProofs` | theorems about it |
| `MC…` | the instances for TLC |

A definition marked as a *mutant* in a comment is a plausible error in the
definition after it. Replacing the one by the other must break a property.

### ProtocolHandler

Variables are the fields of the class. `loop()` is cut into actions only where
control leaves it, at the three kinds of handler: `LoopDispatch` runs until the
message handler is called and `MessageHandlerReturns` from there to the end of
the iteration, with the transmission at its end; `LoopSend` is an idle iteration
that sends; `LoopTimeout`/`TimeoutHandlerReturns` and
`LoopAnswer`/`AnswerHandlerReturns` are those of the waiting state, and
`LoopRetry` is the timeout that leaves retries. An iteration that changes
nothing is stuttering. While a handler runs (`callback`), the application may
do all it may do between iterations, and time may pass (`lag`).

Time points are relative to the present, so `Tick` ages them; beyond `Past` the
code cannot tell them apart, and they saturate there. That `now` was sampled
before a handler ran is `lag`: `Reached`, `Passed` and `FromNow` compare with
and count from that sample, and only `WriteMessage` counts from the present, as
`write_message_` does.

Messages are numbers, in order of submission. What a write of a message does is
one of three: sent, refused by `send_data`, or *wrapped*: on the line, but 256
bytes long, so that `send_data` returns 0 and the write counts as failed.
Whether a message is of the last two kinds is decided when it is submitted,
because its size is. Frames carry the number of the message they answer, or
`DeviceRequest`. The device answers what it received in order, or not at all,
within `MaxAnswerDelay`; frames that arrived are kept in `incoming`, the stream
and the queue of the transport in one, because `loop()` empties the first into
the second before it looks at either.

`log`, `last_write` and `last_request` are history: no action's guard reads them.

### Dialogue

Client and server of the hOn test (`CLIENT_SERVER_LOOP` calls `loop()` of each in
turn; here they take turns in any way). The client is `ProtocolHandler`, extended;
the server is `ProtocolHandler` once more, instantiated with variables of its own.
The device that is part of `ProtocolHandler`'s environment is not used: what the
client writes (`in_flight`) arrives at the server (`RequestArrives`), runs through
the server's own `loop()` and handler, and the answer that the handler sends
(`ServerAnswers`, in `answers`) travels back (`AnswerArrives`). The same in the
other direction, since the server submits messages as well, as the appliance does
to report alarms. The line keeps requests and answers in order, delays each by
at most `MaxAnswerDelay` and loses any it likes.

Four of the properties say something only as long as the server has sent no
request of its own (`ServerOnlyAnswers`). That is not for convenience: when both
send at once, either may take the other's request for its answer, and two frames
may wait at one end. TLC finds `OneFrameAtATime`, `OwnAnswer` and
`RetryOnlyAfterLoss` violated without that condition. What remains true then is
that no transmission is handled twice, and `BothSettle`.

`served` and `lost` are history.

### TransportLevelHandler, HaierFrame, Crc16

One transport receives what the other end writes with `send_data`. `ReadData`
is `read_data` and the beginning of `process_data`; each of `SeparatorSeen`,
`StartFound`, `GarbageSeen`, `ByteCollected`, `WrongPostByte`,
`HeaderCollected`, `DataCollected` is one iteration of its loop, and
`ProcessEnds` what follows the loop. No byte arrives in the buffer during the
loop, so the cut adds no behaviour, but it lets TLC see every intermediate
state and makes the end of the loop a liveness property.

Bytes are bytes: the properties are about separators, post bytes, sums and
lengths. `fill_buffer` keeps its `uint8_t` position (`Overwritten`), and the
rest of the buffer it did not reach keeps what was in memory (`Garbage`).
The check code is a constant operator, because the transport needs nothing of
it but that both ends compute the same; most runs use a cheap one, but
transport_long takes the table of `Crc16`, with data that need every entry of it,
and compares what was received with division by the polynomial. The ring is the sequence of its contents, which
`CircularBufferProofs` justifies.

### CircularBuffer

The fields of the class and one action for each operation, with what it returns
and hands out in `result`. Capacity and item type are parameters. `Reserve` is
the call together with the writes of the caller, with `read_data`'s own
precondition: it never asks for more than there is space for. `operator=` is
left out: nothing calls it. It does not copy `is_empty_`.

### HonServer

The protocol thread repeats `preloop` and `loop()`. `preloop` tests a flag of
the keyboard thread, clears it and acts on it: three actions for each of four
flags (`at` says where the thread is), because the flags are plain variables and
a key may be pressed between any two. `process_alarms` and each handler are one
action: only this thread writes what they use, but for one byte. That byte,
`switches`, holds bits of both threads, and so the keyboard thread's key 4 is a
load (`ToggleKeyPressed`) and a store (`SwitchStored`), and the protocol thread
loads it (`loaded`) one action before it stores it, and stores nothing that does
not differ from what it loaded (`SetIfDifferent`). Lost updates are behaviours
of the model. The order of the accesses is that of the source: between clearing a
flag and acting the code calls functions of other translation units, so that the
compiler cannot move the one behind the other. Of the switches two are kept, of
the other settings the three with ranges; the rest of the status packet is
copied around and never read.

`loop()` is what `MessageLedger` promises of it: the report at the head of the
queue is sent once, then answered or timed out, and the first frame that comes
meanwhile is its answer, whatever it is. `process_alarms` reads no more of the
protocol handler than its queue's size and whether it waits.

`pressed`, `unsent` and `told_to_stop` are history.

## Runs

| Run | What it asks | Bounds |
|---|---|---|
| handler | Do queue, state, counters and outcomes agree, does the handler implement the ledger, and are cooldown, retry interval and answer timeout kept? | 2 messages with 1 or 2 transmissions, all kinds of writes, retry intervals 0 and 3, answer timeouts 1 and 2, cooldowns 2 and 0 set at any moment, handlers that take up to 1 time unit, 1 frame waiting |
| handler_live | Does every answer reach the handler of its own request if the cooldown is longer than the slowest answer, and is every message decided at last? | 2 messages with up to 2 transmissions, delay up to 2, cooldown 3, timeout 1, requests of the device, refused writes |
| handler_late_answer (violation) | and if the cooldown is shorter? | delay 3, cooldown 2 |
| dialogue | Do client and server understand each other over a line that delays and loses, and is neither left waiting? | 2 requests of the client with 2 transmissions, 1 of the server, delays and handlers of up to 1, timeout 3, cooldown 4 |
| circular_buffer | Is the ring a bounded queue? | 4 cells, requests up to 5, 2 values |
| transport | Do frames arrive however they are split, whatever noise is between them, and without waiting for more? | 2 frames, 2 of 9 kinds of noise, pieces of 1, 2, 3, 5, 8, 13 bytes or everything |
| transport_overflow | Is anything delivered that was not sent, do the counters describe what an overflow leaves, and does process_data end? | ring of 16 cells, so frames of up to 19 bytes overflow it; resets |
| transport_long | Do the longest frames arrive, and is their check code CRC-16/ARC? | 233 bytes of data, up to 256 encoded; every entry of the table |
| transport_timeout (violation) | Is an unfinished frame given up? | |
| transport_separators (violation) | Does every frame that send_data accepts arrive? | 257 encoded bytes |
| hon_server | Is no key lost, and every alarm reported? | 1 alarm and a code that is none, 1 key pending, a message of each kind, intervals of reports 0 and 1 |
| hon_parameters (violation) | Do single parameters stay in their ranges? | values on both sides of each bound |

Why the bounds are enough. In `ProtocolHandler` two messages show every
influence of one on the next, which goes through one variable each
(`retry_time_point`, `cooldown_time_point`, `last_message_type`, the queue);
Time units are chosen so that each
interval can be shorter than, equal to and longer than the lag of a handler.
`Horizon` limits only the history variables and exceeds every interval. In
`Dialogue` the timeout is the shortest that leaves an answer in time (a delay each
way and the handler) and the cooldown the shortest after which nothing can be
under way; with one unit less in either, a property fails, so the case that
matters does happen. Two requests make the second follow an answer, a loss or a
timeout of the first. In the
transport every field that can hold a separator does so in some frame; pieces
from one byte up put a boundary at every place. `MAX_PACKET_RETRIES` is 1, with
`Repeats` on both sides of it. In `HonServer` alarms influence each other only
through `has_active_alarms`, and an alarm raised again while a report of it is in
flight is the case of two; the flags of different keys are handled by the same
code one after the other, and a key may be pressed anew as soon as its flag is
cleared, before it is acted on.

The four runs that end in a violation are disagreements between the code and what
its documentation or comments say; see `findings` in `PROJECT.json`. They are
not errors of the model: each counterexample is a sequence of calls of the code.
Beyond them, `README.rst` line 47 gives 246 as the greatest size of data, where
`send_data` and `parse_buffer` accept 233.

Deadlock is checked in every run; none of the systems ever stops.

### Fairness

`ProtocolHandler`: weak fairness of the loop (the application calls `loop()`
for ever), of the return of its handlers, of the device being done with what it
received (answering or not), and of time. The application's operations and the
device's own requests have none. `EveryMessageSettles` assumes in addition that
answers end some day: each starts the cooldown anew, so a device that always
asks, and is always answered, does keep the queue from moving.

`Dialogue`: weak fairness of each end's loop and handlers together (a `loop()`
that is called for ever does what it can do), of the line, which delivers or
loses what it carries, and of time. An end need not answer, and nobody need
submit anything.

`TransportLevelHandler`: weak fairness of `read_data` and of each iteration of
the loop of `process_data`, which are one thread's program order.

`HonServer`: weak fairness of the protocol thread and of time, none of the
keyboard or the module. That a report is sent and settled is strongly fair: it is
possible in an iteration of `loop()` only, and that it happens in one of them is
what `EveryMessageSettles` says of the protocol handler, under its assumption.

## Proofs

All for every value of the constants that satisfies the named assumptions of the
modules (numbers are natural; intervals are below the horizon; a ring has a
cell).

* `ProtocolHandlerProofs`. The inductive invariant `IndInv` joins the type
  invariant, `QueueIsSuffix`, `HandlerInItsState`, `WaitingForHead`, the
  agreement between each queued item and its log entry (its transmissions made
  and left are its budget), `OutcomeJustified` and `RetryDelayBelongsToHead`.
  None of them is inductive alone: that the head is settled rightly needs the
  queue to be a suffix of the log, that the pops of the waiting branch hit the
  right message needs `WaitingForHead`, and that in turn needs to know in which
  state a handler runs. Transmitting and popping are proved once
  (`SendNextPreserves`, `PopKeepsQueue`) and used by the actions that contain
  them.
* `TimingProofs`. Four properties about time, each from what a time point
  remembers. `CooldownRespected`: `cooldown_time_point` always is the time of the
  last write plus the cooldown set then, up to saturation. `AnswerWindowKept`:
  `answer_time_point` is the last request plus the timeout set then, less the
  lag that its iteration had. `RetransmissionSpacing`: `retry_time_point` is at
  least the retry interval after the transmission it was set by.
  `AnswerMatchesRequest` has an assumption, `CooldownOutlastsDevice`: the device
  answers within less than every cooldown that is ever set, and the horizon of
  the history is beyond the slowest answer and the longest handler together. When a message is written, the
  cooldown is over, so whatever was written before has been answered or never
  will be, and what the device has left is no older than the last write. From
  there on, while an answer is awaited, every frame under way that answers a
  message answers the one awaited. Requests of the device, handlers that take
  long and losses do not matter.
* `LedgerProofs`. `ImplementsLedger`: under the refinement mapping `Awaiting`
  every step is a step of `MessageLedger` or leaves its variables unchanged.
* `CircularBufferProofs`. `head`, `tail` and the flag determine the size;
  storing appends to the contents and removing takes from the front, from which
  `FifoImplemented`. Modular arithmetic with a symbolic capacity is first reduced
  to one case distinction (`AfterWraps`).

* `DialogueProofs`. All four invariants of `Dialogue`, in three steps. What is
  known of a `ProtocolHandler` is known of both ends: `SameHandler` shows that
  the server's actions are those of the instance `ServerSide` of
  `ProtocolHandlerProofs`.
  `DialogueInv` counts: every transmission of a request that is in flight, or
  waits at the server, or is in its handler, is one that was not served yet, from
  which `HandledOnce` follows without any assumption.
  `ExchangeInv` holds as long as the server has sent no request of its own, and
  needs `CooldownOutlastsExchange`: every cooldown of the client is longer than a
  frame's way there and back and the handler between them. Then of request,
  handler and answer at most one is under way (`Underway`), its age is bounded by
  the time since the client's last write, and while the client waits it belongs
  to the request that it waits for. A write needs the cooldown to be over, and by
  then nothing can be under way any more. From this follow `OneFrameAtATime`,
  `OwnAnswer` and `ReportedAsServed`, also with losses, failing writes, any answer
  timeouts and handlers of the client of any length up to `MaxLag`.
  `InTimeInv` adds that, while nothing has been lost, what the client waits for is
  somewhere under way and comes before the timeout. It needs
  `AnswersComeInTime`: the answer timeouts, too, are at least that long, and no
  write fails (one that does is a loss that `lost` does not record). That a
  timeout is never due while the answer is there is the point of it
  (`NotOverdue`), since `loop()` looks at the clock first. From it follows
  `RetryOnlyAfterLoss`. With the defaults of the code, 400 ms of cooldown and
  200 ms of answer timeout (`haier_protocol.cpp` lines 10 and 11), the hypotheses
  say that an exchange takes less than 400 ms, and at most 200 ms for the last
  theorem; that the horizon is beyond an exchange and a handler is about the history
  variables only. `Dialogue.cfg` satisfies all of them, with the least cooldown and timeout
  that do.

* `FrameProofs`. What `Joined`, a recursion by halves over a sequence, returns,
  for sums, concatenation and check codes: the result for two sequences in a row
  is that of the one and that of the other, joined (`SumJoin`, `ConcatJoin`, `CodeJoin`). The
  induction is over the length of a span and uses, in place of the library's
  theorems, that a set of numbers that is not empty has a least element
  (`StrongInduction`). From these the types of checksum, check code and
  of all that `fill_buffer` writes, and what escaping does to length and
  separators (`EncodedLength`, `EscapedJoin`, `SeparatorsJoin`).
  `WrittenIsParsed` is the round trip: what `fill_buffer` writes is a header and a
  rest (`RawHeader`, `RawBody`) whose post bytes `process_data` removes
  (`Stripped`), and `parse_buffer` accepts the one (`HeaderParsed`) and then the
  other (`BodyParsed`) and finds the type and the data again. The sender computes
  checksum and code over header and data at once, the receiver over one after the
  other, with the checksum cut to eight bits in between: `NarrowTwice` and
  `CrcJoin` say that this makes no difference. The theorem is about frames of
  at most 256 bytes, since `fill_buffer` keeps its position in a `uint8_t`
  (`TransportSeparators.cfg` shows a longer one).

* `TransportProofs`. `CountersDescribeBuffer`, for every capacity, however small,
  all frames and any noise: `pos_` stays within the buffer, `bytes_to_drop` below
  `pos_`, and `sep_count_` is the number of separators among the collected bytes
  that escape something. Two facts are needed besides: between two calls nothing
  waits to be dropped, and a frame that was begun has more than its two
  separators behind it, so that counting starts inside the buffer
  (`StartBehind`). What the bytes are does not matter (`IsSequence`); that each
  iteration adds one byte to the piece it counts in is `OneMoreByte`.
  `TypesHold` says the rest of `TypeOK`, that all of them are bytes and that the
  fields of frames have the widths of the code, provided that `crc16` returns a
  `uint16_t` (`CodesAre16Bits`; the model leaves the function open).
  `OnlyUnfinishedIsLeft` needs that the separators that a search has counted are
  in the buffer where it found them (`LeftInv`). This is so as long as an overflow leaves
  room for them, hence at least four bytes; `ProtocolHandler` asks for 251.
  `NothingIsLost` states `NothingLost` for any frames, any number of them and any
  split into reads, whatever the parser is in the middle of: when all bytes were read
  and processed, all frames are delivered (`AllDone`). Its invariant `ArrivalInv` says that there is a sequence of all
  bytes that were ever written, with the places of the sent frames in it and
  nothing else in it that looks like a start (`Layout`), and a number of bytes
  dropped so far such that buffer and line hold what comes after them
  (`Onward`). While the parser searches, it is past the start of all delivered
  frames and not past that of any other (`SearchPlace`); what it takes for a start
  is therefore the start of the next one (`StartArrives`); while it collects,
  the buffer begins with the header or the rest of that frame (`HeaderPlace`,
  `DataPlace`), which is complete by `process_data`'s count with its last byte and
  not before (`CollectedIs`) and is parsed as it was written; what follows it has no
  separator right before it (`DataArrives`). The hypotheses: `FramesFit`, the frames
  are those `send_data` accepts and `fill_buffer` has room for; `QuietNoise`, what
  the line adds has no two separators in a row and does not begin with one;
  `reset_protocol`, which nothing calls, is not called; and the condition of the
  formula `[][NoOverflow]_vars`, that no read drops bytes for want of space, since
  the code then loses frames by design. The frames of `Transport.cfg` and its
  capacity satisfy all this; its noise is louder than the theorem's, with separators
  in a row, headers and incomplete frames.
  `NothingIsForged` states `NothingForged`, with as many overflows and calls of
  `reset_protocol` as there may be, from a second invariant (`OriginInv`) over the
  same sequence of all bytes. What an overflow drops is the front of the buffer,
  so that buffer and line are still what follows some place of that sequence
  (`Onward`), but that place may be inside a frame now, and after an overflow
  that came while separators had been seen, `pos_` counts bytes that are gone
  (`protocol_transport.cpp` line 50): a search may then take bytes for a start that
  have no separators. `HeaderOrigin` says of such a start only what is true of it:
  if it does begin with two separators, it is where a sent frame begins, since two
  in a row are nowhere else (`Layout`); and `parse_buffer` accepts no other header
  (`FirstTwoStay`: removing post bytes leaves the first two bytes alone). Hence data
  is collected behind a header that was sent and nowhere else (`DataOrigin`), and
  is that frame's data, since an overflow also resets the frame that was begun
  (lines 50 to 57). Each frame delivered comes from further on than the one before it
  (`DeliveredOrigin`), so that none is delivered twice. The hypotheses are `FramesFit`,
  `QuietNoise` and `CodesAre16Bits`. The noise of `TransportOverflow.cfg` is louder
  here, too.

* `HonServerProofs`. Types, and `StoppedOnlyOnRequest` by an invariant of its own
  with the one fact that all alarms have their bit inside the mask, so that
  `has_active_alarms` sees each (`AlarmHasByte`). That the alarms change in four
  places only (`NextAlarms`) is proved apart from what these do (`AlarmActions`).

Only model-checked: liveness (`EveryMessageSettles`, `BothSettle`,
`ProcessingEnds`, `KeyActedOn`, `RaisedAlarmIsSent`), which is beyond the prover;
`CodeIsArc`, since `Crc16` needs bitwise operators; and `NothingLost` and
`NothingForged` with noise that looks like the start of a frame, of which they are
not true in general: noise that is a whole frame is delivered as one.

## Plan

1. (done) `ProtocolHandler`, `MessageLedger`, their runs and proofs.
2. (done) `CircularBuffer`, `BoundedFifo` and proofs; `Crc16`.
3. (done) `HaierFrame`, `TransportLevelHandler` and runs.
4. (done) `HonServer`: alarm reporting against answers, stop messages and keys;
   single parameters; its first proofs.
5. (done) `Dialogue`: two `ProtocolHandler`s on one line, in place of the device
   that the environment is in `ProtocolHandler`.
6. (done) Proofs: answer window, retransmissions, `AnswerMatchesRequest` under a
   bound on the delay, `CountersDescribeBuffer`.
7. (done) Proofs: `Dialogue`'s safety properties along the lines of
   `AnswersMatch`; types and leftovers of the transport.
8. (done) Proofs: frames are parsed as they were written; `NothingLost`, and
   `NothingForged`.
9. Left for later: that `HonServer`'s use of the protocol handler is a use of
   `MessageLedger`.

## Not modelled

* The handler registry. Which function a frame type is mapped to has no influence
  on the engine, and the one hard case, a handler that removes or replaces itself
  while `loop()` calls it through an iterator, ends in undefined behaviour of the
  standard library's function object: there is no state left to state a property
  of.
* The SmartAir2 server and simulator: a table of answers over one packet. It sends
  nothing of its own, so that nothing competes; towards its client it is the
  server of `Dialogue` that only answers. Its two keys are handled as those of
  `HonServer`.
* `HaierMessage`: an immutable value. `ProtocolHandler` depends only on what its
  encoded size does to a write.
* The serial stream and the bridge: what they do depends on blocking reads,
  partial writes and sockets of the operating system, which nothing in the
  repository states. Streams are modelled as the transport uses them: they give
  what they announced.
* Logging: no decision depends on it.
* `CircularBuffer::operator=` and the transport's `clear_`, which nothing calls;
  the transport's frame timeout, whose condition is never true
  (`UnfinishedFrameGivenUp`).
* The single test cases: the state spaces contain them.
