-------------------------- MODULE ProtocolHandler --------------------------
(***************************************************************************)
(* haier_protocol::ProtocolHandler: the stop-and-wait engine that          *)
(* applications drive by calling loop() over and over from one thread.     *)
(*                                                                         *)
(* loop() is cut into actions only where control leaves it: at the         *)
(* application's message, answer and timeout handlers, which may call the  *)
(* public operations and may take time.  `callback' says which of them is  *)
(* running, and `lag' how long ago the running iteration sampled the local *)
(* variable `now' that it goes on using when the handler returns.          *)
(*                                                                         *)
(* Time points are kept relative to the present (0 is "this instant", a    *)
(* positive number lies ahead), so that Tick ages them all by one.  Those  *)
(* of the code saturate at Past, beyond which no comparison of the code    *)
(* can tell them apart.                                                    *)
(*                                                                         *)
(* The device and the wire are the environment.  A frame is the number of  *)
(* the message it answers, or DeviceRequest.  `incoming' holds the frames  *)
(* that arrived and that loop() has not popped: those still in the stream  *)
(* and those in the transport's queue, which loop() reads out in one go    *)
(* before it looks at either.                                              *)
(***************************************************************************)
EXTENDS Integers, Sequences

CONSTANTS
    MAX_PACKET_RETRIES,         \* 9 in the code
    DEFAULT_ANSWER_TIMEOUT,     \* 200 ms in the code
    DEFAULT_COOLDOWN_INTERVAL,  \* 400 ms in the code
    Repeats,            \* values of num_repeats passed to send_message
    RetryIntervals,     \* values of interval passed to send_message
    AnswerTimeouts,     \* values passed to set_answer_timeout
    CooldownIntervals,  \* values passed to set_cooldown_interval
    Writes,             \* what may become of a write, a subset of WriteOutcome
    Unsolicited,        \* whether the device sends requests of its own
    MaxMessages,        \* bound: messages submitted in a behaviour
    MaxFrames,          \* bound: frames waiting for loop() to pop them
    MaxLag,             \* bound: time a handler of the application takes
    MaxAnswerDelay,     \* bound: time the device takes to answer
    Horizon             \* bound: how far back the history variables look

(***************************************************************************)
(* What write_message_ does to a message is decided by its encoded size:   *)
(*   "sent"     it is on the wire and write_message_ returns true;         *)
(*   "wrapped"  it is on the wire, but its 256 encoded bytes become 0 in   *)
(*              the uint8_t that send_data returns, so the result is false;*)
(*   "refused"  send_data rejects it and nothing reaches the wire.         *)
(***************************************************************************)
WriteOutcome == {"sent", "wrapped", "refused"}

ASSUME ProtocolHandlerAssumption ==
    /\ MAX_PACKET_RETRIES \in Nat
    /\ MaxMessages \in Nat
    /\ MaxFrames \in Nat
    /\ MaxLag \in Nat
    /\ MaxAnswerDelay \in Nat
    /\ Horizon \in Nat \ {0}
    /\ Repeats \subseteq Nat
    /\ RetryIntervals \subseteq 0 .. Horizon - 1
    /\ AnswerTimeouts \subseteq 0 .. Horizon - 1
    /\ CooldownIntervals \subseteq 0 .. Horizon - 1
    /\ DEFAULT_ANSWER_TIMEOUT \in 0 .. Horizon - 1
    /\ DEFAULT_COOLDOWN_INTERVAL \in 0 .. Horizon - 1
    /\ Writes \subseteq WriteOutcome
    /\ Unsolicited \in BOOLEAN

VARIABLES
    state,                    \* state_
    outgoing_messages,        \* outgoing_messages_
    processing_message,       \* processing_message_
    answer_sent,              \* answer_sent_
    last_message_type,        \* last_message_type_: the message written last
    answer_timeout_interval,  \* answer_timeout_interval_
    cooldown_interval,        \* cooldown_interval_
    cooldown_time_point,      \* cooldown_time_point_
    answer_time_point,        \* answer_time_point_
    retry_time_point,         \* retry_time_point_
    callback,   \* the handler loop() is inside of
    lag,        \* time since that iteration of loop() sampled now
    frame,      \* loop()'s local variable frame, in a handler that gets one
    incoming,   \* frames that arrived and that loop() has not popped
    in_flight,  \* messages the device received and has not answered yet
    log,          \* history: what became of each message submitted
    last_write,   \* history: when write_message_ ran last, and its cooldown
    last_request  \* history: when a request was written last, and its timeout

configVars == <<answer_timeout_interval, cooldown_interval>>
clockVars  == <<cooldown_time_point, answer_time_point, retry_time_point>>
answerVars == <<processing_message, answer_sent>>
wireVars   == <<incoming, in_flight>>
loopVars   == <<callback, lag, frame>>
history    == <<log, last_write, last_request>>
queueVars  == <<state, outgoing_messages, last_message_type>>
vars == <<queueVars, answerVars, configVars, clockVars, loopVars, wireVars,
          history>>

DeviceRequest == 0
NoFrame       == -1
Message       == 1 .. MaxMessages

OutgoingQueueItem ==
    [id: Message, no_answer: BOOLEAN, number_of_retries: Nat,
     retry_interval: RetryIntervals \union {0}, write: Writes]

Outcome == {"queued", "sent", "answered", "timed_out", "dropped"}

LogEntry == [expects: BOOLEAN, budget: Nat, sends: Nat, outcome: Outcome]

(***************************************************************************)
(* Time                                                                    *)
(***************************************************************************)
Past == -(MaxLag + 1)

\* now >= t, now > t and now + d, for the `now' this iteration sampled.
ReachedExactly(t) == t = -lag       \* mutant of Reached
Reached(t) == t <= -lag

NotBefore(t) == t <= -lag           \* mutant of Passed
Passed(t)    == t < -lag

FromNow(d) == d - lag

Aged(t, floor) == IF t > floor THEN t - 1 ELSE t

-----------------------------------------------------------------------------
Init ==
    /\ state = "IDLE"
    /\ outgoing_messages = <<>>
    /\ processing_message = FALSE
    /\ answer_sent = FALSE
    /\ last_message_type = 0
    /\ answer_timeout_interval = DEFAULT_ANSWER_TIMEOUT
    /\ cooldown_interval = DEFAULT_COOLDOWN_INTERVAL
    /\ cooldown_time_point = Past
    /\ answer_time_point = Past
    /\ retry_time_point = Past
    /\ callback = "none"
    /\ lag = 0
    /\ frame = NoFrame
    /\ incoming = <<>>
    /\ in_flight = <<>>
    /\ log = <<>>
    /\ last_write = [at |-> -Horizon, cooldown |-> 0]
    /\ last_request = [at |-> -Horizon, timeout |-> 0]

(***************************************************************************)
(* Operations of the application, between two iterations of loop() or from *)
(* inside a handler.                                                       *)
(***************************************************************************)
Lesser(a, b) == IF a < b THEN a ELSE b

\* std::min(num_repeats, MAX_PACKET_RETRIES) + 1
Granted(num_repeats) == Lesser(num_repeats, MAX_PACKET_RETRIES) + 1

Enqueue(no_answer, retries, interval, write) ==
    /\ Len(log) < MaxMessages
    /\ outgoing_messages' =
         Append(outgoing_messages,
                [id |-> Len(log) + 1, no_answer |-> no_answer,
                 number_of_retries |-> retries, retry_interval |-> interval,
                 write |-> write])
    /\ log' = Append(log, [expects |-> ~no_answer, budget |-> retries,
                           sends |-> 0, outcome |-> "queued"])
    /\ UNCHANGED <<state, last_message_type, answerVars, configVars,
                   clockVars, loopVars, wireVars, last_write, last_request>>

SendMessage(num_repeats, interval, write) ==
    Enqueue(FALSE, Granted(num_repeats), interval, write)

SendMessageWithoutAnswer(write) == Enqueue(TRUE, 1, 0, write)

SetAnswerTimeout(answer_timeout) ==
    /\ answer_timeout_interval' = answer_timeout
    /\ UNCHANGED <<queueVars, answerVars, cooldown_interval, clockVars,
                   loopVars, wireVars, history>>

SetCooldownInterval(interval) ==
    /\ cooldown_interval' = interval
    /\ UNCHANGED <<queueVars, answerVars, answer_timeout_interval, clockVars,
                   loopVars, wireVars, history>>

(***************************************************************************)
(* write_message_.  The cooldown is counted from the moment of the write,  *)
(* not from the `now' of loop(), and whatever the result is.               *)
(***************************************************************************)
Written(write) == write = "sent"
OnWire(write)  == write # "refused"

\* Mutant of WriteMessage: the cooldown is counted from the `now' of loop().
CooldownFromLoop ==
    /\ cooldown_time_point' = FromNow(cooldown_interval)
    /\ last_write' = [at |-> 0, cooldown |-> cooldown_interval]

WriteMessage ==
    /\ cooldown_time_point' = cooldown_interval
    /\ last_write' = [at |-> 0, cooldown |-> cooldown_interval]

\* send_answer; outside of a message handler it only logs an error.
SendAnswer(write) ==
    /\ processing_message
    /\ WriteMessage
    /\ answer_sent' = Written(write)
    /\ UNCHANGED <<queueVars, processing_message, configVars,
                   answer_time_point, retry_time_point, loopVars, wireVars,
                   log, last_request>>

NoAnswer ==
    /\ processing_message
    /\ answer_sent' = TRUE
    /\ UNCHANGED <<queueVars, processing_message, configVars, clockVars,
                   loopVars, wireVars, history>>

(***************************************************************************)
(* The sending half of the IDLE branch of loop()                           *)
(***************************************************************************)
\* Mutant of ReadyToSend: the retry interval is not waited for.
ReadyAfterCooldown ==
    /\ outgoing_messages # <<>>
    /\ Reached(cooldown_time_point)

\* Mutant of ReadyToSend: the cooldown is not waited for.
ReadyAfterRetryDelay ==
    /\ outgoing_messages # <<>>
    /\ Reached(retry_time_point)

ReadyToSend ==
    /\ outgoing_messages # <<>>
    /\ Reached(cooldown_time_point)
    /\ Reached(retry_time_point)

MoreThanOne(item) == item.number_of_retries > 1    \* mutants of HasRetries
NotNegative(item) == item.number_of_retries >= 0
HasRetries(item)  == item.number_of_retries > 0

OneIsNone(item)   == item.number_of_retries <= 1   \* mutant of NoRetriesLeft
NoRetriesLeft(item) == item.number_of_retries = 0

Unspent(item) == item                              \* mutant of Spent
Spent(item) ==
    [item EXCEPT !.number_of_retries = item.number_of_retries - 1]

NoPop == UNCHANGED outgoing_messages               \* mutant of Pop
Pop   == outgoing_messages' = Tail(outgoing_messages)

KeepRetryTime  == UNCHANGED retry_time_point       \* mutant of ResetRetryTime
ResetRetryTime == retry_time_point' = FromNow(0)

StayInState == UNCHANGED state                     \* mutant of BecomeIdle
BecomeIdle  == state' = "IDLE"

Settled(n, outcome) == [log EXCEPT ![n].outcome = outcome]

\* write_message_ returned false: only the number of retries changes.
WriteFails(item) ==
    /\ ~Written(item.write)
    /\ outgoing_messages' = [outgoing_messages EXCEPT ![1] = Spent(item)]
    /\ log' = [log EXCEPT ![item.id].sends = IF OnWire(item.write)
                                             THEN @ + 1 ELSE @]
    /\ UNCHANGED <<state, last_message_type, answer_time_point,
                   retry_time_point, last_request>>

\* The message is popped; its number_of_retries, which the code decrements
\* after that, no longer belongs to anything.
SendsWithoutAnswer(item) ==
    /\ Written(item.write)
    /\ item.no_answer
    /\ last_message_type' = item.id
    /\ Pop
    /\ ResetRetryTime
    /\ log' = [log EXCEPT ![item.id].sends = @ + 1,
                          ![item.id].outcome = "sent"]
    /\ UNCHANGED <<state, answer_time_point, last_request>>

SendsRequest(item) ==
    /\ Written(item.write)
    /\ ~item.no_answer
    /\ last_message_type' = item.id
    /\ outgoing_messages' = [outgoing_messages EXCEPT ![1] = Spent(item)]
    /\ state' = "WAITING_FOR_ANSWER"
    /\ answer_time_point' = FromNow(answer_timeout_interval)
    /\ retry_time_point' = FromNow(item.retry_interval)
    /\ log' = [log EXCEPT ![item.id].sends = @ + 1]
    /\ last_request' = [at |-> 0, timeout |-> answer_timeout_interval]

Transmit ==
    LET item == Head(outgoing_messages) IN
    /\ HasRetries(item)
    /\ WriteMessage
    /\ in_flight' = IF OnWire(item.write)
                    THEN Append(in_flight, [message |-> item.id, age |-> 0])
                    ELSE in_flight
    /\ \/ WriteFails(item)
       \/ SendsWithoutAnswer(item)
       \/ SendsRequest(item)

\* No transmission left: the message goes without a call of any handler.
Discard ==
    LET item == Head(outgoing_messages) IN
    /\ ~HasRetries(item)
    /\ Pop
    /\ ResetRetryTime
    /\ log' = Settled(item.id, "dropped")
    /\ UNCHANGED <<state, last_message_type, cooldown_time_point,
                   answer_time_point, in_flight, last_write, last_request>>

SendNext == ReadyToSend /\ (Transmit \/ Discard)

(***************************************************************************)
(* loop(), IDLE                                                            *)
(***************************************************************************)
KeepLast(frames) == <<frames[Len(frames)]>>    \* mutant of DropAll
DropAll(frames)  == <<>>

\* All frames but the last are dropped, and the last goes to the handler.
LoopDispatch ==
    /\ callback = "none"
    /\ state = "IDLE"
    /\ incoming # <<>>
    /\ frame' = incoming[Len(incoming)]
    /\ incoming' = DropAll(incoming)
    /\ processing_message' = TRUE
    /\ answer_sent' = FALSE
    /\ callback' = "message_handler"
    /\ UNCHANGED <<queueVars, configVars, clockVars, lag, in_flight, history>>

\* The iteration goes on to send, by the `now' it sampled before the handler.
MessageHandlerReturns ==
    /\ callback = "message_handler"
    /\ processing_message' = FALSE
    /\ callback' = "none"
    /\ lag' = 0
    /\ frame' = NoFrame
    /\ \/ SendNext
       \/ /\ ~ReadyToSend
          /\ UNCHANGED <<queueVars, clockVars, in_flight, history>>
    /\ UNCHANGED <<answer_sent, configVars, incoming>>

LoopSend ==
    /\ callback = "none"
    /\ state = "IDLE"
    /\ incoming = <<>>
    /\ SendNext
    /\ UNCHANGED <<answerVars, configVars, loopVars, incoming>>

(***************************************************************************)
(* loop(), WAITING_FOR_ANSWER.  The timeout is looked at before the frames,*)
(* the ones that arrived in time included.                                 *)
(***************************************************************************)
TimedOut ==
    /\ callback = "none"
    /\ state = "WAITING_FOR_ANSWER"
    /\ Passed(answer_time_point)

LoopRetry ==
    /\ TimedOut
    /\ ~NoRetriesLeft(Head(outgoing_messages))
    /\ BecomeIdle
    /\ UNCHANGED <<outgoing_messages, last_message_type, answerVars,
                   configVars, clockVars, loopVars, wireVars, history>>

\* The message is popped before the timeout handler runs, and the state
\* becomes IDLE only after it returned.
LoopTimeout ==
    /\ TimedOut
    /\ NoRetriesLeft(Head(outgoing_messages))
    /\ Pop
    /\ ResetRetryTime
    /\ log' = Settled(Head(outgoing_messages).id, "timed_out")
    /\ callback' = "timeout_handler"
    /\ UNCHANGED <<state, last_message_type, answerVars, configVars,
                   cooldown_time_point, answer_time_point, lag, frame,
                   wireVars, last_write, last_request>>

TimeoutHandlerReturns ==
    /\ callback = "timeout_handler"
    /\ BecomeIdle
    /\ callback' = "none"
    /\ lag' = 0
    /\ UNCHANGED <<outgoing_messages, last_message_type, answerVars,
                   configVars, clockVars, frame, wireVars, history>>

\* Whatever arrived first is taken for the answer to last_message_type.
LoopAnswer ==
    /\ callback = "none"
    /\ state = "WAITING_FOR_ANSWER"
    /\ ~Passed(answer_time_point)
    /\ incoming # <<>>
    /\ frame' = Head(incoming)
    /\ incoming' = Tail(incoming)
    /\ callback' = "answer_handler"
    /\ UNCHANGED <<queueVars, answerVars, configVars, clockVars, lag,
                   in_flight, history>>

AnswerHandlerReturns ==
    /\ callback = "answer_handler"
    /\ Pop
    /\ ResetRetryTime
    /\ log' = Settled(Head(outgoing_messages).id, "answered")
    /\ BecomeIdle
    /\ callback' = "none"
    /\ lag' = 0
    /\ frame' = NoFrame
    /\ UNCHANGED <<last_message_type, answerVars, configVars,
                   cooldown_time_point, answer_time_point, wireVars,
                   last_write, last_request>>

(***************************************************************************)
(* The environment: a half-duplex serial line keeps frames in order and    *)
(* may lose them; the device takes at most MaxAnswerDelay to answer.       *)
(***************************************************************************)
DeviceUnchanged ==
    UNCHANGED <<queueVars, answerVars, configVars, clockVars, loopVars,
                history>>

DeviceAnswers ==
    /\ in_flight # <<>>
    /\ Len(incoming) < MaxFrames
    /\ incoming' = Append(incoming, Head(in_flight).message)
    /\ in_flight' = Tail(in_flight)
    /\ DeviceUnchanged

\* The message or its answer got lost, or the device does not answer it.
DeviceStaysSilent ==
    /\ in_flight # <<>>
    /\ in_flight' = Tail(in_flight)
    /\ UNCHANGED incoming
    /\ DeviceUnchanged

DeviceRequests ==
    /\ Unsolicited
    /\ Len(incoming) < MaxFrames
    /\ incoming' = Append(incoming, DeviceRequest)
    /\ UNCHANGED in_flight
    /\ DeviceUnchanged

Tick ==
    /\ callback # "none" => lag < MaxLag
    /\ \A i \in 1 .. Len(in_flight) : in_flight[i].age < MaxAnswerDelay
    /\ lag' = IF callback = "none" THEN 0 ELSE lag + 1
    /\ cooldown_time_point' = Aged(cooldown_time_point, Past)
    /\ answer_time_point' = Aged(answer_time_point, Past)
    /\ retry_time_point' = Aged(retry_time_point, Past)
    /\ in_flight' = [i \in 1 .. Len(in_flight) |->
                       [in_flight[i] EXCEPT !.age = @ + 1]]
    /\ last_write' = [last_write EXCEPT !.at = Aged(@, -Horizon)]
    /\ last_request' = [last_request EXCEPT !.at = Aged(@, -Horizon)]
    /\ UNCHANGED <<queueVars, answerVars, configVars, callback, frame,
                   incoming, log>>

-----------------------------------------------------------------------------
Application ==
    \/ \E r \in Repeats, i \in RetryIntervals, w \in Writes :
         SendMessage(r, i, w)
    \/ \E w \in Writes : SendMessageWithoutAnswer(w)
    \/ \E t \in AnswerTimeouts : SetAnswerTimeout(t)
    \/ \E t \in CooldownIntervals : SetCooldownInterval(t)

Answering == \E w \in Writes : SendAnswer(w)

Loop ==
    \/ LoopDispatch
    \/ LoopSend
    \/ LoopRetry
    \/ LoopTimeout
    \/ LoopAnswer

HandlerReturns ==
    \/ MessageHandlerReturns
    \/ TimeoutHandlerReturns
    \/ AnswerHandlerReturns

Device == DeviceAnswers \/ DeviceStaysSilent

Next ==
    \/ Application
    \/ Answering
    \/ NoAnswer
    \/ Loop
    \/ HandlerReturns
    \/ Device
    \/ DeviceRequests
    \/ Tick

Spec == Init /\ [][Next]_vars

\* The application calls loop() for ever and its handlers return; the device
\* is done with a message in bounded time; and time goes by.
FairSpec ==
    /\ Spec
    /\ WF_vars(Loop)
    /\ WF_vars(HandlerReturns)
    /\ WF_vars(Device)
    /\ WF_vars(Tick)

-----------------------------------------------------------------------------
(***************************************************************************)
(* Properties                                                              *)
(***************************************************************************)
TimePoint == {t \in Int : t >= Past}
Ago       == {t \in Int : -Horizon <= t /\ t <= 0}

\* Every variable has a value of its type.
TypeOK ==
    /\ state \in {"IDLE", "WAITING_FOR_ANSWER"}
    /\ outgoing_messages \in Seq(OutgoingQueueItem)
    /\ processing_message \in BOOLEAN
    /\ answer_sent \in BOOLEAN
    /\ last_message_type \in Nat
    /\ answer_timeout_interval \in 0 .. Horizon - 1
    /\ cooldown_interval \in 0 .. Horizon - 1
    /\ cooldown_time_point \in TimePoint
    /\ answer_time_point \in TimePoint
    /\ retry_time_point \in TimePoint
    /\ callback \in {"none", "message_handler", "answer_handler",
                     "timeout_handler"}
    /\ lag \in 0 .. MaxLag
    /\ frame \in Int
    /\ incoming \in Seq(Nat)
    /\ in_flight \in Seq([message: Message, age: Nat])
    /\ log \in Seq(LogEntry)
    /\ Len(log) <= MaxMessages
    /\ last_write \in [at: Ago, cooldown: 0 .. Horizon - 1]
    /\ last_request \in [at: Ago, timeout: 0 .. Horizon - 1]

(***************************************************************************)
(* The messages still queued are exactly the last ones submitted, in the   *)
(* order of submission: no message is decided before one submitted earlier *)
(* (std::queue, popped at four places of loop() for four reasons).         *)
(***************************************************************************)
QueueIsSuffix ==
    /\ Len(outgoing_messages) <= Len(log)
    /\ \A i \in 1 .. Len(outgoing_messages) :
         outgoing_messages[i].id = Len(log) - Len(outgoing_messages) + i
    /\ \A n \in 1 .. Len(log) :
         log[n].outcome = "queued" <=> n > Len(log) - Len(outgoing_messages)

(***************************************************************************)
(* While an answer is awaited the message that is awaiting it is still at  *)
(* the head of the queue, is the one last written, and is not one sent     *)
(* without answer: front() and pop() in the WAITING_FOR_ANSWER branch, and *)
(* the handler looked up by last_message_type_, all mean the same message. *)
(* The exception is the timeout handler, which runs after the pop.         *)
(***************************************************************************)
WaitingForHead ==
    state = "WAITING_FOR_ANSWER" /\ callback # "timeout_handler" =>
        /\ outgoing_messages # <<>>
        /\ last_message_type = Head(outgoing_messages).id
        /\ ~Head(outgoing_messages).no_answer
        /\ Written(Head(outgoing_messages).write)
        /\ log[Head(outgoing_messages).id].sends >= 1

(***************************************************************************)
(* A handler runs in the state of loop() that called it, and only the      *)
(* message handler may send answers (processing_message_).                 *)
(***************************************************************************)
HandlerInItsState ==
    /\ callback = "message_handler" => state = "IDLE"
    /\ callback \in {"answer_handler", "timeout_handler"}
         => state = "WAITING_FOR_ANSWER"
    /\ processing_message <=> callback = "message_handler"

(***************************************************************************)
(* However timeouts, failing writes and handlers interleave, no message is *)
(* transmitted more often than its min(num_repeats, MAX_PACKET_RETRIES)+1  *)
(* times, and the transmissions left at any moment fit in that budget.     *)
(***************************************************************************)
TransmissionBudget ==
    /\ \A n \in 1 .. Len(log) : log[n].sends <= log[n].budget
    /\ \A i \in 1 .. Len(outgoing_messages) :
         LET item == outgoing_messages[i] IN
         /\ log[item.id].sends + item.number_of_retries <= log[item.id].budget
         /\ OnWire(item.write) =>
              log[item.id].sends + item.number_of_retries = log[item.id].budget

(***************************************************************************)
(* A message leaves the queue only for a reason: the timeout handler is    *)
(* called only after all transmissions granted were made, the answer       *)
(* handler only for a message that was transmitted and wants an answer, a  *)
(* message without answer was sent once, and the silent drop happens only  *)
(* to a message none of whose writes was reported as a success.            *)
(***************************************************************************)
OutcomeJustified ==
    \A n \in 1 .. Len(log) :
        LET m == log[n] IN
        /\ m.outcome = "timed_out" => m.expects /\ m.sends = m.budget
        /\ m.outcome = "answered" => m.expects /\ m.sends >= 1
        /\ m.outcome = "sent" => ~m.expects /\ m.sends = 1
        /\ m.outcome = "dropped" => m.sends \in {0, m.budget}

(***************************************************************************)
(* A retry delay that still runs belongs to the message at the head, which *)
(* was transmitted before: a new message never waits for the retry interval*)
(* of one that is gone (retry_time_point_ is reset at every pop).          *)
(***************************************************************************)
RetryDelayBelongsToHead ==
    ~Reached(retry_time_point) =>
        /\ outgoing_messages # <<>>
        /\ log[Head(outgoing_messages).id].sends >= 1

(***************************************************************************)
(* A frame handed to an answer handler answers the request whose handler it*)
(* is: the first argument is the "Request message type that caused this    *)
(* answer" (haier_protocol.h).  A request of the device that comes while an*)
(* answer is awaited is taken for that answer too; a late answer to another*)
(* message is not, as long as the device answers within the cooldown.      *)
(***************************************************************************)
AnswerMatchesRequest ==
    callback = "answer_handler" /\ frame \in Message
        => frame = last_message_type

(***************************************************************************)
(* The same, claimed only of answers to messages that were sent to be      *)
(* answered: as the header file has it, whatever the cooldown.             *)
(***************************************************************************)
RequestCausedThisAnswer ==
    callback = "answer_handler" /\ frame # DeviceRequest /\ log[frame].expects
        => frame = last_message_type

RequestWritten == \E n \in 1 .. Len(log) : log'[n].sends # log[n].sends

(***************************************************************************)
(* A request is never written sooner after the write before it, an answer  *)
(* included, than the cooldown interval that was set at that write, however*)
(* long the message handler ran in between.                                *)
(***************************************************************************)
CooldownRespected ==
    [][RequestWritten => last_write.at + last_write.cooldown <= 0]_vars

(***************************************************************************)
(* A request is written again only after its retry interval and after its  *)
(* answer timeout.  Both are counted from the `now' of the iteration that  *)
(* wrote it, which a message handler may have left up to MaxLag behind.    *)
(***************************************************************************)
RetransmissionSpacing ==
    [][\A n \in 1 .. Len(log) :
         log'[n].sends # log[n].sends /\ log[n].sends > 0
             /\ Written(Head(outgoing_messages).write) =>
           /\ last_request.at + Head(outgoing_messages).retry_interval <= MaxLag
           /\ last_request.at + last_request.timeout < MaxLag]_vars

(***************************************************************************)
(* loop() stops waiting without an answer only when the answer timeout     *)
(* passed since the request was last written, less the same lag.           *)
(***************************************************************************)
AnswerWindowKept ==
    [][state = "WAITING_FOR_ANSWER" /\ callback = "none"
           /\ (state' = "IDLE" \/ callback' = "timeout_handler") =>
         last_request.at + last_request.timeout < MaxLag]_vars

Queued(n) == n \in 1 .. Len(log) /\ log[n].outcome = "queued"

(***************************************************************************)
(* Every message submitted is eventually decided: sent, answered, timed out*)
(* or dropped.  The application must in the end stop sending answers: each *)
(* of them starts the cooldown anew, and a device that keeps asking can so *)
(* keep the queue from ever moving.                                        *)
(***************************************************************************)
EveryMessageSettles ==
    <>[][~Answering]_vars =>
        \A n \in Message : Queued(n) ~> ~Queued(n)

(***************************************************************************)
(* The abstract specification: the ledger awaits the answer to the head of *)
(* the queue for as long as loop() is WAITING_FOR_ANSWER and the message   *)
(* was not popped before its timeout handler.                              *)
(***************************************************************************)
Awaiting ==
    IF state = "WAITING_FOR_ANSWER" /\ callback # "timeout_handler"
    THEN Head(outgoing_messages).id ELSE 0

Ledger == INSTANCE MessageLedger WITH
              awaiting <- Awaiting, Budgets <- 1 .. MAX_PACKET_RETRIES + 1

(***************************************************************************)
(* The handler implements the ledger: messages are decided one by one in   *)
(* order, nothing is transmitted while an answer is awaited, a message is  *)
(* given up only when its transmissions are used up.                       *)
(***************************************************************************)
ImplementsLedger == Ledger!Spec

=============================================================================
