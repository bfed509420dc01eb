---------------------------- MODULE TimingProofs ----------------------------
(***************************************************************************)
(* What ProtocolHandler's clocks guarantee, for every value of the         *)
(* constants: the cooldown, the answer window, and that answers reach the  *)
(* handler of their own request when the cooldown outlasts the device.     *)
(***************************************************************************)
EXTENDS ProtocolHandlerProofs

USE DEF answerVars, configVars, clockVars, loopVars, wireVars, queueVars,
        history

-----------------------------------------------------------------------------
(***************************************************************************)
(* The clock variables as numbers                                          *)
(***************************************************************************)
LEMMA ClockTypes ==
    ASSUME IndInv
    PROVE  /\ MaxLag \in Nat /\ Horizon \in Nat \ {0}
           /\ lag \in 0 .. MaxLag
           /\ cooldown_time_point \in Int /\ cooldown_time_point >= Past
           /\ answer_time_point \in Int /\ answer_time_point >= Past
           /\ retry_time_point \in Int /\ retry_time_point >= Past
           /\ last_write.at \in Int /\ last_write.at <= 0
           /\ last_write.at >= -Horizon
           /\ last_write.cooldown \in 0 .. Horizon - 1
           /\ last_request.at \in Int /\ last_request.at <= 0
           /\ last_request.at >= -Horizon
           /\ last_request.timeout \in 0 .. Horizon - 1
           /\ cooldown_interval \in 0 .. Horizon - 1
           /\ answer_timeout_interval \in 0 .. Horizon - 1
           /\ Past = -(MaxLag + 1)
<1>1. MaxLag \in Nat /\ Horizon \in Nat \ {0}
  BY ProtocolHandlerAssumption
<1>2. TypeOK
  BY DEF IndInv
<1>3. /\ last_write \in [at: Ago, cooldown: 0 .. Horizon - 1]
      /\ last_request \in [at: Ago, timeout: 0 .. Horizon - 1]
  BY <1>2 DEF TypeOK
<1>4. /\ last_write.at \in Ago /\ last_write.cooldown \in 0 .. Horizon - 1
      /\ last_request.at \in Ago /\ last_request.timeout \in 0 .. Horizon - 1
  BY <1>3
<1>5. QED BY <1>1, <1>2, <1>4 DEF TypeOK, TimePoint, Ago, Past

\* Two changes of one entry leave the others alone.
LEMMA OtherEntries ==
    ASSUME NEW s, NEW k, NEW n \in DOMAIN s, n # k, NEW a, NEW b
    PROVE  [s EXCEPT ![k].sends = a, ![k].outcome = b][n] = s[n]
<1>1. [s EXCEPT ![k].sends = a][n] = s[n]
  OBVIOUS
<1> DEFINE t == [s EXCEPT ![k].sends = a]
<1>2. n \in DOMAIN t
  OBVIOUS
<1> HIDE DEF t
<1>3. [t EXCEPT ![k].outcome = b][n] = t[n]
  BY <1>2
<1>4. QED BY <1>1, <1>3 DEF t

\* Only the sending half of loop() transmits.
LEMMA OnlySendNextTransmits ==
    ASSUME IndInv, Next, RequestWritten
    PROVE  SendNext /\ state = "IDLE"
<1>1. log \in Seq(LogEntry) /\ Len(log) \in Nat
  BY DEF IndInv, QueueOK
<1>2. PICK n \in 1 .. Len(log) : log'[n].sends # log[n].sends
  BY DEF RequestWritten
<1>3. log' # log
  BY <1>2
<1>4. ASSUME NEW m, NEW o, log' = Settled(m, o)
      PROVE  FALSE
  <2>1. log'[n] = IF n = m THEN [log[n] EXCEPT !.outcome = o] ELSE log[n]
    BY <1>1, <1>2, <1>4 DEF Settled
  <2>2. log[n] \in LogEntry
    BY <1>1, <1>2, ElementOfSeq
  <2>3. [log[n] EXCEPT !.outcome = o].sends = log[n].sends
    BY <2>2 DEF LogEntry
  <2>4. QED BY <1>2, <2>1, <2>3
<1>5. ASSUME NEW e, log' = Append(log, e)
      PROVE  FALSE
  BY <1>1, <1>2, <1>5
<1>6. ~Application
  BY <1>3, <1>5 DEF Application, SendMessage, SendMessageWithoutAnswer,
                    Enqueue, SetAnswerTimeout, SetCooldownInterval
<1>7. ~Answering /\ ~NoAnswer /\ ~Device /\ ~DeviceRequests /\ ~Tick
  BY <1>3 DEF Answering, SendAnswer, NoAnswer, Device, DeviceAnswers,
              DeviceStaysSilent, DeviceRequests, DeviceUnchanged, Tick
<1>8. Loop => SendNext /\ state = "IDLE"
  BY <1>3, <1>4 DEF Loop, LoopDispatch, LoopSend, LoopRetry, LoopTimeout,
                    LoopAnswer
<1>9. HandlerReturns => SendNext /\ state = "IDLE"
  <2>1. MessageHandlerReturns => state = "IDLE"
    BY DEF IndInv, HandlerInItsState, MessageHandlerReturns
  <2>2. QED BY <1>3, <1>4, <2>1
            DEF HandlerReturns, MessageHandlerReturns,
                TimeoutHandlerReturns, AnswerHandlerReturns
<1>10. QED BY <1>6, <1>7, <1>8, <1>9 DEF Next

-----------------------------------------------------------------------------
(***************************************************************************)
(* Cooldown.  The invariant: the moment the last cooldown ends is not      *)
(* after cooldown_time_point, as far as either can be told.                *)
(***************************************************************************)
CooldownInv ==
    \/ last_write.at + last_write.cooldown <= cooldown_time_point
    \/ last_write.at + last_write.cooldown <= Past
    \/ last_write.at = -Horizon

\* Who writes: an answer, the sending half of loop(), and nobody else.
LEMMA WhoWrites ==
    ASSUME [Next]_vars
    PROVE  \/ WriteMessage
           \/ Tick
           \/ UNCHANGED <<last_write, cooldown_time_point>>
<1>1. Transmit => WriteMessage
  BY DEF Transmit
<1>2. Discard => UNCHANGED <<last_write, cooldown_time_point>>
  BY DEF Discard
<1>3. Application \/ NoAnswer \/ Device \/ DeviceRequests \/ UNCHANGED vars =>
         UNCHANGED <<last_write, cooldown_time_point>>
  BY DEF Application, SendMessage, SendMessageWithoutAnswer, Enqueue,
         SetAnswerTimeout, SetCooldownInterval, NoAnswer, Device,
         DeviceAnswers, DeviceStaysSilent, DeviceRequests, DeviceUnchanged,
         vars
<1>4. Answering => WriteMessage
  BY DEF Answering, SendAnswer
<1>5. Loop \/ HandlerReturns =>
         \/ Transmit \/ Discard
         \/ UNCHANGED <<last_write, cooldown_time_point>>
  BY DEF Loop, LoopDispatch, LoopSend, LoopRetry, LoopTimeout, LoopAnswer,
         HandlerReturns, MessageHandlerReturns, TimeoutHandlerReturns,
         AnswerHandlerReturns, SendNext
<1>6. QED BY <1>1, <1>2, <1>3, <1>4, <1>5 DEF Next

LEMMA CooldownInvKept ==
    ASSUME IndInv, CooldownInv, [Next]_vars
    PROVE  CooldownInv'
<1>1. CASE UNCHANGED <<last_write, cooldown_time_point>>
  BY <1>1 DEF CooldownInv
<1>2. CASE WriteMessage
  <2>1. /\ last_write'.at = 0
        /\ last_write'.cooldown = cooldown_interval
        /\ cooldown_time_point' = cooldown_interval
    BY <1>2 DEF WriteMessage
  <2>2. QED BY <2>1, ClockTypes DEF CooldownInv
<1>3. CASE Tick
  <2>1. /\ cooldown_time_point' = Aged(cooldown_time_point, Past)
        /\ last_write' = [last_write EXCEPT !.at = Aged(@, -Horizon)]
    BY <1>3 DEF Tick
  <2>2. /\ last_write'.at = Aged(last_write.at, -Horizon)
        /\ last_write'.cooldown = last_write.cooldown
    <3>1. last_write \in [at: Ago, cooldown: 0 .. Horizon - 1]
      BY DEF IndInv, TypeOK
    <3>2. QED BY <2>1, <3>1
  <2> DEFINE at == last_write.at
             cd == last_write.cooldown
             t  == cooldown_time_point
  <2>3. /\ at \in Int /\ cd \in Int /\ at >= -Horizon
        /\ Horizon \in Nat /\ MaxLag \in Nat
        /\ t \in Int /\ t >= Past /\ Past \in Int
    BY ClockTypes
  <2>4. at + cd <= t \/ at + cd <= Past \/ at = -Horizon
    BY DEF CooldownInv
  <2> HIDE DEF at, cd, t
  <2>5. \/ Aged(at, -Horizon) + cd <= Aged(t, Past)
        \/ Aged(at, -Horizon) + cd <= Past
        \/ Aged(at, -Horizon) = -Horizon
    BY <2>3, <2>4 DEF Aged, Past
  <2>6. QED BY <2>1, <2>2, <2>5 DEF CooldownInv, at, cd, t
<1>4. QED BY <1>1, <1>2, <1>3, WhoWrites

(***************************************************************************)
(* No request is written within the cooldown of the write before it, even  *)
(* when the iteration that writes it sampled now long before.              *)
(***************************************************************************)
THEOREM CooldownIsRespected == Spec => CooldownRespected
<1>1. Init => CooldownInv
  BY DEF Init, CooldownInv
<1>2. IndInv /\ CooldownInv /\ [Next]_vars => CooldownInv'
  BY CooldownInvKept
<1>3. IndInv /\ CooldownInv /\ [Next]_vars =>
        [RequestWritten => last_write.at + last_write.cooldown <= 0]_vars
  <2> SUFFICES ASSUME IndInv, CooldownInv, Next, RequestWritten
               PROVE  last_write.at + last_write.cooldown <= 0
    OBVIOUS
  <2>1. Reached(cooldown_time_point)
    BY OnlySendNextTransmits DEF SendNext, ReadyToSend
  <2>2. cooldown_time_point <= 0
    BY <2>1, ClockTypes DEF Reached
  <2>3. QED BY <2>2, ClockTypes DEF CooldownInv
<1>4. QED BY <1>1, <1>2, <1>3, Invariance, PTL DEF Spec, CooldownRespected

-----------------------------------------------------------------------------
(***************************************************************************)
(* The answer timeout.  The invariant: answer_time_point is at most MaxLag *)
(* sooner than the timeout counted from the write of the request.          *)
(***************************************************************************)
AnswerTimeInv ==
    \/ last_request.at + last_request.timeout <= answer_time_point + MaxLag
    \/ last_request.at + last_request.timeout < 0

LEMMA AnswerTimeInvKept ==
    ASSUME IndInv, AnswerTimeInv, [Next]_vars
    PROVE  AnswerTimeInv'
<1>1. CASE UNCHANGED <<last_request, answer_time_point>>
  BY <1>1 DEF AnswerTimeInv
<1>2. ASSUME NEW item, SendsRequest(item)
      PROVE  AnswerTimeInv'
  <2>1. /\ last_request'.at = 0
        /\ last_request'.timeout = answer_timeout_interval
        /\ answer_time_point' = answer_timeout_interval - lag
    BY <1>2 DEF SendsRequest, FromNow
  <2>2. QED BY <2>1, ClockTypes DEF AnswerTimeInv
<1>3. CASE Tick
  <2>1. /\ answer_time_point' = Aged(answer_time_point, Past)
        /\ last_request' = [last_request EXCEPT !.at = Aged(@, -Horizon)]
    BY <1>3 DEF Tick
  <2>2. /\ last_request'.at = Aged(last_request.at, -Horizon)
        /\ last_request'.timeout = last_request.timeout
    <3>1. last_request \in [at: Ago, timeout: 0 .. Horizon - 1]
      BY DEF IndInv, TypeOK
    <3>2. QED BY <2>1, <3>1
  <2> DEFINE at == last_request.at
             d  == last_request.timeout
             t  == answer_time_point
  <2>3. /\ at \in Int /\ d \in 0 .. Horizon - 1 /\ at >= -Horizon
        /\ Horizon \in Nat /\ MaxLag \in Nat
        /\ t \in Int /\ t >= Past
    BY ClockTypes
  <2>4. at + d <= t + MaxLag \/ at + d < 0
    BY DEF AnswerTimeInv
  <2> HIDE DEF at, d, t
  <2>5. \/ Aged(at, -Horizon) + d <= Aged(t, Past) + MaxLag
        \/ Aged(at, -Horizon) + d < 0
    BY <2>3, <2>4 DEF Aged, Past
  <2>6. QED BY <2>1, <2>2, <2>5 DEF AnswerTimeInv, at, d, t
<1>4. SendNext => \/ SendsRequest(Head(outgoing_messages))
                  \/ UNCHANGED <<last_request, answer_time_point>>
  BY DEF SendNext, Transmit, WriteFails, SendsWithoutAnswer, Discard
<1>5. Application \/ NoAnswer \/ Device \/ DeviceRequests \/ Answering
         \/ UNCHANGED vars =>
            UNCHANGED <<last_request, answer_time_point>>
  BY DEF Application, SendMessage, SendMessageWithoutAnswer, Enqueue,
         SetAnswerTimeout, SetCooldownInterval, NoAnswer, Device,
         DeviceAnswers, DeviceStaysSilent, DeviceRequests, DeviceUnchanged,
         Answering, SendAnswer, vars
<1>6. Loop \/ HandlerReturns =>
         SendNext \/ UNCHANGED <<last_request, answer_time_point>>
  BY DEF Loop, LoopDispatch, LoopSend, LoopRetry, LoopTimeout, LoopAnswer,
         HandlerReturns, MessageHandlerReturns, TimeoutHandlerReturns,
         AnswerHandlerReturns
<1>7. QED BY <1>1, <1>2, <1>3, <1>4, <1>5, <1>6 DEF Next

\* When loop() finds the answer overdue, it is, less the lag.
LEMMA TimedOutMeans ==
    ASSUME IndInv, AnswerTimeInv, TimedOut
    PROVE  last_request.at + last_request.timeout < MaxLag
<1>1. lag = 0
  BY DEF IndInv, LagInHandlers, TimedOut
<1>2. answer_time_point < 0
  BY <1>1, ClockTypes DEF TimedOut, Passed
<1>3. QED BY <1>2, ClockTypes DEF AnswerTimeInv

(***************************************************************************)
(* loop() stops waiting without an answer only when the answer timeout     *)
(* passed since the request was written, less the lag of its iteration.    *)
(***************************************************************************)
THEOREM AnswerWindowIsKept == Spec => AnswerWindowKept
<1>1. Init => AnswerTimeInv
  BY ProtocolHandlerAssumption DEF Init, AnswerTimeInv
<1>2. IndInv /\ AnswerTimeInv /\ [Next]_vars => AnswerTimeInv'
  BY AnswerTimeInvKept
<1>3. IndInv /\ AnswerTimeInv /\ [Next]_vars =>
        [state = "WAITING_FOR_ANSWER" /\ callback = "none"
           /\ (state' = "IDLE" \/ callback' = "timeout_handler") =>
         last_request.at + last_request.timeout < MaxLag]_vars
  <2> SUFFICES ASSUME IndInv, AnswerTimeInv, Next,
                      state = "WAITING_FOR_ANSWER", callback = "none",
                      state' = "IDLE" \/ callback' = "timeout_handler"
               PROVE  TimedOut
    BY TimedOutMeans
  <2>1. ~(Application \/ Answering \/ NoAnswer \/ Device \/ DeviceRequests
            \/ Tick)
    BY DEF Application, SendMessage, SendMessageWithoutAnswer, Enqueue,
           SetAnswerTimeout, SetCooldownInterval, Answering, SendAnswer,
           NoAnswer, Device, DeviceAnswers, DeviceStaysSilent,
           DeviceRequests, DeviceUnchanged, Tick
  <2>2. ~HandlerReturns
    BY DEF HandlerReturns, MessageHandlerReturns, TimeoutHandlerReturns,
           AnswerHandlerReturns
  <2>3. Loop => TimedOut
    BY DEF Loop, LoopDispatch, LoopSend, LoopRetry, LoopTimeout, LoopAnswer
  <2>4. QED BY <2>1, <2>2, <2>3 DEF Next
<1>4. QED BY <1>1, <1>2, <1>3, Invariance, PTL DEF Spec, AnswerWindowKept

-----------------------------------------------------------------------------
(***************************************************************************)
(* Retransmission.  The invariant is about a head that was transmitted:    *)
(* retry_time_point is at most MaxLag sooner than its retry interval       *)
(* counted from its last write, and once loop() stopped waiting for the    *)
(* answer, the answer was overdue.                                         *)
(***************************************************************************)
HeadTransmitted ==
    /\ outgoing_messages # <<>>
    /\ log[Head(outgoing_messages).id].sends > 0
    /\ Written(Head(outgoing_messages).write)

RetryTimeOf(interval) ==
    \/ last_request.at + interval <= retry_time_point + MaxLag
    \/ last_request.at + interval < 0

AnswerOverdue == last_request.at + last_request.timeout < MaxLag

RetryInv ==
    HeadTransmitted =>
        /\ RetryTimeOf(Head(outgoing_messages).retry_interval)
        /\ state = "IDLE" \/ callback = "timeout_handler" => AnswerOverdue

\* The message behind the head was never transmitted.
LEMMA NextHeadUnsent ==
    ASSUME QueueOK, outgoing_messages # <<>>, Pop, NEW entry,
           log' = [log EXCEPT ![Head(outgoing_messages).id] = entry]
    PROVE  ~HeadTransmitted'
<1> SUFFICES ASSUME outgoing_messages' # <<>>
             PROVE  \/ log'[Head(outgoing_messages').id].sends = 0
                    \/ ~Written(Head(outgoing_messages').write)
  BY DEF HeadTransmitted, Written
<1>1. /\ outgoing_messages \in Seq(OutgoingQueueItem)
      /\ log \in Seq(LogEntry)
      /\ Len(outgoing_messages) \in Nat
      /\ Len(log) \in Nat
  BY DEF QueueOK
<1>2. /\ 2 \in 1 .. Len(outgoing_messages)
      /\ Head(outgoing_messages') = outgoing_messages[2]
  BY <1>1 DEF Pop
<1> DEFINE item == outgoing_messages[2]
           first == Head(outgoing_messages)
<1>3. item \in OutgoingQueueItem
  BY <1>1, <1>2, ElementOfSeq
<1>4. /\ item.id = Len(log) - Len(outgoing_messages) + 2
      /\ first.id = Len(log) - Len(outgoing_messages) + 1
      /\ item.id \in 1 .. Len(log)
  BY <1>1, <1>2 DEF QueueOK, QueueIsSuffix
<1>5. log'[item.id] = log[item.id]
  BY <1>1, <1>4
<1>6. log[item.id] \in LogEntry
  BY <1>1, <1>4, ElementOfSeq
<1>7. /\ ItemAgreesWith(item, log[item.id])
      /\ item.number_of_retries = log[item.id].budget
  BY <1>2 DEF QueueOK, ItemsAgreeWithLog, OnlyHeadTransmitted
<1>8. /\ log[item.id].sends \in Nat
      /\ log[item.id].budget \in Nat
  BY <1>6, EntryFields
<1> HIDE DEF item
<1>9. log[item.id].sends = 0
  <2>1. CASE OnWire(item.write)
    BY <2>1, <1>7, <1>8 DEF ItemAgreesWith
  <2>2. CASE ~OnWire(item.write)
    BY <2>2, <1>7 DEF ItemAgreesWith
  <2>3. QED BY <2>1, <2>2
<1>10. QED BY <1>2, <1>5, <1>9 DEF item

\* A message sent without answer or discarded goes, and so the next is fresh.
LEMMA SendNextPops ==
    ASSUME QueueOK, SendNext
    PROVE  \/ ~HeadTransmitted'
           \/ /\ Transmit
              /\ \/ WriteFails(Head(outgoing_messages))
                 \/ SendsRequest(Head(outgoing_messages))
<1> DEFINE item == Head(outgoing_messages)
<1>1. outgoing_messages # <<>> /\ (Transmit \/ Discard)
  BY DEF SendNext, ReadyToSend
<1>2. log \in Seq(LogEntry)
  BY DEF QueueOK
<1>3. CASE Discard
  <2>1. Pop /\ log' = Settled(item.id, "dropped")
    BY <1>3 DEF Discard
  <2>2. QED BY <1>1, <2>1, NextHeadUnsent DEF Settled
<1>4. CASE Transmit /\ SendsWithoutAnswer(item)
  <2>1. Pop /\ log' = [log EXCEPT ![item.id].sends = @ + 1,
                                  ![item.id].outcome = "sent"]
    BY <1>4 DEF SendsWithoutAnswer
  <2>2. log' = [log EXCEPT ![item.id] =
                  [log[item.id] EXCEPT !.sends = @ + 1, !.outcome = "sent"]]
    BY <1>1, <1>2, <2>1, HeadOfQueue
  <2>3. QED BY <1>1, <2>1, <2>2, NextHeadUnsent
<1>5. QED BY <1>1, <1>3, <1>4 DEF Transmit

\* A new message goes to the end of the queue.
LEMMA EnqueueKeepsHead ==
    ASSUME QueueOK, NEW no_answer, NEW retries, NEW interval, NEW write,
           Enqueue(no_answer, retries, interval, write)
    PROVE  HeadTransmitted' =>
             /\ HeadTransmitted
             /\ Head(outgoing_messages') = Head(outgoing_messages)
<1>1. /\ Len(log) \in Nat /\ log \in Seq(LogEntry)
      /\ outgoing_messages \in Seq(OutgoingQueueItem)
  BY DEF QueueOK
<1>2. CASE outgoing_messages = <<>>
  <2>1. Head(outgoing_messages').id = Len(log) + 1
    BY <1>2 DEF Enqueue
  <2>2. log'[Len(log) + 1].sends = 0
    BY <1>1 DEF Enqueue
  <2>3. QED BY <2>1, <2>2 DEF HeadTransmitted
<1>3. CASE outgoing_messages # <<>>
  <2>1. Head(outgoing_messages') = Head(outgoing_messages)
    BY <1>1, <1>3 DEF Enqueue
  <2>2. Head(outgoing_messages).id \in 1 .. Len(log)
    BY <1>3, HeadOfQueue
  <2>3. log'[Head(outgoing_messages).id] = log[Head(outgoing_messages).id]
    BY <1>1, <2>2 DEF Enqueue
  <2>4. QED BY <1>3, <2>1, <2>3 DEF HeadTransmitted, Written
<1>4. QED BY <1>2, <1>3

LEMMA RetryInvKept ==
    ASSUME IndInv, AnswerTimeInv, RetryInv, [Next]_vars
    PROVE  RetryInv'
<1>1. QueueOK /\ HandlerInItsState
  BY DEF IndInv
<1>2. log \in Seq(LogEntry)
  BY <1>1 DEF QueueOK
\* While an answer is awaited there is a head.
<1>3. state = "WAITING_FOR_ANSWER" /\ callback # "timeout_handler"
         => outgoing_messages # <<>>
  BY DEF IndInv, WaitingForHead
\* A step that leaves the head, its entry and the clocks alone.
<1>4. ASSUME UNCHANGED <<outgoing_messages, log, retry_time_point,
                         last_request>>,
             \/ UNCHANGED <<state, callback>>
             \/ AnswerOverdue
             \/ state' # "IDLE" /\ callback' # "timeout_handler"
             \/ state = "IDLE" \/ callback = "timeout_handler"
      PROVE  RetryInv'
  BY <1>4 DEF RetryInv, HeadTransmitted, RetryTimeOf, AnswerOverdue, Written
\* A new message at the end of the queue.
<1>5. ASSUME NEW no_answer, NEW retries, NEW interval, NEW write,
             Enqueue(no_answer, retries, interval, write)
      PROVE  RetryInv'
  <2>1. UNCHANGED <<state, callback, retry_time_point, last_request>>
    BY <1>5 DEF Enqueue
  <2>2. QED BY <1>1, <1>5, <2>1, EnqueueKeepsHead
            DEF RetryInv, RetryTimeOf, AnswerOverdue
\* The head goes.
<1>6. ASSUME outgoing_messages # <<>>, Pop, NEW entry,
             log' = [log EXCEPT ![Head(outgoing_messages).id] = entry]
      PROVE  RetryInv'
  BY <1>1, <1>6, NextHeadUnsent DEF RetryInv
<1>7. ASSUME SendNext, callback' = "none"
      PROVE  RetryInv'
  <2> DEFINE item == Head(outgoing_messages)
  <2>1. /\ outgoing_messages # <<>>
        /\ Transmit \/ Discard
    BY <1>7 DEF SendNext, ReadyToSend
  <2>2. item \in OutgoingQueueItem
    BY <1>1, <2>1, HeadOfQueue
  <2>3. outgoing_messages \in Seq(OutgoingQueueItem)
    BY <1>1 DEF QueueOK
  <2>4. CASE Transmit /\ (WriteFails(item) \/ SendsRequest(item))
    <3>1. HasRetries(item)
      BY <2>4 DEF Transmit
    <3>2. outgoing_messages' = [outgoing_messages EXCEPT ![1] = Spent(item)]
      BY <2>4 DEF WriteFails, SendsRequest
    <3>3. Head(outgoing_messages') = Spent(item)
      BY <2>1, <2>3, <3>2
    <3>4. /\ Spent(item).write = item.write
          /\ Spent(item).retry_interval = item.retry_interval
          /\ item.retry_interval \in Nat
      BY <2>2, <3>1, SpentItem, ItemFields
    <3>5. CASE WriteFails(item)
      BY <3>3, <3>4, <3>5 DEF WriteFails, RetryInv, HeadTransmitted, Written
    <3>6. CASE SendsRequest(item)
      <4>1. /\ last_request'.at = 0
            /\ retry_time_point' = item.retry_interval - lag
            /\ state' = "WAITING_FOR_ANSWER"
        BY <3>6 DEF SendsRequest, FromNow
      <4>2. callback' # "timeout_handler"
        BY <1>7
      <4>3. last_request'.at + item.retry_interval
              <= retry_time_point' + MaxLag
        BY <4>1, <3>4, ClockTypes
      <4>4. RetryTimeOf(Head(outgoing_messages).retry_interval)'
        BY <3>3, <3>4, <4>3 DEF RetryTimeOf
      <4>5. QED BY <4>1, <4>2, <4>4 DEF RetryInv
    <3>7. QED BY <2>4, <3>5, <3>6
  <2>5. QED BY <1>1, <1>7, <2>4, SendNextPops DEF RetryInv
<1>8. CASE Tick
  <2>1. /\ UNCHANGED <<outgoing_messages, log, state, callback>>
        /\ retry_time_point' = Aged(retry_time_point, Past)
        /\ last_request' = [last_request EXCEPT !.at = Aged(@, -Horizon)]
    BY <1>8 DEF Tick
  <2>2. /\ last_request'.at = Aged(last_request.at, -Horizon)
        /\ last_request'.timeout = last_request.timeout
    <3>1. last_request \in [at: Ago, timeout: 0 .. Horizon - 1]
      BY DEF IndInv, TypeOK
    <3>2. QED BY <2>1, <3>1
  <2>3. HeadTransmitted' => HeadTransmitted
    BY <2>1 DEF HeadTransmitted, Written
  <2> SUFFICES ASSUME HeadTransmitted
               PROVE  /\ RetryTimeOf(Head(outgoing_messages).retry_interval)'
                      /\ AnswerOverdue => AnswerOverdue'
    BY <2>1, <2>3 DEF RetryInv
  <2> DEFINE d == Head(outgoing_messages).retry_interval
             at == last_request.at
             t == retry_time_point
             n == last_request.timeout
  <2>4. d \in Nat /\ d <= Horizon - 1
    <3>1. Head(outgoing_messages) \in OutgoingQueueItem
      BY <1>1, HeadOfQueue DEF HeadTransmitted
    <3>2. d \in RetryIntervals \union {0}
      BY <3>1 DEF OutgoingQueueItem
    <3>3. /\ RetryIntervals \subseteq 0 .. Horizon - 1
          /\ Horizon \in Nat \ {0}
      BY ProtocolHandlerAssumption
    <3> HIDE DEF d
    <3>4. d = 0 \/ d \in 0 .. Horizon - 1
      BY <3>2, <3>3
    <3>5. QED BY <3>3, <3>4
  <2>5. /\ at \in Int /\ at >= -Horizon /\ at <= 0 /\ n \in 0 .. Horizon - 1
        /\ Horizon \in Nat \ {0} /\ MaxLag \in Nat
        /\ t \in Int /\ t >= Past
    BY ClockTypes
  <2>6. at + d <= t + MaxLag \/ at + d < 0
    BY DEF RetryInv, RetryTimeOf
  <2>7. Head(outgoing_messages').retry_interval = d
    BY <2>1
  <2> HIDE DEF at, d, t, n
  <2>8. \/ Aged(at, -Horizon) + d <= Aged(t, Past) + MaxLag
        \/ Aged(at, -Horizon) + d < 0
    BY <2>4, <2>5, <2>6 DEF Aged, Past
  <2>9. at + n < MaxLag => Aged(at, -Horizon) + n < MaxLag
    BY <2>5 DEF Aged
  <2>10. QED BY <2>1, <2>2, <2>7, <2>8, <2>9
             DEF RetryTimeOf, AnswerOverdue, at, d, t, n
<1>9. CASE Application
  <2>1. ASSUME NEW r, NEW i, NEW w, SendMessage(r, i, w)
        PROVE  RetryInv'
    BY <2>1, <1>5 DEF SendMessage
  <2>2. ASSUME NEW w, SendMessageWithoutAnswer(w)
        PROVE  RetryInv'
    BY <2>2, <1>5 DEF SendMessageWithoutAnswer
  <2>3. ASSUME NEW t, SetAnswerTimeout(t) \/ SetCooldownInterval(t)
        PROVE  RetryInv'
    BY <2>3, <1>4 DEF SetAnswerTimeout, SetCooldownInterval
  <2>4. QED BY <1>9, <2>1, <2>2, <2>3 DEF Application
<1>10. CASE Answering \/ NoAnswer \/ Device \/ DeviceRequests
           \/ UNCHANGED vars
  <2>1. UNCHANGED <<outgoing_messages, log, retry_time_point, last_request,
                    state, callback>>
    BY <1>10 DEF Answering, SendAnswer, NoAnswer, Device, DeviceAnswers,
                DeviceStaysSilent, DeviceRequests, DeviceUnchanged, vars
  <2>2. QED BY <2>1, <1>4
<1>11. CASE Loop
  <2>1. CASE LoopDispatch
    BY <2>1, <1>4 DEF LoopDispatch
  <2>2. CASE LoopSend
    BY <2>2, <1>7 DEF LoopSend
  <2>3. CASE LoopRetry
    BY <2>3, <1>4, TimedOutMeans DEF LoopRetry, AnswerOverdue
  <2>4. CASE LoopTimeout
    BY <2>4, <1>6, <1>3 DEF LoopTimeout, TimedOut, Settled
  <2>5. CASE LoopAnswer
    BY <2>5, <1>4 DEF LoopAnswer
  <2>6. QED BY <1>11, <2>1, <2>2, <2>3, <2>4, <2>5 DEF Loop
<1>12. CASE HandlerReturns
  <2>1. CASE MessageHandlerReturns
    <3>1. state = "IDLE"
      BY <1>1, <2>1 DEF HandlerInItsState, MessageHandlerReturns
    <3>2. QED BY <2>1, <3>1, <1>4, <1>7 DEF MessageHandlerReturns
  <2>2. CASE TimeoutHandlerReturns
    BY <2>2, <1>4 DEF TimeoutHandlerReturns
  <2>3. CASE AnswerHandlerReturns
    BY <2>3, <1>1, <1>6, <1>3
       DEF AnswerHandlerReturns, HandlerInItsState, Settled
  <2>4. QED BY <1>12, <2>1, <2>2, <2>3 DEF HandlerReturns
<1>13. QED BY <1>8, <1>9, <1>10, <1>11, <1>12 DEF Next

(***************************************************************************)
(* A request is transmitted again only after its retry interval and after  *)
(* its answer was overdue, both less the lag of the iteration that wrote   *)
(* it.                                                                     *)
(***************************************************************************)
THEOREM RetransmissionsAreSpaced == Spec => RetransmissionSpacing
<1>1. Init => AnswerTimeInv /\ RetryInv
  BY ProtocolHandlerAssumption DEF Init, AnswerTimeInv, RetryInv,
                                   HeadTransmitted
<1>2. IndInv /\ AnswerTimeInv /\ RetryInv /\ [Next]_vars
        => AnswerTimeInv' /\ RetryInv'
  BY AnswerTimeInvKept, RetryInvKept
<1>3. IndInv /\ RetryInv /\ [Next]_vars =>
        [\A n \in 1 .. Len(log) :
           log'[n].sends # log[n].sends /\ log[n].sends > 0
               /\ Written(Head(outgoing_messages).write) =>
             /\ last_request.at + Head(outgoing_messages).retry_interval
                  <= MaxLag
             /\ last_request.at + last_request.timeout < MaxLag]_vars
  <2> SUFFICES ASSUME IndInv, RetryInv, Next, NEW n \in 1 .. Len(log),
                      log'[n].sends # log[n].sends, log[n].sends > 0,
                      Written(Head(outgoing_messages).write)
               PROVE  /\ last_request.at
                           + Head(outgoing_messages).retry_interval <= MaxLag
                      /\ AnswerOverdue
    BY DEF AnswerOverdue
  <2> DEFINE item == Head(outgoing_messages)
  <2>1. SendNext
    BY OnlySendNextTransmits DEF RequestWritten
  <2>2. QueueOK /\ HandlerInItsState
    BY DEF IndInv
  <2>3. state = "IDLE"
    BY OnlySendNextTransmits DEF RequestWritten
  <2>4. /\ outgoing_messages # <<>>
        /\ retry_time_point <= 0
    BY <2>1, ClockTypes DEF SendNext, ReadyToSend, Reached
  <2>5. n = item.id
    <3>1. log \in Seq(LogEntry)
      BY <2>2 DEF QueueOK
    <3>2. ASSUME n # item.id, Discard
          PROVE  log'[n] = log[n]
      BY <3>1, <3>2 DEF Discard, Settled
    <3>3. ASSUME n # item.id, Transmit
          PROVE  log'[n] = log[n]
      <4>1. CASE WriteFails(item)
        BY <3>1, <3>3, <4>1 DEF WriteFails
      <4>2. CASE SendsWithoutAnswer(item)
        <5>1. log' = [log EXCEPT ![item.id].sends = @ + 1,
                                 ![item.id].outcome = "sent"]
          BY <4>2 DEF SendsWithoutAnswer
        <5>2. n \in DOMAIN log
          BY <3>1
        <5> HIDE DEF item
        <5>3. QED BY <3>3, <5>1, <5>2, OtherEntries
      <4>3. CASE SendsRequest(item)
        BY <3>1, <3>3, <4>3 DEF SendsRequest
      <4>4. QED BY <3>3, <4>1, <4>2, <4>3 DEF Transmit
    <3>4. QED BY <2>1, <3>2, <3>3 DEF SendNext
  <2>6. HeadTransmitted
    BY <2>4, <2>5 DEF HeadTransmitted
  <2>7. RetryTimeOf(item.retry_interval) /\ AnswerOverdue
    BY <2>3, <2>6 DEF RetryInv
  <2>8. item.retry_interval \in Nat
    BY <2>2, <2>4, HeadOfQueue, ItemFields
  <2>9. /\ last_request.at \in Int /\ MaxLag \in Nat
        /\ retry_time_point \in Int
    BY ClockTypes
  <2>10. \/ last_request.at + item.retry_interval
              <= retry_time_point + MaxLag
         \/ last_request.at + item.retry_interval < 0
    BY <2>7 DEF RetryTimeOf
  <2> HIDE DEF item
  <2>11. last_request.at + item.retry_interval <= MaxLag
    BY <2>4, <2>8, <2>9, <2>10
  <2>12. QED BY <2>7, <2>11 DEF item
<1>4. QED BY <1>1, <1>2, <1>3, Invariance, PTL
          DEF Spec, RetransmissionSpacing

-----------------------------------------------------------------------------
(***************************************************************************)
(* Answers.  A cooldown that outlasts the device leaves no message of an   *)
(* earlier write unanswered when the next one is written.                  *)
(***************************************************************************)
CooldownOutlastsDevice ==
    /\ MaxAnswerDelay < DEFAULT_COOLDOWN_INTERVAL
    /\ \A c \in CooldownIntervals : MaxAnswerDelay < c
    /\ MaxAnswerDelay + MaxLag < Horizon

\* What the device still has was written at the last write or before, and
\* not longer ago than the device takes.
FlightOf(s, at) ==
    \A i \in 1 .. Len(s) :
        /\ s[i].age <= MaxAnswerDelay
        /\ s[i].age + at >= 0

FlightInv ==
    /\ MaxAnswerDelay < cooldown_interval
    /\ in_flight # <<>> => MaxAnswerDelay < last_write.cooldown
    /\ FlightOf(in_flight, last_write.at)

LEMMA FlightTypes ==
    ASSUME IndInv
    PROVE  /\ MaxAnswerDelay \in Nat
           /\ in_flight \in Seq([message: Message, age: Nat])
           /\ incoming \in Seq(Nat)
           /\ Len(in_flight) \in Nat
           /\ Len(incoming) \in Nat
           /\ last_write \in [at: Ago, cooldown: 0 .. Horizon - 1]
           /\ frame \in Int
           /\ last_message_type \in Nat
BY ProtocolHandlerAssumption DEF IndInv, TypeOK

\* Which steps concern the messages that the device has.
LEMMA FlightSteps ==
    ASSUME [Next]_vars
    PROVE  \/ Tick
           \/ Transmit /\ UNCHANGED cooldown_interval
           \/ /\ WriteMessage
              /\ UNCHANGED <<in_flight, cooldown_interval>>
           \/ /\ in_flight # <<>>
              /\ in_flight' = Tail(in_flight)
              /\ UNCHANGED <<last_write, cooldown_interval>>
           \/ /\ UNCHANGED <<in_flight, last_write>>
              /\ cooldown_interval' \in CooldownIntervals
                                          \union {cooldown_interval}
<1>1. Application =>
        /\ UNCHANGED <<in_flight, last_write>>
        /\ cooldown_interval' \in CooldownIntervals \union {cooldown_interval}
  BY DEF Application, SendMessage, SendMessageWithoutAnswer, Enqueue,
         SetAnswerTimeout, SetCooldownInterval
<1>2. Answering =>
        WriteMessage /\ UNCHANGED <<in_flight, cooldown_interval>>
  BY DEF Answering, SendAnswer
<1>3. Device =>
        /\ in_flight # <<>>
        /\ in_flight' = Tail(in_flight)
        /\ UNCHANGED <<last_write, cooldown_interval>>
  BY DEF Device, DeviceAnswers, DeviceStaysSilent, DeviceUnchanged
<1>4. NoAnswer \/ DeviceRequests \/ UNCHANGED vars =>
        UNCHANGED <<in_flight, last_write, cooldown_interval>>
  BY DEF NoAnswer, DeviceRequests, DeviceUnchanged, vars
<1>5. Loop \/ HandlerReturns =>
        /\ UNCHANGED cooldown_interval
        /\ Transmit \/ UNCHANGED <<in_flight, last_write>>
  BY DEF Loop, LoopDispatch, LoopSend, LoopRetry, LoopTimeout, LoopAnswer,
         HandlerReturns, MessageHandlerReturns, TimeoutHandlerReturns,
         AnswerHandlerReturns, SendNext, Discard
<1>6. QED BY <1>1, <1>2, <1>3, <1>4, <1>5 DEF Next

LEMMA FlightInvKept ==
    ASSUME IndInv, CooldownOutlastsDevice, FlightInv, [Next]_vars
    PROVE  FlightInv'
<1>1. /\ MaxAnswerDelay \in Nat
      /\ in_flight \in Seq([message: Message, age: Nat])
      /\ last_write \in [at: Ago, cooldown: 0 .. Horizon - 1]
      /\ Len(in_flight) \in Nat
  BY FlightTypes
<1>2. ASSUME NEW i \in 1 .. Len(in_flight)
      PROVE  /\ in_flight[i] \in [message: Message, age: Nat]
             /\ in_flight[i].age \in Nat
  <2>1. in_flight[i] \in [message: Message, age: Nat]
    BY <1>1, ElementOfSeq
  <2>2. QED BY <2>1
<1>3. CASE Tick
  <2>1. /\ \A i \in 1 .. Len(in_flight) : in_flight[i].age < MaxAnswerDelay
        /\ in_flight' = [i \in 1 .. Len(in_flight) |->
                           [in_flight[i] EXCEPT !.age = @ + 1]]
        /\ last_write' = [last_write EXCEPT !.at = Aged(@, -Horizon)]
        /\ UNCHANGED cooldown_interval
    BY <1>3 DEF Tick
  <2>2. /\ last_write'.at = Aged(last_write.at, -Horizon)
        /\ last_write'.cooldown = last_write.cooldown
    BY <1>1, <2>1
  <2>3. /\ last_write.at \in Int
        /\ last_write'.at >= last_write.at - 1
        /\ last_write'.at \in Int
    BY <2>2, ClockTypes DEF Aged
  <2>4. Len(in_flight') = Len(in_flight) /\ (in_flight' # <<>> => in_flight # <<>>)
    BY <1>1, <2>1
  <2>5. ASSUME NEW i \in 1 .. Len(in_flight')
        PROVE  /\ in_flight'[i].age <= MaxAnswerDelay
               /\ in_flight'[i].age + last_write'.at >= 0
    <3>1. i \in 1 .. Len(in_flight)
      BY <2>4
    <3>2. in_flight'[i].age = in_flight[i].age + 1
      BY <1>2, <2>1, <3>1
    <3>3. /\ in_flight[i].age \in Nat
          /\ in_flight[i].age < MaxAnswerDelay
          /\ in_flight[i].age + last_write.at >= 0
      BY <1>2, <2>1, <3>1 DEF FlightInv, FlightOf
    <3> DEFINE age == in_flight[i].age
               at  == last_write.at
    <3>4. /\ age \in Int /\ age < MaxAnswerDelay /\ age + at >= 0
          /\ at \in Int /\ last_write'.at >= at - 1
          /\ last_write'.at \in Int /\ MaxAnswerDelay \in Int
          /\ in_flight'[i].age = age + 1
      BY <1>1, <2>3, <3>2, <3>3
    <3> HIDE DEF age, at
    <3>5. QED BY <3>4
  <2>6. FlightOf(in_flight, last_write.at)'
    BY <2>5 DEF FlightOf
  <2>7. QED BY <2>1, <2>2, <2>4, <2>6 DEF FlightInv
<1>4. ASSUME WriteMessage
      PROVE  /\ last_write'.at = 0
             /\ last_write'.cooldown = cooldown_interval
  BY <1>4 DEF WriteMessage
\* At a write, what the device already has is not younger than that write.
<1>5. FlightOf(in_flight, 0)
  <2> SUFFICES ASSUME NEW i \in 1 .. Len(in_flight)
               PROVE  /\ in_flight[i].age <= MaxAnswerDelay
                      /\ in_flight[i].age + 0 >= 0
    BY DEF FlightOf
  <2>1. in_flight[i].age \in Nat
    BY <1>2
  <2>2. in_flight[i].age <= MaxAnswerDelay
    BY DEF FlightInv, FlightOf
  <2>3. QED BY <2>1, <2>2
<1>6. CASE WriteMessage /\ UNCHANGED <<in_flight, cooldown_interval>>
  <2>1. FlightOf(in_flight', last_write'.at)
    BY <1>4, <1>5, <1>6
  <2>2. QED BY <1>4, <1>6, <2>1 DEF FlightInv
<1>7. CASE Transmit /\ UNCHANGED cooldown_interval
  <2> DEFINE new == [message |-> Head(outgoing_messages).id, age |-> 0]
  <2>1. /\ WriteMessage
        /\ in_flight' = in_flight \/ in_flight' = Append(in_flight, new)
    BY <1>7 DEF Transmit
  <2>2. CASE in_flight' = in_flight
    BY <1>6, <1>7, <2>1, <2>2
  <2>3. CASE in_flight' = Append(in_flight, new)
    <3>1. new.age = 0
      OBVIOUS
    <3> HIDE DEF new
    <3>2. ASSUME NEW i \in 1 .. Len(in_flight')
          PROVE  in_flight'[i].age <= MaxAnswerDelay
                   /\ in_flight'[i].age + 0 >= 0
      <4>1. \/ i \in 1 .. Len(in_flight) /\ in_flight'[i] = in_flight[i]
            \/ in_flight'[i] = new
        BY <1>1, <2>3
      <4>2. CASE in_flight'[i] = new
        BY <1>1, <3>1, <4>2
      <4>3. CASE i \in 1 .. Len(in_flight) /\ in_flight'[i] = in_flight[i]
        BY <1>5, <4>3 DEF FlightOf
      <4>4. QED BY <4>1, <4>2, <4>3
    <3>3. FlightOf(in_flight', last_write'.at)
      BY <1>4, <2>1, <3>2 DEF FlightOf
    <3>4. QED BY <1>4, <1>7, <2>1, <3>3 DEF FlightInv
  <2>4. QED BY <2>1, <2>2, <2>3
<1>8. CASE /\ in_flight # <<>>
           /\ in_flight' = Tail(in_flight)
           /\ UNCHANGED <<last_write, cooldown_interval>>
  <2>1. ASSUME NEW i \in 1 .. Len(in_flight')
        PROVE  /\ i + 1 \in 1 .. Len(in_flight)
               /\ in_flight'[i] = in_flight[i + 1]
    BY <1>1, <1>8
  <2>2. FlightOf(in_flight', last_write'.at)
    BY <1>8, <2>1 DEF FlightInv, FlightOf
  <2>3. QED BY <1>8, <2>2 DEF FlightInv
<1>9. CASE /\ UNCHANGED <<in_flight, last_write>>
           /\ cooldown_interval' \in CooldownIntervals
                                       \union {cooldown_interval}
  BY <1>9 DEF FlightInv, CooldownOutlastsDevice
<1>10. QED BY <1>3, <1>6, <1>7, <1>8, <1>9, FlightSteps

\* When the cooldown is over, the device has answered, or it never will.
LEMMA CooldownMeansSilence ==
    ASSUME IndInv, CooldownInv, FlightInv, CooldownOutlastsDevice,
           Reached(cooldown_time_point)
    PROVE  in_flight = <<>>
<1> SUFFICES ASSUME in_flight # <<>>
             PROVE  FALSE
  OBVIOUS
<1>1. 1 \in 1 .. Len(in_flight)
  BY FlightTypes
<1>2. in_flight[1].age <= MaxAnswerDelay /\ in_flight[1].age + last_write.at >= 0
  BY <1>1 DEF FlightInv, FlightOf
<1>3. in_flight[1].age \in Nat /\ MaxAnswerDelay \in Nat
  <2>1. in_flight[1] \in [message: Message, age: Nat]
    BY <1>1, FlightTypes, ElementOfSeq
  <2>2. QED BY <2>1, FlightTypes
<1>4. MaxAnswerDelay < last_write.cooldown
  BY DEF FlightInv
<1>5. /\ last_write.at \in Int /\ Horizon \in Nat /\ MaxLag \in Nat
      /\ last_write.cooldown \in Int /\ last_write.cooldown <= Horizon - 1
      /\ cooldown_time_point \in Int /\ lag \in Nat
  BY ClockTypes
<1>6. last_write.at + last_write.cooldown <= 0
  <2>1. cooldown_time_point <= 0 /\ Past <= 0 /\ Past \in Int
    BY <1>5 DEF Reached, Past
  <2>2. \/ last_write.at + last_write.cooldown <= cooldown_time_point
        \/ last_write.at + last_write.cooldown <= Past
        \/ last_write.at = -Horizon
    BY DEF CooldownInv
  <2>3. QED BY <1>5, <2>1, <2>2
<1> DEFINE age == in_flight[1].age
           at  == last_write.at
           cd  == last_write.cooldown
<1>7. /\ age <= MaxAnswerDelay /\ age + at >= 0
      /\ age \in Int /\ at \in Int /\ cd \in Int
      /\ MaxAnswerDelay \in Int /\ MaxAnswerDelay < cd
      /\ at + cd <= 0
  BY <1>2, <1>3, <1>4, <1>5, <1>6
<1> HIDE DEF age, at, cd
<1>8. QED BY <1>7

(***************************************************************************)
(* What arrives while a message handler runs answers a write that is not   *)
(* longer ago than the device takes, counted back from the `now' that loop *)
(* goes on using; and while an answer is awaited, everything on its way    *)
(* answers the last request.                                               *)
(***************************************************************************)
HasAnswer(frames) == \E i \in 1 .. Len(frames) : frames[i] \in Message

HandlerFrames ==
    callback = "message_handler" /\ HasAnswer(incoming) =>
        /\ last_write.at + MaxAnswerDelay + lag >= 0
        /\ MaxAnswerDelay < last_write.cooldown

OwnFrames ==
    state = "WAITING_FOR_ANSWER" =>
        /\ \A i \in 1 .. Len(incoming) :
             incoming[i] \in Message => incoming[i] = last_message_type
        /\ \A i \in 1 .. Len(in_flight) :
             in_flight[i].message = last_message_type

\* Which steps a message handler sees.
LEMMA HandlerSteps ==
    ASSUME [Next]_vars, callback' = "message_handler"
    PROVE  \/ incoming' = <<>>
           \/ /\ callback = "message_handler"
              /\ \/ Tick
                 \/ /\ lag' = lag
                    /\ \/ WriteMessage /\ UNCHANGED incoming
                       \/ UNCHANGED <<incoming, last_write>>
                       \/ in_flight # <<>> /\ UNCHANGED last_write
                       \/ /\ incoming' = Append(incoming, DeviceRequest)
                          /\ UNCHANGED last_write
<1>1. Application \/ NoAnswer \/ UNCHANGED vars =>
         UNCHANGED <<callback, lag, incoming, last_write>>
  BY DEF Application, SendMessage, SendMessageWithoutAnswer, Enqueue,
         SetAnswerTimeout, SetCooldownInterval, NoAnswer, vars
<1>2. Answering => WriteMessage /\ UNCHANGED <<callback, lag, incoming>>
  BY DEF Answering, SendAnswer
<1>3. Device =>
        in_flight # <<>> /\ UNCHANGED <<callback, lag, last_write>>
  BY DEF Device, DeviceAnswers, DeviceStaysSilent, DeviceUnchanged
<1>4. DeviceRequests =>
        /\ incoming' = Append(incoming, DeviceRequest)
        /\ UNCHANGED <<callback, lag, last_write>>
  BY DEF DeviceRequests, DeviceUnchanged
<1>5. Loop => incoming' = <<>>
  BY DEF Loop, LoopDispatch, LoopSend, LoopRetry, LoopTimeout, LoopAnswer,
         TimedOut, DropAll
<1>6. ~HandlerReturns
  BY DEF HandlerReturns, MessageHandlerReturns, TimeoutHandlerReturns,
         AnswerHandlerReturns
<1>7. Tick => UNCHANGED callback
  BY DEF Tick
<1>8. QED BY <1>1, <1>2, <1>3, <1>4, <1>5, <1>6, <1>7 DEF Next

LEMMA HandlerFramesKept ==
    ASSUME IndInv, CooldownOutlastsDevice, FlightInv, HandlerFrames,
           [Next]_vars
    PROVE  HandlerFrames'
<1> SUFFICES ASSUME callback' = "message_handler", HasAnswer(incoming')
             PROVE  /\ last_write'.at + MaxAnswerDelay + lag' >= 0
                    /\ MaxAnswerDelay < last_write'.cooldown
  BY DEF HandlerFrames
<1>1. /\ MaxAnswerDelay \in Nat
      /\ incoming \in Seq(Nat)
      /\ Len(incoming) \in Nat
      /\ last_write \in [at: Ago, cooldown: 0 .. Horizon - 1]
  BY FlightTypes
<1>2. last_write.at \in Int /\ lag \in Nat /\ MaxLag \in Nat
  BY ClockTypes
<1>3. incoming' # <<>>
  BY DEF HasAnswer
<1>4. callback = "message_handler"
  BY <1>3, HandlerSteps
<1>5. CASE Tick
  <2>1. /\ lag' = lag + 1
        /\ UNCHANGED incoming
        /\ last_write' = [last_write EXCEPT !.at = Aged(@, -Horizon)]
    BY <1>4, <1>5 DEF Tick
  <2>2. /\ last_write'.at = Aged(last_write.at, -Horizon)
        /\ last_write'.cooldown = last_write.cooldown
    BY <1>1, <2>1
  <2>3. last_write'.at \in Int /\ last_write'.at >= last_write.at - 1
    BY <1>2, <2>2, ClockTypes DEF Aged
  <2>4. /\ last_write.at + MaxAnswerDelay + lag >= 0
        /\ MaxAnswerDelay < last_write.cooldown
    BY <1>4, <2>1 DEF HandlerFrames
  <2> DEFINE at == last_write.at
             after == last_write'.at
  <2>5. /\ at \in Int /\ after \in Int /\ after >= at - 1
        /\ at + MaxAnswerDelay + lag >= 0
    BY <1>2, <2>3, <2>4
  <2> HIDE DEF at, after
  <2>6. after + MaxAnswerDelay + (lag + 1) >= 0
    BY <1>1, <1>2, <2>5
  <2>7. QED BY <2>1, <2>2, <2>4, <2>6 DEF after
<1>6. CASE WriteMessage /\ lag' = lag
  <2>1. last_write'.at = 0 /\ last_write'.cooldown = cooldown_interval
    BY <1>6 DEF WriteMessage
  <2>2. MaxAnswerDelay < cooldown_interval
    BY DEF FlightInv
  <2>3. QED BY <1>1, <1>2, <1>6, <2>1, <2>2
<1>7. CASE UNCHANGED <<incoming, last_write, lag>>
  BY <1>4, <1>7 DEF HandlerFrames
<1>8. CASE in_flight # <<>> /\ UNCHANGED <<last_write, lag>>
  <2>1. 1 \in 1 .. Len(in_flight)
    BY <1>8, FlightTypes
  <2>2. /\ in_flight[1].age <= MaxAnswerDelay
        /\ in_flight[1].age + last_write.at >= 0
    BY <2>1 DEF FlightInv, FlightOf
  <2>3. in_flight[1].age \in Int
    <3>1. in_flight[1] \in [message: Message, age: Nat]
      BY <2>1, FlightTypes, ElementOfSeq
    <3>2. QED BY <3>1
  <2> DEFINE age == in_flight[1].age
             at  == last_write.at
  <2>4. /\ age \in Int /\ age <= MaxAnswerDelay /\ age + at >= 0
        /\ at \in Int
    BY <1>2, <2>2, <2>3
  <2> HIDE DEF age, at
  <2>5. at + MaxAnswerDelay + lag >= 0
    BY <1>1, <1>2, <2>4
  <2>6. MaxAnswerDelay < last_write.cooldown
    BY <1>8 DEF FlightInv
  <2>7. QED BY <1>8, <2>5, <2>6 DEF at
<1>9. CASE /\ incoming' = Append(incoming, DeviceRequest)
           /\ UNCHANGED <<last_write, lag>>
  <2>1. PICK i \in 1 .. Len(incoming') : incoming'[i] \in Message
    BY DEF HasAnswer
  <2>2. DeviceRequest \notin Message
    BY DEF DeviceRequest, Message
  <2>3. \/ i \in 1 .. Len(incoming) /\ incoming'[i] = incoming[i]
        \/ incoming'[i] = DeviceRequest
    BY <1>1, <1>9
  <2>4. i \in 1 .. Len(incoming) /\ incoming[i] \in Message
    BY <2>1, <2>2, <2>3
  <2>5. HasAnswer(incoming)
    BY <2>4 DEF HasAnswer
  <2>6. QED BY <1>4, <1>9, <2>5 DEF HandlerFrames
<1>10. QED BY <1>3, <1>5, <1>6, <1>7, <1>8, <1>9, HandlerSteps

\* A handler that returns when the cooldown is over, by the `now' from
\* before it ran, saw no answer arrive.
LEMMA NoAnswerAtWrite ==
    ASSUME IndInv, CooldownOutlastsDevice, CooldownInv, HandlerFrames,
           callback = "message_handler", Reached(cooldown_time_point)
    PROVE  ~HasAnswer(incoming)
<1> SUFFICES ASSUME HasAnswer(incoming)
             PROVE  FALSE
  OBVIOUS
<1> DEFINE at == last_write.at
           cd == last_write.cooldown
           t  == cooldown_time_point
<1>1. /\ at \in Int /\ cd \in Int /\ t \in Int
      /\ lag \in 0 .. MaxLag /\ MaxLag \in Nat /\ Horizon \in Nat
      /\ MaxAnswerDelay \in Nat
  BY ClockTypes, FlightTypes
<1>2. at + cd <= t \/ at + cd <= Past \/ at = -Horizon
  BY DEF CooldownInv
<1>3. t <= -lag
  BY DEF Reached
<1>4. at + MaxAnswerDelay + lag >= 0 /\ MaxAnswerDelay < cd
  BY DEF HandlerFrames
<1>5. MaxAnswerDelay + MaxLag < Horizon
  BY DEF CooldownOutlastsDevice
<1> HIDE DEF at, cd, t
<1>6. Past <= -lag /\ Past \in Int
  BY <1>1 DEF Past
<1>7. CASE at + cd <= -lag
  BY <1>1, <1>4, <1>7
<1>8. CASE at = -Horizon
  BY <1>1, <1>4, <1>5, <1>8
<1>9. QED BY <1>1, <1>2, <1>3, <1>6, <1>7, <1>8

\* Which steps lead to, or stay in, the wait for an answer.
LEMMA WaitingSteps ==
    ASSUME IndInv, [Next]_vars, state' = "WAITING_FOR_ANSWER"
    PROVE  \/ /\ SendNext
              /\ SendsRequest(Head(outgoing_messages))
              /\ Transmit
              /\ UNCHANGED incoming
              /\ incoming = <<>> \/ callback = "message_handler"
           \/ /\ state = "WAITING_FOR_ANSWER"
              /\ UNCHANGED last_message_type
              /\ \/ Tick
                 \/ /\ in_flight # <<>>
                    /\ in_flight' = Tail(in_flight)
                    /\ incoming' \in
                         {incoming,
                          Append(incoming, Head(in_flight).message)}
                 \/ /\ UNCHANGED in_flight
                    /\ \/ UNCHANGED incoming
                       \/ incoming' = Append(incoming, DeviceRequest)
                       \/ incoming # <<>> /\ incoming' = Tail(incoming)
<1>1. Application \/ NoAnswer \/ Answering \/ UNCHANGED vars =>
         UNCHANGED <<state, last_message_type, incoming, in_flight>>
  BY DEF Application, SendMessage, SendMessageWithoutAnswer, Enqueue,
         SetAnswerTimeout, SetCooldownInterval, NoAnswer, Answering,
         SendAnswer, vars
<1>2. Device =>
        /\ UNCHANGED <<state, last_message_type>>
        /\ in_flight # <<>>
        /\ in_flight' = Tail(in_flight)
        /\ incoming' \in {incoming, Append(incoming, Head(in_flight).message)}
  BY DEF Device, DeviceAnswers, DeviceStaysSilent, DeviceUnchanged
<1>3. DeviceRequests =>
        /\ UNCHANGED <<state, last_message_type, in_flight>>
        /\ incoming' = Append(incoming, DeviceRequest)
  BY DEF DeviceRequests, DeviceUnchanged
<1>4. Tick => UNCHANGED <<state, last_message_type>>
  BY DEF Tick
<1>5. ASSUME SendNext, state = "IDLE"
      PROVE  Transmit /\ SendsRequest(Head(outgoing_messages))
  <2>1. ~Discard
    BY <1>5 DEF Discard
  <2>2. ~WriteFails(Head(outgoing_messages))
    BY <1>5 DEF WriteFails
  <2>3. ~SendsWithoutAnswer(Head(outgoing_messages))
    BY <1>5 DEF SendsWithoutAnswer
  <2>4. QED BY <1>5, <2>1, <2>2, <2>3 DEF SendNext, Transmit
<1>6. CASE LoopSend
  BY <1>5, <1>6 DEF LoopSend
<1>7. CASE MessageHandlerReturns
  <2>1. callback = "message_handler" /\ UNCHANGED incoming
    BY <1>7 DEF MessageHandlerReturns
  <2>2. state = "IDLE"
    BY <2>1 DEF IndInv, HandlerInItsState
  <2>3. SendNext
    BY <1>7, <2>2 DEF MessageHandlerReturns
  <2>4. QED BY <1>5, <2>1, <2>2, <2>3
<1>8. Loop =>
        \/ LoopSend
        \/ /\ state = "WAITING_FOR_ANSWER"
           /\ UNCHANGED <<last_message_type, in_flight>>
           /\ \/ UNCHANGED incoming
              \/ incoming # <<>> /\ incoming' = Tail(incoming)
  BY DEF Loop, LoopDispatch, LoopRetry, LoopTimeout, LoopAnswer, TimedOut,
         BecomeIdle
<1>9. HandlerReturns => MessageHandlerReturns
  BY DEF HandlerReturns, TimeoutHandlerReturns, AnswerHandlerReturns,
         BecomeIdle
<1>10. QED BY <1>1, <1>2, <1>3, <1>4, <1>6, <1>7, <1>8, <1>9 DEF Next

LEMMA OwnFramesKept ==
    ASSUME IndInv, CooldownOutlastsDevice, CooldownInv, FlightInv,
           HandlerFrames, OwnFrames, [Next]_vars
    PROVE  OwnFrames'
<1> SUFFICES ASSUME state' = "WAITING_FOR_ANSWER"
             PROVE  /\ \A i \in 1 .. Len(incoming') :
                         incoming'[i] \in Message =>
                           incoming'[i] = last_message_type'
                    /\ \A i \in 1 .. Len(in_flight') :
                         in_flight'[i].message = last_message_type'
  BY DEF OwnFrames
<1>1. /\ incoming \in Seq(Nat)
      /\ Len(incoming) \in Nat
      /\ in_flight \in Seq([message: Message, age: Nat])
      /\ Len(in_flight) \in Nat
  BY FlightTypes
<1>2. CASE /\ SendNext
           /\ SendsRequest(Head(outgoing_messages))
           /\ Transmit
           /\ UNCHANGED incoming
           /\ incoming = <<>> \/ callback = "message_handler"
  <2> DEFINE id == Head(outgoing_messages).id
             new == [message |-> id, age |-> 0]
  <2>1. Reached(cooldown_time_point)
    BY <1>2 DEF SendNext, ReadyToSend
  <2>2. in_flight = <<>>
    BY <2>1, CooldownMeansSilence
  <2>3. ~HasAnswer(incoming)
    BY <1>1, <1>2, <2>1, NoAnswerAtWrite DEF HasAnswer
  <2>4. last_message_type' = id
    BY <1>2 DEF SendsRequest
  <2>5. in_flight' = in_flight \/ in_flight' = Append(in_flight, new)
    BY <1>2 DEF Transmit
  <2>6. new.message = id
    OBVIOUS
  <2> HIDE DEF id, new
  <2>7. ASSUME NEW i \in 1 .. Len(in_flight')
        PROVE  in_flight'[i] = new
    BY <2>2, <2>5
  <2>8. QED BY <1>2, <2>3, <2>4, <2>6, <2>7 DEF HasAnswer
<1> SUFFICES ASSUME state = "WAITING_FOR_ANSWER",
                    UNCHANGED last_message_type
             PROVE  /\ \A i \in 1 .. Len(incoming') :
                         incoming'[i] \in Message =>
                           incoming'[i] = last_message_type
                    /\ \A i \in 1 .. Len(in_flight') :
                         in_flight'[i].message = last_message_type
  BY <1>2, WaitingSteps
<1>3. /\ \A i \in 1 .. Len(incoming) :
           incoming[i] \in Message => incoming[i] = last_message_type
      /\ \A i \in 1 .. Len(in_flight) :
           in_flight[i].message = last_message_type
  BY DEF OwnFrames
<1>4. CASE Tick
  <2>1. /\ UNCHANGED incoming
        /\ in_flight' = [i \in 1 .. Len(in_flight) |->
                           [in_flight[i] EXCEPT !.age = @ + 1]]
    BY <1>4 DEF Tick
  <2>2. ASSUME NEW i \in 1 .. Len(in_flight')
        PROVE  in_flight'[i].message = last_message_type
    <3>1. i \in 1 .. Len(in_flight)
      BY <1>1, <2>1
    <3>2. in_flight[i] \in [message: Message, age: Nat]
      BY <1>1, <3>1, ElementOfSeq
    <3>3. in_flight'[i] = [in_flight[i] EXCEPT !.age = @ + 1]
      BY <2>1, <3>1
    <3>4. in_flight'[i].message = in_flight[i].message
      BY <3>2, <3>3
    <3>5. QED BY <1>3, <3>1, <3>4
  <2>3. QED BY <1>3, <2>1, <2>2
<1>5. CASE /\ in_flight # <<>>
           /\ in_flight' = Tail(in_flight)
           /\ incoming' \in
                {incoming, Append(incoming, Head(in_flight).message)}
  <2>1. ASSUME NEW i \in 1 .. Len(in_flight')
        PROVE  in_flight'[i].message = last_message_type
    <3>1. i + 1 \in 1 .. Len(in_flight) /\ in_flight'[i] = in_flight[i + 1]
      BY <1>1, <1>5
    <3>2. QED BY <1>3, <3>1
  <2>2. Head(in_flight).message = last_message_type
    BY <1>1, <1>3, <1>5
  <2>3. ASSUME NEW i \in 1 .. Len(incoming'), incoming'[i] \in Message
        PROVE  incoming'[i] = last_message_type
    <3>1. \/ i \in 1 .. Len(incoming) /\ incoming'[i] = incoming[i]
          \/ incoming'[i] = Head(in_flight).message
      BY <1>1, <1>5
    <3>2. QED BY <1>3, <2>2, <2>3, <3>1
  <2>4. QED BY <2>1, <2>3
<1>6. CASE /\ UNCHANGED in_flight
           /\ \/ UNCHANGED incoming
              \/ incoming' = Append(incoming, DeviceRequest)
              \/ incoming # <<>> /\ incoming' = Tail(incoming)
  <2>1. DeviceRequest \notin Message
    BY DEF DeviceRequest, Message
  <2>2. ASSUME NEW i \in 1 .. Len(incoming'), incoming'[i] \in Message
        PROVE  incoming'[i] = last_message_type
    <3>1. CASE UNCHANGED incoming
      BY <1>3, <2>2, <3>1
    <3>2. CASE incoming' = Append(incoming, DeviceRequest)
      <4>1. \/ i \in 1 .. Len(incoming) /\ incoming'[i] = incoming[i]
            \/ incoming'[i] = DeviceRequest
        BY <1>1, <3>2
      <4>2. QED BY <1>3, <2>1, <2>2, <4>1
    <3>3. CASE incoming # <<>> /\ incoming' = Tail(incoming)
      <4>1. i + 1 \in 1 .. Len(incoming) /\ incoming'[i] = incoming[i + 1]
        BY <1>1, <3>3
      <4>2. QED BY <1>3, <2>2, <4>1
    <3>4. QED BY <1>6, <3>1, <3>2, <3>3
  <2>3. QED BY <1>3, <1>6, <2>2
<1>7. QED BY <1>4, <1>5, <1>6, <1>2, WaitingSteps

LEMMA AnswerKept ==
    ASSUME IndInv, OwnFrames, AnswerMatchesRequest, [Next]_vars
    PROVE  AnswerMatchesRequest'
<1> SUFFICES ASSUME callback' = "answer_handler", frame' \in Message
             PROVE  frame' = last_message_type'
  BY DEF AnswerMatchesRequest
<1>1. CASE LoopAnswer
  <2>1. /\ state = "WAITING_FOR_ANSWER"
        /\ incoming # <<>>
        /\ frame' = Head(incoming)
        /\ UNCHANGED last_message_type
    BY <1>1 DEF LoopAnswer
  <2>2. 1 \in 1 .. Len(incoming) /\ Head(incoming) = incoming[1]
    BY <2>1, FlightTypes
  <2>3. QED BY <2>1, <2>2 DEF OwnFrames
<1>2. CASE UNCHANGED <<callback, frame, last_message_type>>
  BY <1>2 DEF AnswerMatchesRequest
<1>3. Application \/ NoAnswer \/ Answering \/ Device \/ DeviceRequests
         \/ Tick \/ UNCHANGED vars =>
            UNCHANGED <<callback, frame, last_message_type>>
  BY DEF Application, SendMessage, SendMessageWithoutAnswer, Enqueue,
         SetAnswerTimeout, SetCooldownInterval, NoAnswer, Answering,
         SendAnswer, Device, DeviceAnswers, DeviceStaysSilent,
         DeviceRequests, DeviceUnchanged, Tick, vars
<1>4. Loop => LoopAnswer
  BY DEF Loop, LoopDispatch, LoopSend, LoopRetry, LoopTimeout, TimedOut
<1>5. ~HandlerReturns
  BY DEF HandlerReturns, MessageHandlerReturns, TimeoutHandlerReturns,
         AnswerHandlerReturns
<1>6. QED BY <1>1, <1>2, <1>3, <1>4, <1>5 DEF Next

AnswerInv ==
    /\ CooldownInv
    /\ FlightInv
    /\ HandlerFrames
    /\ OwnFrames
    /\ AnswerMatchesRequest

(***************************************************************************)
(* If the cooldown is longer than the device takes to answer, an answer    *)
(* never reaches the handler of another request, however long the handlers *)
(* of the application run and whatever is lost or comes unasked.           *)
(***************************************************************************)
THEOREM AnswersMatch ==
    ASSUME CooldownOutlastsDevice
    PROVE  Spec => []AnswerMatchesRequest
<1>1. Init => AnswerInv
  BY DEF Init, AnswerInv, CooldownInv, FlightInv, FlightOf, HandlerFrames,
         OwnFrames, AnswerMatchesRequest, CooldownOutlastsDevice
<1>2. IndInv /\ AnswerInv /\ [Next]_vars => AnswerInv'
  BY CooldownInvKept, FlightInvKept, HandlerFramesKept, OwnFramesKept,
     AnswerKept DEF AnswerInv
<1>3. AnswerInv => AnswerMatchesRequest
  BY DEF AnswerInv
<1>4. QED BY <1>1, <1>2, <1>3, Invariance, PTL DEF Spec
=============================================================================
