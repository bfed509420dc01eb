---------------------------- MODULE LedgerProofs ----------------------------
(***************************************************************************)
(* ProtocolHandler implements MessageLedger: under the refinement mapping  *)
(* of ProtocolHandler, which keeps the log and takes for the awaited       *)
(* message the head of the queue while loop() waits, every step of the     *)
(* handler is a step of the ledger or leaves the ledger as it is.          *)
(***************************************************************************)
EXTENDS ProtocolHandlerProofs

-----------------------------------------------------------------------------
\* The head of the queue is the message whose turn it is in the ledger.
LEMMA HeadIsFirst ==
    ASSUME QueueOK, outgoing_messages # <<>>
    PROVE  /\ Head(outgoing_messages).id \in 1 .. Len(log)
           /\ Ledger!FirstUndecided(Head(outgoing_messages).id)
<1> DEFINE h == Head(outgoing_messages).id
<1>1. /\ h = Len(log) - Len(outgoing_messages) + 1
      /\ h \in 1 .. Len(log)
      /\ log[h].outcome = "queued"
      /\ Len(outgoing_messages) \in Nat \ {0}
      /\ Len(log) \in Nat
  BY HeadOfQueue
<1> HIDE DEF h
<1>2. \A k \in 1 .. h - 1 : log[k].outcome # "queued"
  <2> SUFFICES ASSUME NEW k \in 1 .. h - 1
               PROVE  log[k].outcome # "queued"
    OBVIOUS
  <2>1. k \in 1 .. Len(log) /\ ~(k > Len(log) - Len(outgoing_messages))
    BY <1>1
  <2>2. QED BY <2>1 DEF QueueOK, QueueIsSuffix
<1>3. QED BY <1>1, <1>2 DEF h, Ledger!FirstUndecided

\* The fields of the head and of its log entry, as numbers.
LEMMA HeadInLog ==
    ASSUME QueueOK, outgoing_messages # <<>>
    PROVE  LET item == Head(outgoing_messages)
               m    == log[item.id]
           IN  /\ item.id \in Nat \ {0}
               /\ item.number_of_retries \in Nat
               /\ m.sends \in Nat
               /\ m.budget \in Nat
               /\ m.expects = ~item.no_answer
               /\ OnWire(item.write) =>
                    m.sends + item.number_of_retries = m.budget
               /\ ~OnWire(item.write) => m.sends = 0
               /\ item.no_answer => m.budget = 1
<1> DEFINE item == Head(outgoing_messages)
           m    == log[item.id]
<1>1. /\ item \in OutgoingQueueItem
      /\ m \in LogEntry
      /\ ItemAgreesWith(item, m)
  BY HeadOfQueue
<1>2. item.id \in 1 .. Len(log) /\ Len(log) \in Nat
  BY HeadOfQueue
<1>3. QED BY <1>1, <1>2, ItemFields, EntryFields DEF ItemAgreesWith

\* Steps that submit a message.
LEMMA EnqueueIsSubmit ==
    ASSUME IndInv, NEW no_answer \in BOOLEAN,
           NEW retries \in 1 .. MAX_PACKET_RETRIES + 1,
           NEW interval, NEW write,
           no_answer => retries = 1,
           Enqueue(no_answer, retries, interval, write)
    PROVE  Ledger!Submit
<1>1. Awaiting' = Awaiting
  <2>1. UNCHANGED <<state, callback>>
    BY DEF Enqueue, loopVars
  <2>2. CASE state = "WAITING_FOR_ANSWER" /\ callback # "timeout_handler"
    <3>1. outgoing_messages # <<>> /\ outgoing_messages \in Seq(OutgoingQueueItem)
      BY <2>2 DEF IndInv, WaitingForHead, QueueOK
    <3>2. Head(outgoing_messages)' = Head(outgoing_messages)
      BY <3>1 DEF Enqueue
    <3>3. QED BY <2>1, <3>2 DEF Awaiting
  <2>3. CASE ~(state = "WAITING_FOR_ANSWER" /\ callback # "timeout_handler")
    BY <2>1, <2>3 DEF Awaiting
  <2>4. QED BY <2>2, <2>3
<1>2. /\ Len(log) < MaxMessages
      /\ log' = Append(log, [expects |-> ~no_answer, budget |-> retries,
                             sends |-> 0, outcome |-> "queued"])
  BY DEF Enqueue
<1>3. (~no_answer) \in BOOLEAN
  OBVIOUS
<1>4. ~no_answer \/ retries = 1
  OBVIOUS
<1>5. QED BY <1>1, <1>2, <1>3, <1>4 DEF Ledger!Submit

\* The sending half of loop() in IDLE.
LEMMA SendNextRefines ==
    ASSUME IndInv, SendNext, state = "IDLE", callback' = "none"
    PROVE  Ledger!Next \/ UNCHANGED Ledger!vars
<1> DEFINE item == Head(outgoing_messages)
           n    == item.id
<1>1. QueueOK /\ outgoing_messages # <<>>
  BY DEF IndInv, SendNext, ReadyToSend
<1>2. /\ n \in 1 .. Len(log)
      /\ Ledger!FirstUndecided(n)
  BY <1>1, HeadIsFirst
<1>3. /\ n \in Nat \ {0}
      /\ item.number_of_retries \in Nat
      /\ log[n].sends \in Nat
      /\ log[n].budget \in Nat
      /\ log[n].expects = ~item.no_answer
      /\ OnWire(item.write) =>
           log[n].sends + item.number_of_retries = log[n].budget
      /\ ~OnWire(item.write) => log[n].sends = 0
      /\ item.no_answer => log[n].budget = 1
  BY <1>1, HeadInLog
<1>4. Awaiting = 0
  BY DEF Awaiting
<1>5. CASE Transmit
  <2>1. HasRetries(item)
    BY <1>5 DEF Transmit
  <2>2. OnWire(item.write) => log[n].sends < log[n].budget
    BY <1>3, <2>1 DEF HasRetries
  <2>3. CASE WriteFails(item)
    <3>1. Awaiting' = 0
      BY <2>3 DEF WriteFails, Awaiting
    <3>2. CASE OnWire(item.write)
      <4>1. log' = [log EXCEPT ![n].sends = @ + 1]
        BY <2>3, <3>2 DEF WriteFails
      <4>2. Ledger!TransmitRequest(n)
        BY <1>2, <1>4, <2>2, <3>1, <3>2, <4>1 DEF Ledger!TransmitRequest
      <4>3. QED BY <1>2, <4>2 DEF Ledger!Next
    <3>3. CASE ~OnWire(item.write)
      <4>1. log' = [log EXCEPT ![n] = [log[n] EXCEPT !.sends = @]]
        BY <2>3, <3>3 DEF WriteFails
      <4>2. log[n] \in LogEntry /\ log \in Seq(LogEntry)
        BY <1>1, HeadOfQueue DEF QueueOK
      <4>3. [log[n] EXCEPT !.sends = @] = log[n]
        <5>1. ASSUME NEW m \in LogEntry
              PROVE  [m EXCEPT !.sends = @] = m
          BY DEF LogEntry
        <5>2. QED BY <4>2, <5>1
      <4>4. log' = log
        BY <4>1, <4>2, <4>3
      <4>5. QED BY <1>4, <3>1, <4>4 DEF Ledger!vars
    <3>4. QED BY <3>2, <3>3
  <2>4. CASE SendsWithoutAnswer(item)
    <3>1. /\ item.no_answer /\ OnWire(item.write) /\ Awaiting' = 0
          /\ log' = [log EXCEPT ![n].sends = @ + 1, ![n].outcome = "sent"]
      BY <2>4 DEF SendsWithoutAnswer, Written, OnWire, Awaiting
    <3>2. log[n].sends = 0
      BY <1>3, <2>2, <3>1
    <3>3. log' = [log EXCEPT ![n].sends = 1, ![n].outcome = "sent"]
      BY <3>1, <3>2
    <3>4. Ledger!TransmitAndForget(n)
      BY <1>2, <1>3, <1>4, <3>1, <3>2, <3>3 DEF Ledger!TransmitAndForget
    <3>5. QED BY <1>2, <3>4 DEF Ledger!Next
  <2>5. CASE SendsRequest(item)
    <3>1. /\ ~item.no_answer /\ OnWire(item.write)
          /\ state' = "WAITING_FOR_ANSWER"
          /\ log' = [log EXCEPT ![n].sends = @ + 1]
      BY <2>5 DEF SendsRequest, Written, OnWire
    <3>2. Head(outgoing_messages)'.id = n
      <4>1. item \in OutgoingQueueItem /\ Len(outgoing_messages) \in Nat \ {0}
        BY <1>1, HeadOfQueue
      <4>2. Spent(item).id = n
        BY <2>1, <4>1, SpentItem
      <4>3. Head(outgoing_messages)' = Spent(item)
        <5>1. Spent(item) \in OutgoingQueueItem
          BY <2>1, <4>1, SpentItem
        <5>2. /\ outgoing_messages' \in Seq(OutgoingQueueItem)
              /\ Len(outgoing_messages') = Len(outgoing_messages)
              /\ outgoing_messages'[1] = Spent(item)
          BY <1>1, <2>5, <4>1, <5>1, ExceptSeq DEF QueueOK, SendsRequest
        <5>3. QED BY <4>1, <5>2
      <4>4. QED BY <4>2, <4>3
    <3>3. Awaiting' = n
      BY <3>1, <3>2 DEF Awaiting
    <3>4. Ledger!TransmitRequest(n)
      BY <1>2, <1>3, <1>4, <2>2, <3>1, <3>3 DEF Ledger!TransmitRequest
    <3>5. QED BY <1>2, <3>4 DEF Ledger!Next
  <2>6. QED BY <1>5, <2>3, <2>4, <2>5 DEF Transmit
<1>6. CASE Discard
  <2>1. Awaiting' = 0 /\ log' = [log EXCEPT ![n].outcome = "dropped"]
    BY <1>6 DEF Discard, Settled, Awaiting
  <2>2. log[n].sends \in {0, log[n].budget}
    BY <1>3, <1>6 DEF Discard, HasRetries
  <2>3. Ledger!Drop(n)
    BY <1>2, <1>4, <2>1, <2>2 DEF Ledger!Drop, Ledger!Decide
  <2>4. QED BY <1>2, <2>3 DEF Ledger!Next
<1>7. QED BY <1>5, <1>6 DEF SendNext

LEMMA StepRefines ==
    ASSUME IndInv, [Next]_vars
    PROVE  Ledger!Next \/ UNCHANGED Ledger!vars
<1> USE DEF answerVars, configVars, clockVars, loopVars, wireVars, queueVars,
            history
<1> DEFINE item == Head(outgoing_messages)
           n    == item.id
<1>1. QueueOK /\ HandlerInItsState
  BY DEF IndInv
<1>2. ASSUME state = "WAITING_FOR_ANSWER", callback # "timeout_handler"
      PROVE  /\ Awaiting = n
             /\ n \in 1 .. Len(log)
             /\ outgoing_messages # <<>>
             /\ item.number_of_retries \in Nat
             /\ log[n].sends \in Nat /\ log[n].budget \in Nat
             /\ log[n].sends + item.number_of_retries = log[n].budget
  <2>1. outgoing_messages # <<>> /\ OnWire(item.write)
    BY <1>2 DEF IndInv, WaitingForHead, Written, OnWire
  <2>2. QED BY <1>1, <1>2, <2>1, HeadIsFirst, HeadInLog DEF Awaiting
<1>3. ASSUME UNCHANGED <<outgoing_messages, log, state>>,
             callback' = "timeout_handler" <=> callback = "timeout_handler"
      PROVE  UNCHANGED Ledger!vars
  BY <1>3 DEF Ledger!vars, Awaiting
<1>4. CASE Application
  <2>1. ASSUME NEW r \in Repeats, NEW i \in RetryIntervals, NEW w \in Writes,
               SendMessage(r, i, w)
        PROVE  Ledger!Next
    <3>1. Granted(r) \in 1 .. MAX_PACKET_RETRIES + 1
      BY ProtocolHandlerAssumption DEF Granted, Lesser
    <3>2. QED BY <2>1, <3>1, EnqueueIsSubmit DEF SendMessage, Ledger!Next
  <2>2. ASSUME NEW w \in Writes, SendMessageWithoutAnswer(w)
        PROVE  Ledger!Next
    <3>1. 1 \in 1 .. MAX_PACKET_RETRIES + 1 /\ TRUE \in BOOLEAN
      BY ProtocolHandlerAssumption
    <3>2. QED BY <2>2, <3>1, EnqueueIsSubmit
              DEF SendMessageWithoutAnswer, Ledger!Next
  <2>3. ASSUME NEW t \in AnswerTimeouts, SetAnswerTimeout(t)
        PROVE  UNCHANGED Ledger!vars
    BY <1>3, <2>3 DEF SetAnswerTimeout
  <2>4. ASSUME NEW t \in CooldownIntervals, SetCooldownInterval(t)
        PROVE  UNCHANGED Ledger!vars
    BY <1>3, <2>4 DEF SetCooldownInterval
  <2>5. QED BY <1>4, <2>1, <2>2, <2>3, <2>4 DEF Application
<1>5. CASE Answering \/ NoAnswer
  BY <1>3, <1>5 DEF Answering, SendAnswer, NoAnswer
<1>6. CASE Loop
  <2>1. CASE LoopDispatch
    BY <1>3, <2>1 DEF LoopDispatch
  <2>2. CASE LoopSend
    BY <2>2, SendNextRefines DEF LoopSend
  <2>3. CASE LoopRetry
    <3>1. state = "WAITING_FOR_ANSWER" /\ callback # "timeout_handler"
      BY <2>3 DEF LoopRetry, TimedOut
    <3>2. /\ item.number_of_retries # 0 /\ log' = log
          /\ Awaiting' = 0
      BY <2>3 DEF LoopRetry, NoRetriesLeft, BecomeIdle, Awaiting
    <3>3. log[n].sends < log[n].budget
      BY <1>2, <3>1, <3>2
    <3>4. Ledger!WaitAgain(n)
      BY <1>2, <3>1, <3>2, <3>3 DEF Ledger!WaitAgain
    <3>5. QED BY <1>2, <3>1, <3>4 DEF Ledger!Next
  <2>4. CASE LoopTimeout
    <3>1. state = "WAITING_FOR_ANSWER" /\ callback # "timeout_handler"
      BY <2>4 DEF LoopTimeout, TimedOut
    <3>2. /\ item.number_of_retries = 0
          /\ log' = [log EXCEPT ![n].outcome = "timed_out"]
          /\ Awaiting' = 0
      BY <2>4 DEF LoopTimeout, NoRetriesLeft, Settled, Awaiting
    <3>3. Ledger!TimeOut(n)
      BY <1>2, <3>1, <3>2 DEF Ledger!TimeOut, Ledger!Decide
    <3>4. QED BY <1>2, <3>1, <3>3 DEF Ledger!Next
  <2>5. CASE LoopAnswer
    BY <1>3, <2>5 DEF LoopAnswer
  <2>6. QED BY <1>6, <2>1, <2>2, <2>3, <2>4, <2>5 DEF Loop
<1>7. CASE HandlerReturns
  <2>1. CASE MessageHandlerReturns
    <3>1. state = "IDLE" /\ callback' = "none"
      BY <1>1, <2>1 DEF MessageHandlerReturns, HandlerInItsState
    <3>2. CASE SendNext
      BY <3>1, <3>2, SendNextRefines
    <3>3. CASE UNCHANGED <<queueVars, clockVars, in_flight, history>>
      BY <1>3, <2>1, <3>1, <3>3 DEF MessageHandlerReturns
    <3>4. QED BY <2>1, <3>2, <3>3 DEF MessageHandlerReturns
  <2>2. CASE TimeoutHandlerReturns
    <3>1. Awaiting = 0 /\ Awaiting' = 0 /\ log' = log
      BY <2>2 DEF TimeoutHandlerReturns, BecomeIdle, Awaiting
    <3>2. QED BY <3>1 DEF Ledger!vars
  <2>3. CASE AnswerHandlerReturns
    <3>1. state = "WAITING_FOR_ANSWER" /\ callback # "timeout_handler"
      BY <1>1, <2>3 DEF AnswerHandlerReturns, HandlerInItsState
    <3>2. /\ log' = [log EXCEPT ![n].outcome = "answered"]
          /\ Awaiting' = 0
      BY <2>3 DEF AnswerHandlerReturns, BecomeIdle, Settled, Awaiting
    <3>3. Ledger!Answer(n)
      BY <1>2, <3>1, <3>2 DEF Ledger!Answer, Ledger!Decide
    <3>4. QED BY <1>2, <3>1, <3>3 DEF Ledger!Next
  <2>4. QED BY <1>7, <2>1, <2>2, <2>3 DEF HandlerReturns
<1>8. CASE Device \/ DeviceRequests
  BY <1>3, <1>8 DEF Device, DeviceAnswers, DeviceStaysSilent, DeviceRequests,
                    DeviceUnchanged
<1>9. CASE Tick
  BY <1>3, <1>9 DEF Tick
<1>10. CASE UNCHANGED vars
  BY <1>3, <1>10 DEF vars
<1>11. QED BY <1>4, <1>5, <1>6, <1>7, <1>8, <1>9, <1>10 DEF Next

(***************************************************************************)
(* The handler implements the ledger, whatever the constants.              *)
(***************************************************************************)
THEOREM LedgerImplemented == Spec => ImplementsLedger
<1>1. Init => Ledger!Init
  BY DEF Init, Ledger!Init, Awaiting
<1>2. IndInv /\ [Next]_vars => [Ledger!Next]_(Ledger!vars)
  BY StepRefines
<1>3. QED BY <1>1, <1>2, Invariance, PTL DEF Spec, ImplementsLedger, Ledger!Spec
=============================================================================
