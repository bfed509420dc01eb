----------------------- MODULE ProtocolHandlerProofs -----------------------
(***************************************************************************)
(* Theorems about the outgoing queue of ProtocolHandler, for every value of*)
(* its constants: type correctness, the agreement of queue, state and log, *)
(* and that the handler implements MessageLedger.                          *)
(***************************************************************************)
EXTENDS ProtocolHandler, SequenceTheorems, TLAPS

USE DEF DeviceRequest, NoFrame, Message

(***************************************************************************)
(* The inductive invariant                                                 *)
(***************************************************************************)

\* What the item in the queue says of a message and what the log says of it.
ItemAgreesWith(item, m) ==
    /\ m.expects = ~item.no_answer
    /\ m.budget >= 1
    /\ item.no_answer => m.budget = 1
    /\ item.number_of_retries <= m.budget
    /\ OnWire(item.write) => m.sends + item.number_of_retries = m.budget
    /\ ~OnWire(item.write) => m.sends = 0

ItemsAgreeWithLog ==
    \A i \in 1 .. Len(outgoing_messages) :
        ItemAgreesWith(outgoing_messages[i], log[outgoing_messages[i].id])

\* Behind the head nothing was transmitted yet.
OnlyHeadTransmitted ==
    \A i \in 2 .. Len(outgoing_messages) :
        outgoing_messages[i].number_of_retries
            = log[outgoing_messages[i].id].budget

\* OutcomeJustified, of one entry of the log.
OutcomeOfEntry(m) ==
    /\ m.outcome = "timed_out" => m.expects /\ m.sends = m.budget
    /\ m.outcome = "answered" => m.expects /\ m.sends >= 1
    /\ m.outcome = "sent" => ~m.expects /\ m.sends = 1
    /\ m.outcome = "dropped" => m.sends \in {0, m.budget}

WithinBudget == \A n \in 1 .. Len(log) : log[n].sends <= log[n].budget

QueueOK ==
    /\ outgoing_messages \in Seq(OutgoingQueueItem)
    /\ log \in Seq(LogEntry)
    /\ Len(log) <= MaxMessages
    /\ QueueIsSuffix
    /\ ItemsAgreeWithLog
    /\ OnlyHeadTransmitted
    /\ WithinBudget
    /\ OutcomeJustified

\* A head whose write succeeded and that has no retry left awaits its answer:
\* it can never be dropped as if it had not been sent.
LastTryIsAwaited ==
    outgoing_messages # <<>> =>
        LET item == Head(outgoing_messages) IN
        Written(item.write) /\ ~HasRetries(item) =>
            state = "WAITING_FOR_ANSWER" /\ callback # "timeout_handler"

\* Outside of the handlers, now is now.
LagInHandlers == callback = "none" => lag = 0

IndInv ==
    /\ TypeOK
    /\ QueueOK
    /\ HandlerInItsState
    /\ WaitingForHead
    /\ LastTryIsAwaited
    /\ LagInHandlers
    /\ RetryDelayBelongsToHead

-----------------------------------------------------------------------------
(***************************************************************************)
(* The three things that happen to queue and log                           *)
(***************************************************************************)

\* The head of the queue is the first undecided message.
LEMMA HeadOfQueue ==
    ASSUME QueueOK, outgoing_messages # <<>>
    PROVE  /\ Len(outgoing_messages) \in Nat \ {0}
           /\ Len(log) \in Nat
           /\ Head(outgoing_messages) = outgoing_messages[1]
           /\ Head(outgoing_messages) \in OutgoingQueueItem
           /\ Head(outgoing_messages).id
                = Len(log) - Len(outgoing_messages) + 1
           /\ Head(outgoing_messages).id \in 1 .. Len(log)
           /\ log[Head(outgoing_messages).id] \in LogEntry
           /\ log[Head(outgoing_messages).id].outcome = "queued"
           /\ ItemAgreesWith(Head(outgoing_messages),
                             log[Head(outgoing_messages).id])
<1>1. /\ Len(outgoing_messages) \in Nat \ {0}
      /\ Head(outgoing_messages) = outgoing_messages[1]
      /\ outgoing_messages[1] \in OutgoingQueueItem
      /\ Len(log) \in Nat
  BY DEF QueueOK
<1>2. /\ Head(outgoing_messages).id = Len(log) - Len(outgoing_messages) + 1
      /\ Head(outgoing_messages).id \in 1 .. Len(log)
  BY <1>1 DEF QueueOK, QueueIsSuffix
<1>3. log[Head(outgoing_messages).id].outcome = "queued"
  BY <1>1, <1>2 DEF QueueOK, QueueIsSuffix
<1>4. ItemAgreesWith(Head(outgoing_messages),
                     log[Head(outgoing_messages).id])
  BY <1>1 DEF QueueOK, ItemsAgreeWithLog
<1>5. QED BY <1>1, <1>2, <1>3, <1>4, ElementOfSeq DEF QueueOK

\* The fields of items and log entries.
LEMMA ItemFields ==
    ASSUME NEW item \in OutgoingQueueItem
    PROVE  /\ item.id \in Message
           /\ item.no_answer \in BOOLEAN
           /\ item.number_of_retries \in Nat
           /\ item.retry_interval \in Nat
           /\ item.write \in Writes
<1>1. RetryIntervals \union {0} \subseteq Nat
  BY ProtocolHandlerAssumption
<1>2. QED BY <1>1 DEF OutgoingQueueItem

LEMMA EntryFields ==
    ASSUME NEW m \in LogEntry
    PROVE  /\ m.expects \in BOOLEAN
           /\ m.budget \in Nat
           /\ m.sends \in Nat
           /\ m.outcome \in Outcome
BY DEF LogEntry

\* A log entry with a new outcome.
LEMMA EntrySettled ==
    ASSUME NEW m \in LogEntry, NEW outcome \in Outcome
    PROVE  LET e == [m EXCEPT !.outcome = outcome]
           IN  /\ e \in LogEntry
               /\ e.outcome = outcome
               /\ e.sends = m.sends
               /\ e.budget = m.budget
               /\ e.expects = m.expects
BY DEF LogEntry

\* What remains of an item after one more write.
LEMMA SpentItem ==
    ASSUME NEW item \in OutgoingQueueItem, HasRetries(item)
    PROVE  /\ Spent(item) \in OutgoingQueueItem
           /\ Spent(item).id = item.id
           /\ Spent(item).no_answer = item.no_answer
           /\ Spent(item).retry_interval = item.retry_interval
           /\ Spent(item).write = item.write
           /\ Spent(item).number_of_retries = item.number_of_retries - 1
           /\ item.number_of_retries \in Nat \ {0}
BY DEF OutgoingQueueItem, HasRetries, Spent

\* A log entry with a new count of transmissions.
LEMMA EntrySent ==
    ASSUME NEW m \in LogEntry, NEW sends \in Nat
    PROVE  LET e == [m EXCEPT !.sends = sends]
           IN  /\ e \in LogEntry
               /\ e.sends = sends
               /\ e.outcome = m.outcome
               /\ e.budget = m.budget
               /\ e.expects = m.expects
BY DEF LogEntry

\* A used up sending keeps an item and its log entry in agreement.
LEMMA SpentAgrees ==
    ASSUME NEW item \in OutgoingQueueItem, HasRetries(item),
           NEW m \in LogEntry, NEW n \in LogEntry,
           ItemAgreesWith(item, m),
           n.expects = m.expects, n.budget = m.budget,
           n.sends = IF OnWire(item.write) THEN m.sends + 1 ELSE m.sends
    PROVE  ItemAgreesWith(Spent(item), n) /\ n.sends <= n.budget
<1> DEFINE left == item.number_of_retries
           rest == Spent(item).number_of_retries
<1>1. /\ Spent(item).no_answer = item.no_answer
      /\ Spent(item).write = item.write
      /\ rest = left - 1
      /\ left \in Nat \ {0}
  BY SpentItem
<1>2. m.sends \in Nat /\ m.budget \in Nat
  BY DEF LogEntry
<1>3. /\ n.expects = ~item.no_answer
      /\ m.budget >= 1
      /\ item.no_answer => m.budget = 1
      /\ left <= m.budget
  BY DEF ItemAgreesWith
<1> HIDE DEF left, rest
<1>4. rest <= n.budget
  BY <1>1, <1>2, <1>3
<1>5. /\ n.expects = ~Spent(item).no_answer
      /\ n.budget >= 1
      /\ Spent(item).no_answer => n.budget = 1
      /\ Spent(item).number_of_retries <= n.budget
  BY <1>1, <1>3, <1>4 DEF rest
<1>6. CASE OnWire(item.write)
  <2>1. m.sends + left = m.budget
    BY <1>6 DEF ItemAgreesWith, left
  <2>2. n.sends = m.sends + 1
    BY <1>6
  <2>3. n.sends + rest = n.budget /\ n.sends <= n.budget
    BY <1>1, <1>2, <2>1, <2>2
  <2>4. n.sends + Spent(item).number_of_retries = n.budget
    BY <2>3 DEF rest
  <2>5. OnWire(Spent(item).write)
    BY <1>1, <1>6, Zenon
  <2>6. QED BY <1>5, <2>3, <2>4, <2>5, Zenon DEF ItemAgreesWith
<1>7. CASE ~OnWire(item.write)
  <2>1. m.sends = 0
    BY <1>7 DEF ItemAgreesWith
  <2>2. n.sends = 0
    BY <1>7, <2>1
  <2>3. n.sends <= n.budget
    BY <1>2, <2>2
  <2>4. ~OnWire(Spent(item).write)
    BY <1>1, <1>7, Zenon
  <2>5. QED BY <1>5, <2>2, <2>3, <2>4, Zenon DEF ItemAgreesWith
<1>8. QED BY <1>6, <1>7

\* A message is submitted.
LEMMA EnqueueKeepsQueue ==
    ASSUME QueueOK, NEW no_answer \in BOOLEAN, NEW retries \in Nat \ {0},
           NEW interval \in RetryIntervals \union {0}, NEW write \in Writes,
           no_answer => retries = 1,
           MaxMessages \in Nat,
           Enqueue(no_answer, retries, interval, write)
    PROVE  QueueOK'
<1> DEFINE item == [id |-> Len(log) + 1, no_answer |-> no_answer,
                    number_of_retries |-> retries,
                    retry_interval |-> interval, write |-> write]
           entry == [expects |-> ~no_answer, budget |-> retries,
                     sends |-> 0, outcome |-> "queued"]
<1>1. /\ Len(log) \in Nat /\ Len(log) < MaxMessages
      /\ Len(outgoing_messages) \in Nat
      /\ Len(outgoing_messages) <= Len(log)
  BY DEF QueueOK, QueueIsSuffix, Enqueue
<1>2. item \in OutgoingQueueItem /\ entry \in LogEntry
  BY <1>1 DEF OutgoingQueueItem, LogEntry, Outcome
<1>3. /\ outgoing_messages' \in Seq(OutgoingQueueItem)
      /\ Len(outgoing_messages') = Len(outgoing_messages) + 1
      /\ \A i \in 1 .. Len(outgoing_messages) :
           outgoing_messages'[i] = outgoing_messages[i]
      /\ outgoing_messages'[Len(outgoing_messages) + 1] = item
  BY <1>2, AppendProperties DEF QueueOK, Enqueue
<1>4. /\ log' \in Seq(LogEntry)
      /\ Len(log') = Len(log) + 1
      /\ \A n \in 1 .. Len(log) : log'[n] = log[n]
      /\ log'[Len(log) + 1] = entry
  BY <1>2, AppendProperties DEF QueueOK, Enqueue
<1>5. \A i \in 1 .. Len(outgoing_messages) :
        outgoing_messages[i].id \in 1 .. Len(log)
  BY <1>1 DEF QueueOK, QueueIsSuffix
<1> HIDE DEF item, entry
<1>6. QueueIsSuffix'
  <2>1. \A i \in 1 .. Len(outgoing_messages') : outgoing_messages'[i].id
           = Len(log') - Len(outgoing_messages') + i
    <3> SUFFICES ASSUME NEW i \in 1 .. Len(outgoing_messages')
                 PROVE  outgoing_messages'[i].id
                          = Len(log') - Len(outgoing_messages') + i
      OBVIOUS
    <3>1. item.id = Len(log) + 1
      BY DEF item
    <3>2. CASE i = Len(outgoing_messages) + 1
      BY <1>1, <1>3, <1>4, <3>1, <3>2
    <3>3. CASE i \in 1 .. Len(outgoing_messages)
      <4>1. outgoing_messages[i].id = Len(log) - Len(outgoing_messages) + i
        BY <3>3 DEF QueueOK, QueueIsSuffix
      <4>2. QED BY <1>1, <1>3, <1>4, <3>3, <4>1
    <3>4. QED BY <1>1, <1>3, <3>2, <3>3
  <2>2. \A n \in 1 .. Len(log') :
           log'[n].outcome = "queued" <=>
             n > Len(log') - Len(outgoing_messages')
    <3> SUFFICES ASSUME NEW n \in 1 .. Len(log')
                 PROVE  log'[n].outcome = "queued" <=>
                          n > Len(log') - Len(outgoing_messages')
      OBVIOUS
    <3>1. entry.outcome = "queued"
      BY DEF entry
    <3>2. CASE n = Len(log) + 1
      BY <1>1, <1>3, <1>4, <3>1, <3>2
    <3>3. CASE n \in 1 .. Len(log)
      <4>1. log[n].outcome = "queued" <=> n > Len(log) - Len(outgoing_messages)
        BY <3>3 DEF QueueOK, QueueIsSuffix
      <4>2. QED BY <1>1, <1>3, <1>4, <3>3, <4>1
    <3>4. QED BY <1>1, <1>4, <3>2, <3>3
  <2>3. QED BY <2>1, <2>2, <1>1, <1>3, <1>4 DEF QueueIsSuffix
<1>7. ItemsAgreeWithLog'
  <2>1. ItemAgreesWith(item, entry) /\ item.id = Len(log) + 1
    BY DEF ItemAgreesWith, item, entry, OnWire
  <2> SUFFICES ASSUME NEW i \in 1 .. Len(outgoing_messages')
               PROVE  ItemAgreesWith(outgoing_messages'[i],
                                     log'[outgoing_messages'[i].id])
    BY DEF ItemsAgreeWithLog, ItemAgreesWith, OnWire
  <2>2. CASE i = Len(outgoing_messages) + 1
    BY <1>1, <1>3, <1>4, <2>1, <2>2
  <2>3. CASE i \in 1 .. Len(outgoing_messages)
    <3>1. ItemAgreesWith(outgoing_messages[i], log[outgoing_messages[i].id])
      BY <2>3 DEF QueueOK, ItemsAgreeWithLog
    <3>2. QED BY <1>3, <1>4, <1>5, <2>3, <3>1
  <2>4. QED BY <1>1, <1>3, <2>2, <2>3
<1>8. OnlyHeadTransmitted'
  <2>1. /\ item.number_of_retries = entry.budget
        /\ item.id = Len(log) + 1
    BY DEF item, entry
  <2> SUFFICES ASSUME NEW i \in 2 .. Len(outgoing_messages')
               PROVE  outgoing_messages'[i].number_of_retries
                        = log'[outgoing_messages'[i].id].budget
    BY DEF OnlyHeadTransmitted
  <2>2. CASE i = Len(outgoing_messages) + 1
    BY <1>1, <1>3, <1>4, <2>1, <2>2
  <2>3. CASE i \in 2 .. Len(outgoing_messages)
    <3>1. outgoing_messages[i].number_of_retries
            = log[outgoing_messages[i].id].budget
      BY <2>3 DEF QueueOK, OnlyHeadTransmitted
    <3>2. i \in 1 .. Len(outgoing_messages)
      BY <2>3
    <3>3. QED BY <1>3, <1>4, <1>5, <3>1, <3>2
  <2>4. QED BY <1>1, <1>3, <2>2, <2>3
<1>9. WithinBudget' /\ OutcomeJustified'
  <2>1. entry.sends <= entry.budget /\ entry.outcome = "queued"
    BY DEF entry
  <2>2. /\ log'[Len(log')] = entry
        /\ \A n \in 1 .. Len(log') : n # Len(log') =>
             n \in 1 .. Len(log) /\ log'[n] = log[n]
    BY <1>1, <1>4
  <2>3. WithinBudget'
    BY <2>1, <2>2 DEF QueueOK, WithinBudget
  <2>4. OutcomeJustified'
    BY <2>1, <2>2 DEF QueueOK, OutcomeJustified
  <2>5. QED BY <2>3, <2>4
<1>10. QED BY <1>1, <1>3, <1>4, <1>6, <1>7, <1>8, <1>9 DEF QueueOK

\* The head is written, with or without success, and stays in the queue.
LEMMA SpendKeepsQueue ==
    ASSUME QueueOK, outgoing_messages # <<>>,
           HasRetries(Head(outgoing_messages)),
           outgoing_messages' =
             [outgoing_messages EXCEPT ![1] = Spent(Head(outgoing_messages))],
           log' = [log EXCEPT ![Head(outgoing_messages).id].sends =
                     IF OnWire(Head(outgoing_messages).write)
                     THEN @ + 1 ELSE @]
    PROVE  /\ QueueOK'
           /\ outgoing_messages' # <<>>
           /\ Head(outgoing_messages)' = Spent(Head(outgoing_messages))
           /\ log'[Head(outgoing_messages).id].sends =
                IF OnWire(Head(outgoing_messages).write)
                THEN log[Head(outgoing_messages).id].sends + 1
                ELSE log[Head(outgoing_messages).id].sends
<1> DEFINE item  == Head(outgoing_messages)
           entry == [log[item.id] EXCEPT !.sends =
                       IF OnWire(item.write) THEN @ + 1 ELSE @]
<1>1. /\ Len(outgoing_messages) \in Nat \ {0}
      /\ Len(log) \in Nat
      /\ item = outgoing_messages[1]
      /\ item \in OutgoingQueueItem
      /\ item.id = Len(log) - Len(outgoing_messages) + 1
      /\ item.id \in 1 .. Len(log)
      /\ log[item.id] \in LogEntry
      /\ log[item.id].outcome = "queued"
      /\ ItemAgreesWith(item, log[item.id])
  BY HeadOfQueue
<1>2. /\ Spent(item) \in OutgoingQueueItem
      /\ Spent(item).id = item.id
      /\ Spent(item).no_answer = item.no_answer
      /\ Spent(item).write = item.write
      /\ Spent(item).number_of_retries = item.number_of_retries - 1
  BY <1>1, SpentItem
<1>3. /\ entry \in LogEntry
      /\ entry.expects = log[item.id].expects
      /\ entry.budget = log[item.id].budget
      /\ entry.outcome = log[item.id].outcome
      /\ entry.sends = IF OnWire(item.write)
                       THEN log[item.id].sends + 1 ELSE log[item.id].sends
  <2> DEFINE m == log[item.id]
             count == IF OnWire(item.write) THEN m.sends + 1 ELSE m.sends
  <2>1. m \in LogEntry
    BY <1>1
  <2>2. m.sends \in Nat
    BY <2>1, EntryFields
  <2>3. count \in Nat
    BY <2>2
  <2>4. entry = [m EXCEPT !.sends = count]
    OBVIOUS
  <2> HIDE DEF m, count, entry
  <2>5. /\ entry \in LogEntry
        /\ entry.expects = m.expects
        /\ entry.budget = m.budget
        /\ entry.outcome = m.outcome
        /\ entry.sends = count
    BY <2>1, <2>3, <2>4, EntrySent
  <2>6. QED BY <2>5 DEF m, count
<1>4. /\ outgoing_messages' \in Seq(OutgoingQueueItem)
      /\ Len(outgoing_messages') = Len(outgoing_messages)
      /\ outgoing_messages'[1] = Spent(item)
      /\ \A i \in 2 .. Len(outgoing_messages) :
           outgoing_messages'[i] = outgoing_messages[i]
  BY <1>1, <1>2, ExceptSeq DEF QueueOK
<1>5. /\ log' \in Seq(LogEntry)
      /\ Len(log') = Len(log)
      /\ log'[item.id] = entry
      /\ \A n \in 1 .. Len(log) : n # item.id => log'[n] = log[n]
  <2>1. log' = [log EXCEPT ![item.id] = entry]
    OBVIOUS
  <2> HIDE DEF entry, item
  <2>2. log \in Seq(LogEntry)
    BY DEF QueueOK
  <2>3. entry \in LogEntry /\ item.id \in 1 .. Len(log)
    BY <1>1, <1>3
  <2>4. /\ [log EXCEPT ![item.id] = entry] \in Seq(LogEntry)
        /\ Len([log EXCEPT ![item.id] = entry]) = Len(log)
        /\ \A n \in 1 .. Len(log) : [log EXCEPT ![item.id] = entry][n]
              = IF n = item.id THEN entry ELSE log[n]
    BY <2>2, <2>3, ExceptSeq
  <2>5. QED BY <2>1, <2>3, <2>4
<1>6. \A i \in 2 .. Len(outgoing_messages) :
        /\ outgoing_messages[i].id \in 1 .. Len(log)
        /\ outgoing_messages[i].id # item.id
  <2> SUFFICES ASSUME NEW i \in 2 .. Len(outgoing_messages)
               PROVE  /\ outgoing_messages[i].id \in 1 .. Len(log)
                      /\ outgoing_messages[i].id # item.id
    OBVIOUS
  <2>1. i \in 1 .. Len(outgoing_messages) /\ Len(outgoing_messages) <= Len(log)
    BY <1>1
  <2>2. outgoing_messages[i].id = Len(log) - Len(outgoing_messages) + i
    BY <2>1 DEF QueueOK, QueueIsSuffix
  <2> HIDE DEF item
  <2>3. QED BY <1>1, <2>1, <2>2
<1>7. ItemAgreesWith(Spent(item), entry) /\ entry.sends <= entry.budget
  <2> HIDE DEF entry, item
  <2>1. HasRetries(item)
    BY DEF item
  <2>2. QED BY <1>1, <1>3, <2>1, SpentAgrees
<1> HIDE DEF item, entry
<1>8. QueueIsSuffix'
  BY <1>1, <1>2, <1>3, <1>4, <1>5 DEF QueueOK, QueueIsSuffix
<1>9. ItemsAgreeWithLog'
  <2> SUFFICES ASSUME NEW i \in 1 .. Len(outgoing_messages')
               PROVE  ItemAgreesWith(outgoing_messages'[i],
                                     log'[outgoing_messages'[i].id])
    BY DEF ItemsAgreeWithLog, ItemAgreesWith, OnWire
  <2>1. CASE i = 1
    BY <1>1, <1>2, <1>4, <1>5, <1>7, <2>1
  <2>2. CASE i \in 2 .. Len(outgoing_messages)
    <3>1. ItemAgreesWith(outgoing_messages[i], log[outgoing_messages[i].id])
      BY <2>2 DEF QueueOK, ItemsAgreeWithLog
    <3>2. QED BY <1>4, <1>5, <1>6, <2>2, <3>1
  <2>3. QED BY <1>1, <1>4, <2>1, <2>2
<1>10. OnlyHeadTransmitted'
  <2> SUFFICES ASSUME NEW i \in 2 .. Len(outgoing_messages')
               PROVE  outgoing_messages'[i].number_of_retries
                        = log'[outgoing_messages'[i].id].budget
    BY DEF OnlyHeadTransmitted
  <2>1. i \in 2 .. Len(outgoing_messages)
    BY <1>4
  <2>2. outgoing_messages[i].number_of_retries
          = log[outgoing_messages[i].id].budget
    BY <2>1 DEF QueueOK, OnlyHeadTransmitted
  <2>3. QED BY <1>4, <1>5, <1>6, <2>1, <2>2
<1>11. WithinBudget' /\ OutcomeJustified'
  <2>1. entry.sends <= entry.budget /\ entry.outcome = "queued"
    BY <1>1, <1>3, <1>7
  <2>2. \A n \in 1 .. Len(log') : n \in 1 .. Len(log) /\
             (log'[n] = entry \/ log'[n] = log[n])
    BY <1>1, <1>5
  <2>3. WithinBudget'
    BY <2>1, <2>2 DEF QueueOK, WithinBudget
  <2>4. OutcomeJustified'
    <3> SUFFICES ASSUME NEW n \in 1 .. Len(log')
                 PROVE  OutcomeOfEntry(log'[n])
      BY DEF OutcomeJustified, OutcomeOfEntry
    <3>1. OutcomeOfEntry(entry)
      BY <2>1 DEF OutcomeOfEntry
    <3>2. \A k \in 1 .. Len(log) : OutcomeOfEntry(log[k])
      BY DEF QueueOK, OutcomeJustified, OutcomeOfEntry
    <3>3. QED BY <2>2, <3>1, <3>2
  <2>5. QED BY <2>3, <2>4
<1>12. /\ outgoing_messages' # <<>>
       /\ Head(outgoing_messages)' = Spent(item)
  BY <1>1, <1>4
<1>13. QED
  BY <1>3, <1>4, <1>5, <1>8, <1>9, <1>10, <1>11, <1>12 DEF QueueOK, item

\* The head leaves the queue with an outcome that is justified.
LEMMA PopKeepsQueue ==
    ASSUME QueueOK, outgoing_messages # <<>>,
           NEW entry \in LogEntry,
           entry.outcome # "queued",
           entry.sends <= entry.budget,
           entry.outcome = "timed_out" =>
               entry.expects /\ entry.sends = entry.budget,
           entry.outcome = "answered" => entry.expects /\ entry.sends >= 1,
           entry.outcome = "sent" => ~entry.expects /\ entry.sends = 1,
           entry.outcome = "dropped" => entry.sends \in {0, entry.budget},
           outgoing_messages' = Tail(outgoing_messages),
           log' = [log EXCEPT ![Head(outgoing_messages).id] = entry]
    PROVE  /\ QueueOK'
           /\ outgoing_messages' # <<>> =>
                HasRetries(Head(outgoing_messages)')
<1> DEFINE item == Head(outgoing_messages)
<1>1. /\ Len(outgoing_messages) \in Nat \ {0}
      /\ Len(log) \in Nat
      /\ item.id = Len(log) - Len(outgoing_messages) + 1
      /\ item.id \in 1 .. Len(log)
  BY HeadOfQueue
<1>2. /\ outgoing_messages' \in Seq(OutgoingQueueItem)
      /\ Len(outgoing_messages') = Len(outgoing_messages) - 1
      /\ \A i \in 1 .. Len(outgoing_messages') :
           outgoing_messages'[i] = outgoing_messages[i + 1]
  BY HeadTailProperties DEF QueueOK
<1>3. /\ log' \in Seq(LogEntry)
      /\ Len(log') = Len(log)
      /\ log'[item.id] = entry
      /\ \A n \in 1 .. Len(log) : n # item.id => log'[n] = log[n]
  <2> HIDE DEF item
  <2>1. log' = [log EXCEPT ![item.id] = entry]
    BY DEF item
  <2>2. log \in Seq(LogEntry)
    BY DEF QueueOK
  <2>3. entry \in LogEntry /\ item.id \in 1 .. Len(log)
    BY <1>1
  <2>4. /\ [log EXCEPT ![item.id] = entry] \in Seq(LogEntry)
        /\ Len([log EXCEPT ![item.id] = entry]) = Len(log)
        /\ \A n \in 1 .. Len(log) : [log EXCEPT ![item.id] = entry][n]
              = IF n = item.id THEN entry ELSE log[n]
    BY <2>2, <2>3, ExceptSeq
  <2>5. QED BY <2>1, <2>3, <2>4
<1> HIDE DEF item
<1>4. \A i \in 1 .. Len(outgoing_messages') :
        /\ outgoing_messages'[i].id \in 1 .. Len(log)
        /\ outgoing_messages'[i].id # item.id
  BY <1>1, <1>2 DEF QueueOK, QueueIsSuffix
<1>5. QueueIsSuffix'
  BY <1>1, <1>2, <1>3 DEF QueueOK, QueueIsSuffix
<1>6. ItemsAgreeWithLog'
  <2> SUFFICES ASSUME NEW i \in 1 .. Len(outgoing_messages')
               PROVE  ItemAgreesWith(outgoing_messages'[i],
                                     log'[outgoing_messages'[i].id])
    BY DEF ItemsAgreeWithLog, ItemAgreesWith, OnWire
  <2>1. ItemAgreesWith(outgoing_messages[i + 1],
                       log[outgoing_messages[i + 1].id])
    BY <1>1, <1>2 DEF QueueOK, ItemsAgreeWithLog
  <2>2. QED BY <1>2, <1>3, <1>4, <2>1
<1>7. OnlyHeadTransmitted'
  <2> SUFFICES ASSUME NEW i \in 2 .. Len(outgoing_messages')
               PROVE  outgoing_messages'[i].number_of_retries
                        = log'[outgoing_messages'[i].id].budget
    BY DEF OnlyHeadTransmitted
  <2>1. outgoing_messages[i + 1].number_of_retries
          = log[outgoing_messages[i + 1].id].budget
    BY <1>1, <1>2 DEF QueueOK, OnlyHeadTransmitted
  <2>2. i \in 1 .. Len(outgoing_messages')
    BY <1>1, <1>2
  <2>3. QED BY <1>2, <1>3, <1>4, <2>1, <2>2
<1>8. WithinBudget' /\ OutcomeJustified'
  BY <1>1, <1>3 DEF QueueOK, WithinBudget, OutcomeJustified
<1>9. outgoing_messages' # <<>> => HasRetries(Head(outgoing_messages)')
  <2> SUFFICES ASSUME outgoing_messages' # <<>>
               PROVE  HasRetries(outgoing_messages'[1])
    BY <1>2
  <2>1. 2 \in 1 .. Len(outgoing_messages)
        /\ outgoing_messages'[1] = outgoing_messages[2]
    BY <1>1, <1>2
  <2>2. log[outgoing_messages[2].id].budget >= 1
    BY <2>1 DEF QueueOK, ItemsAgreeWithLog, ItemAgreesWith
  <2>3. outgoing_messages[2].number_of_retries
          = log[outgoing_messages[2].id].budget
    BY <2>1 DEF QueueOK, OnlyHeadTransmitted
  <2>4. QED
    <3>1. outgoing_messages[2].id \in 1 .. Len(log)
      BY <2>1, <1>1 DEF QueueOK, QueueIsSuffix
    <3>2. log[outgoing_messages[2].id] \in LogEntry
      BY <3>1, ElementOfSeq DEF QueueOK
    <3>3. log[outgoing_messages[2].id].budget \in Nat
      BY <3>2 DEF LogEntry
    <3>4. QED BY <2>1, <2>2, <2>3, <3>3 DEF HasRetries
<1>10. QED
  BY <1>1, <1>2, <1>3, <1>5, <1>6, <1>7, <1>8, <1>9 DEF QueueOK

-----------------------------------------------------------------------------
(***************************************************************************)
(* Steps preserve the invariant                                            *)
(***************************************************************************)
LEMMA UnchangedQueue ==
    ASSUME QueueOK, UNCHANGED <<outgoing_messages, log>>
    PROVE  QueueOK'
BY DEF QueueOK, QueueIsSuffix, ItemsAgreeWithLog, ItemAgreesWith, OnWire,
       OnlyHeadTransmitted, WithinBudget, OutcomeJustified

\* The types of what the sending half of loop() assigns.
SendTypes ==
    /\ state \in {"IDLE", "WAITING_FOR_ANSWER"}
    /\ last_message_type \in Nat
    /\ cooldown_time_point \in TimePoint
    /\ answer_time_point \in TimePoint
    /\ retry_time_point \in TimePoint
    /\ in_flight \in Seq([message: Message, age: Nat])
    /\ last_write \in [at: Ago, cooldown: 0 .. Horizon - 1]
    /\ last_request \in [at: Ago, timeout: 0 .. Horizon - 1]

LEMMA TypesOfTimes ==
    ASSUME lag \in 0 .. MaxLag, NEW d \in Nat
    PROVE  /\ FromNow(d) \in TimePoint
           /\ d \in TimePoint
           /\ FromNow(0) \in TimePoint
           /\ 0 \in Ago
BY ProtocolHandlerAssumption DEF FromNow, TimePoint, Past, Ago

\* The last part of an iteration of loop() in IDLE, when something is sent
\* or discarded.
LEMMA SendNextPreserves ==
    ASSUME IndInv, SendNext, state = "IDLE", callback' = "none", lag' = 0
    PROVE  /\ SendTypes'
           /\ QueueOK'
           /\ WaitingForHead'
           /\ LastTryIsAwaited'
           /\ RetryDelayBelongsToHead'
<1> DEFINE item == Head(outgoing_messages)
<1>1. /\ TypeOK /\ QueueOK
      /\ outgoing_messages # <<>>
  BY DEF IndInv, SendNext, ReadyToSend
<1>2. /\ item \in OutgoingQueueItem
      /\ item.id \in 1 .. Len(log)
      /\ log[item.id] \in LogEntry
      /\ ItemAgreesWith(item, log[item.id])
  BY <1>1, HeadOfQueue
<1>3. /\ log[item.id].sends \in Nat /\ log[item.id].budget \in Nat
      /\ item.id \in Message /\ item.number_of_retries \in Nat
      /\ item.retry_interval \in Nat
  BY <1>2, ItemFields, EntryFields
<1>4. /\ SendTypes /\ lag \in 0 .. MaxLag /\ lag \in Nat
      /\ answer_timeout_interval \in 0 .. Horizon - 1
      /\ cooldown_interval \in 0 .. Horizon - 1
  BY <1>1, ProtocolHandlerAssumption DEF TypeOK, SendTypes
<1>5. CASE Transmit
  <2>1. HasRetries(item) /\ WriteMessage
    BY <1>5 DEF Transmit
  <2>2. in_flight' \in Seq([message: Message, age: Nat])
    <3>1. [message |-> item.id, age |-> 0] \in [message: Message, age: Nat]
      BY <1>3
    <3>2. QED BY <1>4, <1>5, <3>1, AppendProperties DEF Transmit, SendTypes
  <2>3. /\ cooldown_time_point' \in TimePoint
        /\ last_write' \in [at: Ago, cooldown: 0 .. Horizon - 1]
    BY <1>4, <2>1, TypesOfTimes DEF WriteMessage
  <2>4. /\ Spent(item).id = item.id
        /\ Spent(item).no_answer = item.no_answer
        /\ Spent(item).write = item.write
    BY <1>2, <2>1, SpentItem
  <2>5. CASE WriteFails(item)
    <3>1. /\ QueueOK'
          /\ outgoing_messages' # <<>>
          /\ Head(outgoing_messages)' = Spent(item)
          /\ log'[item.id].sends =
               IF OnWire(item.write) THEN log[item.id].sends + 1
                                     ELSE log[item.id].sends
      BY <1>1, <2>1, <2>5, SpendKeepsQueue DEF WriteFails
    <3>2. /\ SendTypes'
          /\ state' = "IDLE"
      BY <1>4, <2>2, <2>3, <2>5 DEF WriteFails, SendTypes
    <3>3. LastTryIsAwaited'
      BY <2>4, <2>5, <3>1 DEF LastTryIsAwaited, WriteFails, Written
    <3>4. WaitingForHead' /\ RetryDelayBelongsToHead'
      <4>1. Reached(retry_time_point)
        BY DEF SendNext, ReadyToSend
      <4>2. Reached(retry_time_point)'
        BY <1>4, <2>5, <4>1 DEF Reached, WriteFails, SendTypes, TimePoint
      <4>3. QED BY <3>2, <4>2 DEF WaitingForHead, RetryDelayBelongsToHead
    <3>5. QED BY <3>1, <3>2, <3>3, <3>4
  <2>6. CASE SendsWithoutAnswer(item)
    <3> DEFINE entry == [log[item.id] EXCEPT !.sends = @ + 1,
                                             !.outcome = "sent"]
    <3>1. /\ entry \in LogEntry
          /\ entry.outcome = "sent"
          /\ entry.sends = log[item.id].sends + 1
          /\ entry.budget = log[item.id].budget
          /\ entry.expects = log[item.id].expects
      <4> DEFINE m == log[item.id]
                 k == m.sends + 1
      <4>1. m \in LogEntry /\ k \in Nat /\ "sent" \in Outcome
        BY <1>2, <1>3 DEF Outcome
      <4>2. entry = [m EXCEPT !.sends = k, !.outcome = "sent"]
        OBVIOUS
      <4> HIDE DEF entry, m, k
      <4>3. /\ entry \in LogEntry
            /\ entry.outcome = "sent"
            /\ entry.sends = k
            /\ entry.budget = m.budget
            /\ entry.expects = m.expects
        BY <4>1, <4>2 DEF LogEntry
      <4>4. QED BY <4>3 DEF k, m
    <3>2. log[item.id].sends = 0 /\ log[item.id].budget = 1
          /\ ~log[item.id].expects
      <4>1. Written(item.write) /\ item.no_answer
        BY <2>6 DEF SendsWithoutAnswer
      <4>2. OnWire(item.write) /\ item.number_of_retries > 0
        BY <2>1, <4>1 DEF HasRetries, Written, OnWire
      <4>3. /\ log[item.id].expects = FALSE /\ log[item.id].budget = 1
            /\ log[item.id].sends + item.number_of_retries = 1
        BY <1>2, <4>1, <4>2 DEF ItemAgreesWith
      <4>4. QED BY <1>3, <4>2, <4>3
    <3>3. /\ outgoing_messages' = Tail(outgoing_messages)
          /\ log' = [log EXCEPT ![item.id] = entry]
      BY <2>6 DEF SendsWithoutAnswer, Pop
    <3>4. entry.sends <= entry.budget
      BY <3>1, <3>2
    <3> HIDE DEF entry
    <3>5. QueueOK' /\ (outgoing_messages' # <<>> =>
                          HasRetries(Head(outgoing_messages)'))
      <4>1. /\ entry.outcome # "queued" /\ entry.outcome # "timed_out"
            /\ entry.outcome # "answered" /\ entry.outcome # "dropped"
            /\ ~entry.expects /\ entry.sends = 1
        BY <3>1, <3>2
      <4>2. entry \in LogEntry
        BY <3>1
      <4>3. QED BY <1>1, <3>3, <3>4, <4>1, <4>2, PopKeepsQueue
    <3>6. /\ SendTypes' /\ state' = "IDLE"
      BY <1>3, <1>4, <2>2, <2>3, <2>6, TypesOfTimes
         DEF SendsWithoutAnswer, SendTypes, ResetRetryTime
    <3>7. LastTryIsAwaited'
      BY <3>5 DEF LastTryIsAwaited, HasRetries
    <3>8. WaitingForHead' /\ RetryDelayBelongsToHead'
      BY <1>4, <2>6, <3>6 DEF WaitingForHead, RetryDelayBelongsToHead,
                         SendsWithoutAnswer, ResetRetryTime, Reached, FromNow
    <3>9. QED BY <3>5, <3>6, <3>7, <3>8
  <2>7. CASE SendsRequest(item)
    <3>1. Written(item.write) /\ OnWire(item.write) /\ ~item.no_answer
      BY <2>7 DEF SendsRequest, Written, OnWire
    <3>2. log' = [log EXCEPT ![item.id].sends =
                    IF OnWire(item.write) THEN @ + 1 ELSE @]
      BY <2>7, <3>1 DEF SendsRequest
    <3>3. /\ QueueOK'
          /\ outgoing_messages' # <<>>
          /\ Head(outgoing_messages)' = Spent(item)
          /\ log'[item.id].sends = log[item.id].sends + 1
      BY <1>1, <2>1, <2>7, <3>1, <3>2, SpendKeepsQueue DEF SendsRequest
    <3>4. SendTypes' /\ state' = "WAITING_FOR_ANSWER"
      BY <1>3, <1>4, <2>2, <2>3, <2>7, TypesOfTimes
         DEF SendsRequest, SendTypes
    <3>5. LastTryIsAwaited'
      BY <3>4 DEF LastTryIsAwaited
    <3>6. WaitingForHead'
      BY <1>3, <2>4, <2>7, <3>1, <3>3 DEF WaitingForHead, SendsRequest,
                                          Written
    <3>7. RetryDelayBelongsToHead'
      BY <1>3, <2>4, <3>3 DEF RetryDelayBelongsToHead
    <3>8. QED BY <3>3, <3>4, <3>5, <3>6, <3>7
  <2>8. QED BY <1>5, <2>5, <2>6, <2>7 DEF Transmit
<1>6. CASE Discard
  <2> DEFINE entry == [log[item.id] EXCEPT !.outcome = "dropped"]
  <2>1. /\ entry \in LogEntry
        /\ entry.outcome = "dropped"
        /\ entry.sends = log[item.id].sends
        /\ entry.budget = log[item.id].budget
        /\ entry.expects = log[item.id].expects
    BY <1>2, EntrySettled DEF Outcome
  <2>2. log[item.id].sends \in {0, log[item.id].budget}
        /\ log[item.id].sends <= log[item.id].budget
    BY <1>2, <1>3, <1>6 DEF ItemAgreesWith, Discard, HasRetries, OnWire
  <2>3. /\ outgoing_messages' = Tail(outgoing_messages)
        /\ log' = [log EXCEPT ![item.id] = entry]
    BY <1>6 DEF Discard, Pop, Settled
  <2> HIDE DEF entry
  <2>4. QueueOK' /\ (outgoing_messages' # <<>> =>
                        HasRetries(Head(outgoing_messages)'))
    <3>1. /\ entry.outcome # "queued" /\ entry.outcome # "timed_out"
          /\ entry.outcome # "answered" /\ entry.outcome # "sent"
      BY <2>1
    <3>2. QED BY <1>1, <2>1, <2>2, <2>3, <3>1, PopKeepsQueue
  <2>5. /\ SendTypes' /\ state' = "IDLE"
    BY <1>4, <1>6, TypesOfTimes DEF Discard, SendTypes, ResetRetryTime
  <2>6. LastTryIsAwaited'
    BY <2>4 DEF LastTryIsAwaited, HasRetries
  <2>7. WaitingForHead' /\ RetryDelayBelongsToHead'
    BY <1>4, <1>6, <2>5 DEF WaitingForHead, RetryDelayBelongsToHead,
                       Discard, ResetRetryTime, Reached, FromNow
  <2>8. QED BY <2>4, <2>5, <2>6, <2>7
<1>7. QED BY <1>5, <1>6 DEF SendNext

\* The parts of the invariant that do not speak of queue and log.
OtherTypes ==
    /\ processing_message \in BOOLEAN
    /\ answer_sent \in BOOLEAN
    /\ answer_timeout_interval \in 0 .. Horizon - 1
    /\ cooldown_interval \in 0 .. Horizon - 1
    /\ callback \in {"none", "message_handler", "answer_handler",
                     "timeout_handler"}
    /\ lag \in 0 .. MaxLag
    /\ frame \in Int
    /\ incoming \in Seq(Nat)

LEMMA TypesApart ==
    ASSUME IndInv
    PROVE  TypeOK /\ QueueOK /\ SendTypes /\ OtherTypes
BY DEF IndInv, SendTypes, OtherTypes, TypeOK

LEMMA TypesTogether ==
    ASSUME SendTypes, OtherTypes, QueueOK
    PROVE  TypeOK
BY DEF SendTypes, OtherTypes, QueueOK, TypeOK

LEMMA TypesTogetherNext ==
    ASSUME SendTypes', OtherTypes', QueueOK'
    PROVE  TypeOK'
BY DEF SendTypes, OtherTypes, QueueOK, TypeOK

LEMMA InitEstablishes ==
    ASSUME Init
    PROVE  IndInv
<1>1. QueueOK
  BY ProtocolHandlerAssumption
     DEF Init, QueueOK, QueueIsSuffix, ItemsAgreeWithLog, OnlyHeadTransmitted,
         WithinBudget, OutcomeJustified
<1>2. SendTypes /\ OtherTypes
  <2>1. /\ MaxLag \in Nat /\ Horizon \in Nat \ {0}
        /\ DEFAULT_ANSWER_TIMEOUT \in 0 .. Horizon - 1
        /\ DEFAULT_COOLDOWN_INTERVAL \in 0 .. Horizon - 1
    BY ProtocolHandlerAssumption
  <2>2. /\ Past \in TimePoint /\ -Horizon \in Ago
        /\ 0 \in 0 .. Horizon - 1 /\ 0 \in 0 .. MaxLag
    BY <2>1 DEF TimePoint, Past, Ago
  <2>3. SendTypes
    BY <2>2, EmptySeq DEF Init, SendTypes
  <2>4. OtherTypes
    <3>1. NoFrame \in Int /\ <<>> \in Seq(Nat)
      OBVIOUS
    <3>2. QED BY <2>1, <2>2, <3>1 DEF Init, OtherTypes
  <2>5. QED BY <2>3, <2>4
<1>3. /\ HandlerInItsState /\ WaitingForHead /\ LastTryIsAwaited
      /\ LagInHandlers /\ RetryDelayBelongsToHead
  BY ProtocolHandlerAssumption
     DEF Init, HandlerInItsState, WaitingForHead, LastTryIsAwaited,
         LagInHandlers, RetryDelayBelongsToHead, Reached, Past
<1>4. QED BY <1>1, <1>2, <1>3, TypesTogether DEF IndInv

LEMMA EnqueuePreserves ==
    ASSUME IndInv, NEW no_answer \in BOOLEAN, NEW retries \in Nat \ {0},
           NEW interval \in RetryIntervals \union {0}, NEW write \in Writes,
           no_answer => retries = 1,
           Enqueue(no_answer, retries, interval, write)
    PROVE  IndInv'
<1>1. QueueOK /\ TypeOK /\ SendTypes /\ OtherTypes
  BY TypesApart
<1>2. QueueOK'
  BY <1>1, EnqueueKeepsQueue, ProtocolHandlerAssumption
<1>3. SendTypes' /\ OtherTypes' /\ HandlerInItsState' /\ LagInHandlers'
  BY <1>1 DEF IndInv, Enqueue, SendTypes, OtherTypes, HandlerInItsState,
              LagInHandlers, answerVars, configVars, clockVars, loopVars,
              wireVars
<1> DEFINE item == [id |-> Len(log) + 1, no_answer |-> no_answer,
                    number_of_retries |-> retries,
                    retry_interval |-> interval, write |-> write]
           entry == [expects |-> ~no_answer, budget |-> retries,
                     sends |-> 0, outcome |-> "queued"]
<1>4. /\ outgoing_messages' = Append(outgoing_messages, item)
      /\ log' = Append(log, entry)
      /\ item.number_of_retries = retries
      /\ UNCHANGED <<state, last_message_type, callback, lag,
                     retry_time_point>>
  BY DEF Enqueue, loopVars, clockVars
<1> HIDE DEF item, entry
<1>5. CASE outgoing_messages = <<>>
  <2>1. Head(outgoing_messages)' = item /\ outgoing_messages' # <<>>
    BY <1>4, <1>5
  <2>2. ~(state = "WAITING_FOR_ANSWER" /\ callback # "timeout_handler")
    BY <1>5 DEF IndInv, WaitingForHead
  <2>3. Reached(retry_time_point)
    BY <1>5 DEF IndInv, RetryDelayBelongsToHead
  <2>4. WaitingForHead' /\ RetryDelayBelongsToHead'
    BY <1>4, <2>2, <2>3 DEF WaitingForHead, RetryDelayBelongsToHead, Reached
  <2>5. LastTryIsAwaited'
    BY <1>4, <2>1 DEF LastTryIsAwaited, HasRetries
  <2>6. QED BY <1>2, <1>3, <2>4, <2>5, TypesTogetherNext DEF IndInv
<1>6. CASE outgoing_messages # <<>>
  <2>1. /\ Head(outgoing_messages)' = Head(outgoing_messages)
        /\ outgoing_messages' # <<>>
    BY <1>1, <1>4, <1>6 DEF QueueOK
  <2>2. log'[Head(outgoing_messages).id] = log[Head(outgoing_messages).id]
    <3>1. Head(outgoing_messages).id \in 1 .. Len(log)
      BY <1>1, <1>6, HeadOfQueue
    <3>2. log \in Seq(LogEntry)
      BY <1>1 DEF QueueOK
    <3>3. QED BY <1>4, <3>1, <3>2
  <2>3. WaitingForHead' /\ RetryDelayBelongsToHead'
    BY <1>4, <1>6, <2>1, <2>2
       DEF IndInv, WaitingForHead, RetryDelayBelongsToHead, Reached
  <2>4. LastTryIsAwaited'
    BY <1>4, <1>6, <2>1 DEF IndInv, LastTryIsAwaited, HasRetries
  <2>5. QED BY <1>2, <1>3, <2>3, <2>4, TypesTogetherNext DEF IndInv
<1>7. QED BY <1>5, <1>6

\* A step that leaves queue, log and state as they are.
LEMMA QuietStep ==
    ASSUME IndInv, SendTypes', OtherTypes', HandlerInItsState', LagInHandlers',
           UNCHANGED <<outgoing_messages, log, state, last_message_type>>,
           callback' = "timeout_handler" <=> callback = "timeout_handler",
           Reached(retry_time_point) => Reached(retry_time_point)'
    PROVE  IndInv'
<1>1. QueueOK'
  BY UnchangedQueue DEF IndInv
<1>2. WaitingForHead' /\ LastTryIsAwaited'
  BY DEF IndInv, WaitingForHead, LastTryIsAwaited, HasRetries
<1>3. RetryDelayBelongsToHead'
  BY DEF IndInv, RetryDelayBelongsToHead
<1>4. QED BY <1>1, <1>2, <1>3, TypesTogetherNext DEF IndInv

\* A step in which the awaited message is popped and decided.
LEMMA PopWhileWaiting ==
    ASSUME IndInv, state = "WAITING_FOR_ANSWER", callback # "timeout_handler",
           NEW outcome \in {"timed_out", "answered"},
           outcome = "timed_out" => NoRetriesLeft(Head(outgoing_messages)),
           Pop, ResetRetryTime,
           log' = Settled(Head(outgoing_messages).id, outcome),
           lag' \in {0, lag},
           state' = "IDLE" \/ callback' = "timeout_handler"
    PROVE  /\ QueueOK'
           /\ WaitingForHead'
           /\ LastTryIsAwaited'
           /\ RetryDelayBelongsToHead'
           /\ retry_time_point' \in TimePoint
<1> DEFINE item  == Head(outgoing_messages)
           entry == [log[item.id] EXCEPT !.outcome = outcome]
<1>1. /\ TypeOK /\ QueueOK /\ lag \in 0 .. MaxLag
      /\ outgoing_messages # <<>>
      /\ Written(item.write) /\ ~item.no_answer /\ log[item.id].sends >= 1
  BY DEF IndInv, WaitingForHead, TypeOK
<1>2. /\ item \in OutgoingQueueItem
      /\ log[item.id] \in LogEntry
      /\ ItemAgreesWith(item, log[item.id])
  BY <1>1, HeadOfQueue
<1>3. /\ item.number_of_retries \in Nat
      /\ log[item.id].sends \in Nat /\ log[item.id].budget \in Nat
  BY <1>2, ItemFields, EntryFields
<1>4. /\ log[item.id].sends + item.number_of_retries = log[item.id].budget
      /\ log[item.id].expects
  BY <1>1, <1>2 DEF ItemAgreesWith, Written, OnWire
<1>5. /\ entry \in LogEntry
      /\ entry.outcome = outcome
      /\ entry.sends = log[item.id].sends
      /\ entry.budget = log[item.id].budget
      /\ entry.expects = log[item.id].expects
  <2>1. outcome \in Outcome
    BY DEF Outcome
  <2> HIDE DEF item
  <2>2. QED BY <1>2, <2>1, EntrySettled
<1>6. /\ outgoing_messages' = Tail(outgoing_messages)
      /\ log' = [log EXCEPT ![item.id] = entry]
  BY DEF Pop, Settled
<1>7. outcome = "timed_out" => item.number_of_retries = 0
  BY DEF NoRetriesLeft
<1> HIDE DEF entry
<1>8. /\ entry.sends <= entry.budget
      /\ entry.sends >= 1
      /\ entry.expects
      /\ entry.outcome = "timed_out" => entry.sends = entry.budget
      /\ entry.outcome # "queued" /\ entry.outcome # "sent"
      /\ entry.outcome # "dropped"
  BY <1>1, <1>3, <1>4, <1>5, <1>7
<1>9. QueueOK' /\ (outgoing_messages' # <<>> =>
                      HasRetries(Head(outgoing_messages)'))
  BY <1>1, <1>5, <1>6, <1>8, PopKeepsQueue
<1>10. WaitingForHead'
  BY DEF WaitingForHead
<1>11. LastTryIsAwaited'
  BY <1>9 DEF LastTryIsAwaited, HasRetries
<1>12. RetryDelayBelongsToHead' /\ retry_time_point' \in TimePoint
  <2>1. retry_time_point' = -lag
    BY <1>1 DEF ResetRetryTime, FromNow
  <2>2. MaxLag \in Nat
    BY ProtocolHandlerAssumption
  <2>3. retry_time_point' \in TimePoint
    BY <1>1, <2>1, <2>2 DEF TimePoint, Past
  <2>4. -lag <= -(lag')
    <3>1. CASE lag' = 0
      BY <1>1, <3>1
    <3>2. CASE lag' = lag
      BY <1>1, <3>2
    <3>3. QED BY <3>1, <3>2
  <2>5. Reached(retry_time_point)'
    BY <2>1, <2>4 DEF Reached
  <2>6. QED BY <2>3, <2>5 DEF RetryDelayBelongsToHead
<1>13. QED BY <1>9, <1>10, <1>11, <1>12

LEMMA NextPreserves ==
    ASSUME IndInv, [Next]_vars
    PROVE  IndInv'
<1> USE DEF answerVars, configVars, clockVars, loopVars, wireVars, queueVars,
            history
<1>1. /\ TypeOK /\ QueueOK /\ SendTypes /\ OtherTypes
      /\ HandlerInItsState /\ LagInHandlers
      /\ MaxLag \in Nat /\ lag \in 0 .. MaxLag
  BY TypesApart, ProtocolHandlerAssumption DEF IndInv, OtherTypes
<1>2. CASE Application
  <2>1. ASSUME NEW r \in Repeats, NEW i \in RetryIntervals, NEW w \in Writes,
               SendMessage(r, i, w)
        PROVE  IndInv'
    <3>1. Granted(r) \in Nat \ {0}
      BY ProtocolHandlerAssumption DEF Granted, Lesser
    <3>2. Enqueue(FALSE, Granted(r), i, w)
      BY <2>1 DEF SendMessage
    <3>3. QED BY <3>1, <3>2, EnqueuePreserves
  <2>2. ASSUME NEW w \in Writes, SendMessageWithoutAnswer(w)
        PROVE  IndInv'
    <3>1. /\ TRUE \in BOOLEAN /\ 1 \in Nat \ {0}
          /\ 0 \in RetryIntervals \union {0}
      OBVIOUS
    <3>2. Enqueue(TRUE, 1, 0, w)
      BY <2>2 DEF SendMessageWithoutAnswer
    <3>3. QED BY <3>1, <3>2, EnqueuePreserves
  <2>3. ASSUME NEW t \in AnswerTimeouts, SetAnswerTimeout(t)
        PROVE  IndInv'
    BY <1>1, <2>3, QuietStep, ProtocolHandlerAssumption
       DEF SetAnswerTimeout, SendTypes, OtherTypes, HandlerInItsState,
           LagInHandlers, Reached
  <2>4. ASSUME NEW t \in CooldownIntervals, SetCooldownInterval(t)
        PROVE  IndInv'
    BY <1>1, <2>4, QuietStep, ProtocolHandlerAssumption
       DEF SetCooldownInterval, SendTypes, OtherTypes, HandlerInItsState,
           LagInHandlers, Reached
  <2>5. QED BY <1>2, <2>1, <2>2, <2>3, <2>4 DEF Application
<1>3. CASE Answering
  <2> SUFFICES ASSUME NEW w \in Writes, SendAnswer(w)
               PROVE  IndInv'
    BY <1>3 DEF Answering
  <2>1. SendTypes' /\ OtherTypes'
    BY <1>1, TypesOfTimes DEF SendAnswer, WriteMessage, SendTypes, OtherTypes,
                              Written
  <2>2. QED BY <1>1, <2>1, QuietStep
            DEF SendAnswer, HandlerInItsState, LagInHandlers, Reached
<1>4. CASE NoAnswer
  BY <1>1, <1>4, QuietStep
     DEF NoAnswer, SendTypes, OtherTypes, HandlerInItsState, LagInHandlers,
         Reached
<1>5. CASE Loop
  <2>1. CASE LoopDispatch
    <3>1. frame' \in Int
      BY <1>1, <2>1 DEF LoopDispatch, OtherTypes
    <3>2. SendTypes'
      BY <1>1, <2>1 DEF LoopDispatch, SendTypes
    <3>3. incoming' \in Seq(Nat)
      BY <2>1, EmptySeq DEF LoopDispatch, DropAll
    <3>4. OtherTypes'
      BY <1>1, <2>1, <3>1, <3>3 DEF LoopDispatch, OtherTypes
    <3>5. QED BY <1>1, <2>1, <3>2, <3>4, QuietStep
              DEF LoopDispatch, HandlerInItsState, LagInHandlers, Reached
  <2>2. CASE LoopSend
    <3>1. callback' = "none" /\ lag' = 0
      BY <1>1, <2>2 DEF LoopSend, LagInHandlers
    <3>2. /\ SendTypes' /\ QueueOK' /\ WaitingForHead'
          /\ LastTryIsAwaited' /\ RetryDelayBelongsToHead'
      BY <2>2, <3>1, SendNextPreserves DEF LoopSend
    <3>3. OtherTypes' /\ HandlerInItsState' /\ LagInHandlers'
      BY <1>1, <2>2, <3>1
         DEF LoopSend, OtherTypes, HandlerInItsState, LagInHandlers
    <3>4. QED BY <3>2, <3>3, TypesTogetherNext DEF IndInv
  <2>3. CASE LoopRetry
    <3>1. SendTypes' /\ OtherTypes' /\ HandlerInItsState' /\ LagInHandlers'
      BY <1>1, <2>3 DEF LoopRetry, TimedOut, BecomeIdle, SendTypes,
                        OtherTypes, HandlerInItsState, LagInHandlers
    <3>2. QueueOK'
      BY <1>1, <2>3, UnchangedQueue DEF LoopRetry
    <3>3. WaitingForHead' /\ RetryDelayBelongsToHead'
      BY <2>3 DEF IndInv, LoopRetry, BecomeIdle, WaitingForHead,
                  RetryDelayBelongsToHead, Reached
    <3>4. LastTryIsAwaited'
      <4>1. outgoing_messages # <<>>
        BY <2>3 DEF IndInv, LoopRetry, TimedOut, WaitingForHead
      <4>2. Head(outgoing_messages) \in OutgoingQueueItem
        BY <1>1, <4>1, HeadOfQueue
      <4>3. Head(outgoing_messages).number_of_retries \in Nat
        BY <4>2, ItemFields
      <4>4. Head(outgoing_messages).number_of_retries # 0
        BY <2>3 DEF LoopRetry, NoRetriesLeft
      <4>5. Head(outgoing_messages)' = Head(outgoing_messages)
        BY <2>3 DEF LoopRetry
      <4>6. HasRetries(Head(outgoing_messages)')
        BY <4>3, <4>4, <4>5 DEF HasRetries
      <4>7. QED BY <4>6 DEF LastTryIsAwaited, HasRetries
    <3>5. QED BY <3>1, <3>2, <3>3, <3>4, TypesTogetherNext DEF IndInv
  <2>4. CASE LoopTimeout
    <3>1. /\ QueueOK' /\ WaitingForHead' /\ LastTryIsAwaited'
          /\ RetryDelayBelongsToHead' /\ retry_time_point' \in TimePoint
      BY <2>4, PopWhileWaiting DEF LoopTimeout, TimedOut
    <3>2. SendTypes' /\ OtherTypes' /\ HandlerInItsState' /\ LagInHandlers'
      BY <1>1, <2>4, <3>1 DEF LoopTimeout, TimedOut, SendTypes, OtherTypes,
                              HandlerInItsState, LagInHandlers
    <3>3. QED BY <3>1, <3>2, TypesTogetherNext DEF IndInv
  <2>5. CASE LoopAnswer
    <3>1. frame' \in Int /\ incoming' \in Seq(Nat)
      BY <1>1, <2>5 DEF LoopAnswer, OtherTypes
    <3>2. SendTypes' /\ OtherTypes'
      BY <1>1, <2>5, <3>1 DEF LoopAnswer, SendTypes, OtherTypes
    <3>3. QED BY <1>1, <2>5, <3>2, QuietStep
              DEF LoopAnswer, HandlerInItsState, LagInHandlers, Reached
  <2>6. QED BY <1>5, <2>1, <2>2, <2>3, <2>4, <2>5 DEF Loop
<1>6. CASE HandlerReturns
  <2>1. CASE MessageHandlerReturns
    <3>1. state = "IDLE" /\ callback' = "none" /\ lag' = 0
      BY <1>1, <2>1 DEF MessageHandlerReturns, HandlerInItsState
    <3>2. OtherTypes' /\ HandlerInItsState' /\ LagInHandlers'
      <4>1. OtherTypes'
        <5>1. NoFrame \in Int /\ 0 \in 0 .. MaxLag
          BY <1>1
        <5>2. QED BY <1>1, <2>1, <5>1 DEF MessageHandlerReturns, OtherTypes
      <4>2. HandlerInItsState' /\ LagInHandlers'
        BY <2>1 DEF MessageHandlerReturns, HandlerInItsState, LagInHandlers
      <4>3. QED BY <4>1, <4>2
    <3>3. CASE SendNext
      BY <3>1, <3>2, <3>3, SendNextPreserves, TypesTogetherNext DEF IndInv
    <3>4. CASE UNCHANGED <<queueVars, clockVars, in_flight, history>>
      <4>1. SendTypes'
        BY <1>1, <3>4 DEF SendTypes
      <4>2. Reached(retry_time_point) => Reached(retry_time_point)'
        BY <1>1, <3>1, <3>4 DEF Reached, SendTypes, TimePoint
      <4>3. QED BY <2>1, <3>1, <3>2, <3>4, <4>1, <4>2, QuietStep
                DEF MessageHandlerReturns
    <3>5. QED BY <2>1, <3>3, <3>4 DEF MessageHandlerReturns
  <2>2. CASE TimeoutHandlerReturns
    <3>1. SendTypes' /\ OtherTypes' /\ HandlerInItsState' /\ LagInHandlers'
      BY <1>1, <2>2 DEF TimeoutHandlerReturns, BecomeIdle, SendTypes,
                        OtherTypes, HandlerInItsState, LagInHandlers
    <3>2. QueueOK'
      BY <1>1, <2>2, UnchangedQueue DEF TimeoutHandlerReturns
    <3>3. WaitingForHead'
      BY <2>2 DEF TimeoutHandlerReturns, BecomeIdle, WaitingForHead
    <3>4. RetryDelayBelongsToHead'
      <4>1. Reached(retry_time_point) => Reached(retry_time_point)'
        BY <1>1, <2>2 DEF TimeoutHandlerReturns, Reached, SendTypes, TimePoint
      <4>2. QED BY <2>2, <4>1 DEF IndInv, TimeoutHandlerReturns,
                                  RetryDelayBelongsToHead
    <3>5. LastTryIsAwaited'
      BY <2>2 DEF IndInv, TimeoutHandlerReturns, LastTryIsAwaited, HasRetries
    <3>6. QED BY <3>1, <3>2, <3>3, <3>4, <3>5, TypesTogetherNext DEF IndInv
  <2>3. CASE AnswerHandlerReturns
    <3>1. state = "WAITING_FOR_ANSWER"
      BY <1>1, <2>3 DEF AnswerHandlerReturns, HandlerInItsState
    <3>2. /\ QueueOK' /\ WaitingForHead' /\ LastTryIsAwaited'
          /\ RetryDelayBelongsToHead' /\ retry_time_point' \in TimePoint
      BY <2>3, <3>1, PopWhileWaiting DEF AnswerHandlerReturns, BecomeIdle
    <3>3. SendTypes' /\ OtherTypes' /\ HandlerInItsState' /\ LagInHandlers'
      BY <1>1, <2>3, <3>2
         DEF AnswerHandlerReturns, BecomeIdle, SendTypes, OtherTypes,
             HandlerInItsState, LagInHandlers
    <3>4. QED BY <3>2, <3>3, TypesTogetherNext DEF IndInv
  <2>4. QED BY <1>6, <2>1, <2>2, <2>3 DEF HandlerReturns
<1>7. CASE Device
  <2>1. CASE in_flight # <<>> /\ incoming' = Append(incoming,
                                              Head(in_flight).message)
             /\ in_flight' = Tail(in_flight) /\ DeviceUnchanged
    <3>1. Head(in_flight) \in [message: Message, age: Nat]
          /\ in_flight' \in Seq([message: Message, age: Nat])
      BY <1>1, <2>1, HeadTailProperties DEF SendTypes
    <3>2. Head(in_flight).message \in Nat
      BY <3>1, ProtocolHandlerAssumption
    <3>3. incoming' \in Seq(Nat)
      BY <1>1, <2>1, <3>2 DEF OtherTypes
    <3>4. SendTypes' /\ OtherTypes'
      BY <1>1, <2>1, <3>1, <3>3 DEF DeviceUnchanged, SendTypes, OtherTypes
    <3>5. QED BY <1>1, <2>1, <3>4, QuietStep
              DEF DeviceUnchanged, HandlerInItsState, LagInHandlers, Reached
  <2>2. CASE DeviceStaysSilent
    <3>1. in_flight' \in Seq([message: Message, age: Nat])
      BY <1>1, <2>2 DEF SendTypes, DeviceStaysSilent
    <3>2. SendTypes' /\ OtherTypes'
      BY <1>1, <2>2, <3>1
         DEF DeviceStaysSilent, DeviceUnchanged, SendTypes, OtherTypes
    <3>3. QED BY <1>1, <2>2, <3>2, QuietStep
              DEF DeviceStaysSilent, DeviceUnchanged, HandlerInItsState,
                  LagInHandlers, Reached
  <2>3. QED BY <1>7, <2>1, <2>2 DEF Device, DeviceAnswers
<1>8. CASE DeviceRequests
  <2>1. incoming' \in Seq(Nat)
    BY <1>1, <1>8 DEF DeviceRequests, OtherTypes
  <2>2. SendTypes' /\ OtherTypes'
    BY <1>1, <1>8, <2>1
       DEF DeviceRequests, DeviceUnchanged, SendTypes, OtherTypes
  <2>3. QED BY <1>1, <1>8, <2>2, QuietStep
            DEF DeviceRequests, DeviceUnchanged, HandlerInItsState,
                LagInHandlers, Reached
<1>9. CASE Tick
  <2>1. ASSUME NEW t \in TimePoint
        PROVE  Aged(t, Past) \in TimePoint
    BY <1>1 DEF TimePoint, Aged, Past
  <2>2. ASSUME NEW t \in Ago
        PROVE  Aged(t, -Horizon) \in Ago
    BY ProtocolHandlerAssumption DEF Ago, Aged
  <2>3. in_flight' \in Seq([message: Message, age: Nat])
    <3>1. \A i \in 1 .. Len(in_flight) :
            [in_flight[i] EXCEPT !.age = @ + 1] \in [message: Message, age: Nat]
      <4>1. ASSUME NEW x \in [message: Message, age: Nat]
            PROVE  [x EXCEPT !.age = @ + 1] \in [message: Message, age: Nat]
        OBVIOUS
      <4>2. \A i \in 1 .. Len(in_flight) :
              in_flight[i] \in [message: Message, age: Nat]
        BY <1>1, ElementOfSeq DEF SendTypes
      <4>3. QED BY <4>1, <4>2
    <3>2. Len(in_flight) \in Nat
      BY <1>1 DEF SendTypes
    <3>3. QED BY <1>9, <3>1, <3>2, IsASeq DEF Tick
  <2>4. last_write' \in [at: Ago, cooldown: 0 .. Horizon - 1]
        /\ last_request' \in [at: Ago, timeout: 0 .. Horizon - 1]
    BY <1>1, <1>9, <2>2 DEF Tick, SendTypes
  <2>5. SendTypes'
    BY <1>1, <1>9, <2>1, <2>3, <2>4 DEF Tick, SendTypes
  <2>6. lag' \in 0 .. MaxLag
    BY <1>1, <1>9 DEF Tick, LagInHandlers
  <2>7. OtherTypes' /\ HandlerInItsState' /\ LagInHandlers'
    BY <1>1, <1>9, <2>6 DEF Tick, OtherTypes, HandlerInItsState, LagInHandlers
  <2>8. Reached(retry_time_point) => Reached(retry_time_point)'
    BY <1>1, <1>9, <2>6
       DEF Tick, Reached, SendTypes, TimePoint, Aged, Past, LagInHandlers
  <2>9. QED BY <1>1, <1>9, <2>5, <2>7, <2>8, QuietStep DEF Tick
<1>10. CASE UNCHANGED vars
  BY <1>1, <1>10, QuietStep
     DEF vars, SendTypes, OtherTypes, HandlerInItsState, LagInHandlers, Reached
<1>11. QED BY <1>2, <1>3, <1>4, <1>5, <1>6, <1>7, <1>8, <1>9, <1>10 DEF Next

(***************************************************************************)
(* The inductive invariant holds in every reachable state.                 *)
(***************************************************************************)
THEOREM Invariance == Spec => []IndInv
<1>1. Init => IndInv
  BY InitEstablishes
<1>2. IndInv /\ [Next]_vars => IndInv'
  BY NextPreserves
<1>3. QED BY <1>1, <1>2, PTL DEF Spec

(***************************************************************************)
(* Type correctness, for every number of messages, retries and intervals:  *)
(* in particular number_of_retries never falls below zero.                 *)
(***************************************************************************)
THEOREM TypeCorrect == Spec => []TypeOK
<1>1. IndInv => TypeOK
  BY DEF IndInv
<1>2. QED BY <1>1, Invariance, PTL

(***************************************************************************)
(* Messages are decided in the order of their submission, and the queue    *)
(* holds exactly those that are not.                                       *)
(***************************************************************************)
THEOREM MessagesInOrder == Spec => []QueueIsSuffix
<1>1. IndInv => QueueIsSuffix
  BY DEF IndInv, QueueOK
<1>2. QED BY <1>1, Invariance, PTL

(***************************************************************************)
(* Whenever loop() takes the front of the queue for the message that awaits*)
(* an answer, it is there and it is that message.                          *)
(***************************************************************************)
THEOREM HeadIsAwaited == Spec => []WaitingForHead
<1>1. IndInv => WaitingForHead
  BY DEF IndInv
<1>2. QED BY <1>1, Invariance, PTL

(***************************************************************************)
(* No message leaves the queue without its reason.                         *)
(***************************************************************************)
THEOREM OutcomesJustified == Spec => []OutcomeJustified
<1>1. IndInv => OutcomeJustified
  BY DEF IndInv, QueueOK
<1>2. QED BY <1>1, Invariance, PTL

(***************************************************************************)
(* A new message never waits for the retry interval of an earlier one.     *)
(***************************************************************************)
THEOREM RetryDelayIsOwn == Spec => []RetryDelayBelongsToHead
<1>1. IndInv => RetryDelayBelongsToHead
  BY DEF IndInv
<1>2. QED BY <1>1, Invariance, PTL

(***************************************************************************)
(* No message is transmitted more often than it was granted.               *)
(***************************************************************************)
THEOREM BudgetRespected == Spec => []TransmissionBudget
<1>1. IndInv => TransmissionBudget
  <2> SUFFICES ASSUME IndInv
               PROVE  TransmissionBudget
    OBVIOUS
  <2>1. QueueOK
    BY DEF IndInv
  <2>2. ASSUME NEW i \in 1 .. Len(outgoing_messages)
        PROVE  LET item == outgoing_messages[i] IN
               /\ log[item.id].sends + item.number_of_retries
                    <= log[item.id].budget
               /\ OnWire(item.write) =>
                    log[item.id].sends + item.number_of_retries
                      = log[item.id].budget
    <3> DEFINE item == outgoing_messages[i]
               m    == log[item.id]
    <3>1. ItemAgreesWith(item, m)
      BY <2>1 DEF QueueOK, ItemsAgreeWithLog
    <3>2. item.id \in 1 .. Len(log) /\ item \in OutgoingQueueItem
      BY <2>1, ElementOfSeq DEF QueueOK, QueueIsSuffix
    <3>3. m \in LogEntry
      BY <2>1, <3>2, ElementOfSeq DEF QueueOK
    <3>4. /\ m.sends \in Nat /\ m.budget \in Nat
          /\ item.number_of_retries \in Nat
      BY <3>2, <3>3, ItemFields, EntryFields
    <3> HIDE DEF item, m
    <3>5. QED BY <3>1, <3>4 DEF ItemAgreesWith, item, m
  <2>3. QED BY <2>1, <2>2 DEF TransmissionBudget, QueueOK, WithinBudget
<1>2. QED BY <1>1, Invariance, PTL

-----------------------------------------------------------------------------
(***************************************************************************)
(* What a step transmits, and who else may take a step.  Dialogue has a    *)
(* line in place of the device, and two handlers at its ends.              *)
(***************************************************************************)
SendsOf(n) == IF n \in 1 .. Len(log) THEN log[n].sends ELSE 0

SameSends == \A n \in Message : SendsOf(n)' = SendsOf(n)

\* The step writes message id to the wire.
Transmits(id) ==
    /\ in_flight' = Append(in_flight, [message |-> id, age |-> 0])
    /\ \A n \in Message :
         SendsOf(n)' = IF n = id THEN SendsOf(n) + 1 ELSE SendsOf(n)
    /\ state' = "WAITING_FOR_ANSWER" => last_message_type' = id

TransmitsNothing ==
    /\ UNCHANGED in_flight
    /\ SameSends
    /\ state' \in {state, "IDLE"}
    /\ UNCHANGED last_message_type

LEMMA SendsOfType ==
    ASSUME IndInv
    PROVE  \A n : SendsOf(n) \in Nat
<1>1. log \in Seq(LogEntry)
  BY DEF IndInv, QueueOK
<1>2. ASSUME NEW n \in 1 .. Len(log) PROVE log[n].sends \in Nat
  BY <1>1, ElementOfSeq, EntryFields
<1>3. QED BY <1>2 DEF SendsOf

LEMMA SendsAppended ==
    ASSUME log \in Seq(LogEntry), NEW entry, entry.sends = 0,
           log' = Append(log, entry)
    PROVE  SameSends
<1> SUFFICES ASSUME NEW n \in Message PROVE SendsOf(n)' = SendsOf(n)
  BY DEF SameSends
<1>1. Len(log) \in Nat
  OBVIOUS
<1>2. /\ Len(log') = Len(log) + 1
      /\ \A i \in 1 .. Len(log) : log'[i] = log[i]
      /\ log'[Len(log) + 1] = entry
  OBVIOUS
<1> DEFINE before == Len(log)
           after  == Len(log')
<1>3. /\ before \in Nat /\ after = before + 1
      /\ \A i \in 1 .. before : log'[i] = log[i]
      /\ log'[before + 1] = entry
  BY <1>1, <1>2
<1>4. /\ SendsOf(n)' = IF n \in 1 .. after THEN log'[n].sends ELSE 0
      /\ SendsOf(n) = IF n \in 1 .. before THEN log[n].sends ELSE 0
  BY DEF SendsOf
<1> HIDE DEF before, after
<1>5. CASE n \in 1 .. before
  <2>1. n \in 1 .. after
    BY <1>3, <1>5
  <2>2. QED BY <1>3, <1>4, <1>5, <2>1
<1>6. CASE n \notin 1 .. before
  <2>1. n \in 1 .. after => n = before + 1
    BY <1>3, <1>6
  <2>2. SendsOf(n)' = 0
    <3>1. CASE n \in 1 .. after
      <4>1. log'[n] = entry
        BY <1>3, <2>1, <3>1
      <4>2. QED BY <1>4, <3>1, <4>1
    <3>2. CASE n \notin 1 .. after
      BY <1>4, <3>2
    <3>3. QED BY <3>1, <3>2
  <2>3. SendsOf(n) = 0
    BY <1>4, <1>6
  <2>4. QED BY <2>2, <2>3
<1>7. QED BY <1>5, <1>6

LEMMA SendsSettled ==
    ASSUME log \in Seq(LogEntry), NEW k, NEW outcome,
           log' = Settled(k, outcome)
    PROVE  SameSends
<1> SUFFICES ASSUME NEW n \in Message PROVE SendsOf(n)' = SendsOf(n)
  BY DEF SameSends
<1>1. DOMAIN log' = DOMAIN log /\ DOMAIN log = 1 .. Len(log)
  BY DEF Settled
<1>2. Len(log') = Len(log)
  BY <1>1 DEF Settled
<1>3. ASSUME n \in 1 .. Len(log)
      PROVE  log'[n].sends = log[n].sends
  <2>1. log[n] \in LogEntry
    BY <1>3, ElementOfSeq
  <2>2. [log[n] EXCEPT !.outcome = outcome].sends = log[n].sends
    BY <2>1 DEF LogEntry
  <2>3. log'[n] = IF n = k THEN [log[n] EXCEPT !.outcome = outcome]
                  ELSE log[n]
    BY <1>1, <1>3 DEF Settled
  <2>4. QED BY <2>2, <2>3
<1>4. QED BY <1>2, <1>3 DEF SendsOf

\* One more transmission, with another outcome or with the same.
LEMMA SendsCounted ==
    ASSUME log \in Seq(LogEntry), NEW id \in 1 .. Len(log), NEW entry,
           entry.sends = log[id].sends + 1,
           log' = [log EXCEPT ![id] = entry]
    PROVE  \A n \in Message :
              SendsOf(n)' = IF n = id THEN SendsOf(n) + 1 ELSE SendsOf(n)
<1> SUFFICES ASSUME NEW n \in Message
             PROVE  SendsOf(n)' = IF n = id THEN SendsOf(n) + 1 ELSE SendsOf(n)
  OBVIOUS
<1>1. DOMAIN log = 1 .. Len(log) /\ Len(log') = Len(log)
  OBVIOUS
<1>2. ASSUME n \in 1 .. Len(log)
      PROVE  log'[n] = IF n = id THEN entry ELSE log[n]
  BY <1>1, <1>2
<1>3. QED BY <1>1, <1>2 DEF SendsOf

LEMMA SendNextTransmits ==
    ASSUME IndInv, SendNext, state = "IDLE"
    PROVE  TransmitsNothing \/ \E id \in Message : Transmits(id)
<1> DEFINE item == Head(outgoing_messages)
           m    == log[item.id]
<1>1. QueueOK /\ outgoing_messages # <<>> /\ log \in Seq(LogEntry)
  BY DEF IndInv, SendNext, ReadyToSend, QueueOK
<1>2. /\ item.id \in 1 .. Len(log) /\ item.id \in Message /\ m \in LogEntry
  BY <1>1, HeadOfQueue, ItemFields
<1>3. CASE Discard
  <2>1. log' = Settled(item.id, "dropped")
    BY <1>3 DEF Discard
  <2>2. SameSends
    BY <1>1, <2>1, SendsSettled
  <2>3. QED BY <1>3, <2>2 DEF TransmitsNothing, Discard
<1>4. CASE Transmit /\ ~OnWire(item.write)
  <2>1. WriteFails(item) /\ UNCHANGED in_flight
    BY <1>4 DEF Transmit, SendsWithoutAnswer, SendsRequest, Written, OnWire
  <2>2. log' = [log EXCEPT ![item.id].sends = @]
    BY <1>4, <2>1 DEF WriteFails
  <2>3. log' = log
    <3>1. [m EXCEPT !.sends = @] = m
      BY <1>2 DEF LogEntry
    <3> HIDE DEF item
    <3>2. QED BY <1>1, <1>2, <2>2, <3>1
  <2>4. SameSends
    BY <2>3 DEF SameSends, SendsOf
  <2>5. QED BY <2>1, <2>4 DEF TransmitsNothing, WriteFails
<1>5. CASE Transmit /\ OnWire(item.write)
  <2>1. in_flight' = Append(in_flight, [message |-> item.id, age |-> 0])
    BY <1>5 DEF Transmit
  <2>2. state' = "WAITING_FOR_ANSWER" => last_message_type' = item.id
    BY <1>5 DEF Transmit, WriteFails, SendsWithoutAnswer, SendsRequest
  <2>3. \/ log' = [log EXCEPT ![item.id].sends = @ + 1]
        \/ log' = [log EXCEPT ![item.id].sends = @ + 1,
                              ![item.id].outcome = "sent"]
    BY <1>5 DEF Transmit, WriteFails, SendsWithoutAnswer, SendsRequest
  <2>4. PICK entry :
          /\ log' = [log EXCEPT ![item.id] = entry]
          /\ entry.sends = m.sends + 1
    <3> DEFINE once == [m EXCEPT !.sends = @ + 1]
               over == [m EXCEPT !.sends = @ + 1, !.outcome = "sent"]
    <3>1. once.sends = m.sends + 1 /\ over.sends = m.sends + 1
      BY <1>2 DEF LogEntry
    <3>2. \/ log' = [log EXCEPT ![item.id] = once]
          \/ log' = [log EXCEPT ![item.id] = over]
      <4> HIDE DEF item
      <4>1. QED BY <2>3, <1>1, <1>2
    <3> HIDE DEF once, over
    <3>3. QED BY <3>1, <3>2
  <2> HIDE DEF item
  <2>5. \A n \in Message :
          SendsOf(n)' = IF n = item.id THEN SendsOf(n) + 1 ELSE SendsOf(n)
    BY <1>1, <1>2, <2>4, SendsCounted
  <2>6. Transmits(item.id)
    BY <2>1, <2>2, <2>5 DEF Transmits
  <2>7. QED BY <1>2, <2>6
<1>6. QED BY <1>3, <1>4, <1>5 DEF SendNext

LEMMA StepTransmits ==
    ASSUME IndInv, Application \/ Loop \/ HandlerReturns
    PROVE  TransmitsNothing \/ \E id \in Message : Transmits(id)
<1> USE DEF answerVars, configVars, clockVars, loopVars, wireVars, queueVars,
            history
<1>1. log \in Seq(LogEntry)
  BY DEF IndInv, QueueOK
<1>2. ASSUME UNCHANGED <<in_flight, log, last_message_type>>,
             state' \in {state, "IDLE"}
      PROVE  TransmitsNothing
  BY <1>2 DEF TransmitsNothing, SameSends, SendsOf
<1>3. ASSUME UNCHANGED <<in_flight, last_message_type>>,
             state' \in {state, "IDLE"}, SameSends
      PROVE  TransmitsNothing
  BY <1>3 DEF TransmitsNothing
<1>4. CASE Application
  <2>1. ASSUME NEW b, NEW r, NEW i, NEW w, Enqueue(b, r, i, w)
        PROVE  TransmitsNothing
    <3>1. SameSends
      BY <1>1, <2>1, SendsAppended DEF Enqueue
    <3>2. QED BY <1>3, <2>1, <3>1 DEF Enqueue
  <2>2. QED BY <1>2, <1>4, <2>1
            DEF Application, SendMessage, SendMessageWithoutAnswer,
                SetAnswerTimeout, SetCooldownInterval
<1>5. CASE LoopDispatch \/ LoopRetry \/ LoopAnswer \/ TimeoutHandlerReturns
  BY <1>2, <1>5 DEF LoopDispatch, LoopRetry, LoopAnswer,
                    TimeoutHandlerReturns, BecomeIdle
<1>6. CASE LoopTimeout
  <2>1. SameSends
    BY <1>1, <1>6, SendsSettled DEF LoopTimeout
  <2>2. QED BY <1>3, <1>6, <2>1 DEF LoopTimeout
<1>7. CASE AnswerHandlerReturns
  <2>1. SameSends
    BY <1>1, <1>7, SendsSettled DEF AnswerHandlerReturns
  <2>2. QED BY <1>3, <1>7, <2>1 DEF AnswerHandlerReturns, BecomeIdle
<1>8. CASE LoopSend
  BY <1>8, SendNextTransmits DEF LoopSend
<1>9. CASE MessageHandlerReturns
  <2>1. state = "IDLE"
    BY <1>9 DEF MessageHandlerReturns, IndInv, HandlerInItsState
  <2>2. QED BY <1>2, <1>9, <2>1, SendNextTransmits DEF MessageHandlerReturns
<1>10. QED BY <1>4, <1>5, <1>6, <1>7, <1>8, <1>9 DEF Loop, HandlerReturns

\* An answer that the application sends, whatever Writes has it.
LEMMA AnswerPreserves ==
    ASSUME IndInv, NEW write, SendAnswer(write)
    PROVE  IndInv'
<1>1. /\ SendTypes /\ OtherTypes /\ HandlerInItsState /\ LagInHandlers
      /\ lag \in 0 .. MaxLag
  BY TypesApart DEF IndInv, OtherTypes
<1>2. SendTypes' /\ OtherTypes'
  BY <1>1, TypesOfTimes
     DEF SendAnswer, WriteMessage, SendTypes, OtherTypes, Written,
         queueVars, configVars, loopVars, wireVars
<1>3. QED BY <1>1, <1>2, QuietStep
          DEF SendAnswer, HandlerInItsState, LagInHandlers, Reached,
              queueVars, configVars, loopVars, wireVars

\* A frame that arrives, whoever sent it.
LEMMA ArrivalPreserves ==
    ASSUME IndInv, NEW arrived \in Nat, DeviceUnchanged,
           UNCHANGED in_flight,
           incoming' \in {incoming, Append(incoming, arrived)}
    PROVE  IndInv'
<1>1. SendTypes /\ OtherTypes /\ HandlerInItsState /\ LagInHandlers
  BY TypesApart DEF IndInv
<1>2. SendTypes'
  BY <1>1 DEF DeviceUnchanged, SendTypes, queueVars, clockVars, history
<1>3. incoming' \in Seq(Nat)
  BY <1>1, AppendProperties DEF OtherTypes
<1>4. OtherTypes'
  BY <1>1, <1>3 DEF DeviceUnchanged, OtherTypes, answerVars, configVars,
                    loopVars
<1>5. QED BY <1>1, <1>2, <1>4, QuietStep
          DEF DeviceUnchanged, HandlerInItsState, LagInHandlers, Reached,
              queueVars, answerVars, clockVars, loopVars, history

\* Frames leave `incoming' only for a handler, and all or from the front.
LEMMA WhoTakesFrames ==
    ASSUME Application \/ Loop \/ HandlerReturns
    PROVE  \/ LoopDispatch
           \/ LoopAnswer
           \/ /\ UNCHANGED <<incoming, answer_sent>>
              /\ frame' \in {frame, NoFrame}
              /\ \/ UNCHANGED <<callback, frame, lag>>
                 \/ callback' \in {"none", "timeout_handler"}
BY DEF Application, SendMessage, SendMessageWithoutAnswer, Enqueue,
       SetAnswerTimeout, SetCooldownInterval, Loop, LoopSend, LoopRetry,
       LoopTimeout, HandlerReturns, MessageHandlerReturns,
       TimeoutHandlerReturns, AnswerHandlerReturns, answerVars, loopVars,
       wireVars

\* Who transmits, and what else the step does.
LEMMA WhoTransmits ==
    ASSUME Application \/ Loop \/ HandlerReturns
    PROVE  \/ UNCHANGED <<in_flight, last_write>>
           \/ /\ ReadyToSend
              /\ WriteMessage
              /\ callback' = "none"
              /\ UNCHANGED <<incoming, cooldown_interval>>
              /\ \/ incoming = <<>> /\ callback = "none"
                 \/ callback = "message_handler"
BY DEF Application, SendMessage, SendMessageWithoutAnswer, Enqueue,
       SetAnswerTimeout, SetCooldownInterval, Loop, LoopDispatch, LoopSend,
       LoopRetry, LoopTimeout, LoopAnswer, TimedOut, HandlerReturns,
       MessageHandlerReturns, TimeoutHandlerReturns, AnswerHandlerReturns,
       SendNext, Transmit, Discard, configVars, loopVars, wireVars, history

\* What holds of every frame that arrives holds of those in the handlers.
LEMMA FramesStay ==
    ASSUME NEW S, incoming \in Seq(S), frame \in S \union {NoFrame},
           Application \/ Loop \/ HandlerReturns
    PROVE  incoming' \in Seq(S) /\ frame' \in S \union {NoFrame}
<1>1. CASE LoopDispatch
  <2>1. incoming' = <<>> /\ frame' = incoming[Len(incoming)]
    BY <1>1 DEF LoopDispatch, DropAll
  <2>2. Len(incoming) \in 1 .. Len(incoming)
    BY <1>1 DEF LoopDispatch
  <2>3. QED BY <2>1, <2>2, ElementOfSeq
<1>2. CASE LoopAnswer
  BY <1>2, HeadTailProperties DEF LoopAnswer
<1>3. CASE UNCHANGED incoming /\ frame' \in {frame, NoFrame}
  BY <1>3
<1>4. QED BY <1>1, <1>2, <1>3, WhoTakesFrames

\* Who decides what became of a message.
LEMMA SettledOutcomes ==
    ASSUME log \in Seq(LogEntry), NEW k, NEW outcome,
           log' = Settled(k, outcome), NEW n \in 1 .. Len(log')
    PROVE  /\ n \in 1 .. Len(log)
           /\ log'[n].outcome = IF n = k THEN outcome ELSE log[n].outcome
<1>1. DOMAIN log' = DOMAIN log /\ DOMAIN log = 1 .. Len(log)
  BY DEF Settled
<1>2. Len(log') = Len(log)
  BY <1>1 DEF Settled
<1>3. n \in 1 .. Len(log) /\ log[n] \in LogEntry
  BY <1>2, ElementOfSeq
<1>4. [log[n] EXCEPT !.outcome = outcome].outcome = outcome
  BY <1>3 DEF LogEntry
<1>5. log'[n] = IF n = k THEN [log[n] EXCEPT !.outcome = outcome] ELSE log[n]
  BY <1>1, <1>3 DEF Settled
<1>6. QED BY <1>3, <1>4, <1>5

LEMMA StepDecides ==
    ASSUME IndInv, Application \/ Loop \/ HandlerReturns,
           NEW n \in 1 .. Len(log')
    PROVE  \/ n \in 1 .. Len(log) /\ log'[n].outcome = log[n].outcome
           \/ log'[n].outcome \in {"queued", "sent", "dropped"}
           \/ log'[n].outcome = "timed_out" /\ LoopTimeout
           \/ /\ log'[n].outcome = "answered"
              /\ AnswerHandlerReturns
              /\ n = Head(outgoing_messages).id
<1> USE DEF answerVars, configVars, clockVars, loopVars, wireVars, queueVars,
            history
<1> DEFINE Stays == n \in 1 .. Len(log) /\ log'[n].outcome = log[n].outcome
<1>1. log \in Seq(LogEntry) /\ Len(log) \in Nat
  BY DEF IndInv, QueueOK
<1>2. UNCHANGED log => Stays
  OBVIOUS
<1>3. ASSUME NEW b, NEW r, NEW i, NEW w, Enqueue(b, r, i, w)
      PROVE  Stays \/ log'[n].outcome = "queued"
  <2> DEFINE entry == [expects |-> ~b, budget |-> r, sends |-> 0,
                       outcome |-> "queued"]
  <2>1. log' = Append(log, entry) /\ entry.outcome = "queued"
    BY <1>3 DEF Enqueue
  <2> HIDE DEF entry
  <2>2. \/ n \in 1 .. Len(log) /\ log'[n] = log[n]
        \/ log'[n] = entry
    BY <1>1, <2>1
  <2>3. QED BY <2>1, <2>2
<1>4. ASSUME NEW item, NEW s, log' = [log EXCEPT ![item.id].sends = s]
      PROVE  Stays
  <2>1. DOMAIN log' = DOMAIN log /\ Len(log') = Len(log)
    BY <1>1, <1>4
  <2>2. n \in 1 .. Len(log) /\ log[n] \in LogEntry
    BY <1>1, <2>1, ElementOfSeq
  <2>3. [log[n] EXCEPT !.sends = s].outcome = log[n].outcome
    BY <2>2 DEF LogEntry
  <2>4. log'[n] = IF n = item.id THEN [log[n] EXCEPT !.sends = s] ELSE log[n]
    BY <1>1, <1>4, <2>2
  <2>5. QED BY <2>2, <2>3, <2>4
<1>5. ASSUME NEW item, NEW s,
             log' = [log EXCEPT ![item.id].sends = s,
                                ![item.id].outcome = "sent"]
      PROVE  Stays \/ log'[n].outcome = "sent"
  <2>1. DOMAIN log' = DOMAIN log /\ Len(log') = Len(log)
    BY <1>1, <1>5
  <2>2. n \in 1 .. Len(log) /\ log[n] \in LogEntry
    BY <1>1, <2>1, ElementOfSeq
  <2> DEFINE t == [log EXCEPT ![item.id].sends = s]
             e == [log[n] EXCEPT !.sends = s]
  <2>3. /\ DOMAIN t = DOMAIN log /\ n \in DOMAIN t
        /\ t[n] = IF n = item.id THEN e ELSE log[n]
    BY <1>1, <2>2
  <2>4. e \in [expects: BOOLEAN, budget: Nat, sends: {s}, outcome: Outcome]
    BY <2>2 DEF LogEntry
  <2>5. log' = [t EXCEPT ![item.id].outcome = "sent"]
    BY <1>5
  <2> HIDE DEF t, e
  <2>6. log'[n] = IF n = item.id THEN [t[n] EXCEPT !.outcome = "sent"]
                  ELSE t[n]
    BY <2>3, <2>5
  <2>7. [e EXCEPT !.outcome = "sent"].outcome = "sent"
    BY <2>4
  <2>8. QED BY <2>2, <2>3, <2>6, <2>7
<1>6. ASSUME SendNext
      PROVE  Stays \/ log'[n].outcome \in {"sent", "dropped"}
  <2> DEFINE item == Head(outgoing_messages)
             once == log[item.id].sends + 1
  <2>1. CASE Discard
    <3>1. log' = Settled(item.id, "dropped")
      BY <2>1 DEF Discard
    <3>2. QED BY <1>1, <3>1, SettledOutcomes
  <2>2. CASE Transmit
    <3>1. \/ \E s : log' = [log EXCEPT ![item.id].sends = s]
          \/ log' = [log EXCEPT ![item.id].sends = once,
                                ![item.id].outcome = "sent"]
      BY <2>2 DEF Transmit, WriteFails, SendsWithoutAnswer, SendsRequest
    <3> HIDE DEF item, once
    <3>2. QED BY <1>4, <1>5, <3>1
  <2>3. QED BY <1>6, <2>1, <2>2 DEF SendNext
<1>7. CASE Application
  BY <1>2, <1>3, <1>7
     DEF Application, SendMessage, SendMessageWithoutAnswer,
         SetAnswerTimeout, SetCooldownInterval
<1>8. CASE LoopTimeout
  <2>1. log' = Settled(Head(outgoing_messages).id, "timed_out")
    BY <1>8 DEF LoopTimeout
  <2>2. QED BY <1>1, <1>8, <2>1, SettledOutcomes
<1>9. CASE AnswerHandlerReturns
  <2>1. log' = Settled(Head(outgoing_messages).id, "answered")
    BY <1>9 DEF AnswerHandlerReturns
  <2>2. QED BY <1>1, <1>9, <2>1, SettledOutcomes
<1>10. CASE LoopDispatch \/ LoopRetry \/ LoopAnswer \/ TimeoutHandlerReturns
              \/ LoopSend \/ MessageHandlerReturns
  BY <1>2, <1>6, <1>10
     DEF LoopDispatch, LoopRetry, LoopAnswer, TimeoutHandlerReturns,
         LoopSend, MessageHandlerReturns
<1>11. QED BY <1>7, <1>8, <1>9, <1>10 DEF Loop, HandlerReturns

=============================================================================
