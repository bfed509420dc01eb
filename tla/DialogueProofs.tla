--------------------------- MODULE DialogueProofs ---------------------------
(***************************************************************************)
(* Theorems about Dialogue, for every value of its constants.              *)
(*                                                                         *)
(* What is known of a ProtocolHandler is known of each end: the client's   *)
(* lemmas come with EXTENDS, the server's with the instance ServerSide.    *)
(* The rest is what the two ends and the line between them have in common, *)
(* in three invariants, each resting on the ones before it:                *)
(*   DialogueInv  a request is counted where it is: in flight, arrived, or *)
(*                served, and an answer is to a request that was served;   *)
(*   ExchangeInv  as long as the server only answers, one frame at a time  *)
(*                is under way, no older than the client's last write, and *)
(*                it belongs to the request the client waits for;          *)
(*   InTimeInv    as long as nothing is lost either, that frame comes      *)
(*                before the answer timeout.                               *)
(***************************************************************************)
EXTENDS Dialogue, TimingProofs, FiniteSetTheorems, FunctionTheorems

ServerSide == INSTANCE ProtocolHandlerProofs WITH
    MaxMessages <- ServerMessages, Repeats <- ServerRepeats,
    MaxLag <- ServerLag, state <- server_state,
    outgoing_messages <- server_outgoing,
    processing_message <- server_processing,
    answer_sent <- server_answer_sent,
    last_message_type <- server_last_type,
    answer_timeout_interval <- server_timeout_interval,
    cooldown_interval <- server_cooldown_interval,
    cooldown_time_point <- server_cooldown,
    answer_time_point <- server_answer_time,
    retry_time_point <- server_retry_time, callback <- server_callback,
    lag <- server_lag, frame <- server_frame, incoming <- server_incoming,
    in_flight <- server_in_flight, log <- server_log,
    last_write <- server_last_write, last_request <- server_last_request

(***************************************************************************)
(* What is known of a handler is known of the server's.                    *)
(***************************************************************************)
LEMMA ServerAssumption == ServerSide!ProtocolHandlerAssumption
BY ProtocolHandlerAssumption, DialogueAssumption
   DEF ServerSide!ProtocolHandlerAssumption, ServerSide!WriteOutcome,
       WriteOutcome

LEMMA SameHandler ==
    /\ Server!Init => ServerSide!Init
    /\ Server!Tick => ServerSide!Tick
    /\ Server!Application => ServerSide!Application
    /\ Server!SendAnswer("sent") => ServerSide!SendAnswer("sent")
    /\ Server!LoopDispatch => ServerSide!LoopDispatch
    /\ Server!LoopSend => ServerSide!LoopSend
    /\ Server!LoopRetry => ServerSide!LoopRetry
    /\ Server!LoopTimeout => ServerSide!LoopTimeout
    /\ Server!LoopAnswer => ServerSide!LoopAnswer
    /\ Server!MessageHandlerReturns => ServerSide!MessageHandlerReturns
    /\ Server!TimeoutHandlerReturns => ServerSide!TimeoutHandlerReturns
    /\ Server!AnswerHandlerReturns => ServerSide!AnswerHandlerReturns
    /\ Server!DeviceUnchanged => ServerSide!DeviceUnchanged
<1> USE DEF Server!queueVars, Server!answerVars, Server!configVars,
            Server!clockVars, Server!loopVars, Server!wireVars,
            Server!history, Server!Past, Server!NoFrame, Server!FromNow,
            Server!Reached, Server!Passed, Server!Pop,
            Server!ResetRetryTime, Server!BecomeIdle, Server!Settled,
            Server!Written, Server!WriteMessage, Server!TimedOut,
            Server!NoRetriesLeft, Server!SendNext, Server!ReadyToSend,
            Server!Transmit, Server!Discard, Server!HasRetries,
            Server!OnWire, Server!WriteFails, Server!SendsWithoutAnswer,
            Server!SendsRequest, Server!Spent,
            ServerSide!queueVars, ServerSide!answerVars,
            ServerSide!configVars, ServerSide!clockVars,
            ServerSide!loopVars, ServerSide!wireVars, ServerSide!history,
            ServerSide!Past, ServerSide!NoFrame, ServerSide!FromNow,
            ServerSide!Reached, ServerSide!Passed, ServerSide!Pop,
            ServerSide!ResetRetryTime, ServerSide!BecomeIdle,
            ServerSide!Settled, ServerSide!Written,
            ServerSide!WriteMessage, ServerSide!TimedOut,
            ServerSide!NoRetriesLeft, ServerSide!SendNext,
            ServerSide!ReadyToSend, ServerSide!Transmit,
            ServerSide!Discard, ServerSide!HasRetries, ServerSide!OnWire,
            ServerSide!WriteFails, ServerSide!SendsWithoutAnswer,
            ServerSide!SendsRequest, ServerSide!Spent
<1>1. ASSUME Server!Init PROVE ServerSide!Init
    BY <1>1 DEF Server!Init, ServerSide!Init
<1>2. ASSUME Server!Tick PROVE ServerSide!Tick
    BY <1>2 DEF Server!Tick, Server!Aged, ServerSide!Tick, ServerSide!Aged
<1>3. ASSUME Server!Application PROVE ServerSide!Application
    BY <1>3 DEF Server!Application, Server!SendMessage,
                Server!SendMessageWithoutAnswer, Server!SetAnswerTimeout,
                Server!SetCooldownInterval, Server!Enqueue,
                Server!Granted, Server!Lesser, ServerSide!Application,
                ServerSide!SendMessage,
                ServerSide!SendMessageWithoutAnswer,
                ServerSide!SetAnswerTimeout,
                ServerSide!SetCooldownInterval, ServerSide!Enqueue,
                ServerSide!Granted, ServerSide!Lesser
<1>4. ASSUME Server!SendAnswer("sent") PROVE ServerSide!SendAnswer("sent")
    BY <1>4 DEF Server!SendAnswer, ServerSide!SendAnswer
<1>5. ASSUME Server!LoopDispatch PROVE ServerSide!LoopDispatch
    BY <1>5 DEF Server!LoopDispatch, Server!DropAll,
                ServerSide!LoopDispatch, ServerSide!DropAll
<1>6. ASSUME Server!LoopSend PROVE ServerSide!LoopSend
    BY <1>6 DEF Server!LoopSend, ServerSide!LoopSend
<1>7. ASSUME Server!LoopRetry PROVE ServerSide!LoopRetry
    BY <1>7 DEF Server!LoopRetry, ServerSide!LoopRetry
<1>8. ASSUME Server!LoopTimeout PROVE ServerSide!LoopTimeout
    BY <1>8 DEF Server!LoopTimeout, ServerSide!LoopTimeout
<1>9. ASSUME Server!LoopAnswer PROVE ServerSide!LoopAnswer
    BY <1>9 DEF Server!LoopAnswer, ServerSide!LoopAnswer
<1>10. ASSUME Server!MessageHandlerReturns
       PROVE  ServerSide!MessageHandlerReturns
    BY <1>10 DEF Server!MessageHandlerReturns,
                 ServerSide!MessageHandlerReturns
<1>11. ASSUME Server!TimeoutHandlerReturns
       PROVE  ServerSide!TimeoutHandlerReturns
    BY <1>11 DEF Server!TimeoutHandlerReturns,
                 ServerSide!TimeoutHandlerReturns
<1>12. ASSUME Server!AnswerHandlerReturns
       PROVE  ServerSide!AnswerHandlerReturns
    BY <1>12 DEF Server!AnswerHandlerReturns,
                 ServerSide!AnswerHandlerReturns
<1>13. ASSUME Server!DeviceUnchanged PROVE ServerSide!DeviceUnchanged
    BY <1>13 DEF Server!DeviceUnchanged, ServerSide!DeviceUnchanged
<1> QED  BY <1>1, <1>2, <1>3, <1>4, <1>5, <1>6, <1>7, <1>8, <1>9, <1>10,
            <1>11, <1>12, <1>13

\* The assumption of the handler, for each end: its lemmas need it.
LEMMA ServerNext ==
    ASSUME ServerSide!IndInv,
           \/ ServerSide!Application
           \/ ServerSide!Loop
           \/ ServerSide!HandlerReturns
           \/ ServerSide!Tick
           \/ UNCHANGED ServerSide!vars
    PROVE  ServerSide!IndInv'
<1>1. [ServerSide!Next]_(ServerSide!vars)
    BY DEF ServerSide!Next
<1> QED  BY <1>1, ServerAssumption, ServerSide!NextPreserves
            DEF ServerSide!ProtocolHandlerAssumption

LEMMA ClientNext ==
    ASSUME IndInv,
           \/ Application \/ Loop \/ HandlerReturns \/ Tick
           \/ UNCHANGED vars
    PROVE  IndInv'
<1>1. [Next]_vars
    BY DEF Next
<1> QED  BY <1>1, NextPreserves

-----------------------------------------------------------------------------
(***************************************************************************)
(* Whose step it is                                                        *)
(***************************************************************************)
ClientActs == Application \/ Loop \/ HandlerReturns

ServerActs ==
    \/ ServerSide!Application
    \/ ServerSide!Loop
    \/ ServerSide!HandlerReturns

LEMMA ClientSteps ==
    ASSUME ClientSubmits \/ ClientLoops
    PROVE  ClientActs /\ UNCHANGED <<serverVars, lineVars, serveVars>>
BY DEF ClientSubmits, ClientLoops, ClientActs

LEMMA ServerSteps ==
    ASSUME ServerSubmits \/ ServerRuns
    PROVE  ServerActs /\ UNCHANGED <<vars, lineVars>>
BY SameHandler
   DEF ServerSubmits, ServerRuns, ServerDispatches, ServerReturns,
       ServerLoops, ServerActs, ServerSide!Loop, ServerSide!HandlerReturns

LEMMA ServerStays ==
    ASSUME UNCHANGED serverVars
    PROVE  UNCHANGED ServerSide!vars
BY DEF serverVars, ServerSide!vars, ServerSide!queueVars,
       ServerSide!answerVars, ServerSide!configVars, ServerSide!clockVars,
       ServerSide!loopVars, ServerSide!wireVars, ServerSide!history

-----------------------------------------------------------------------------
(***************************************************************************)
(* Frames and their numbers                                                *)
(***************************************************************************)
Numbers == 1 .. MaxMessages + ServerMessages
ServersMessage == 1 .. ServerMessages

NumbersOK ==
    /\ incoming \in Seq(Numbers)
    /\ server_incoming \in Seq(Numbers)
    /\ frame \in Numbers \union {NoFrame}
    /\ server_frame \in Numbers \union {NoFrame}
    /\ answers \in Seq([message: Message, age: Nat])
    /\ replies \in Seq([message: ServersMessage, age: Nat])
    /\ served \in [Message -> Nat]

LEMMA Limits ==
    /\ MaxMessages \in Nat /\ ServerMessages \in Nat
    /\ MaxLag \in Nat /\ ServerLag \in Nat
    /\ MaxAnswerDelay \in Nat /\ Horizon \in Nat \ {0}
BY ProtocolHandlerAssumption, DialogueAssumption

LEMMA OlderIs ==
    ASSUME NEW S, NEW travelling \in Seq([message: S, age: Nat])
    PROVE  /\ Older(travelling) \in Seq([message: S, age: Nat])
           /\ Len(Older(travelling)) = Len(travelling)
           /\ \A i \in 1 .. Len(travelling) :
                /\ Older(travelling)[i].message = travelling[i].message
                /\ Older(travelling)[i].age = travelling[i].age + 1
<1>1. Len(travelling) \in Nat
    BY LenProperties
<1>2. ASSUME NEW i \in 1 .. Len(travelling)
      PROVE  LET older == [travelling[i] EXCEPT !.age = @ + 1]
             IN  /\ older \in [message: S, age: Nat]
                 /\ older.message = travelling[i].message
                 /\ older.age = travelling[i].age + 1
  <2>1. travelling[i] \in [message: S, age: Nat]
      BY ElementOfSeq
  <2> QED  BY <2>1
<1>3. Older(travelling) \in [1 .. Len(travelling) -> [message: S, age: Nat]]
    BY <1>2 DEF Older
<1>4. Older(travelling) \in Seq([message: S, age: Nat])
    BY <1>1, <1>3, SeqDef
<1>5. Len(Older(travelling)) = Len(travelling)
    BY <1>1, <1>3, <1>4, LenProperties
<1> QED  BY <1>2, <1>4, <1>5 DEF Older

LEMMA FirstOf ==
    ASSUME NEW S, NEW travelling \in Seq([message: S, age: Nat]),
           travelling # <<>>
    PROVE  /\ Head(travelling) = travelling[1]
           /\ 1 \in 1 .. Len(travelling)
           /\ Head(travelling).message \in S
           /\ Tail(travelling) \in Seq([message: S, age: Nat])
<1>1. /\ Head(travelling) = travelling[1] /\ 1 \in 1 .. Len(travelling)
      /\ Tail(travelling) \in Seq([message: S, age: Nat])
    BY HeadTailProperties
<1>2. travelling[1] \in [message: S, age: Nat]
    BY <1>1, ElementOfSeq
<1> QED  BY <1>1, <1>2

LEMMA TravellingType ==
    ASSUME NEW S, NEW n \in S
    PROVE  Travelling(n) \in [message: S, age: Nat]
BY DEF Travelling

LEMMA InitNumbers ==
    ASSUME DialogueInit
    PROVE  IndInv /\ ServerSide!IndInv /\ NumbersOK
<1>1. Init /\ ServerSide!Init
    BY SameHandler DEF DialogueInit
<1>2. IndInv
    BY <1>1, InitEstablishes
<1>3. ServerSide!IndInv
    BY <1>1, ServerAssumption, ServerSide!InitEstablishes
       DEF ServerSide!ProtocolHandlerAssumption
<1>4. NumbersOK
    BY <1>1, EmptySeq
       DEF DialogueInit, Init, ServerSide!Init, NumbersOK, NoFrame,
           ServerSide!NoFrame
<1> QED  BY <1>2, <1>3, <1>4

\* A frame arrives at one end.
LEMMA ClientGets ==
    ASSUME IndInv, NumbersOK, NEW arrived \in Numbers,
           ArrivesAtClient(arrived)
    PROVE  IndInv' /\ incoming' \in Seq(Numbers)
<1>1. arrived \in Nat
    BY Limits DEF Numbers
<1> QED  BY <1>1, ArrivalPreserves, AppendProperties
            DEF ArrivesAtClient, NumbersOK

LEMMA ServerGets ==
    ASSUME ServerSide!IndInv, NumbersOK, NEW arrived \in Numbers,
           ArrivesAtServer(arrived)
    PROVE  ServerSide!IndInv' /\ server_incoming' \in Seq(Numbers)
<1>1. arrived \in Nat
    BY Limits DEF Numbers
<1> QED  BY <1>1, SameHandler, ServerAssumption,
            ServerSide!ArrivalPreserves, AppendProperties
            DEF ArrivesAtServer, NumbersOK,
                ServerSide!ProtocolHandlerAssumption

LEMMA NextNumbers ==
    ASSUME IndInv, ServerSide!IndInv, NumbersOK,
           [DialogueNext]_dialogueVars
    PROVE  IndInv' /\ ServerSide!IndInv' /\ NumbersOK'
<1>1. UNCHANGED vars => IndInv' /\ UNCHANGED <<incoming, frame, in_flight>>
    BY ClientNext DEF vars, wireVars, loopVars
<1>2. UNCHANGED serverVars =>
        ServerSide!IndInv' /\ UNCHANGED <<server_incoming, server_frame>>
    BY ServerNext, ServerStays DEF serverVars
<1>3. /\ in_flight \in Seq([message: Message, age: Nat])
      /\ server_in_flight \in Seq([message: ServersMessage, age: Nat])
    BY FlightTypes DEF ServerSide!IndInv, ServerSide!TypeOK,
                       ServerSide!Message, ServersMessage
<1>4. CASE UNCHANGED dialogueVars
    BY <1>1, <1>2, <1>4 DEF dialogueVars, lineVars, serveVars, NumbersOK
<1>5. CASE ClientSubmits \/ ClientLoops
  <2>1. ClientActs /\ UNCHANGED <<serverVars, lineVars, serveVars>>
      BY <1>5, ClientSteps
  <2>2. IndInv'
      BY <2>1, ClientNext DEF ClientActs
  <2>3. incoming' \in Seq(Numbers) /\ frame' \in Numbers \union {NoFrame}
      BY <2>1, FramesStay DEF ClientActs, NumbersOK
  <2> QED  BY <1>2, <2>1, <2>2, <2>3 DEF NumbersOK, lineVars, serveVars
<1>6. CASE ServerSubmits \/ ServerRuns
  <2>1. ServerActs /\ UNCHANGED <<vars, lineVars>>
      BY <1>6, ServerSteps
  <2>2. ServerSide!IndInv'
      BY <2>1, ServerNext DEF ServerActs
  <2>3. /\ server_incoming' \in Seq(Numbers)
        /\ server_frame' \in Numbers \union {NoFrame}
      BY <2>1, ServerAssumption, ServerSide!FramesStay
         DEF ServerActs, NumbersOK, NoFrame, ServerSide!NoFrame,
             ServerSide!ProtocolHandlerAssumption
  <2>4. served' \in [Message -> Nat]
      BY <1>6 DEF ServerSubmits, ServerRuns, ServerDispatches,
                  ServerReturns, ServerLoops, serveVars, NumbersOK
  <2> QED  BY <1>1, <2>1, <2>2, <2>3, <2>4 DEF NumbersOK, lineVars
<1>7. CASE ClientAnswers
  <2>1. /\ SendAnswer("sent") /\ UNCHANGED <<serverVars, answers, serveVars>>
        /\ frame - MaxMessages \in ServersMessage
        /\ replies' = Append(replies, Travelling(frame - MaxMessages))
      BY <1>7, Limits
         DEF ClientAnswers, NumbersOK, Numbers, ServersMessage, NoFrame
  <2>2. IndInv' /\ UNCHANGED <<incoming, frame>>
      BY <2>1, AnswerPreserves DEF SendAnswer, loopVars, wireVars
  <2>3. replies' \in Seq([message: ServersMessage, age: Nat])
      BY <2>1, TravellingType, AppendProperties DEF NumbersOK
  <2> QED  BY <1>2, <2>1, <2>2, <2>3 DEF NumbersOK, serveVars
<1>8. CASE ServerAnswers
  <2>1. /\ ServerSide!SendAnswer("sent")
        /\ UNCHANGED <<vars, replies, serveVars>>
        /\ server_frame - ServerMessages \in Message
        /\ answers' = Append(answers,
                             Travelling(server_frame - ServerMessages))
      BY <1>8, SameHandler, Limits
         DEF ServerAnswers, NumbersOK, Numbers, Message, NoFrame
  <2>2. ServerSide!IndInv'
      BY <2>1, ServerAssumption, ServerSide!AnswerPreserves
         DEF ServerSide!ProtocolHandlerAssumption
  <2>3. UNCHANGED <<server_incoming, server_frame>>
      BY <2>1 DEF ServerSide!SendAnswer, ServerSide!loopVars,
                  ServerSide!wireVars
  <2>4. answers' \in Seq([message: Message, age: Nat])
      BY <2>1, TravellingType, AppendProperties DEF NumbersOK
  <2> QED  BY <1>1, <2>1, <2>2, <2>3, <2>4 DEF NumbersOK, serveVars
<1>9. CASE RequestArrives
  <2>1. Head(in_flight).message \in Message
      BY <1>3, <1>9, FirstOf DEF RequestArrives
  <2>2. RequestOfClient(Head(in_flight).message) \in Numbers
      BY <2>1, Limits DEF RequestOfClient, Numbers, Message
  <2>3. ServerSide!IndInv' /\ server_incoming' \in Seq(Numbers)
        /\ UNCHANGED server_frame
      BY <1>9, <2>2, ServerGets, SameHandler
         DEF RequestArrives, ArrivesAtServer, ServerSide!DeviceUnchanged,
             ServerSide!loopVars
  <2>4. DeviceStaysSilent /\ UNCHANGED <<lineVars, served>>
      BY <1>9 DEF RequestArrives, ArrivesAtServer, DeviceStaysSilent,
                  serveVars
  <2>5. IndInv' /\ UNCHANGED <<incoming, frame>>
    <3>1. Next
        BY <2>4 DEF Next, Device
    <3> QED  BY <2>4, <3>1, NextPreserves
                DEF DeviceStaysSilent, DeviceUnchanged, loopVars
  <2> QED  BY <2>3, <2>4, <2>5 DEF NumbersOK, lineVars
<1>10. CASE AnswerArrives
  <2>1. /\ Head(answers).message \in Message
        /\ answers' \in Seq([message: Message, age: Nat])
      BY <1>10, FirstOf DEF AnswerArrives, NumbersOK
  <2>2. Head(answers).message \in Numbers
      BY <2>1, Limits DEF Numbers, Message
  <2>3. IndInv' /\ incoming' \in Seq(Numbers) /\ UNCHANGED frame
      BY <1>10, <2>2, ClientGets
         DEF AnswerArrives, ArrivesAtClient, DeviceUnchanged, loopVars
  <2> QED  BY <1>2, <1>10, <2>1, <2>3
           DEF AnswerArrives, ArrivesAtClient, NumbersOK, serveVars
<1>11. CASE ServerRequestArrives
  <2>1. Head(server_in_flight).message \in ServersMessage
      BY <1>3, <1>11, FirstOf DEF ServerRequestArrives
  <2>2. RequestOfServer(Head(server_in_flight).message) \in Numbers
      BY <2>1, Limits DEF RequestOfServer, Numbers, ServersMessage
  <2>3. IndInv' /\ incoming' \in Seq(Numbers) /\ UNCHANGED frame
      BY <1>11, <2>2, ClientGets
         DEF ServerRequestArrives, ArrivesAtClient, DeviceUnchanged, loopVars
  <2>4. ServerSide!DeviceStaysSilent
      BY <1>11, SameHandler
         DEF ServerRequestArrives, ServerSide!DeviceStaysSilent
  <2>5. ServerSide!IndInv' /\ UNCHANGED <<server_incoming, server_frame>>
    <3>1. ServerSide!Next
        BY <2>4 DEF ServerSide!Next, ServerSide!Device
    <3> QED  BY <2>4, <3>1, ServerAssumption, ServerSide!NextPreserves
             DEF ServerSide!DeviceStaysSilent, ServerSide!DeviceUnchanged,
                 ServerSide!loopVars, ServerSide!ProtocolHandlerAssumption
  <2> QED  BY <1>11, <2>3, <2>5
           DEF ServerRequestArrives, ArrivesAtClient, NumbersOK, lineVars,
               serveVars
<1>12. CASE ReplyArrives
  <2>1. /\ Head(replies).message \in ServersMessage
        /\ replies' \in Seq([message: ServersMessage, age: Nat])
      BY <1>12, FirstOf DEF ReplyArrives, NumbersOK
  <2>2. Head(replies).message \in Numbers
      BY <2>1, Limits DEF Numbers, ServersMessage
  <2>3. ServerSide!IndInv' /\ server_incoming' \in Seq(Numbers)
        /\ UNCHANGED server_frame
      BY <1>12, <2>2, ServerGets, SameHandler
         DEF ReplyArrives, ArrivesAtServer, ServerSide!DeviceUnchanged,
             ServerSide!loopVars
  <2> QED  BY <1>1, <1>12, <2>1, <2>3
           DEF ReplyArrives, ArrivesAtServer, NumbersOK, serveVars
<1>13. CASE RequestLost
  <2>1. IndInv' /\ UNCHANGED <<incoming, frame>>
    <3>1. DeviceStaysSilent
        BY <1>13 DEF RequestLost
    <3>2. Next
        BY <3>1 DEF Next, Device
    <3> QED  BY <3>1, <3>2, NextPreserves
                DEF DeviceStaysSilent, DeviceUnchanged, loopVars
  <2> QED  BY <1>2, <1>13, <2>1 DEF RequestLost, NumbersOK, lineVars
<1>14. CASE ServerRequestLost
  <2>1. ServerSide!DeviceStaysSilent
      BY <1>14, SameHandler
         DEF ServerRequestLost, Server!DeviceStaysSilent,
             ServerSide!DeviceStaysSilent
  <2>2. ServerSide!IndInv' /\ UNCHANGED <<server_incoming, server_frame>>
    <3>1. ServerSide!Next
        BY <2>1 DEF ServerSide!Next, ServerSide!Device
    <3> QED  BY <2>1, <3>1, ServerAssumption, ServerSide!NextPreserves
             DEF ServerSide!DeviceStaysSilent, ServerSide!DeviceUnchanged,
                 ServerSide!loopVars, ServerSide!ProtocolHandlerAssumption
  <2> QED  BY <1>1, <1>14, <2>2 DEF ServerRequestLost, NumbersOK, lineVars
<1>15. CASE AnswerLost
  <2>1. answers' \in Seq([message: Message, age: Nat])
      BY <1>15, HeadTailProperties DEF AnswerLost, NumbersOK
  <2> QED  BY <1>1, <1>2, <1>15, <2>1 DEF AnswerLost, NumbersOK
<1>16. CASE ReplyLost
  <2>1. replies' \in Seq([message: ServersMessage, age: Nat])
      BY <1>16, HeadTailProperties DEF ReplyLost, NumbersOK
  <2> QED  BY <1>1, <1>2, <1>16, <2>1 DEF ReplyLost, NumbersOK
<1>17. CASE DialogueTick
  <2>1. /\ Tick /\ ServerSide!Tick /\ UNCHANGED served
        /\ answers' = Older(answers) /\ replies' = Older(replies)
      BY <1>17, SameHandler DEF DialogueTick, serveVars
  <2>2. IndInv' /\ ServerSide!IndInv'
      BY <2>1, ClientNext, ServerNext
  <2>3. UNCHANGED <<incoming, frame, server_incoming, server_frame>>
      BY <2>1 DEF Tick, ServerSide!Tick
  <2>4. /\ answers' \in Seq([message: Message, age: Nat])
        /\ replies' \in Seq([message: ServersMessage, age: Nat])
      BY <2>1, OlderIs DEF NumbersOK
  <2> QED  BY <2>1, <2>2, <2>3, <2>4 DEF NumbersOK
<1> QED  BY <1>4, <1>5, <1>6, <1>7, <1>8, <1>9, <1>10, <1>11, <1>12, <1>13,
            <1>14, <1>15, <1>16, <1>17 DEF DialogueNext, Line

-----------------------------------------------------------------------------
(***************************************************************************)
(* No transmission is handled twice: each request on its way, and each one *)
(* handled, is a transmission of its own.                                  *)
(***************************************************************************)
InFlightAt(n) == {i \in 1 .. Len(in_flight) : in_flight[i].message = n}

ArrivedAt(n) ==
    {i \in 1 .. Len(server_incoming) :
        server_incoming[i] = RequestOfClient(n)}

ServedOK ==
    \A n \in Message :
        served[n] + Cardinality(InFlightAt(n)) + Cardinality(ArrivedAt(n))
            <= SendsOf(n)

One(hit) == IF hit THEN 1 ELSE 0

LEMMA CountType ==
    ASSUME NEW k \in Nat, NEW A \in SUBSET (1 .. k)
    PROVE  IsFiniteSet(A) /\ Cardinality(A) \in Nat
<1>1. IsFiniteSet(1 .. k)
    BY FS_Interval
<1> QED  BY <1>1, FS_Subset, FS_CardinalityType

LEMMA CountGrows ==
    ASSUME NEW k \in Nat, NEW A \in SUBSET (1 .. k), NEW B, NEW hit \in BOOLEAN,
           B = IF hit THEN A \union {k + 1} ELSE A
    PROVE  Cardinality(B) = Cardinality(A) + One(hit)
<1>1. IsFiniteSet(A) /\ Cardinality(A) \in Nat
    BY CountType
<1>3. k + 1 \notin A
    OBVIOUS
<1>2. Cardinality(A \union {k + 1}) = Cardinality(A) + 1
    BY <1>1, <1>3, FS_AddElement
<1> QED  BY <1>1, <1>2 DEF One

LEMMA CountShrinks ==
    ASSUME NEW k \in Nat, NEW A \in SUBSET (1 .. k), NEW B \in SUBSET (1 .. k),
           \A i \in 1 .. k : i \in B <=> i + 1 \in A
    PROVE  Cardinality(B) = Cardinality(A) - One(1 \in A)
<1> DEFINE rest == A \ {1}
           f == [i \in B |-> i + 1]
<1>1. IsFiniteSet(A) /\ IsFiniteSet(B) /\ Cardinality(A) \in Nat
    BY CountType
<1>2. f \in Bijection(B, rest)
  <2>1. \A i \in B : f[i] \in rest
      OBVIOUS
  <2>2. \A i, j \in B : f[i] = f[j] => i = j
      OBVIOUS
  <2>3. \A j \in rest : \E i \in B : f[i] = j
    <3>1. ASSUME NEW j \in rest PROVE j - 1 \in B /\ f[j - 1] = j
      <4>1. j \in 2 .. k /\ j - 1 \in 1 .. k /\ (j - 1) + 1 = j /\ j \in A
          OBVIOUS
      <4>2. j - 1 \in B
          BY <4>1
      <4> QED  BY <4>1, <4>2
    <3> QED  BY <3>1
  <2> HIDE DEF rest
  <2> QED  BY <2>1, <2>2, <2>3, Fun_IsBij
<1>3. Cardinality(rest) = Cardinality(B)
    BY <1>1, <1>2, FS_Bijection DEF ExistsBijection
<1>4. Cardinality(rest) = IF 1 \in A THEN Cardinality(A) - 1
                          ELSE Cardinality(A)
    BY <1>1, FS_RemoveElement
<1> HIDE DEF rest
<1> QED  BY <1>1, <1>3, <1>4 DEF One

LEMMA LinesTyped ==
    ASSUME IndInv, ServerSide!IndInv, NumbersOK
    PROVE  /\ in_flight \in Seq([message: Message, age: Nat])
           /\ server_in_flight \in Seq([message: ServersMessage, age: Nat])
           /\ server_incoming \in Seq(Numbers)
           /\ Len(in_flight) \in Nat /\ Len(server_incoming) \in Nat
           /\ Len(incoming) \in Nat /\ Len(answers) \in Nat
BY FlightTypes DEF ServerSide!IndInv, ServerSide!TypeOK,
                   ServerSide!Message, ServersMessage, NumbersOK

LEMMA UnderwayTyped ==
    ASSUME IndInv, ServerSide!IndInv, NumbersOK, NEW n \in Message
    PROVE  /\ InFlightAt(n) \in SUBSET (1 .. Len(in_flight))
           /\ ArrivedAt(n) \in SUBSET (1 .. Len(server_incoming))
           /\ Cardinality(InFlightAt(n)) \in Nat
           /\ Cardinality(ArrivedAt(n)) \in Nat
           /\ served[n] \in Nat
           /\ SendsOf(n) \in Nat
<1>1. /\ InFlightAt(n) \in SUBSET (1 .. Len(in_flight))
      /\ ArrivedAt(n) \in SUBSET (1 .. Len(server_incoming))
    BY DEF InFlightAt, ArrivedAt
<1>2. served[n] \in Nat
    BY DEF NumbersOK
<1>3. SendsOf(n) \in Nat
    BY SendsOfType
<1> QED  BY <1>1, <1>2, <1>3, CountType, LinesTyped

LEMMA OneMoreInFlight ==
    ASSUME IndInv, ServerSide!IndInv, NumbersOK, NEW n \in Message,
           NEW id \in Message,
           in_flight' = Append(in_flight, [message |-> id, age |-> 0])
    PROVE  Cardinality(InFlightAt(n)')
             = Cardinality(InFlightAt(n)) + One(n = id)
<1> DEFINE k == Len(in_flight)
<1>1. k \in Nat /\ InFlightAt(n) \in SUBSET (1 .. k) /\ (n = id) \in BOOLEAN
    BY LinesTyped, UnderwayTyped
<1>2. /\ Len(in_flight') = k + 1
      /\ \A i \in 1 .. k : in_flight'[i] = in_flight[i]
      /\ in_flight'[k + 1].message = id
    BY LinesTyped
<1>3. InFlightAt(n)' = {i \in 1 .. k + 1 : in_flight'[i].message = n}
    BY <1>2 DEF InFlightAt
<1>4. InFlightAt(n) = {i \in 1 .. k : in_flight[i].message = n}
    BY DEF InFlightAt
<1> HIDE DEF k
<1>5. InFlightAt(n)' = IF n = id THEN InFlightAt(n) \union {k + 1}
                       ELSE InFlightAt(n)
  <2>1. \A i \in 1 .. k + 1 : i \in 1 .. k \/ i = k + 1
      BY <1>1
  <2>2. \A i \in 1 .. k : i \in 1 .. k + 1
      BY <1>1
  <2>3. k + 1 \in 1 .. k + 1
      BY <1>1
  <2> QED  BY <1>2, <1>3, <1>4, <2>1, <2>2, <2>3
<1> QED  BY <1>1, <1>5, CountGrows

LEMMA OneLessInFlight ==
    ASSUME IndInv, ServerSide!IndInv, NumbersOK, NEW n \in Message,
           in_flight # <<>>, in_flight' = Tail(in_flight)
    PROVE  Cardinality(InFlightAt(n)')
             = Cardinality(InFlightAt(n)) - One(Head(in_flight).message = n)
<1> DEFINE k == Len(in_flight)
<1>1. k \in Nat /\ k >= 1 /\ InFlightAt(n) \in SUBSET (1 .. k)
    BY LinesTyped, UnderwayTyped
<1>2. /\ Len(in_flight') = k - 1
      /\ \A i \in 1 .. k - 1 : in_flight'[i] = in_flight[i + 1]
      /\ Head(in_flight) = in_flight[1]
    BY LinesTyped
<1>3. InFlightAt(n)' = {i \in 1 .. k - 1 : in_flight'[i].message = n}
    BY <1>2 DEF InFlightAt
<1>4. InFlightAt(n) = {i \in 1 .. k : in_flight[i].message = n}
    BY DEF InFlightAt
<1> HIDE DEF k
<1>5. InFlightAt(n)' \in SUBSET (1 .. k)
    BY <1>1, <1>3
<1>6. \A i \in 1 .. k : i \in InFlightAt(n)' <=> i + 1 \in InFlightAt(n)
  <2>1. \A i \in 1 .. k : i \in 1 .. k - 1 <=> i + 1 \in 1 .. k
      BY <1>1
  <2> QED  BY <1>2, <1>3, <1>4, <2>1
<1>7. 1 \in InFlightAt(n) <=> Head(in_flight).message = n
    BY <1>1, <1>2, <1>4
<1>8. Cardinality(InFlightAt(n)')
        = Cardinality(InFlightAt(n)) - One(1 \in InFlightAt(n))
    BY <1>1, <1>5, <1>6, CountShrinks
<1> QED  BY <1>7, <1>8 DEF One

LEMMA OneMoreArrived ==
    ASSUME IndInv, ServerSide!IndInv, NumbersOK, NEW n \in Message,
           NEW arrived \in Numbers,
           server_incoming' = Append(server_incoming, arrived)
    PROVE  Cardinality(ArrivedAt(n)')
             = Cardinality(ArrivedAt(n)) + One(arrived = RequestOfClient(n))
<1> DEFINE k == Len(server_incoming)
<1>1. /\ k \in Nat /\ ArrivedAt(n) \in SUBSET (1 .. k)
      /\ (arrived = RequestOfClient(n)) \in BOOLEAN
    BY LinesTyped, UnderwayTyped
<1>2. /\ Len(server_incoming') = k + 1
      /\ \A i \in 1 .. k : server_incoming'[i] = server_incoming[i]
      /\ server_incoming'[k + 1] = arrived
    BY LinesTyped
<1>3. ArrivedAt(n)'
        = {i \in 1 .. k + 1 : server_incoming'[i] = RequestOfClient(n)}
    BY <1>2 DEF ArrivedAt, RequestOfClient
<1>4. ArrivedAt(n) = {i \in 1 .. k : server_incoming[i] = RequestOfClient(n)}
    BY DEF ArrivedAt
<1> HIDE DEF k
<1>5. ArrivedAt(n)' = IF arrived = RequestOfClient(n)
                      THEN ArrivedAt(n) \union {k + 1} ELSE ArrivedAt(n)
  <2>1. \A i \in 1 .. k + 1 : i \in 1 .. k \/ i = k + 1
      BY <1>1
  <2>2. \A i \in 1 .. k : i \in 1 .. k + 1
      BY <1>1
  <2>3. k + 1 \in 1 .. k + 1
      BY <1>1
  <2> QED  BY <1>2, <1>3, <1>4, <2>1, <2>2, <2>3
<1> QED  BY <1>1, <1>5, CountGrows

\* What arrived is taken by a handler, or dropped unread.
LEMMA ServerTakes ==
    ASSUME IndInv, ServerSide!IndInv, NumbersOK, NEW n \in Message,
           ServerSubmits \/ ServerRuns
    PROVE  served'[n] + Cardinality(ArrivedAt(n)')
             <= served[n] + Cardinality(ArrivedAt(n))
<1>1. /\ Cardinality(ArrivedAt(n)) \in Nat /\ served[n] \in Nat
      /\ ArrivedAt(n) \in SUBSET (1 .. Len(server_incoming))
      /\ Len(server_incoming) \in Nat
    BY UnderwayTyped, LinesTyped
<1>2. ASSUME UNCHANGED <<server_incoming, served>>
      PROVE  served'[n] + Cardinality(ArrivedAt(n)')
               <= served[n] + Cardinality(ArrivedAt(n))
  <2>1. ArrivedAt(n)' = ArrivedAt(n)
      BY <1>2 DEF ArrivedAt, RequestOfClient
  <2> QED  BY <1>1, <1>2, <2>1
<1>3. CASE ServerDispatches
  <2> DEFINE k == Len(server_incoming)
  <2>1. /\ server_incoming # <<>> /\ server_incoming' = <<>>
        /\ server_frame' = server_incoming[k]
        /\ served' = [m \in Message |->
                        IF server_frame' = RequestOfClient(m)
                        THEN served[m] + 1 ELSE served[m]]
      BY <1>3, SameHandler
         DEF ServerDispatches, ServerSide!LoopDispatch, ServerSide!DropAll
  <2>2. served'[n] = served[n] + One(server_incoming[k] = RequestOfClient(n))
      BY <1>1, <2>1 DEF One
  <2>3. ArrivedAt(n)' = {}
      BY <2>1 DEF ArrivedAt
  <2>4. Cardinality(ArrivedAt(n)') = 0
      BY <2>3, FS_EmptySet
  <2>5. ASSUME server_incoming[k] = RequestOfClient(n)
        PROVE  Cardinality(ArrivedAt(n)) >= 1
    <3>1. k \in 1 .. k
        BY <1>1, <2>1, LinesTyped
    <3>2. k \in ArrivedAt(n)
        BY <2>5, <3>1 DEF ArrivedAt
    <3>3. IsFiniteSet(ArrivedAt(n))
        BY <1>1, CountType
    <3>4. Cardinality(ArrivedAt(n)) # 0
        BY <3>2, <3>3, FS_EmptySet
    <3> QED  BY <1>1, <3>4
  <2> HIDE DEF k
  <2> QED  BY <1>1, <2>2, <2>4, <2>5 DEF One
<1>4. CASE ServerSide!LoopAnswer /\ UNCHANGED served
  <2> DEFINE k == Len(server_incoming)
  <2>1. server_incoming # <<>> /\ server_incoming' = Tail(server_incoming)
      BY <1>4 DEF ServerSide!LoopAnswer
  <2>2. /\ k >= 1 /\ Len(server_incoming') = k - 1
        /\ \A i \in 1 .. k - 1 :
             server_incoming'[i] = server_incoming[i + 1]
      BY <2>1, LinesTyped
  <2>3. ArrivedAt(n)'
          = {i \in 1 .. k - 1 : server_incoming'[i] = RequestOfClient(n)}
      BY <2>2 DEF ArrivedAt, RequestOfClient
  <2>4. ArrivedAt(n)
          = {i \in 1 .. k : server_incoming[i] = RequestOfClient(n)}
      BY DEF ArrivedAt
  <2>5. k \in Nat /\ ArrivedAt(n) \in SUBSET (1 .. k)
      BY <1>1
  <2> HIDE DEF k
  <2>6. ArrivedAt(n)' \in SUBSET (1 .. k)
      BY <2>2, <2>3, <2>5
  <2>7. \A i \in 1 .. k : i \in ArrivedAt(n)' <=> i + 1 \in ArrivedAt(n)
    <3>1. \A i \in 1 .. k : i \in 1 .. k - 1 <=> i + 1 \in 1 .. k
        BY <2>5
    <3> QED  BY <2>2, <2>3, <2>4, <3>1
  <2>8. Cardinality(ArrivedAt(n)')
          = Cardinality(ArrivedAt(n)) - One(1 \in ArrivedAt(n))
      BY <2>5, <2>6, <2>7, CountShrinks
  <2>9. Cardinality(ArrivedAt(n)') <= Cardinality(ArrivedAt(n))
      BY <1>1, <2>8 DEF One
  <2>10. Cardinality(ArrivedAt(n)') \in Int
      BY <1>1, <2>8 DEF One
  <2> QED  BY <1>1, <1>4, <2>9, <2>10
<1>5. CASE ~ServerDispatches
  <2>1. UNCHANGED served
      BY <1>5 DEF ServerSubmits, ServerRuns, ServerReturns, ServerLoops,
                  serveVars
  <2>2. ServerSide!LoopAnswer \/ UNCHANGED server_incoming
      BY <1>5, SameHandler
         DEF ServerSubmits, ServerRuns, ServerReturns, ServerLoops,
             ServerSide!Application, ServerSide!SendMessage,
             ServerSide!SendMessageWithoutAnswer, ServerSide!Enqueue,
             ServerSide!SetAnswerTimeout, ServerSide!SetCooldownInterval,
             ServerSide!MessageHandlerReturns, ServerSide!LoopSend,
             ServerSide!LoopRetry, ServerSide!LoopTimeout,
             ServerSide!TimeoutHandlerReturns,
             ServerSide!AnswerHandlerReturns, ServerSide!wireVars
  <2> QED  BY <1>2, <1>4, <2>1, <2>2
<1> QED  BY <1>3, <1>5

LEMMA ServedKept ==
    ASSUME IndInv, ServerSide!IndInv, NumbersOK, ServedOK,
           [DialogueNext]_dialogueVars
    PROVE  ServedOK'
<1> SUFFICES ASSUME NEW n \in Message
             PROVE  served'[n] + Cardinality(InFlightAt(n)')
                      + Cardinality(ArrivedAt(n)') <= SendsOf(n)'
    BY DEF ServedOK
<1> DEFINE handled == served[n]
           flying  == Cardinality(InFlightAt(n))
           arrived == Cardinality(ArrivedAt(n))
           sends   == SendsOf(n)
<1>1. /\ handled \in Nat /\ flying \in Nat /\ arrived \in Nat
      /\ sends \in Nat /\ handled + flying + arrived <= sends
    BY UnderwayTyped DEF ServedOK
<1>2. IndInv' /\ ServerSide!IndInv' /\ NumbersOK'
    BY NextNumbers
<1>3. handled' \in Nat /\ flying' \in Nat /\ arrived' \in Nat
      /\ sends' \in Nat
  <2>1. handled' \in Nat
      BY <1>2 DEF NumbersOK
  <2>2. sends' \in Nat
    <3>1. log' \in Seq(LogEntry)
        BY <1>2 DEF IndInv, QueueOK
    <3>2. ASSUME NEW i \in 1 .. Len(log') PROVE log'[i].sends \in Nat
        BY <3>1, <3>2, ElementOfSeq, EntryFields
    <3> QED  BY <3>2 DEF SendsOf
  <2>3. Len(in_flight') \in Nat /\ Len(server_incoming') \in Nat
      BY <1>2, LenProperties
         DEF IndInv, TypeOK, NumbersOK
  <2>4. flying' \in Nat
    <3>1. InFlightAt(n)' \in SUBSET (1 .. Len(in_flight'))
        BY DEF InFlightAt
    <3> QED  BY <2>3, <3>1, CountType
  <2>5. arrived' \in Nat
    <3>1. ArrivedAt(n)' \in SUBSET (1 .. Len(server_incoming'))
        BY DEF ArrivedAt
    <3> QED  BY <2>3, <3>1, CountType
  <2> QED  BY <2>1, <2>2, <2>4, <2>5
<1>4. UNCHANGED in_flight => flying' = flying
    BY DEF InFlightAt
<1>5. UNCHANGED server_incoming => arrived' = arrived
    BY DEF ArrivedAt, RequestOfClient
<1>6. UNCHANGED log => sends' = sends
    BY DEF SendsOf
<1>7. UNCHANGED served => handled' = handled
    OBVIOUS
<1>8. SUFFICES handled' + flying' + arrived' <= sends'
    OBVIOUS
<1>9. CASE UNCHANGED <<in_flight, server_incoming, log, served>>
    BY <1>1, <1>4, <1>5, <1>6, <1>7, <1>9
<1>10. CASE ClientSubmits \/ ClientLoops
  <2>1. ClientActs /\ UNCHANGED <<server_incoming, served>>
      BY <1>10, ClientSteps DEF serverVars, serveVars
  <2>2. CASE TransmitsNothing
    <3>1. UNCHANGED in_flight /\ sends' = sends
        BY <2>2 DEF TransmitsNothing, SameSends
    <3> HIDE DEF handled, flying, arrived, sends
    <3> QED  BY <1>1, <1>4, <1>5, <1>7, <2>1, <3>1
  <2>3. ASSUME NEW id \in Message, Transmits(id)
        PROVE  handled' + flying' + arrived' <= sends'
    <3>1. flying' = flying + One(n = id) /\ sends' = sends + One(n = id)
      <4>1. flying' = flying + One(n = id)
          BY <2>3, OneMoreInFlight DEF Transmits
      <4>2. sends' = IF n = id THEN sends + 1 ELSE sends
          BY <2>3 DEF Transmits
      <4> HIDE DEF flying, sends
      <4> QED  BY <1>1, <4>1, <4>2 DEF One
    <3> HIDE DEF handled, flying, arrived, sends
    <3> QED  BY <1>1, <1>5, <1>7, <2>1, <3>1 DEF One
  <2> QED  BY <2>1, <2>2, <2>3, StepTransmits DEF ClientActs
<1>11. CASE ServerSubmits \/ ServerRuns
  <2>1. handled' + arrived' <= handled + arrived
      BY <1>11, ServerTakes
  <2>2. UNCHANGED <<in_flight, log>>
      BY <1>11, ServerSteps DEF vars, wireVars, history
  <2>3. flying' = flying /\ sends' = sends
      BY <1>4, <1>6, <2>2
  <2> DEFINE handledNext == handled'
             arrivedNext == arrived'
  <2>4. handledNext \in Nat /\ arrivedNext \in Nat
      BY <1>3
  <2>5. handledNext + arrivedNext <= handled + arrived
      BY <2>1
  <2> HIDE DEF handled, flying, arrived, sends, handledNext, arrivedNext
  <2>6. handledNext + flying + arrivedNext <= sends
      BY <1>1, <2>4, <2>5
  <2> QED  BY <2>3, <2>6 DEF handledNext, arrivedNext
<1>12. CASE RequestArrives
  <2>1. /\ in_flight # <<>> /\ in_flight' = Tail(in_flight)
        /\ server_incoming'
             = Append(server_incoming,
                      RequestOfClient(Head(in_flight).message))
        /\ UNCHANGED <<log, served>>
      BY <1>12 DEF RequestArrives, ArrivesAtServer, DeviceUnchanged, history,
                   serveVars
  <2>2. Head(in_flight).message \in Message
      BY <2>1, LinesTyped, FirstOf
  <2>3. /\ RequestOfClient(Head(in_flight).message) \in Numbers
        /\ RequestOfClient(Head(in_flight).message) = RequestOfClient(n)
             <=> Head(in_flight).message = n
      BY <2>2, Limits DEF RequestOfClient, Numbers, Message
  <2>4. /\ flying' = flying - One(Head(in_flight).message = n)
        /\ arrived' = arrived + One(Head(in_flight).message = n)
    <3>1. flying' = flying - One(Head(in_flight).message = n)
        BY <2>1, OneLessInFlight
    <3>2. arrived' = arrived + One(RequestOfClient(Head(in_flight).message)
                                     = RequestOfClient(n))
        BY <2>1, <2>3, OneMoreArrived
    <3> QED  BY <2>3, <3>1, <3>2 DEF One
  <2> HIDE DEF handled, flying, arrived, sends
  <2> QED  BY <1>1, <1>6, <1>7, <2>1, <2>4 DEF One
<1>13. CASE ReplyArrives
  <2>1. /\ replies # <<>>
        /\ server_incoming' = Append(server_incoming, Head(replies).message)
        /\ UNCHANGED <<in_flight, log, served>>
      BY <1>13 DEF ReplyArrives, ArrivesAtServer, vars, wireVars, history,
                   serveVars
  <2>2. Head(replies).message \in ServersMessage
      BY <2>1, FirstOf DEF NumbersOK
  <2>3. /\ Head(replies).message \in Numbers
        /\ Head(replies).message # RequestOfClient(n)
      BY <2>2, Limits DEF Numbers, ServersMessage, RequestOfClient, Message
  <2>4. arrived' = arrived + One(Head(replies).message = RequestOfClient(n))
      BY <2>1, <2>3, OneMoreArrived
  <2>5. arrived' = arrived
      BY <1>1, <2>3, <2>4 DEF One
  <2> HIDE DEF handled, flying, arrived, sends
  <2> QED  BY <1>1, <1>4, <1>6, <1>7, <2>1, <2>5
<1>14. CASE RequestLost
  <2>1. /\ in_flight # <<>> /\ in_flight' = Tail(in_flight)
        /\ UNCHANGED <<server_incoming, log, served>>
      BY <1>14 DEF RequestLost, DeviceStaysSilent, DeviceUnchanged,
                   serverVars, history
  <2>2. flying' = flying - One(Head(in_flight).message = n)
      BY <2>1, OneLessInFlight
  <2> HIDE DEF handled, flying, arrived, sends
  <2> QED  BY <1>1, <1>5, <1>6, <1>7, <2>1, <2>2 DEF One
<1>15. CASE DialogueTick
  <2>1. /\ in_flight' = [i \in 1 .. Len(in_flight) |->
                            [in_flight[i] EXCEPT !.age = @ + 1]]
        /\ UNCHANGED <<server_incoming, log, served>>
      BY <1>15, SameHandler
         DEF DialogueTick, Tick, ServerSide!Tick, serveVars
  <2>2. InFlightAt(n)' = InFlightAt(n)
    <3>1. Len(in_flight') = Len(in_flight)
        BY <2>1, LinesTyped
    <3>2. ASSUME NEW i \in 1 .. Len(in_flight)
          PROVE  in_flight'[i].message = in_flight[i].message
      <4>1. in_flight[i] \in [message: Message, age: Nat]
          BY LinesTyped, ElementOfSeq
      <4>2. in_flight'[i] = [in_flight[i] EXCEPT !.age = @ + 1]
          BY <2>1
      <4> QED  BY <4>1, <4>2
    <3> QED  BY <3>1, <3>2 DEF InFlightAt
  <2>3. flying' = flying
      BY <2>2
  <2> HIDE DEF handled, flying, arrived, sends
  <2> QED  BY <1>1, <1>5, <1>6, <1>7, <2>1, <2>3
<1>16. ASSUME \/ UNCHANGED dialogueVars
              \/ ClientAnswers \/ ServerAnswers
              \/ AnswerArrives \/ ServerRequestArrives
              \/ ServerRequestLost \/ AnswerLost \/ ReplyLost
       PROVE  UNCHANGED <<in_flight, server_incoming, log, served>>
    BY <1>16, SameHandler
       DEF dialogueVars, vars, serverVars, wireVars, history, serveVars,
           ClientAnswers, SendAnswer, ServerAnswers, ServerSide!SendAnswer,
           ServerSide!wireVars, AnswerArrives, ArrivesAtClient,
           ServerRequestArrives, DeviceUnchanged, ServerRequestLost,
           Server!DeviceStaysSilent, AnswerLost, ReplyLost
<1> QED  BY <1>9, <1>10, <1>11, <1>12, <1>13, <1>14, <1>15, <1>16
         DEF DialogueNext, Line

\* The first part of ReportedAsServed holds whatever the intervals are.
LEMMA ServedAtMostSent ==
    ASSUME IndInv, ServerSide!IndInv, NumbersOK, ServedOK
    PROVE  \A n \in 1 .. Len(log) : served[n] <= log[n].sends
<1> SUFFICES ASSUME NEW n \in 1 .. Len(log)
             PROVE  served[n] <= log[n].sends
    OBVIOUS
<1>1. n \in Message /\ SendsOf(n) = log[n].sends
  <2>1. Len(log) \in Nat /\ Len(log) <= MaxMessages
      BY DEF IndInv, QueueOK, TypeOK
  <2> QED  BY <2>1, Limits DEF Message, SendsOf
<1> DEFINE flying  == Cardinality(InFlightAt(n))
           arrived == Cardinality(ArrivedAt(n))
<1>2. /\ served[n] \in Nat /\ flying \in Nat /\ arrived \in Nat
      /\ SendsOf(n) \in Nat
      /\ served[n] + flying + arrived <= SendsOf(n)
    BY <1>1, UnderwayTyped DEF ServedOK
<1> HIDE DEF flying, arrived
<1> QED  BY <1>1, <1>2

-----------------------------------------------------------------------------
(***************************************************************************)
(* An answer is the answer to a request that the server handled.           *)
(***************************************************************************)
Handled == {n \in Message : served[n] >= 1}

\* A frame for the client: an answer to such a request, or a request.
Justified == {n \in Numbers : n \in Message => n \in Handled}

HandledOK ==
    /\ answers \in Seq([message: Handled, age: Nat])
    /\ incoming \in Seq(Justified)
    /\ frame \in Justified \union {NoFrame}
    /\ server_callback = "message_handler" /\ server_frame > ServerMessages
         => server_frame - ServerMessages \in Handled

LEMMA SeqWider ==
    ASSUME NEW S, NEW T, S \subseteq T, NEW s \in Seq(S)
    PROVE  s \in Seq(T)
<1>1. \A i \in 1 .. Len(s) : s[i] \in T
    BY ElementOfSeq
<1>2. s \in [1 .. Len(s) -> T] /\ Len(s) \in Nat
    BY <1>1, LenProperties
<1> QED  BY <1>2, SeqDef

LEMMA ServedGrows ==
    ASSUME NumbersOK, [DialogueNext]_dialogueVars
    PROVE  /\ Handled \subseteq Handled'
           /\ Justified \subseteq Justified'
           /\ ServerDispatches \/ UNCHANGED served
<1>1. ServerDispatches \/ UNCHANGED served
    BY DEF DialogueNext, dialogueVars, ClientSubmits, ClientLoops,
           ClientAnswers, ServerSubmits, ServerRuns, ServerReturns,
           ServerLoops, ServerAnswers, Line, RequestArrives, AnswerArrives,
           ServerRequestArrives, ReplyArrives, ArrivesAtClient,
           ArrivesAtServer, RequestLost, ServerRequestLost, AnswerLost,
           ReplyLost, DialogueTick, serveVars
<1>2. ASSUME NEW n \in Message, served[n] >= 1
      PROVE  served'[n] >= 1
  <2>1. served[n] \in Nat
      BY DEF NumbersOK
  <2>2. served'[n] \in {served[n], served[n] + 1}
      BY <1>1 DEF ServerDispatches
  <2> QED  BY <1>2, <2>1, <2>2
<1>3. Handled \subseteq Handled'
    BY <1>2 DEF Handled
<1> QED  BY <1>1, <1>3 DEF Justified

\* Who changes what HandledOK is about.
LEMMA FrameSteps ==
    ASSUME [DialogueNext]_dialogueVars
    PROVE  /\ \/ ServerAnswers
              \/ answers # <<>> /\ answers' = Tail(answers)
              \/ answers' = Older(answers)
              \/ UNCHANGED answers
           /\ \/ ClientActs
              \/ UNCHANGED frame /\ AnswerArrives
              \/ UNCHANGED frame /\ ServerRequestArrives
              \/ UNCHANGED <<incoming, frame>>
           /\ \/ ServerActs /\ (ServerSide!LoopDispatch => ServerDispatches)
              \/ UNCHANGED <<server_frame, server_callback, server_log>>
           /\ ClientActs \/ UNCHANGED log
<1> USE DEF vars, loopVars, wireVars, history, serverVars, lineVars,
            serveVars
<1>1. CASE UNCHANGED dialogueVars
    BY <1>1 DEF dialogueVars
<1>2. CASE ClientSubmits \/ ClientLoops
    BY <1>2, ClientSteps
<1>3. CASE ServerSubmits \/ ServerRuns
  <2>1. ServerActs /\ UNCHANGED <<vars, lineVars>>
      BY <1>3, ServerSteps
  <2>2. ServerSide!LoopDispatch => ServerDispatches
    <3>1. ServerSide!LoopDispatch =>
            /\ server_callback = "none"
            /\ server_callback' = "message_handler"
        BY DEF ServerSide!LoopDispatch
    <3>2. ~ServerDispatches =>
            \/ server_callback # "none"
            \/ server_callback' # "message_handler"
        BY <1>3, SameHandler
           DEF ServerSubmits, ServerRuns, ServerReturns, ServerLoops,
               ServerSide!Application, ServerSide!SendMessage,
               ServerSide!SendMessageWithoutAnswer, ServerSide!Enqueue,
               ServerSide!SetAnswerTimeout, ServerSide!SetCooldownInterval,
               ServerSide!MessageHandlerReturns, ServerSide!LoopSend,
               ServerSide!LoopRetry, ServerSide!LoopTimeout,
               ServerSide!LoopAnswer, ServerSide!TimeoutHandlerReturns,
               ServerSide!AnswerHandlerReturns, ServerSide!loopVars
    <3> QED  BY <3>1, <3>2
  <2> QED  BY <2>1, <2>2
<1>4. CASE ClientAnswers \/ ServerAnswers
    BY <1>4, SameHandler
       DEF ClientAnswers, ServerAnswers, SendAnswer, ServerSide!SendAnswer,
           ServerSide!loopVars
<1>5. CASE Line
    BY <1>5, SameHandler
       DEF Line, RequestArrives, AnswerArrives, ServerRequestArrives,
           ReplyArrives, ArrivesAtClient, ArrivesAtServer, RequestLost,
           ServerRequestLost, AnswerLost, ReplyLost, DeviceUnchanged,
           DeviceStaysSilent, ServerSide!DeviceUnchanged, ServerSide!loopVars,
           ServerSide!history,
           Server!DeviceStaysSilent
<1>6. CASE DialogueTick
    BY <1>6, SameHandler DEF DialogueTick, Tick, ServerSide!Tick
<1> QED  BY <1>1, <1>2, <1>3, <1>4, <1>5, <1>6 DEF DialogueNext

LEMMA HandledKept ==
    ASSUME IndInv, ServerSide!IndInv, NumbersOK, HandledOK,
           [DialogueNext]_dialogueVars
    PROVE  HandledOK'
<1>1. Handled \subseteq Handled' /\ Justified \subseteq Justified'
    BY ServedGrows
<1>2. /\ [message: Handled, age: Nat] \subseteq [message: Handled', age: Nat]
      /\ answers \in Seq([message: Handled, age: Nat])
      /\ answers \in Seq([message: Handled', age: Nat])
      /\ incoming \in Seq(Justified')
      /\ frame \in Justified' \union {NoFrame}
  <2>1. [message: Handled, age: Nat] \subseteq [message: Handled', age: Nat]
      BY <1>1
  <2>2. /\ answers \in Seq([message: Handled, age: Nat])
        /\ incoming \in Seq(Justified)
        /\ frame \in Justified \union {NoFrame}
      BY DEF HandledOK
  <2>3. answers \in Seq([message: Handled', age: Nat])
      BY <2>1, <2>2, SeqWider
  <2>4. incoming \in Seq(Justified')
      BY <1>1, <2>2, SeqWider
  <2> QED  BY <1>1, <2>1, <2>2, <2>3, <2>4
<1>3. server_callback = "message_handler" /\ server_frame > ServerMessages
        => server_frame - ServerMessages \in Handled
    BY DEF HandledOK
<1>4. answers' \in Seq([message: Handled', age: Nat])
  <2>1. CASE ServerAnswers
    <3>1. /\ server_frame > ServerMessages /\ ServerSide!SendAnswer("sent")
          /\ answers' = Append(answers,
                               Travelling(server_frame - ServerMessages))
        BY <2>1, SameHandler DEF ServerAnswers
    <3>2. server_callback = "message_handler"
        BY <3>1 DEF ServerSide!SendAnswer, ServerSide!IndInv,
                    ServerSide!HandlerInItsState
    <3>3. server_frame - ServerMessages \in Handled'
        BY <1>1, <1>3, <3>1, <3>2
    <3> QED  BY <1>2, <3>1, <3>3, TravellingType, AppendProperties
  <2>2. CASE answers # <<>> /\ answers' = Tail(answers)
      BY <1>2, <2>2, HeadTailProperties
  <2>3. CASE answers' = Older(answers)
      BY <1>2, <2>3, OlderIs
  <2>4. CASE UNCHANGED answers
      BY <1>2, <2>4
  <2> QED  BY <2>1, <2>2, <2>3, <2>4, FrameSteps
<1>5. incoming' \in Seq(Justified') /\ frame' \in Justified' \union {NoFrame}
  <2>1. CASE ClientActs
      BY <1>2, <2>1, FramesStay DEF ClientActs
  <2>2. ASSUME NEW arrived \in Justified',
               incoming' = Append(incoming, arrived), UNCHANGED frame
        PROVE  incoming' \in Seq(Justified')
                 /\ frame' \in Justified' \union {NoFrame}
      BY <1>2, <2>2, AppendProperties
  <2>3. CASE UNCHANGED frame /\ AnswerArrives
    <3>1. answers # <<>> /\ incoming' = Append(incoming, Head(answers).message)
        BY <2>3 DEF AnswerArrives, ArrivesAtClient
    <3>2. Head(answers).message \in Handled
        BY <1>2, <3>1, FirstOf
    <3>3. Head(answers).message \in Justified'
        BY <1>1, <3>2, Limits DEF Justified, Handled, Numbers, Message
    <3> QED  BY <2>2, <2>3, <3>1, <3>3
  <2>4. CASE UNCHANGED frame /\ ServerRequestArrives
    <3>1. /\ server_in_flight # <<>>
          /\ incoming' = Append(incoming,
               RequestOfServer(Head(server_in_flight).message))
        BY <2>4 DEF ServerRequestArrives, ArrivesAtClient
    <3>2. Head(server_in_flight).message \in ServersMessage
        BY <3>1, LinesTyped, FirstOf
    <3>3. RequestOfServer(Head(server_in_flight).message) \in Justified'
        BY <3>2, Limits
           DEF Justified, Numbers, Message, ServersMessage, RequestOfServer
    <3> QED  BY <2>2, <2>4, <3>1, <3>3
  <2>5. CASE UNCHANGED <<incoming, frame>>
      BY <1>2, <2>5
  <2> QED  BY <2>1, <2>3, <2>4, <2>5, FrameSteps
<1>6. ASSUME server_callback' = "message_handler",
             server_frame' > ServerMessages
      PROVE  server_frame' - ServerMessages \in Handled'
  <2>1. CASE UNCHANGED <<server_frame, server_callback>>
      BY <1>1, <1>3, <1>6, <2>1
  <2>2. CASE ServerDispatches
    <3>1. server_frame' \in Numbers \union {NoFrame}
        BY NextNumbers DEF NumbersOK
    <3>2. PICK f \in Numbers : f = server_frame' /\ f > ServerMessages
      <4>1. ~(-1 > ServerMessages)
          BY Limits
      <4>2. server_frame' # -1
          BY <1>6, <4>1
      <4> QED  BY <1>6, <3>1, <4>2 DEF NoFrame
    <3> DEFINE n == f - ServerMessages
    <3>3. /\ n \in Message /\ f = RequestOfClient(n)
          /\ n = server_frame' - ServerMessages
      <4>1. f \in 1 .. MaxMessages + ServerMessages /\ f > ServerMessages
          BY <3>2 DEF Numbers
      <4>2. n \in Message /\ f = RequestOfClient(n)
          BY <4>1, Limits DEF Message, RequestOfClient
      <4> QED  BY <3>2, <4>2
    <3> HIDE DEF n
    <3>4. served'[n] = served[n] + 1 /\ served[n] \in Nat
        BY <2>2, <3>2, <3>3 DEF ServerDispatches, NumbersOK
    <3>5. served'[n] >= 1
        BY <3>4
    <3> QED  BY <3>3, <3>5 DEF Handled
  <2>3. CASE ServerActs /\ ~ServerSide!LoopDispatch
      BY <1>6, <2>1, <2>3, ServerAssumption, ServerSide!WhoTakesFrames
         DEF ServerActs, ServerSide!LoopAnswer,
             ServerSide!ProtocolHandlerAssumption
  <2> QED  BY <2>1, <2>2, <2>3, FrameSteps
<1> QED  BY <1>4, <1>5, <1>6 DEF HandledOK

-----------------------------------------------------------------------------
(***************************************************************************)
(* A server that only answers.  It never waits for an answer, nothing of   *)
(* its own is on the line, and what it does sends nothing.                 *)
(***************************************************************************)
LEMMA ServerWasSilent ==
    ASSUME ServerSide!IndInv, [DialogueNext]_dialogueVars,
           ServerOnlyAnswers'
    PROVE  /\ ServerOnlyAnswers
           /\ ServerActs => ServerSide!TransmitsNothing
<1>1. UNCHANGED server_log => ServerOnlyAnswers
    BY DEF ServerOnlyAnswers
<1>2. CASE ServerActs
  <2>1. /\ ServerSide!Message = ServersMessage
        /\ ServerSide!SendsOf(0) \in Nat
        /\ \A n \in ServersMessage : ServerSide!SendsOf(n) \in Nat
      BY ServerAssumption, ServerSide!SendsOfType
         DEF ServerSide!Message, ServersMessage,
             ServerSide!ProtocolHandlerAssumption
  <2>2. \A n \in ServersMessage : ServerSide!SendsOf(n)' = 0
      BY DEF ServerOnlyAnswers, ServerSide!SendsOf
  <2>3. ServerSide!TransmitsNothing
    <3>1. ASSUME NEW id \in ServersMessage, ServerSide!Transmits(id)
          PROVE  FALSE
      <4>1. ServerSide!SendsOf(id)' = ServerSide!SendsOf(id) + 1
          BY <2>1, <3>1 DEF ServerSide!Transmits
      <4>2. ServerSide!SendsOf(id)' = 0
          BY <2>2
      <4>3. ServerSide!SendsOf(id) \in Nat
          BY <2>1
      <4> QED  BY <4>1, <4>2, <4>3
    <3> QED  BY <1>2, <2>1, <3>1, ServerAssumption, ServerSide!StepTransmits
             DEF ServerActs, ServerSide!ProtocolHandlerAssumption
  <2>4. \A n \in ServersMessage : ServerSide!SendsOf(n) = 0
      BY <2>1, <2>2, <2>3 DEF ServerSide!TransmitsNothing,
                              ServerSide!SameSends
  <2>5. \A n \in 1 .. Len(server_log) : n \in ServersMessage
    <3>1. Len(server_log) \in Nat /\ Len(server_log) <= ServerMessages
        BY DEF ServerSide!IndInv, ServerSide!QueueOK, ServerSide!TypeOK
    <3> QED  BY <3>1, Limits DEF ServersMessage
  <2> QED  BY <2>3, <2>4, <2>5 DEF ServerOnlyAnswers, ServerSide!SendsOf
<1> QED  BY <1>1, <1>2, FrameSteps

-----------------------------------------------------------------------------
(***************************************************************************)
(* The exchange.  A cooldown that outlasts a request, its answer and the   *)
(* handler between them leaves one frame at a time under way, and while    *)
(* the client waits that frame belongs to the request it waits for.        *)
(***************************************************************************)
Elapsed == -last_write.at
Longest == MaxAnswerDelay + MaxAnswerDelay + ServerLag

CooldownOutlastsExchange ==
    \A c \in CooldownIntervals \union {DEFAULT_COOLDOWN_INTERVAL} : Longest < c

ClockInv ==
    /\ CooldownInv
    /\ Longest < cooldown_interval
    /\ last_write.at = -Horizon \/ Longest < last_write.cooldown

Awaited == IF state = "WAITING_FOR_ANSWER" THEN {last_message_type}
           ELSE Message

AwaitedRequest == {RequestOfClient(n) : n \in Awaited}

RecentRequest ==
    {r \in [message: Awaited, age: Nat] :
        Elapsed <= r.age /\ r.age <= MaxAnswerDelay}

RecentAnswer ==
    {a \in [message: Awaited, age: Nat] :
        /\ Elapsed <= MaxAnswerDelay + ServerLag + a.age
        /\ a.age <= MaxAnswerDelay}

\* The handler of the server that has not answered yet, and the one of the
\* client that got an answer.
Thinking == One(server_callback = "message_handler" /\ ~server_answer_sent)
Handling == One(callback \in {"message_handler", "answer_handler"})

Underway ==
    Len(in_flight) + Len(server_incoming) + Thinking + Len(answers)
        + Len(incoming) + Handling

ServerSilent ==
    server_state = "IDLE" /\ server_in_flight = <<>> /\ replies = <<>>

ServerBusy ==
    /\ server_frame \in AwaitedRequest
    /\ Elapsed <= MaxAnswerDelay + server_lag
    /\ in_flight = <<>>
    /\ server_incoming = <<>>

ExchangeOK ==
    /\ ServerSilent
    /\ Awaited \subseteq Message
    /\ in_flight \in Seq(RecentRequest)
    /\ server_incoming \in Seq(AwaitedRequest)
    /\ server_incoming # <<>> => Elapsed <= MaxAnswerDelay
    /\ server_callback # "none" => ServerBusy
    /\ answers \in Seq(RecentAnswer)
    /\ incoming \in Seq(Awaited)
    /\ frame \in Message \union {NoFrame}
    /\ callback = "answer_handler" => frame \in Awaited
    /\ Underway <= 1

LEMMA Counts ==
    ASSUME IndInv, ServerSide!IndInv, NumbersOK
    PROVE  /\ Len(in_flight) \in Nat /\ Len(server_incoming) \in Nat
           /\ Len(answers) \in Nat /\ Len(incoming) \in Nat
           /\ Thinking \in {0, 1} /\ Handling \in {0, 1}
           /\ Elapsed \in 0 .. Horizon
           /\ server_lag \in 0 .. ServerLag
           /\ Longest \in Nat
<1>1. Thinking \in {0, 1} /\ Handling \in {0, 1}
    BY DEF One, Thinking, Handling
<1>2. Elapsed \in 0 .. Horizon
    BY ClockTypes DEF Elapsed
<1>3. server_lag \in 0 .. ServerLag
    BY DEF ServerSide!IndInv, ServerSide!TypeOK
<1>4. Longest \in Nat
    BY Limits DEF Longest
<1> QED  BY <1>1, <1>2, <1>3, <1>4, LinesTyped

\* Who starts the cooldown, and how its interval may change.
LEMMA ClockSteps ==
    ASSUME [DialogueNext]_dialogueVars
    PROVE  \/ UNCHANGED <<last_write, cooldown_time_point,
                          cooldown_interval>>
           \/ UNCHANGED <<last_write, cooldown_time_point>>
                /\ cooldown_interval' \in CooldownIntervals
           \/ WriteMessage /\ UNCHANGED cooldown_interval
           \/ Tick
<1> USE DEF queueVars, answerVars, configVars, clockVars, loopVars, wireVars,
            history, vars
<1>1. CASE Application
    BY <1>1 DEF Application, SendMessage, SendMessageWithoutAnswer, Enqueue,
                SetAnswerTimeout, SetCooldownInterval
<1>2. CASE Loop \/ HandlerReturns
    BY <1>2 DEF Loop, LoopDispatch, LoopSend, LoopRetry, LoopTimeout,
                LoopAnswer, TimedOut, HandlerReturns, MessageHandlerReturns,
                TimeoutHandlerReturns, AnswerHandlerReturns, SendNext,
                Transmit, Discard
<1>3. CASE ClientAnswers
    BY <1>3 DEF ClientAnswers, SendAnswer
<1>4. CASE DialogueTick
    BY <1>4 DEF DialogueTick
<1>5. CASE UNCHANGED vars
    BY <1>5
<1>6. CASE Line
    BY <1>6 DEF Line, RequestArrives, AnswerArrives, ServerRequestArrives,
                ReplyArrives, ArrivesAtClient, ArrivesAtServer, RequestLost,
                ServerRequestLost, AnswerLost, ReplyLost, DeviceUnchanged,
                DeviceStaysSilent
<1>7. ServerSubmits \/ ServerRuns => UNCHANGED vars
    BY ServerSteps
<1> QED  BY <1>1, <1>2, <1>3, <1>4, <1>5, <1>6, <1>7
         DEF DialogueNext, dialogueVars, ClientSubmits, ClientLoops,
             ServerAnswers

LEMMA ClockKept ==
    ASSUME CooldownOutlastsExchange, IndInv, ClockInv,
           [DialogueNext]_dialogueVars
    PROVE  ClockInv'
<1>1. CASE UNCHANGED <<last_write, cooldown_time_point, cooldown_interval>>
    BY <1>1 DEF ClockInv, CooldownInv
<1>2. CASE UNCHANGED <<last_write, cooldown_time_point>>
             /\ cooldown_interval' \in CooldownIntervals
    BY <1>2 DEF ClockInv, CooldownInv, CooldownOutlastsExchange
<1>3. CASE WriteMessage /\ UNCHANGED cooldown_interval
  <2>1. /\ last_write'.at = 0 /\ last_write'.cooldown = cooldown_interval
        /\ cooldown_time_point' = cooldown_interval
        /\ Longest < cooldown_interval
        /\ cooldown_interval' = cooldown_interval
      BY <1>3 DEF WriteMessage, ClockInv
  <2> QED  BY <2>1, ClockTypes DEF ClockInv, CooldownInv
<1>4. CASE Tick
  <2>1. CooldownInv'
      BY <1>4, CooldownInvKept DEF ClockInv, Next
  <2>2. /\ last_write' = [last_write EXCEPT !.at = Aged(@, -Horizon)]
        /\ UNCHANGED cooldown_interval
      BY <1>4 DEF Tick, configVars
  <2>3. /\ last_write'.at = Aged(last_write.at, -Horizon)
        /\ last_write'.cooldown = last_write.cooldown
      BY <2>2, FlightTypes
  <2>4. last_write.at = -Horizon => last_write'.at = -Horizon
      BY <2>3, ClockTypes DEF Aged
  <2> QED  BY <2>1, <2>2, <2>3, <2>4 DEF ClockInv
<1> QED  BY <1>1, <1>2, <1>3, <1>4, ClockSteps

LEMMA NextClock ==
    ASSUME IndInv'
    PROVE  \E at \in Int : at = last_write'.at /\ -at = Elapsed'
<1>1. last_write' \in [at: Ago, cooldown: 0 .. Horizon - 1]
    BY DEF IndInv, TypeOK
<1>2. last_write'.at \in Int
    BY <1>1 DEF Ago
<1> QED  BY <1>2 DEF Elapsed

\* When the cooldown is over, so is the exchange before it.
LEMMA LineIsClear ==
    ASSUME IndInv, ServerSide!IndInv, NumbersOK, ClockInv, ExchangeOK,
           Reached(cooldown_time_point)
    PROVE  /\ in_flight = <<>>
           /\ server_incoming = <<>>
           /\ server_callback = "none"
           /\ answers = <<>>
<1> DEFINE at == last_write.at
           cd == last_write.cooldown
           t  == cooldown_time_point
           ci == cooldown_interval
<1>1. Longest < Elapsed
  <2>1. /\ at \in Int /\ cd \in Int /\ t \in Int /\ Longest \in Nat
        /\ lag \in 0 .. MaxLag /\ MaxLag \in Nat /\ Horizon \in Nat
        /\ ci \in 0 .. Horizon - 1
      BY ClockTypes, Counts
  <2>2. /\ at + cd <= t \/ at + cd <= Past \/ at = -Horizon
        /\ Longest < ci
        /\ at = -Horizon \/ Longest < cd
      BY DEF ClockInv, CooldownInv
  <2>3. t <= -lag
      BY DEF Reached
  <2>4. Elapsed = -at
      BY DEF Elapsed
  <2> HIDE DEF at, cd, t, ci
  <2>5. Past <= -lag /\ Past \in Int
      BY <2>1 DEF Past
  <2>6. CASE at + cd <= -lag /\ Longest < cd
      BY <2>1, <2>4, <2>6
  <2>7. CASE at = -Horizon
      BY <2>1, <2>2, <2>4, <2>7
  <2> QED  BY <2>1, <2>2, <2>3, <2>5, <2>6, <2>7
<1> HIDE DEF at, cd, t, ci
<1>2. /\ Elapsed \in Nat /\ server_lag \in 0 .. ServerLag
      /\ MaxAnswerDelay \in Nat /\ ServerLag \in Nat
      /\ Longest = MaxAnswerDelay + MaxAnswerDelay + ServerLag
    BY Counts, Limits DEF Longest
<1>3. ~(Elapsed <= MaxAnswerDelay)
    BY <1>1, <1>2
<1>4. ~(Elapsed <= MaxAnswerDelay + server_lag)
    BY <1>1, <1>2
<1>5. ASSUME NEW age \in Nat, age <= MaxAnswerDelay
      PROVE  ~(Elapsed <= age) /\ ~(Elapsed <= MaxAnswerDelay + ServerLag + age)
    BY <1>1, <1>2, <1>5
<1>6. in_flight = <<>>
  <2> SUFFICES ASSUME in_flight # <<>> PROVE FALSE
      OBVIOUS
  <2>1. Head(in_flight) \in RecentRequest
      BY HeadTailProperties DEF ExchangeOK
  <2>2. /\ Head(in_flight).age \in Nat
        /\ Elapsed <= Head(in_flight).age
        /\ Head(in_flight).age <= MaxAnswerDelay
      BY <2>1 DEF RecentRequest
  <2> QED  BY <1>5, <2>2
<1>7. answers = <<>>
  <2> SUFFICES ASSUME answers # <<>> PROVE FALSE
      OBVIOUS
  <2>1. Head(answers) \in RecentAnswer
      BY HeadTailProperties DEF ExchangeOK
  <2>2. /\ Head(answers).age \in Nat
        /\ Elapsed <= MaxAnswerDelay + ServerLag + Head(answers).age
        /\ Head(answers).age <= MaxAnswerDelay
      BY <2>1 DEF RecentAnswer
  <2> QED  BY <1>5, <2>2
<1> QED  BY <1>3, <1>4, <1>6, <1>7 DEF ExchangeOK, ServerBusy

\* What is under way stays what it is while the client awaits no other
\* answer and no time goes by.
LEMMA ExchangeStays ==
    ASSUME IndInv, IndInv', ServerSide!IndInv, NumbersOK, ExchangeOK,
           Awaited \subseteq Awaited', Elapsed' <= Elapsed
    PROVE  /\ RecentRequest \subseteq RecentRequest'
           /\ RecentAnswer \subseteq RecentAnswer'
           /\ AwaitedRequest \subseteq AwaitedRequest'
           /\ in_flight \in Seq(RecentRequest')
           /\ server_incoming \in Seq(AwaitedRequest')
           /\ server_incoming # <<>> => Elapsed' <= MaxAnswerDelay
           /\ server_callback # "none" =>
                /\ server_frame \in AwaitedRequest'
                /\ Elapsed' <= MaxAnswerDelay + server_lag
                /\ in_flight = <<>> /\ server_incoming = <<>>
           /\ answers \in Seq(RecentAnswer')
           /\ incoming \in Seq(Awaited')
           /\ callback = "answer_handler" => frame \in Awaited'
<1>1. PICK e \in Int : e = Elapsed'
    BY NextClock
<1>2. /\ Elapsed \in Int /\ e <= Elapsed /\ server_lag \in Nat
      /\ MaxAnswerDelay \in Nat /\ ServerLag \in Nat
    BY <1>1, Counts, Limits
<1>3. [message: Awaited, age: Nat] \subseteq [message: Awaited', age: Nat]
    OBVIOUS
<1>4. RecentRequest \subseteq RecentRequest'
  <2> SUFFICES ASSUME NEW r \in RecentRequest PROVE r \in RecentRequest'
      OBVIOUS
  <2>1. /\ r \in [message: Awaited, age: Nat] /\ Elapsed <= r.age
        /\ r.age <= MaxAnswerDelay /\ r.age \in Nat
      BY DEF RecentRequest
  <2>2. e <= r.age
      BY <1>2, <2>1
  <2> QED  BY <1>1, <1>3, <2>1, <2>2 DEF RecentRequest
<1>5. RecentAnswer \subseteq RecentAnswer'
  <2> SUFFICES ASSUME NEW a \in RecentAnswer PROVE a \in RecentAnswer'
      OBVIOUS
  <2>1. /\ a \in [message: Awaited, age: Nat]
        /\ Elapsed <= MaxAnswerDelay + ServerLag + a.age
        /\ a.age <= MaxAnswerDelay /\ a.age \in Nat
      BY DEF RecentAnswer
  <2>2. e <= MaxAnswerDelay + ServerLag + a.age
      BY <1>2, <2>1
  <2> QED  BY <1>1, <1>3, <2>1, <2>2 DEF RecentAnswer
<1>6. AwaitedRequest \subseteq AwaitedRequest'
    BY DEF AwaitedRequest, RequestOfClient
<1>7. /\ in_flight \in Seq(RecentRequest) /\ answers \in Seq(RecentAnswer)
      /\ server_incoming \in Seq(AwaitedRequest) /\ incoming \in Seq(Awaited)
    BY DEF ExchangeOK
<1>8. /\ in_flight \in Seq(RecentRequest') /\ answers \in Seq(RecentAnswer')
      /\ server_incoming \in Seq(AwaitedRequest') /\ incoming \in Seq(Awaited')
  <2>1. in_flight \in Seq(RecentRequest')
      BY <1>4, <1>7, SeqWider
  <2>2. answers \in Seq(RecentAnswer')
      BY <1>5, <1>7, SeqWider
  <2>3. server_incoming \in Seq(AwaitedRequest')
      BY <1>6, <1>7, SeqWider
  <2>4. incoming \in Seq(Awaited')
      BY <1>7, SeqWider
  <2> QED  BY <2>1, <2>2, <2>3, <2>4
<1>9. server_incoming # <<>> => Elapsed' <= MaxAnswerDelay
  <2>1. server_incoming # <<>> => e <= MaxAnswerDelay
      BY <1>2 DEF ExchangeOK
  <2> QED  BY <1>1, <2>1
<1>10. server_callback # "none" =>
         /\ server_frame \in AwaitedRequest'
         /\ Elapsed' <= MaxAnswerDelay + server_lag
         /\ in_flight = <<>> /\ server_incoming = <<>>
  <2>1. server_callback # "none" => e <= MaxAnswerDelay + server_lag
      BY <1>2 DEF ExchangeOK, ServerBusy
  <2> QED  BY <1>1, <1>6, <2>1 DEF ExchangeOK, ServerBusy
<1>11. callback = "answer_handler" => frame \in Awaited'
    BY DEF ExchangeOK
<1> QED  BY <1>4, <1>5, <1>6, <1>8, <1>9, <1>10, <1>11

\* A step of the client that transmits nothing awaits nothing new.
LEMMA ClientWaitsOn ==
    ASSUME IndInv, IndInv', ExchangeOK, ClientActs, TransmitsNothing
    PROVE  Awaited \subseteq Awaited' /\ Elapsed' <= Elapsed
<1>1. /\ state' \in {state, "IDLE"} /\ UNCHANGED last_message_type
      /\ Awaited \subseteq Message
    BY DEF TransmitsNothing, ExchangeOK
<1>2. Awaited \subseteq Awaited'
    BY <1>1 DEF Awaited, Message
<1>3. PICK e \in Int : e = last_write'.at
    BY NextClock
<1>4. last_write.at \in Int /\ last_write.at <= 0
    BY ClockTypes
<1>5. e = last_write.at \/ e = 0
    BY <1>3, WhoTransmits DEF ClientActs, WriteMessage
<1>6. -e <= -last_write.at
    BY <1>4, <1>5
<1> QED  BY <1>2, <1>3, <1>6 DEF Elapsed

LEMMA CountsNext ==
    ASSUME IndInv', ServerSide!IndInv', NumbersOK'
    PROVE  /\ Len(in_flight') \in Nat /\ Len(server_incoming') \in Nat
           /\ Len(answers') \in Nat /\ Len(incoming') \in Nat
           /\ Thinking' \in {0, 1} /\ Handling' \in {0, 1}
           /\ Underway' = Len(in_flight') + Len(server_incoming')
                            + Thinking' + Len(answers')
                            + Len(incoming') + Handling'
<1>1. Thinking' \in {0, 1} /\ Handling' \in {0, 1}
    BY DEF One, Thinking, Handling
<1>2. /\ Len(in_flight') \in Nat /\ Len(server_incoming') \in Nat
      /\ Len(answers') \in Nat /\ Len(incoming') \in Nat
    BY LenProperties DEF IndInv, TypeOK, NumbersOK
<1> QED  BY <1>1, <1>2 DEF Underway, One

\* The client hands what arrived to a handler, which is then handling it.
LEMMA ClientTakes ==
    ASSUME IndInv, IndInv', ServerSide!IndInv, NumbersOK, NumbersOK',
           ExchangeOK, Awaited \subseteq Awaited', ClientActs
    PROVE  /\ incoming' \in Seq(Awaited')
           /\ frame' \in Message \union {NoFrame}
           /\ callback' = "answer_handler" => frame' \in Awaited'
           /\ Len(incoming') + Handling'
                <= Len(incoming) + Handling
<1>1. /\ incoming \in Seq(Awaited) /\ Awaited \subseteq Message
      /\ frame \in Message \union {NoFrame}
      /\ callback = "answer_handler" => frame \in Awaited
      /\ Len(incoming) \in Nat
    BY LinesTyped DEF ExchangeOK
<1>2. incoming \in Seq(Awaited')
    BY <1>1, SeqWider
<1>3. CASE LoopDispatch
  <2>1. /\ callback = "none" /\ callback' = "message_handler"
        /\ incoming # <<>> /\ incoming' = <<>>
        /\ frame' = incoming[Len(incoming)]
      BY <1>3 DEF LoopDispatch, DropAll
  <2>2. Len(incoming) \in 1 .. Len(incoming)
      BY <1>1, <2>1
  <2>3. frame' \in Message
      BY <1>1, <2>1, <2>2, ElementOfSeq
  <2>4. Handling' = 1 /\ Handling = 0 /\ Len(incoming') = 0
      BY <2>1 DEF One, Handling
  <2>5. incoming' \in Seq(Awaited')
      BY <2>1
  <2> QED  BY <1>1, <2>1, <2>2, <2>3, <2>4, <2>5
<1>4. CASE LoopAnswer
  <2>1. /\ callback = "none" /\ callback' = "answer_handler"
        /\ incoming # <<>> /\ incoming' = Tail(incoming)
        /\ frame' = Head(incoming)
      BY <1>4 DEF LoopAnswer
  <2>2. /\ incoming' \in Seq(Awaited')
        /\ frame' \in Awaited /\ frame' \in Awaited'
        /\ Len(incoming') = Len(incoming) - 1
      BY <1>1, <1>2, <2>1, HeadTailProperties
  <2>3. Handling' = 1 /\ Handling = 0
      BY <2>1 DEF One, Handling
  <2> QED  BY <1>1, <2>2, <2>3
<1>5. CASE /\ UNCHANGED <<incoming, answer_sent>>
           /\ frame' \in {frame, NoFrame}
           /\ \/ UNCHANGED <<callback, frame, lag>>
              \/ callback' \in {"none", "timeout_handler"}
  <2>1. Len(incoming') = Len(incoming) /\ incoming' \in Seq(Awaited')
      BY <1>2, <1>5
  <2>2. Handling' <= Handling
      BY <1>5 DEF One, Handling
  <2>3. Handling' \in {0, 1} /\ Handling \in {0, 1}
      BY DEF One, Thinking, Handling
  <2> QED  BY <1>1, <1>5, <2>1, <2>2, <2>3
<1> QED  BY <1>3, <1>4, <1>5, WhoTakesFrames DEF ClientActs

LEMMA ClientKeepsExchange ==
    ASSUME IndInv, IndInv', ServerSide!IndInv, ServerSide!IndInv',
           NumbersOK, NumbersOK', ClockInv, ExchangeOK,
           ClientActs, UNCHANGED <<serverVars, lineVars>>
    PROVE  ExchangeOK'
<1>1. /\ UNCHANGED <<server_incoming, server_callback, server_frame,
                     server_lag, server_answer_sent, answers>>
      /\ Thinking' = Thinking
    BY DEF serverVars, lineVars, Thinking
<1>2. ServerSilent'
    BY DEF ExchangeOK, ServerSilent, serverVars, lineVars
<1>3. Underway <= 1
    BY DEF ExchangeOK
<1>4. CASE TransmitsNothing
  <2>1. Awaited \subseteq Awaited' /\ Elapsed' <= Elapsed
      BY <1>4, ClientWaitsOn
  <2>2. Awaited' \subseteq Message
      BY <1>4 DEF TransmitsNothing, Awaited, ExchangeOK
  <2>3. UNCHANGED in_flight
      BY <1>4 DEF TransmitsNothing
  <2>4. /\ incoming' \in Seq(Awaited')
        /\ frame' \in Message \union {NoFrame}
        /\ callback' = "answer_handler" => frame' \in Awaited'
        /\ Len(incoming') + Handling' <= Len(incoming) + Handling
      BY <2>1, ClientTakes
  <2>5. Underway' <= 1
      BY <1>1, <1>3, <2>3, <2>4, Counts, CountsNext DEF Underway
  <2> QED  BY <1>1, <1>2, <2>1, <2>2, <2>3, <2>4, <2>5, ExchangeStays
           DEF ExchangeOK, ServerBusy
<1>5. ASSUME NEW id \in Message, Transmits(id)
      PROVE  ExchangeOK'
  <2> DEFINE new == [message |-> id, age |-> 0]
  <2>1. in_flight' = Append(in_flight, new)
      BY <1>5 DEF Transmits
  <2>2. in_flight' # in_flight
      BY <2>1, LinesTyped
  <2>3. /\ ReadyToSend /\ WriteMessage
        /\ callback' = "none" /\ UNCHANGED incoming
        /\ \/ incoming = <<>> /\ callback = "none"
           \/ callback = "message_handler"
      BY <2>2, WhoTransmits DEF ClientActs
  <2>4. /\ in_flight = <<>> /\ server_incoming = <<>>
        /\ server_callback = "none" /\ answers = <<>>
      BY <2>3, LineIsClear DEF ReadyToSend
  <2>5. incoming = <<>>
    <3>1. CASE callback = "message_handler"
      <4>1. Handling = 1
          BY <3>1 DEF One, Handling
      <4>2. Len(incoming) = 0
          BY <1>3, <4>1, Counts DEF Underway
      <4> QED  BY <4>2, LinesTyped DEF ExchangeOK
    <3> QED  BY <2>3, <3>1
  <2>6. in_flight' = <<new>> /\ Len(in_flight') = 1
      BY <2>1, <2>4
  <2>7. Awaited' \subseteq Message /\ id \in Awaited'
      BY <1>5 DEF Transmits, Awaited, Message
  <2>8. Elapsed' = 0
    <3>1. last_write'.at = 0
        BY <2>3 DEF WriteMessage
    <3>2. PICK at \in Int : at = last_write'.at /\ -at = Elapsed'
        BY NextClock
    <3>3. at = 0
        BY <3>1, <3>2
    <3> QED  BY <3>2, <3>3
  <2>9. new \in RecentRequest'
      BY <2>7, <2>8, Limits DEF RecentRequest
  <2> HIDE DEF new
  <2>10. /\ in_flight' \in Seq(RecentRequest') /\ incoming' \in Seq(Awaited')
         /\ answers' \in Seq(RecentAnswer')
         /\ server_incoming' \in Seq(AwaitedRequest')
      BY <1>1, <2>3, <2>4, <2>5, <2>6, <2>9
  <2>11. Thinking' = 0 /\ Handling' = 0
      BY <1>1, <2>3, <2>4 DEF One, Thinking, Handling
  <2>12. Underway' <= 1
    <3>1. Len(server_incoming') = 0 /\ Len(answers') = 0 /\ Len(incoming') = 0
        BY <1>1, <2>3, <2>4, <2>5
    <3> QED  BY <2>6, <2>11, <3>1, CountsNext
  <2>13. frame' \in Message \union {NoFrame}
      BY <2>3, WhoTakesFrames
         DEF ClientActs, LoopDispatch, LoopAnswer, ExchangeOK
  <2> QED  BY <1>1, <1>2, <2>3, <2>4, <2>7, <2>10, <2>12, <2>13
           DEF ExchangeOK
<1> QED  BY <1>4, <1>5, StepTransmits DEF ClientActs

LEMMA ServerKeepsExchange ==
    ASSUME IndInv, IndInv', ServerSide!IndInv, ServerSide!IndInv',
           NumbersOK, NumbersOK', ExchangeOK,
           ServerActs, ServerSide!TransmitsNothing,
           UNCHANGED <<vars, lineVars>>
    PROVE  ExchangeOK'
<1>1. UNCHANGED <<in_flight, incoming, answers, replies, state, frame,
                  last_message_type, last_write, callback>>
    BY DEF vars, lineVars, queueVars, loopVars, wireVars, history
<1>2. /\ Awaited' = Awaited /\ Elapsed' = Elapsed
      /\ AwaitedRequest' = AwaitedRequest /\ RecentRequest' = RecentRequest
      /\ RecentAnswer' = RecentAnswer
      /\ Handling' = Handling
    BY <1>1 DEF Awaited, Elapsed, AwaitedRequest, RequestOfClient,
                RecentRequest, RecentAnswer, Handling
<1>3. ServerSilent /\ ServerSilent'
    BY <1>1 DEF ExchangeOK, ServerSilent, ServerSide!TransmitsNothing
<1>4. Underway <= 1
    BY DEF ExchangeOK
<1>5. ASSUME server_incoming' \in Seq(AwaitedRequest),
             server_incoming' # <<>> => Elapsed <= MaxAnswerDelay,
             server_callback' # "none" => ServerBusy',
             Len(server_incoming') + Thinking'
               <= Len(server_incoming) + Thinking
      PROVE  ExchangeOK'
  <2>1. /\ Len(in_flight') = Len(in_flight) /\ Len(answers') = Len(answers)
        /\ Len(incoming') = Len(incoming) /\ Handling' = Handling
      BY <1>1, <1>2
  <2> DEFINE a == Len(server_incoming) + Thinking
             b == Len(server_incoming') + Thinking'
             c == Len(in_flight) + Len(answers) + Len(incoming)
                    + Handling
  <2>2. /\ a \in Nat /\ b \in Nat /\ c \in Nat /\ b <= a
        /\ Underway = a + c /\ Underway' = b + c
    <3>1. /\ a \in Nat /\ b \in Nat /\ c \in Nat /\ b <= a
      <4>1. a \in Nat
          BY Counts
      <4>2. b \in Nat
          BY CountsNext
      <4>3. c \in Nat
          BY Counts
      <4>4. b <= a
          BY <1>5
      <4> QED  BY <4>1, <4>2, <4>3, <4>4
    <3>2. Underway = a + c
        BY Counts DEF Underway
    <3>3. Underway' = b + c
      <4>1. Underway' = Len(in_flight) + Len(server_incoming') + Thinking'
                          + Len(answers) + Len(incoming) + Handling
          BY <2>1, CountsNext, Zenon
      <4>2. /\ Len(server_incoming') \in Nat /\ Thinking' \in {0, 1}
            /\ Len(in_flight) \in Nat /\ Len(answers) \in Nat
            /\ Len(incoming) \in Nat /\ Handling \in {0, 1}
          BY Counts, CountsNext
      <4> QED  BY <4>1, <4>2
    <3> QED  BY <3>1, <3>2, <3>3
  <2> HIDE DEF a, b, c
  <2>3. Underway' <= 1
      BY <1>4, <2>2
  <2> QED  BY <1>1, <1>2, <1>3, <1>5, <2>3 DEF ExchangeOK
<1>6. CASE ServerSide!LoopDispatch
  <2>1. /\ server_callback = "none" /\ server_callback' = "message_handler"
        /\ server_incoming # <<>> /\ server_incoming' = <<>>
        /\ server_frame' = server_incoming[Len(server_incoming)]
        /\ server_answer_sent' = FALSE /\ UNCHANGED server_lag
      BY <1>6 DEF ServerSide!LoopDispatch, ServerSide!DropAll
  <2>2. /\ server_incoming \in Seq(AwaitedRequest)
        /\ Elapsed <= MaxAnswerDelay
      BY <2>1 DEF ExchangeOK
  <2>3. /\ Len(server_incoming) \in 1 .. Len(server_incoming)
        /\ Len(server_incoming) >= 1 /\ Len(server_incoming') = 0
      BY <2>1, LinesTyped
  <2>4. server_frame' \in AwaitedRequest
      BY <2>1, <2>2, <2>3, ElementOfSeq
  <2>5. in_flight = <<>>
    <3>1. Len(in_flight) = 0
        BY <1>4, <2>3, Counts DEF Underway
    <3> QED  BY <3>1, LinesTyped
  <2>6. Elapsed <= MaxAnswerDelay + server_lag
      BY <2>2, Counts, Limits
  <2>7. ServerBusy'
      BY <1>1, <1>2, <2>1, <2>4, <2>5, <2>6 DEF ServerBusy
  <2>8. Thinking' = 1 /\ Thinking = 0
      BY <2>1 DEF One, Thinking
  <2>9. server_incoming' \in Seq(AwaitedRequest)
      BY <2>1
  <2>10. Len(server_incoming') + Thinking'
           <= Len(server_incoming) + Thinking
      BY <2>3, <2>8, Counts
  <2> QED  BY <1>5, <2>1, <2>7, <2>9, <2>10
<1>7. ~ServerSide!LoopAnswer
    BY <1>3 DEF ServerSide!LoopAnswer, ServerSilent
<1>8. CASE /\ UNCHANGED <<server_incoming, server_answer_sent>>
           /\ \/ UNCHANGED <<server_callback, server_frame, server_lag>>
              \/ server_callback' \in {"none", "timeout_handler"}
  <2>1. server_callback' # "timeout_handler"
      BY <1>3 DEF ServerSide!IndInv, ServerSide!HandlerInItsState,
                  ServerSilent
  <2>2. server_callback' # "none" => ServerBusy'
      BY <1>1, <1>2, <1>8, <2>1 DEF ExchangeOK, ServerBusy
  <2>3. Thinking' <= Thinking
      BY <1>8, <2>1 DEF One, Thinking
  <2>4. Len(server_incoming') + Thinking'
          <= Len(server_incoming) + Thinking
      BY <1>8, <2>3, Counts, CountsNext
  <2> QED  BY <1>5, <1>8, <2>2, <2>4 DEF ExchangeOK
<1> QED  BY <1>6, <1>7, <1>8, ServerAssumption, ServerSide!WhoTakesFrames
         DEF ServerActs, ServerSide!ProtocolHandlerAssumption

LEMMA AnswerKeepsExchange ==
    ASSUME IndInv, IndInv', ServerSide!IndInv, ServerSide!IndInv',
           NumbersOK, NumbersOK', ExchangeOK, ServerAnswers
    PROVE  ExchangeOK'
<1>1. /\ UNCHANGED <<vars, replies>>
      /\ ServerSide!SendAnswer("sent")
      /\ server_frame > ServerMessages /\ ~server_answer_sent
      /\ answers' = Append(answers, Travelling(server_frame - ServerMessages))
    BY SameHandler DEF ServerAnswers
<1>2. UNCHANGED <<in_flight, incoming, state, frame, last_message_type,
                  last_write, callback>>
    BY <1>1 DEF vars, queueVars, loopVars, wireVars, history
<1>3. /\ Awaited' = Awaited /\ Elapsed' = Elapsed
      /\ AwaitedRequest' = AwaitedRequest /\ RecentRequest' = RecentRequest
      /\ RecentAnswer' = RecentAnswer
      /\ Handling' = Handling
    BY <1>2 DEF Awaited, Elapsed, AwaitedRequest, RequestOfClient,
                RecentRequest, RecentAnswer, Handling
<1>4. /\ UNCHANGED <<server_state, server_in_flight, server_incoming,
                     server_frame, server_callback, server_lag>>
      /\ server_answer_sent'
    BY <1>1 DEF ServerSide!SendAnswer, ServerSide!queueVars,
                ServerSide!loopVars, ServerSide!wireVars, ServerSide!Written
<1>5. server_callback = "message_handler"
    BY <1>1 DEF ServerSide!SendAnswer, ServerSide!IndInv,
                ServerSide!HandlerInItsState
<1>6. ServerBusy /\ Underway <= 1
    BY <1>5 DEF ExchangeOK
<1> DEFINE m == server_frame - ServerMessages
<1>7. m \in Awaited /\ Awaited \subseteq Message
  <2>1. PICK n \in Awaited : server_frame = ServerMessages + n
      BY <1>6 DEF ServerBusy, AwaitedRequest, RequestOfClient
  <2>2. n \in Message /\ Awaited \subseteq Message
      BY DEF ExchangeOK
  <2>3. m = n
      BY <2>1, <2>2, Limits DEF Message
  <2> QED  BY <2>2, <2>3
<1>8. Travelling(m) \in RecentAnswer
  <2>1. Elapsed <= MaxAnswerDelay + ServerLag + 0
      BY <1>6, Counts, Limits DEF ServerBusy
  <2> QED  BY <1>7, <2>1, Limits DEF Travelling, RecentAnswer
<1> HIDE DEF m
<1>9. answers' = Append(answers, Travelling(m)) /\ answers \in Seq(RecentAnswer)
    BY <1>1 DEF m, ExchangeOK
<1>10. answers' \in Seq(RecentAnswer) /\ Len(answers') = Len(answers) + 1
    BY <1>8, <1>9, AppendProperties
<1>11. Thinking' = 0 /\ Thinking = 1
    BY <1>1, <1>4, <1>5 DEF One, Thinking
<1>12. Underway' <= 1
    BY <1>2, <1>3, <1>4, <1>6, <1>10, <1>11, Counts, CountsNext DEF Underway
<1>13. ServerSilent' /\ ServerBusy'
    BY <1>1, <1>2, <1>3, <1>4, <1>6 DEF ExchangeOK, ServerSilent, ServerBusy
<1> QED  BY <1>2, <1>3, <1>4, <1>10, <1>12, <1>13 DEF ExchangeOK

LEMMA LineKeepsExchange ==
    ASSUME IndInv, IndInv', ServerSide!IndInv, ServerSide!IndInv',
           NumbersOK, NumbersOK', ExchangeOK, Line
    PROVE  ExchangeOK'
<1> USE DEF DeviceUnchanged, queueVars, answerVars, configVars, clockVars,
            loopVars, wireVars, history, vars, serverVars, lineVars, serveVars
<1>1. /\ server_in_flight = <<>> /\ replies = <<>> /\ ServerSilent
      /\ Underway <= 1
    BY DEF ExchangeOK, ServerSilent
<1>2. RequestArrives \/ AnswerArrives \/ RequestLost \/ AnswerLost
    BY <1>1 DEF Line, ServerRequestArrives, ReplyArrives, ServerRequestLost,
                Server!DeviceStaysSilent, ReplyLost
<1>3. UNCHANGED <<state, last_message_type, last_write, frame, callback,
                  server_state, server_in_flight, replies, server_frame,
                  server_callback, server_answer_sent, server_lag>>
    BY <1>2, SameHandler
       DEF RequestArrives, AnswerArrives, RequestLost, AnswerLost,
           ArrivesAtClient, ArrivesAtServer, DeviceStaysSilent,
           ServerSide!DeviceUnchanged, ServerSide!queueVars,
           ServerSide!answerVars, ServerSide!loopVars
<1>4. /\ Awaited' = Awaited /\ Elapsed' = Elapsed
      /\ AwaitedRequest' = AwaitedRequest /\ RecentRequest' = RecentRequest
      /\ RecentAnswer' = RecentAnswer
      /\ Handling' = Handling /\ Thinking' = Thinking
      /\ ServerSilent'
    BY <1>1, <1>3
       DEF Awaited, Elapsed, AwaitedRequest, RequestOfClient,
           RecentRequest, RecentAnswer, Handling, Thinking, ServerSilent
<1>5. /\ in_flight \in Seq(RecentRequest) /\ answers \in Seq(RecentAnswer)
      /\ server_incoming \in Seq(AwaitedRequest) /\ incoming \in Seq(Awaited)
      /\ Awaited \subseteq Message
    BY DEF ExchangeOK
<1>6. ASSUME in_flight' \in Seq(RecentRequest),
             server_incoming' \in Seq(AwaitedRequest),
             server_incoming' # <<>> => Elapsed <= MaxAnswerDelay,
             \/ server_callback = "none"
             \/ /\ in_flight' \in {in_flight, Tail(in_flight)}
                /\ UNCHANGED server_incoming,
             answers' \in Seq(RecentAnswer),
             incoming' \in Seq(Awaited),
             Len(in_flight') + Len(server_incoming') + Len(answers')
                 + Len(incoming')
               <= Len(in_flight) + Len(server_incoming) + Len(answers)
                    + Len(incoming)
      PROVE  ExchangeOK'
  <2>1. Underway' <= 1
    <3> DEFINE a == Len(in_flight) + Len(server_incoming) + Len(answers)
                      + Len(incoming)
               b == Len(in_flight') + Len(server_incoming') + Len(answers')
                      + Len(incoming')
               c == Thinking + Handling
    <3>1. a \in Nat /\ c \in Nat
        BY Counts
    <3>2. b \in Nat
        BY CountsNext
    <3>3. b <= a
        BY <1>6
    <3>4. Underway = a + c
        BY Counts DEF Underway
    <3>5. Underway' = b + c
      <4>1. Underway' = Len(in_flight') + Len(server_incoming') + Thinking
                          + Len(answers') + Len(incoming') + Handling
          BY <1>4, CountsNext, Zenon
      <4>2. /\ Len(server_incoming') \in Nat /\ Len(in_flight') \in Nat
            /\ Len(answers') \in Nat /\ Len(incoming') \in Nat
            /\ Thinking \in {0, 1} /\ Handling \in {0, 1}
          BY Counts, CountsNext
      <4> QED  BY <4>1, <4>2
    <3> HIDE DEF a, b, c
    <3> QED  BY <1>1, <3>1, <3>2, <3>3, <3>4, <3>5
  <2>2. server_callback' # "none" => ServerBusy'
    <3> SUFFICES ASSUME server_callback # "none" PROVE ServerBusy'
        BY <1>3
    <3>1. ServerBusy
        BY DEF ExchangeOK
    <3>2. in_flight' = <<>> /\ server_incoming' = <<>>
      <4>1. in_flight = <<>> /\ server_incoming = <<>>
          BY <3>1 DEF ServerBusy
      <4>2. Len(in_flight') + Len(server_incoming') + Len(answers')
              + Len(incoming') <= Len(answers) + Len(incoming)
          BY <1>6, <4>1, Counts, CountsNext
      <4>3. Tail(<<>>) = <<>>
          OBVIOUS
      <4> QED  BY <1>6, <4>1, <4>3
    <3> QED  BY <1>3, <1>4, <3>1, <3>2 DEF ServerBusy
  <2> QED  BY <1>3, <1>4, <1>5, <1>6, <2>1, <2>2 DEF ExchangeOK
<1>7. CASE RequestArrives
  <2>1. /\ in_flight # <<>> /\ in_flight' = Tail(in_flight)
        /\ server_incoming'
             = Append(server_incoming,
                      RequestOfClient(Head(in_flight).message))
        /\ UNCHANGED <<answers, incoming>>
      BY <1>7 DEF RequestArrives, ArrivesAtServer
  <2>2. /\ Head(in_flight) \in RecentRequest
        /\ Len(in_flight') = Len(in_flight) - 1
        /\ in_flight' \in Seq(RecentRequest)
      BY <1>5, <2>1, HeadTailProperties
  <2>3. /\ Head(in_flight).message \in Awaited
        /\ Head(in_flight).age \in Nat
        /\ Elapsed <= Head(in_flight).age
        /\ Head(in_flight).age <= MaxAnswerDelay
      BY <2>2 DEF RecentRequest
  <2>4. Elapsed <= MaxAnswerDelay
      BY <2>3, Counts, Limits
  <2>5. RequestOfClient(Head(in_flight).message) \in AwaitedRequest
      BY <2>3 DEF AwaitedRequest
  <2>6. /\ server_incoming' \in Seq(AwaitedRequest)
        /\ Len(server_incoming') = Len(server_incoming) + 1
      BY <1>5, <2>1, <2>5, AppendProperties
  <2>7. server_callback = "none"
      BY <2>1 DEF ExchangeOK, ServerBusy
  <2> QED  BY <1>5, <1>6, <2>1, <2>2, <2>4, <2>6, <2>7, Counts
<1>8. CASE AnswerArrives
  <2>1. /\ answers # <<>> /\ answers' = Tail(answers)
        /\ incoming' = Append(incoming, Head(answers).message)
        /\ UNCHANGED <<in_flight, server_incoming>>
      BY <1>8 DEF AnswerArrives, ArrivesAtClient
  <2>2. /\ Head(answers) \in RecentAnswer
        /\ Len(answers') = Len(answers) - 1
        /\ answers' \in Seq(RecentAnswer)
      BY <1>5, <2>1, HeadTailProperties
  <2>3. Head(answers).message \in Awaited
      BY <2>2 DEF RecentAnswer
  <2>4. incoming' \in Seq(Awaited) /\ Len(incoming') = Len(incoming) + 1
      BY <1>5, <2>1, <2>3, AppendProperties
  <2> QED  BY <1>5, <1>6, <2>1, <2>2, <2>4, Counts DEF ExchangeOK
<1>9. CASE RequestLost
  <2>1. /\ in_flight # <<>> /\ in_flight' = Tail(in_flight)
        /\ UNCHANGED <<server_incoming, answers, incoming>>
      BY <1>9 DEF RequestLost, DeviceStaysSilent
  <2>2. /\ Len(in_flight') = Len(in_flight) - 1
        /\ in_flight' \in Seq(RecentRequest)
      BY <1>5, <2>1, HeadTailProperties
  <2> QED  BY <1>5, <1>6, <2>1, <2>2, Counts DEF ExchangeOK
<1>10. CASE AnswerLost
  <2>1. /\ answers # <<>> /\ answers' = Tail(answers)
        /\ UNCHANGED <<server_incoming, in_flight, incoming>>
      BY <1>10 DEF AnswerLost
  <2>2. /\ Len(answers') = Len(answers) - 1
        /\ answers' \in Seq(RecentAnswer)
      BY <1>5, <2>1, HeadTailProperties
  <2> QED  BY <1>5, <1>6, <2>1, <2>2, Counts DEF ExchangeOK
<1> QED  BY <1>2, <1>7, <1>8, <1>9, <1>10

LEMMA OlderWithin ==
    ASSUME NEW M, NEW S, S \subseteq [message: M, age: Nat], NEW T, NEW d,
           \A r \in S : r.age < d => [r EXCEPT !.age = @ + 1] \in T,
           NEW travelling \in Seq(S),
           \A i \in 1 .. Len(travelling) : travelling[i].age < d
    PROVE  /\ Older(travelling) \in Seq(T)
           /\ Len(Older(travelling)) = Len(travelling)
<1>1. Len(travelling) \in Nat
    BY LenProperties
<1>2. \A i \in 1 .. Len(travelling) :
        [travelling[i] EXCEPT !.age = @ + 1] \in T
    BY ElementOfSeq
<1>3. Older(travelling) \in [1 .. Len(travelling) -> T]
    BY <1>2 DEF Older
<1>4. Older(travelling) \in Seq(T)
    BY <1>1, <1>3, SeqDef
<1> QED  BY <1>1, <1>3, <1>4, LenProperties

\* Time ages what is under way as fast as the last write.
LEMMA TickKeepsExchange ==
    ASSUME IndInv, IndInv', ServerSide!IndInv, ServerSide!IndInv',
           NumbersOK, NumbersOK', ExchangeOK, DialogueTick
    PROVE  ExchangeOK'
<1> USE DEF queueVars, answerVars, configVars, serveVars
<1>1. /\ Tick /\ ServerSide!Tick
      /\ answers' = Older(answers) /\ replies' = Older(replies)
      /\ server_callback = "none" => server_incoming = <<>>
      /\ \A i \in 1 .. Len(answers) : answers[i].age < MaxAnswerDelay
      /\ \A i \in 1 .. Len(in_flight) : in_flight[i].age < MaxAnswerDelay
      /\ in_flight' = Older(in_flight)
    BY SameHandler DEF DialogueTick, Tick, Older
<1>2. /\ UNCHANGED <<state, last_message_type, callback, frame, incoming>>
      /\ last_write' = [last_write EXCEPT !.at = Aged(@, -Horizon)]
    BY <1>1 DEF Tick
<1>3. /\ UNCHANGED <<server_state, server_callback, server_frame,
                     server_incoming, server_answer_sent>>
      /\ server_callback # "none" => server_lag' = server_lag + 1
      /\ server_in_flight' = [i \in 1 .. Len(server_in_flight) |->
                                [server_in_flight[i] EXCEPT !.age = @ + 1]]
    BY <1>1 DEF ServerSide!Tick, ServerSide!queueVars, ServerSide!answerVars,
                ServerSide!configVars
<1>4. /\ Awaited' = Awaited /\ AwaitedRequest' = AwaitedRequest
      /\ Handling' = Handling /\ Thinking' = Thinking
    BY <1>2, <1>3 DEF Awaited, AwaitedRequest, RequestOfClient, Handling,
                      Thinking
<1>5. /\ server_in_flight = <<>> /\ replies = <<>> /\ server_state = "IDLE"
      /\ Awaited \subseteq Message /\ Underway <= 1
      /\ in_flight \in Seq(RecentRequest) /\ answers \in Seq(RecentAnswer)
      /\ server_incoming \in Seq(AwaitedRequest) /\ incoming \in Seq(Awaited)
    BY DEF ExchangeOK, ServerSilent
<1>6. ServerSilent'
  <2>1. server_in_flight' = <<>>
      BY <1>3, <1>5
  <2>2. replies' = <<>>
      BY <1>1, <1>5 DEF Older
  <2> QED  BY <1>3, <1>5, <2>1, <2>2 DEF ServerSilent
<1>7. PICK e \in Int : e = Elapsed' /\ e <= Elapsed + 1
  <2>1. last_write'.at = Aged(last_write.at, -Horizon)
      BY <1>2, FlightTypes
  <2>2. PICK at \in Int : at = last_write'.at /\ -at = Elapsed'
      BY NextClock
  <2>3. last_write.at \in Int
      BY ClockTypes
  <2>4. at >= last_write.at - 1
      BY <2>1, <2>2, <2>3 DEF Aged
  <2>5. -at <= Elapsed + 1
      BY <2>3, <2>4 DEF Elapsed
  <2> QED  BY <2>2, <2>5
<1>8. /\ Elapsed \in Int /\ MaxAnswerDelay \in Nat /\ ServerLag \in Nat
      /\ server_lag \in Nat
    BY Counts, Limits
<1>9. ASSUME NEW r \in [message: Awaited, age: Nat], r.age < MaxAnswerDelay
      PROVE  LET older == [r EXCEPT !.age = @ + 1]
             IN  /\ older \in [message: Awaited', age: Nat]
                 /\ older.age = r.age + 1
                 /\ older.age <= MaxAnswerDelay
  <2>1. r.age \in Nat
      OBVIOUS
  <2>2. r.age + 1 <= MaxAnswerDelay
      BY <1>8, <1>9, <2>1
  <2> QED  BY <1>4, <1>9, <2>1, <2>2
<1>10. in_flight' \in Seq(RecentRequest') /\ Len(in_flight') = Len(in_flight)
  <2>1. RecentRequest \subseteq [message: Awaited, age: Nat]
      BY DEF RecentRequest
  <2>2. ASSUME NEW r \in RecentRequest, r.age < MaxAnswerDelay
        PROVE  [r EXCEPT !.age = @ + 1] \in RecentRequest'
    <3> DEFINE older == [r EXCEPT !.age = @ + 1]
    <3>1. r \in [message: Awaited, age: Nat] /\ r.age \in Nat
            /\ Elapsed <= r.age
        BY DEF RecentRequest
    <3>2. /\ older \in [message: Awaited', age: Nat]
          /\ older.age = r.age + 1 /\ older.age <= MaxAnswerDelay
        BY <1>9, <2>2, <3>1
    <3> HIDE DEF older
    <3>3. e <= older.age
        BY <1>7, <1>8, <3>1, <3>2
    <3> QED  BY <1>7, <3>2, <3>3 DEF RecentRequest, older
  <2> QED  BY <1>1, <1>5, <2>1, <2>2, OlderWithin
<1>11. answers' \in Seq(RecentAnswer') /\ Len(answers') = Len(answers)
  <2>1. RecentAnswer \subseteq [message: Awaited, age: Nat]
      BY DEF RecentAnswer
  <2>2. ASSUME NEW r \in RecentAnswer, r.age < MaxAnswerDelay
        PROVE  [r EXCEPT !.age = @ + 1] \in RecentAnswer'
    <3> DEFINE older == [r EXCEPT !.age = @ + 1]
    <3>1. /\ r \in [message: Awaited, age: Nat] /\ r.age \in Nat
          /\ Elapsed <= MaxAnswerDelay + ServerLag + r.age
        BY DEF RecentAnswer
    <3>2. /\ older \in [message: Awaited', age: Nat]
          /\ older.age = r.age + 1 /\ older.age <= MaxAnswerDelay
        BY <1>9, <2>2, <3>1
    <3> HIDE DEF older
    <3>3. e <= MaxAnswerDelay + ServerLag + older.age
        BY <1>7, <1>8, <3>1, <3>2
    <3> QED  BY <1>7, <3>2, <3>3 DEF RecentAnswer, older
  <2> QED  BY <1>1, <1>5, <2>1, <2>2, OlderWithin
<1>12. server_incoming = <<>>
    BY <1>1 DEF ExchangeOK, ServerBusy
<1>13. server_callback' # "none" => ServerBusy'
  <2> SUFFICES ASSUME server_callback # "none" PROVE ServerBusy'
      BY <1>3
  <2>1. ServerBusy
      BY DEF ExchangeOK
  <2>2. PICK lagging \in Nat : /\ lagging = server_lag'
                               /\ lagging = server_lag + 1
      BY <1>3, <1>8
  <2>3. e <= MaxAnswerDelay + lagging
      BY <1>7, <1>8, <2>1, <2>2 DEF ServerBusy
  <2>4. in_flight' = <<>>
      BY <1>1, <2>1 DEF ServerBusy, Older
  <2> QED  BY <1>3, <1>4, <1>7, <2>1, <2>2, <2>3, <2>4 DEF ServerBusy
<1>14. Underway' <= 1
  <2>1. Underway' = Len(in_flight) + Len(server_incoming) + Thinking
                      + Len(answers) + Len(incoming) + Handling
      BY <1>2, <1>3, <1>4, <1>10, <1>11, CountsNext, Zenon
  <2> QED  BY <1>5, <2>1 DEF Underway
<1> QED  BY <1>2, <1>3, <1>4, <1>5, <1>6, <1>10, <1>11, <1>12, <1>13, <1>14
         DEF ExchangeOK

LEMMA ExchangeKept ==
    ASSUME IndInv, ServerSide!IndInv, NumbersOK, ClockInv,
           ServerOnlyAnswers => ExchangeOK,
           [DialogueNext]_dialogueVars, ServerOnlyAnswers'
    PROVE  ExchangeOK'
<1>1. IndInv' /\ ServerSide!IndInv' /\ NumbersOK'
    BY NextNumbers
<1>2. ExchangeOK /\ (ServerActs => ServerSide!TransmitsNothing)
    BY ServerWasSilent
<1>3. CASE ClientSubmits \/ ClientLoops
    BY <1>1, <1>2, <1>3, ClientSteps, ClientKeepsExchange
<1>4. CASE ServerSubmits \/ ServerRuns
    BY <1>1, <1>2, <1>4, ServerSteps, ServerKeepsExchange
<1>5. CASE ServerAnswers
    BY <1>1, <1>2, <1>5, AnswerKeepsExchange
<1>6. CASE Line
    BY <1>1, <1>2, <1>6, LineKeepsExchange
<1>7. CASE DialogueTick
    BY <1>1, <1>2, <1>7, TickKeepsExchange
<1>8. ~ClientAnswers
  <2>1. frame \in Message \union {NoFrame} /\ MaxMessages \in Nat
      BY <1>2, Limits DEF ExchangeOK
  <2>2. ~(frame > MaxMessages)
      BY <2>1 DEF Message, NoFrame
  <2> QED  BY <2>2 DEF ClientAnswers
<1>9. CASE UNCHANGED dialogueVars
  <2>1. ExchangeOK' <=> ExchangeOK
      BY <1>9 DEF dialogueVars, vars, serverVars, lineVars, queueVars,
                  loopVars, wireVars, history, ExchangeOK, ServerSilent,
                  ServerBusy, Awaited, AwaitedRequest, RequestOfClient,
                  RecentRequest, RecentAnswer, Elapsed, Underway, Thinking,
                  Handling
  <2> QED  BY <1>2, <2>1
<1> QED  BY <1>3, <1>4, <1>5, <1>6, <1>7, <1>8, <1>9 DEF DialogueNext

-----------------------------------------------------------------------------
(***************************************************************************)
(* What the client reports as answered was handled by the server.          *)
(***************************************************************************)
AnsweredServed ==
    \A n \in 1 .. Len(log) : log[n].outcome = "answered" => served[n] >= 1

LEMMA OwnAnswerHandled ==
    ASSUME ExchangeOK, HandledOK, IndInv, callback = "answer_handler"
    PROVE  frame = last_message_type /\ frame \in Handled
<1>1. state = "WAITING_FOR_ANSWER"
    BY DEF IndInv, HandlerInItsState
<1>2. frame = last_message_type /\ frame \in Message
    BY <1>1 DEF ExchangeOK, Awaited
<1>3. frame \in Justified
  <2>1. NoFrame \notin Message
      BY Limits DEF Message, NoFrame
  <2> QED  BY <1>2, <2>1 DEF HandledOK
<1> QED  BY <1>2, <1>3 DEF Justified

LEMMA AnsweredKept ==
    ASSUME IndInv, NumbersOK, HandledOK, ExchangeOK, AnsweredServed,
           [DialogueNext]_dialogueVars
    PROVE  AnsweredServed'
<1> SUFFICES ASSUME NEW n \in 1 .. Len(log'), log'[n].outcome = "answered"
             PROVE  served'[n] >= 1
    BY DEF AnsweredServed
<1>1. ASSUME n \in 1 .. Len(log), log[n].outcome = "answered"
      PROVE  served'[n] >= 1
  <2>1. n \in Message
    <3>1. Len(log) \in Nat /\ Len(log) <= MaxMessages
        BY DEF IndInv, QueueOK, TypeOK
    <3> QED  BY <1>1, <3>1, Limits DEF Message
  <2>2. n \in Handled
      BY <1>1, <2>1 DEF AnsweredServed, Handled
  <2> QED  BY <2>2, ServedGrows DEF Handled
<1>2. CASE UNCHANGED log
    BY <1>1, <1>2
<1>3. CASE ClientActs
  <2>1. CASE n \in 1 .. Len(log) /\ log'[n].outcome = log[n].outcome
      BY <1>1, <2>1
  <2>2. CASE AnswerHandlerReturns /\ n = Head(outgoing_messages).id
    <3>1. callback = "answer_handler" /\ state = "WAITING_FOR_ANSWER"
        BY <2>2 DEF AnswerHandlerReturns, IndInv, HandlerInItsState
    <3>2. last_message_type = Head(outgoing_messages).id
        BY <3>1 DEF IndInv, WaitingForHead
    <3>3. n \in Handled
        BY <2>2, <3>1, <3>2, OwnAnswerHandled
    <3> QED  BY <3>3, ServedGrows DEF Handled
  <2> QED  BY <1>3, <2>1, <2>2, StepDecides DEF ClientActs
<1> QED  BY <1>2, <1>3, FrameSteps

-----------------------------------------------------------------------------
DialogueInv ==
    /\ IndInv
    /\ ServerSide!IndInv
    /\ NumbersOK
    /\ ServedOK
    /\ HandledOK

ExchangeInv ==
    /\ ClockInv
    /\ ServerOnlyAnswers => ExchangeOK /\ AnsweredServed

LEMMA InitDialogue ==
    ASSUME DialogueInit
    PROVE  DialogueInv
<1>1. IndInv /\ ServerSide!IndInv /\ NumbersOK
    BY InitNumbers
<1>2. /\ in_flight = <<>> /\ server_incoming = <<>> /\ log = <<>>
      /\ incoming = <<>> /\ answers = <<>> /\ frame = NoFrame
      /\ served = [n \in Message |-> 0] /\ server_callback = "none"
    BY SameHandler DEF DialogueInit, Init, ServerSide!Init
<1>3. ServedOK
  <2> SUFFICES ASSUME NEW n \in Message
               PROVE  served[n] + Cardinality(InFlightAt(n))
                        + Cardinality(ArrivedAt(n)) <= SendsOf(n)
      BY DEF ServedOK
  <2>1. InFlightAt(n) = {} /\ ArrivedAt(n) = {} /\ SendsOf(n) = 0
      BY <1>2 DEF InFlightAt, ArrivedAt, SendsOf
  <2>2. Cardinality(InFlightAt(n)) = 0 /\ Cardinality(ArrivedAt(n)) = 0
      BY <2>1, FS_EmptySet
  <2>3. served[n] = 0
      BY <1>2
  <2> QED  BY <2>1, <2>2, <2>3
<1>4. HandledOK
    BY <1>2 DEF HandledOK
<1> QED  BY <1>1, <1>3, <1>4 DEF DialogueInv

LEMMA InitExchange ==
    ASSUME DialogueInit, CooldownOutlastsExchange
    PROVE  ExchangeInv
<1>1. /\ state = "IDLE" /\ callback = "none" /\ log = <<>>
      /\ in_flight = <<>> /\ server_incoming = <<>>
      /\ incoming = <<>> /\ answers = <<>> /\ replies = <<>>
      /\ frame = NoFrame /\ server_callback = "none"
      /\ server_state = "IDLE" /\ server_in_flight = <<>>
      /\ last_write = [at |-> -Horizon, cooldown |-> 0]
      /\ cooldown_interval = DEFAULT_COOLDOWN_INTERVAL
    BY SameHandler DEF DialogueInit, Init, ServerSide!Init
<1>2. ClockInv
    BY <1>1 DEF ClockInv, CooldownInv, CooldownOutlastsExchange
<1>3. Underway = 0
  <2>1. /\ Len(in_flight) = 0 /\ Len(server_incoming) = 0
        /\ Len(answers) = 0 /\ Len(incoming) = 0
        /\ Thinking = 0 /\ Handling = 0
      BY <1>1 DEF Thinking, Handling, One
  <2> QED  BY <2>1 DEF Underway
<1>4. ExchangeOK
    BY <1>1, <1>3 DEF ExchangeOK, ServerSilent, Awaited
<1>5. AnsweredServed
    BY <1>1 DEF AnsweredServed
<1> QED  BY <1>2, <1>4, <1>5 DEF ExchangeInv

LEMMA DialogueStep ==
    ASSUME DialogueInv, [DialogueNext]_dialogueVars
    PROVE  DialogueInv'
BY NextNumbers, ServedKept, HandledKept DEF DialogueInv

LEMMA ExchangeStep ==
    ASSUME DialogueInv, ExchangeInv, CooldownOutlastsExchange,
           [DialogueNext]_dialogueVars
    PROVE  ExchangeInv'
<1>1. ClockInv'
    BY ClockKept DEF DialogueInv, ExchangeInv
<1>2. ASSUME ServerOnlyAnswers'
      PROVE  ExchangeOK' /\ AnsweredServed'
  <2>1. ServerOnlyAnswers
      BY <1>2, ServerWasSilent DEF DialogueInv
  <2> QED  BY <1>2, <2>1, ExchangeKept, AnsweredKept
           DEF DialogueInv, ExchangeInv
<1> QED  BY <1>1, <1>2 DEF ExchangeInv

(***************************************************************************)
(* No transmission of a request is handled twice by the server's message   *)
(* handler, whatever the line and the clocks do.                           *)
(***************************************************************************)
THEOREM HandledOnce ==
    DialogueSpec => [](\A n \in 1 .. Len(log) : served[n] <= log[n].sends)
<1>1. DialogueInit => DialogueInv
    BY InitDialogue
<1>2. DialogueInv /\ [DialogueNext]_dialogueVars => DialogueInv'
    BY DialogueStep
<1>3. DialogueInv => \A n \in 1 .. Len(log) : served[n] <= log[n].sends
    BY ServedAtMostSent DEF DialogueInv
<1> QED  BY <1>1, <1>2, <1>3, PTL DEF DialogueSpec

(***************************************************************************)
(* The invariant of the exchange: of request, handler and answer at most   *)
(* one is under way, and that one is not older than the last write.        *)
(***************************************************************************)
THEOREM ExchangeInvariance ==
    ASSUME CooldownOutlastsExchange
    PROVE  DialogueSpec => [](DialogueInv /\ ExchangeInv)
<1>1. DialogueInit => DialogueInv /\ ExchangeInv
    BY InitDialogue, InitExchange
<1>2. DialogueInv /\ ExchangeInv /\ [DialogueNext]_dialogueVars =>
        (DialogueInv /\ ExchangeInv)'
    BY DialogueStep, ExchangeStep
<1> QED  BY <1>1, <1>2, PTL DEF DialogueSpec

(***************************************************************************)
(* When the cooldown of the client is longer than the line and a handler   *)
(* of the server may delay a frame there and back, loop() never finds more *)
(* than one frame, at either end, and so drops none unread.                *)
(***************************************************************************)
THEOREM OneFrameArrives ==
    ASSUME CooldownOutlastsExchange
    PROVE  DialogueSpec => []OneFrameAtATime
<1>1. DialogueInv /\ ExchangeInv => OneFrameAtATime
  <2> SUFFICES ASSUME DialogueInv, ExchangeInv, ServerOnlyAnswers
               PROVE  Len(server_incoming) <= 1 /\ Len(incoming) <= 1
      BY DEF OneFrameAtATime
  <2>1. Underway <= 1
      BY DEF ExchangeInv, ExchangeOK
  <2> QED  BY <2>1, Counts DEF Underway, DialogueInv
<1> QED  BY <1>1, ExchangeInvariance, PTL

(***************************************************************************)
(* Then the answer handler gets the answer to its own request, though the  *)
(* frame does not name it and answers may be lost or late.                 *)
(***************************************************************************)
THEOREM AnswersAreOwn ==
    ASSUME CooldownOutlastsExchange
    PROVE  DialogueSpec => []OwnAnswer
<1>1. DialogueInv /\ ExchangeInv => OwnAnswer
  <2> SUFFICES ASSUME DialogueInv, ExchangeInv, ServerOnlyAnswers,
                      callback = "answer_handler"
               PROVE  frame = last_message_type
      BY DEF OwnAnswer, AnswerMatchesRequest
  <2> QED  BY OwnAnswerHandled DEF DialogueInv, ExchangeInv
<1> QED  BY <1>1, ExchangeInvariance, PTL

(***************************************************************************)
(* And what it reports of a request is what happened at the server.        *)
(***************************************************************************)
THEOREM ReportsAreTrue ==
    ASSUME CooldownOutlastsExchange
    PROVE  DialogueSpec => []ReportedAsServed
<1>1. DialogueInv /\ ExchangeInv => ReportedAsServed
    BY ServedAtMostSent
       DEF ReportedAsServed, DialogueInv, ExchangeInv, AnsweredServed
<1> QED  BY <1>1, ExchangeInvariance, PTL

-----------------------------------------------------------------------------
(***************************************************************************)
(* In time.  When nothing is lost, no write fails and every answer timeout *)
(* is at least the longest exchange, the frame that is under way while the *)
(* client waits comes before the timeout.                                  *)
(***************************************************************************)
AnswersComeInTime ==
    /\ CooldownOutlastsExchange
    /\ \A t \in AnswerTimeouts \union {DEFAULT_ANSWER_TIMEOUT} : Longest <= t
    /\ Writes \subseteq {"sent"}
    /\ Longest + MaxLag < Horizon

Waits == state = "WAITING_FOR_ANSWER" /\ callback = "none"

\* No message was sent twice or given up, and none that was sent waits to be
\* sent again.
SentOnce ==
    /\ \A n \in Message : SendsOf(n) <= 1
    /\ \A n \in 1 .. Len(log) : log[n].outcome # "timed_out"
    /\ state = "IDLE" => ~HeadTransmitted

\* The frame the client waits for, wherever it is.
OnItsWay ==
    \/ in_flight # <<>>
    \/ server_incoming # <<>>
    \/ Thinking = 1
    \/ answers # <<>>
    \/ incoming # <<>>

InTimeOK ==
    /\ callback # "timeout_handler"
    /\ incoming # <<>> => Elapsed <= Longest
    /\ callback = "message_handler" => Elapsed <= Longest + lag
    /\ Waits => OnItsWay /\ Longest <= answer_time_point + Elapsed
    /\ SentOnce

\* While the client waits, what it waits for is somewhere under way.
LEMMA NotOverdue ==
    ASSUME IndInv, ServerSide!IndInv, NumbersOK, ExchangeOK, InTimeOK, Waits
    PROVE  Elapsed <= Longest /\ ~TimedOut
<1>1. /\ Elapsed \in Nat /\ server_lag \in 0 .. ServerLag
      /\ MaxAnswerDelay \in Nat /\ ServerLag \in Nat /\ Longest \in Nat
      /\ Longest = MaxAnswerDelay + MaxAnswerDelay + ServerLag
    BY Counts, Limits DEF Longest
<1>2. Elapsed <= Longest
  <2>1. CASE in_flight # <<>>
    <3>1. Head(in_flight) \in RecentRequest
        BY <2>1, HeadTailProperties DEF ExchangeOK
    <3>2. /\ Head(in_flight).age \in Nat
          /\ Elapsed <= Head(in_flight).age
          /\ Head(in_flight).age <= MaxAnswerDelay
        BY <3>1 DEF RecentRequest
    <3> QED  BY <1>1, <3>2
  <2>2. CASE server_incoming # <<>>
    <3>1. Elapsed <= MaxAnswerDelay
        BY <2>2 DEF ExchangeOK
    <3> QED  BY <1>1, <3>1
  <2>3. CASE Thinking = 1
    <3>1. Elapsed <= MaxAnswerDelay + server_lag
        BY <2>3 DEF Thinking, One, ExchangeOK, ServerBusy
    <3> QED  BY <1>1, <3>1
  <2>4. CASE answers # <<>>
    <3>1. Head(answers) \in RecentAnswer
        BY <2>4, HeadTailProperties DEF ExchangeOK
    <3>2. /\ Head(answers).age \in Nat
          /\ Elapsed <= MaxAnswerDelay + ServerLag + Head(answers).age
          /\ Head(answers).age <= MaxAnswerDelay
        BY <3>1 DEF RecentAnswer
    <3> QED  BY <1>1, <3>2
  <2>5. CASE incoming # <<>>
      BY <2>5 DEF InTimeOK
  <2> QED  BY <2>1, <2>2, <2>3, <2>4, <2>5 DEF InTimeOK, OnItsWay
<1>3. ~TimedOut
  <2>1. /\ lag = 0 /\ answer_time_point \in Int
      BY ClockTypes DEF Waits, IndInv, LagInHandlers
  <2>2. answer_time_point >= 0
      BY <1>1, <1>2, <2>1 DEF InTimeOK
  <2> QED  BY <2>1, <2>2 DEF TimedOut, Passed
<1> QED  BY <1>2, <1>3

\* By the time loop() sampled, the cooldown is not over.
LEMMA NotReady ==
    ASSUME AnswersComeInTime, IndInv, ServerSide!IndInv, NumbersOK, ClockInv,
           Elapsed <= Longest + lag
    PROVE  ~ReadyToSend
<1> DEFINE at == last_write.at
           cd == last_write.cooldown
           t  == cooldown_time_point
<1>1. /\ at \in Int /\ cd \in Int /\ t \in Int /\ Longest \in Nat
      /\ lag \in 0 .. MaxLag /\ MaxLag \in Nat /\ Horizon \in Nat
  <2>1. Longest \in Nat
      BY Counts
  <2>2. cd \in 0 .. Horizon - 1 /\ Horizon \in Nat
      BY ClockTypes
  <2> QED  BY <2>1, <2>2, ClockTypes
<1>2. /\ at + cd <= t \/ at + cd <= Past \/ at = -Horizon
      /\ at = -Horizon \/ Longest < cd
    BY DEF ClockInv, CooldownInv
<1>3. Elapsed = -at
    BY DEF Elapsed
<1>4. Longest + MaxLag < Horizon
    BY DEF AnswersComeInTime
<1> HIDE DEF at, cd, t
<1>5. Past <= -lag /\ Past \in Int
    BY <1>1 DEF Past
<1>6. at # -Horizon
  <2>1. -at <= Longest + MaxLag
      BY <1>1, <1>3
  <2> QED  BY <1>1, <1>4, <2>1
<1>7. -at <= Longest + lag /\ Longest < cd
    BY <1>2, <1>3, <1>6
<1>8. ~(at + cd <= -lag)
    BY <1>1, <1>7
<1>9. ~(t <= -lag)
    BY <1>1, <1>2, <1>5, <1>6, <1>8
<1> QED  BY <1>9 DEF ReadyToSend, Reached, t

\* How the client comes to wait.
LEMMA WaitStarts ==
    ASSUME IndInv, ClientActs, Waits'
    PROVE  \/ Waits /\ UNCHANGED <<state, callback, lag, answer_time_point,
                                   last_write, in_flight, incoming>>
           \/ /\ ReadyToSend /\ WriteMessage /\ UNCHANGED incoming
              /\ \/ incoming = <<>> /\ callback = "none"
                 \/ callback = "message_handler"
              /\ answer_time_point' = FromNow(answer_timeout_interval)
              /\ \E id \in Message :
                   in_flight' = Append(in_flight, [message |-> id, age |-> 0])
<1> USE DEF queueVars, answerVars, configVars, clockVars, loopVars, wireVars,
            history
<1>1. CASE Application
    BY <1>1 DEF Application, SendMessage, SendMessageWithoutAnswer, Enqueue,
                SetAnswerTimeout, SetCooldownInterval, Waits
<1>2. CASE LoopDispatch \/ LoopRetry \/ LoopTimeout \/ LoopAnswer
             \/ TimeoutHandlerReturns \/ AnswerHandlerReturns
    BY <1>2 DEF LoopDispatch, LoopRetry, LoopTimeout, LoopAnswer,
                TimeoutHandlerReturns, AnswerHandlerReturns, BecomeIdle, Waits
<1>3. CASE LoopSend \/ MessageHandlerReturns
  <2>1. /\ state = "IDLE" /\ callback \in {"none", "message_handler"}
        /\ UNCHANGED incoming
        /\ callback = "none" => incoming = <<>>
      BY <1>3 DEF LoopSend, MessageHandlerReturns, IndInv, HandlerInItsState
  <2>2. state' # state
      BY <2>1 DEF Waits
  <2>3. SendNext
      BY <1>3, <2>2 DEF LoopSend, MessageHandlerReturns
  <2>4. /\ ReadyToSend /\ Transmit
        /\ SendsRequest(Head(outgoing_messages))
      BY <2>2, <2>3 DEF SendNext, Transmit, Discard, WriteFails,
                        SendsWithoutAnswer
  <2> DEFINE item == Head(outgoing_messages)
  <2>5. item.id \in Message
      BY <2>4, HeadOfQueue, ItemFields DEF IndInv, ReadyToSend
  <2>6. /\ WriteMessage
        /\ answer_time_point' = FromNow(answer_timeout_interval)
        /\ in_flight' = Append(in_flight, [message |-> item.id, age |-> 0])
      BY <2>4 DEF Transmit, SendsRequest, OnWire, Written
  <2> HIDE DEF item
  <2> QED  BY <2>1, <2>4, <2>5, <2>6
<1> QED  BY <1>1, <1>2, <1>3 DEF ClientActs, Loop, HandlerReturns

\* What the client transmits is the head of its queue.
LEMMA HeadIsTransmitted ==
    ASSUME IndInv, ClientActs
    PROVE  \/ UNCHANGED in_flight
           \/ /\ SendNext /\ state = "IDLE"
              /\ in_flight' = Append(in_flight,
                                     [message |-> Head(outgoing_messages).id,
                                      age |-> 0])
<1>1. SendNext => \/ UNCHANGED in_flight
                  \/ in_flight' = Append(in_flight,
                                         [message |->
                                            Head(outgoing_messages).id,
                                          age |-> 0])
    BY DEF SendNext, Transmit, Discard
<1>2. UNCHANGED in_flight \/ (SendNext /\ state = "IDLE")
    BY DEF ClientActs, Application, SendMessage, SendMessageWithoutAnswer,
           Enqueue, SetAnswerTimeout, SetCooldownInterval, Loop,
           LoopDispatch, LoopSend, LoopRetry, LoopTimeout, LoopAnswer,
           HandlerReturns, MessageHandlerReturns, TimeoutHandlerReturns,
           AnswerHandlerReturns, IndInv, HandlerInItsState, queueVars,
           wireVars
<1> QED  BY <1>1, <1>2

LEMMA SentOnceKept ==
    ASSUME Writes \subseteq {"sent"}, IndInv, SentOnce, ClientActs,
           ~TimedOut, callback # "timeout_handler"
    PROVE  SentOnce' /\ callback' # "timeout_handler"
<1>1. QueueOK /\ log \in Seq(LogEntry)
    BY DEF IndInv, QueueOK
<1>2. ~LoopRetry /\ ~LoopTimeout /\ ~TimeoutHandlerReturns
    BY DEF LoopRetry, LoopTimeout, TimeoutHandlerReturns
<1>3. callback' # "timeout_handler"
  <2>1. \/ LoopDispatch \/ LoopAnswer
        \/ UNCHANGED callback \/ callback' = "none"
      BY <1>2 DEF ClientActs, Application, SendMessage,
                  SendMessageWithoutAnswer, Enqueue, SetAnswerTimeout,
                  SetCooldownInterval, Loop, LoopSend, HandlerReturns,
                  MessageHandlerReturns, AnswerHandlerReturns, loopVars
  <2> QED  BY <2>1 DEF LoopDispatch, LoopAnswer
<1>4. ASSUME NEW n \in 1 .. Len(log')
      PROVE  log'[n].outcome # "timed_out"
    BY <1>2, <1>4, StepDecides DEF ClientActs, SentOnce
<1>5. ASSUME NEW n \in Message
      PROVE  SendsOf(n)' <= 1
  <2>1. CASE TransmitsNothing
      BY <1>5, <2>1 DEF TransmitsNothing, SameSends, SentOnce
  <2>2. ASSUME NEW id \in Message, Transmits(id)
        PROVE  SendsOf(n)' <= 1
    <3> DEFINE item == Head(outgoing_messages)
    <3>1. in_flight' = Append(in_flight, [message |-> id, age |-> 0])
        BY <2>2 DEF Transmits
    <3>2. in_flight \in Seq([message: Message, age: Nat])
        BY FlightTypes
    <3>3. in_flight' # in_flight
        BY <3>1, <3>2
    <3>4. /\ SendNext /\ state = "IDLE"
          /\ in_flight' = Append(in_flight, [message |-> item.id, age |-> 0])
        BY <3>3, HeadIsTransmitted
    <3>5. id = item.id
      <4> DEFINE r == [message |-> id, age |-> 0]
                 q == [message |-> item.id, age |-> 0]
      <4>1. r = q
        <5> HIDE DEF r, q
        <5>1. in_flight' = Append(in_flight, r)
                /\ in_flight' = Append(in_flight, q)
            BY <3>1, <3>4 DEF r, q
        <5>2. Append(in_flight, r)[Len(in_flight) + 1] = r
                /\ Append(in_flight, q)[Len(in_flight) + 1] = q
            BY <3>2
        <5> QED  BY <5>1, <5>2
      <4>2. r.message = id /\ q.message = item.id
          OBVIOUS
      <4> QED  BY <4>1, <4>2
    <3>6. outgoing_messages # <<>> /\ item.id \in 1 .. Len(log)
          /\ item.write \in Writes /\ log[item.id].sends \in Nat
        BY <1>1, <3>4, HeadOfQueue, ItemFields, EntryFields
           DEF SendNext, ReadyToSend
    <3>7. SendsOf(id) = 0
      <4>1. ~HeadTransmitted /\ Written(item.write)
          BY <3>4, <3>6 DEF SentOnce, Written
      <4>2. ~(log[item.id].sends > 0)
          BY <3>6, <4>1 DEF HeadTransmitted
      <4>3. log[item.id].sends = 0
          BY <3>6, <4>2
      <4> QED  BY <3>5, <3>6, <4>3 DEF SendsOf
    <3>8. SendsOf(n)' = IF n = id THEN SendsOf(n) + 1 ELSE SendsOf(n)
        BY <2>2 DEF Transmits
    <3> QED  BY <3>7, <3>8 DEF SentOnce
  <2> QED  BY <2>1, <2>2, StepTransmits DEF ClientActs
<1>6. ASSUME state' = "IDLE"
      PROVE  ~HeadTransmitted'
  <2>1. CASE UNCHANGED <<outgoing_messages, log>> /\ state = "IDLE"
      BY <2>1 DEF SentOnce, HeadTransmitted, Written
  <2>2. CASE Application
    <3>1. state = "IDLE"
        BY <1>6, <2>2
           DEF Application, SendMessage, SendMessageWithoutAnswer, Enqueue,
               SetAnswerTimeout, SetCooldownInterval, queueVars
    <3>2. \/ UNCHANGED <<outgoing_messages, log>>
          \/ HeadTransmitted' => HeadTransmitted
        BY <1>1, <2>2, EnqueueKeepsHead
           DEF Application, SendMessage, SendMessageWithoutAnswer,
               SetAnswerTimeout, SetCooldownInterval, queueVars, history
    <3> QED  BY <2>1, <3>1, <3>2 DEF SentOnce
  <2>3. ASSUME SendNext
        PROVE  ~HeadTransmitted'
    <3>1. ~WriteFails(Head(outgoing_messages))
        BY <1>1, <2>3, HeadOfQueue, ItemFields
           DEF SendNext, ReadyToSend, WriteFails, Written
    <3>2. ~SendsRequest(Head(outgoing_messages))
        BY <1>6 DEF SendsRequest
    <3> QED  BY <1>1, <2>3, <3>1, <3>2, SendNextPops
  <2>4. CASE LoopDispatch \/ LoopSend \/ MessageHandlerReturns
      BY <2>1, <2>3, <2>4
         DEF LoopDispatch, LoopSend, MessageHandlerReturns, IndInv,
             HandlerInItsState, queueVars, history
  <2>5. CASE AnswerHandlerReturns
    <3>1. outgoing_messages # <<>>
        BY <2>5 DEF AnswerHandlerReturns, IndInv, HandlerInItsState,
                    WaitingForHead
    <3> QED  BY <1>1, <2>5, <3>1, NextHeadUnsent
             DEF AnswerHandlerReturns, Settled
  <2>6. ~LoopAnswer
      BY <1>6 DEF LoopAnswer, queueVars
  <2> QED  BY <1>2, <2>2, <2>4, <2>5, <2>6
           DEF ClientActs, Loop, HandlerReturns
<1> QED  BY <1>3, <1>4, <1>5, <1>6 DEF SentOnce

LEMMA TimeoutKept ==
    ASSUME AnswersComeInTime, Longest <= answer_timeout_interval,
           [DialogueNext]_dialogueVars
    PROVE  Longest <= answer_timeout_interval'
<1> USE DEF queueVars, answerVars, configVars, clockVars, loopVars, wireVars,
            history, vars
<1>1. CASE Application
    BY <1>1 DEF Application, SendMessage, SendMessageWithoutAnswer, Enqueue,
                SetAnswerTimeout, SetCooldownInterval, AnswersComeInTime
<1>2. CASE Loop \/ HandlerReturns
    BY <1>2 DEF Loop, LoopDispatch, LoopSend, LoopRetry, LoopTimeout,
                LoopAnswer, HandlerReturns, MessageHandlerReturns,
                TimeoutHandlerReturns, AnswerHandlerReturns
<1>3. CASE ClientAnswers \/ DialogueTick
    BY <1>3 DEF ClientAnswers, SendAnswer, DialogueTick, Tick
<1>4. CASE Line
    BY <1>4 DEF Line, RequestArrives, AnswerArrives, ServerRequestArrives,
                ReplyArrives, ArrivesAtClient, ArrivesAtServer, RequestLost,
                ServerRequestLost, AnswerLost, ReplyLost, DeviceUnchanged,
                DeviceStaysSilent
<1>5. ServerSubmits \/ ServerRuns => UNCHANGED vars
    BY ServerSteps
<1> QED  BY <1>1, <1>2, <1>3, <1>4, <1>5
         DEF DialogueNext, dialogueVars, ClientSubmits, ClientLoops,
             ServerAnswers

LEMMA ClientStaysInTime ==
    ASSUME AnswersComeInTime, IndInv, IndInv', ServerSide!IndInv, NumbersOK,
           ClockInv, ExchangeOK, InTimeOK,
           Longest <= answer_timeout_interval,
           ClientActs, UNCHANGED <<serverVars, lineVars>>
    PROVE  InTimeOK'
<1>1. SentOnce' /\ callback' # "timeout_handler"
  <2>1. TimedOut => Waits
      BY DEF TimedOut, Waits
  <2> QED  BY <2>1, NotOverdue, SentOnceKept DEF InTimeOK, AnswersComeInTime
<1>2. /\ UNCHANGED <<in_flight, last_write>>
      \/ /\ ReadyToSend /\ WriteMessage /\ callback' = "none"
         /\ UNCHANGED incoming
         /\ \/ incoming = <<>> /\ callback = "none"
            \/ callback = "message_handler"
    BY WhoTransmits DEF ClientActs
<1>3. callback # "message_handler" \/ ~ReadyToSend
    BY NotReady DEF InTimeOK
<1>4. CASE UNCHANGED <<in_flight, last_write>>
  <2>1. Elapsed' = Elapsed
      BY <1>4 DEF Elapsed
  <2>2. incoming' # <<>> => Elapsed' <= Longest
    <3>1. incoming' # <<>> => incoming # <<>>
        BY WhoTakesFrames DEF ClientActs, LoopDispatch, DropAll, LoopAnswer
    <3> QED  BY <2>1, <3>1 DEF InTimeOK
  <2>3. callback' = "message_handler" => Elapsed' <= Longest + lag'
    <3>1. CASE LoopDispatch
      <4>1. incoming # <<>> /\ UNCHANGED lag
          BY <3>1 DEF LoopDispatch
      <4>2. Elapsed <= Longest
          BY <4>1 DEF InTimeOK
      <4>3. Elapsed \in Int /\ Longest \in Int /\ lag \in Nat
          BY Counts, ClockTypes
      <4> QED  BY <2>1, <4>1, <4>2, <4>3
    <3>2. CASE UNCHANGED <<callback, lag>>
        BY <2>1, <3>2 DEF InTimeOK
    <3>3. CASE callback' \in {"none", "timeout_handler", "answer_handler"}
        BY <3>3
    <3> QED  BY <3>1, <3>2, <3>3, WhoTakesFrames DEF ClientActs, LoopAnswer
  <2>4. Waits' => OnItsWay' /\ Longest <= answer_time_point' + Elapsed'
    <3> SUFFICES ASSUME Waits'
                 PROVE  OnItsWay' /\ Longest <= answer_time_point' + Elapsed'
        OBVIOUS
    <3>1. in_flight \in Seq([message: Message, age: Nat])
        BY FlightTypes
    <3>2. \A r : in_flight # Append(in_flight, r)
        BY <3>1
    <3>3. /\ Waits
          /\ UNCHANGED <<answer_time_point, in_flight, incoming>>
        BY <1>4, <3>2, WaitStarts
    <3>4. OnItsWay' = OnItsWay
        BY <3>3 DEF OnItsWay, Thinking, serverVars, lineVars
    <3> QED  BY <2>1, <3>3, <3>4 DEF InTimeOK
  <2> QED  BY <1>1, <2>2, <2>3, <2>4 DEF InTimeOK
<1>5. CASE /\ ~UNCHANGED <<in_flight, last_write>>
           /\ WriteMessage /\ callback' = "none"
           /\ UNCHANGED incoming
           /\ incoming = <<>> /\ callback = "none"
  <2>1. lag = 0 /\ answer_timeout_interval \in Int /\ Longest \in Int
      BY <1>5, Counts, ClockTypes DEF IndInv, LagInHandlers
  <2>2. Elapsed' = 0
    <3>1. last_write'.at = 0
        BY <1>5 DEF WriteMessage
    <3>2. PICK at \in Int : at = last_write'.at /\ -at = Elapsed'
        BY NextClock
    <3>3. at = 0
        BY <3>1, <3>2
    <3> QED  BY <3>2, <3>3
  <2>3. Waits' => OnItsWay' /\ Longest <= answer_time_point' + Elapsed'
    <3> SUFFICES ASSUME Waits'
                 PROVE  OnItsWay' /\ Longest <= answer_time_point' + Elapsed'
        OBVIOUS
    <3>1. /\ answer_time_point' = FromNow(answer_timeout_interval)
          /\ \E r : in_flight' = Append(in_flight, r)
        BY <1>5, WaitStarts
    <3>2. in_flight' # <<>>
        BY <3>1, FlightTypes
    <3>3. answer_time_point' = answer_timeout_interval
        BY <2>1, <3>1 DEF FromNow
    <3> QED  BY <2>1, <2>2, <3>2, <3>3 DEF OnItsWay
  <2> QED  BY <1>1, <1>5, <2>3 DEF InTimeOK
<1> QED  BY <1>2, <1>3, <1>4, <1>5

LEMMA AppendedTo ==
    ASSUME NEW S, NEW s \in Seq(S), NEW e
    PROVE  Append(s, e) # <<>>
<1>1. s \in Seq(S \union {e})
    BY SeqWider
<1> QED  BY <1>1, AppendProperties

\* A handler of the server that has not answered goes on, until it returns.
LEMMA ServerStaysInTime ==
    ASSUME ServerSide!IndInv, ExchangeOK, InTimeOK,
           ServerActs, ServerSide!MessageHandlerReturns => server_answer_sent,
           UNCHANGED <<vars, lineVars>>
    PROVE  InTimeOK'
<1>1. UNCHANGED <<in_flight, incoming, answers, state, outgoing_messages, log,
                  last_write, callback, lag, answer_time_point>>
    BY DEF vars, lineVars, queueVars, clockVars, loopVars, wireVars, history
<1>2. OnItsWay => OnItsWay'
  <2>1. CASE ServerSide!LoopDispatch
    <3>1. Thinking' = 1
        BY <2>1 DEF ServerSide!LoopDispatch, Thinking, One
    <3> QED  BY <3>1 DEF OnItsWay
  <2>2. ~ServerSide!LoopAnswer
      BY DEF ServerSide!LoopAnswer, ExchangeOK, ServerSilent
  <2>3. CASE UNCHANGED <<server_incoming, server_answer_sent>>
    <3>1. server_callback = "message_handler" =>
            UNCHANGED server_callback \/ ServerSide!MessageHandlerReturns
        BY DEF ServerActs, ServerSide!Application, ServerSide!SendMessage,
               ServerSide!SendMessageWithoutAnswer, ServerSide!Enqueue,
               ServerSide!SetAnswerTimeout, ServerSide!SetCooldownInterval,
               ServerSide!Loop, ServerSide!LoopDispatch,
               ServerSide!LoopSend, ServerSide!LoopRetry,
               ServerSide!LoopTimeout, ServerSide!LoopAnswer,
               ServerSide!TimedOut, ServerSide!HandlerReturns,
               ServerSide!TimeoutHandlerReturns,
               ServerSide!AnswerHandlerReturns, ServerSide!loopVars
    <3>2. Thinking = 1 => Thinking' = 1
        BY <2>3, <3>1 DEF Thinking, One
    <3> QED  BY <1>1, <2>3, <3>2 DEF OnItsWay
  <2> QED  BY <2>1, <2>2, <2>3, ServerAssumption, ServerSide!WhoTakesFrames
           DEF ServerActs, ServerSide!ProtocolHandlerAssumption
<1>3. /\ Waits' = Waits /\ Elapsed' = Elapsed
      /\ SentOnce' <=> SentOnce
    BY <1>1 DEF Waits, Elapsed, SentOnce, HeadTransmitted, SendsOf, Written
<1> QED  BY <1>1, <1>2, <1>3 DEF InTimeOK

LEMMA AnswerStaysInTime ==
    ASSUME NumbersOK, InTimeOK, ServerAnswers
    PROVE  InTimeOK'
<1>1. UNCHANGED <<state, outgoing_messages, log, incoming,
                  last_write, callback, lag, answer_time_point>>
    BY DEF ServerAnswers, vars, queueVars, clockVars, loopVars, wireVars,
           history
<1>2. OnItsWay'
  <2>1. answers' # <<>>
      BY AppendedTo DEF ServerAnswers, NumbersOK
  <2> QED  BY <2>1 DEF OnItsWay
<1>3. /\ Waits' = Waits /\ Elapsed' = Elapsed
      /\ SentOnce' <=> SentOnce
    BY <1>1 DEF Waits, Elapsed, SentOnce, HeadTransmitted, SendsOf, Written
<1> QED  BY <1>1, <1>2, <1>3 DEF InTimeOK

LEMMA LineStaysInTime ==
    ASSUME NumbersOK, IndInv, ServerSide!IndInv, ExchangeOK, InTimeOK, Line,
           ~lost'
    PROVE  InTimeOK'
<1> USE DEF DeviceUnchanged, queueVars, answerVars, configVars, clockVars,
            loopVars, wireVars, history, vars
<1>1. RequestArrives \/ AnswerArrives
    BY DEF Line, ServerRequestArrives, ReplyArrives, ServerRequestLost,
           Server!DeviceStaysSilent, ReplyLost, RequestLost, AnswerLost,
           ExchangeOK, ServerSilent
<1>2. UNCHANGED <<state, outgoing_messages, log, last_write, callback, lag,
                  answer_time_point>>
    BY <1>1 DEF RequestArrives, AnswerArrives, ArrivesAtClient,
                ArrivesAtServer
<1>3. OnItsWay'
  <2>1. CASE RequestArrives
    <3>1. server_incoming' # <<>>
        BY <2>1, AppendedTo DEF RequestArrives, ArrivesAtServer, NumbersOK
    <3> QED  BY <3>1 DEF OnItsWay
  <2>2. CASE AnswerArrives
    <3>1. incoming' # <<>>
        BY <2>2, AppendedTo DEF AnswerArrives, ArrivesAtClient, NumbersOK
    <3> QED  BY <3>1 DEF OnItsWay
  <2> QED  BY <1>1, <2>1, <2>2
<1>4. incoming' # <<>> => Elapsed' <= Longest
  <2>1. Elapsed' = Elapsed
      BY <1>2 DEF Elapsed
  <2>2. CASE RequestArrives
      BY <2>1, <2>2 DEF RequestArrives, ArrivesAtServer, InTimeOK
  <2>3. CASE AnswerArrives
    <3>1. answers # <<>>
        BY <2>3 DEF AnswerArrives
    <3>2. Head(answers) \in RecentAnswer
        BY <3>1, HeadTailProperties DEF ExchangeOK
    <3>3. /\ Head(answers).age \in Nat
          /\ Elapsed <= MaxAnswerDelay + ServerLag + Head(answers).age
          /\ Head(answers).age <= MaxAnswerDelay
        BY <3>2 DEF RecentAnswer
    <3> QED  BY <2>1, <3>3, Counts, Limits DEF Longest
  <2> QED  BY <1>1, <2>2, <2>3
<1>5. /\ Waits' = Waits /\ Elapsed' = Elapsed
      /\ SentOnce' <=> SentOnce
    BY <1>2 DEF Waits, Elapsed, SentOnce, HeadTransmitted, SendsOf, Written
<1> QED  BY <1>2, <1>3, <1>4, <1>5 DEF InTimeOK

\* Time goes by for the client no faster than for what it waits for.
LEMMA TickStaysInTime ==
    ASSUME AnswersComeInTime, IndInv, IndInv', ServerSide!IndInv, NumbersOK,
           ExchangeOK, InTimeOK, DialogueTick
    PROVE  InTimeOK'
<1>1. /\ Tick
      /\ callback = "none" => incoming = <<>>
      /\ UNCHANGED <<state, outgoing_messages, log, callback, incoming>>
      /\ callback # "none" => lag' = lag + 1
      /\ answer_time_point' = Aged(answer_time_point, Past)
      /\ last_write' = [last_write EXCEPT !.at = Aged(@, -Horizon)]
    BY DEF DialogueTick, Tick, queueVars
<1>2. PICK e \in Int : /\ e = Elapsed' /\ e <= Elapsed + 1
                       /\ Elapsed < Horizon => e = Elapsed + 1
  <2>1. last_write'.at = Aged(last_write.at, -Horizon)
      BY <1>1, FlightTypes
  <2>2. PICK at \in Int : at = last_write'.at /\ -at = Elapsed'
      BY NextClock
  <2>3. last_write.at \in Int /\ last_write.at >= -Horizon /\ Horizon \in Nat
      BY ClockTypes
  <2>4. /\ at >= last_write.at - 1
        /\ last_write.at > -Horizon => at = last_write.at - 1
      BY <2>1, <2>2, <2>3 DEF Aged
  <2>5. /\ -at <= Elapsed + 1
        /\ Elapsed < Horizon => -at = Elapsed + 1
      BY <2>3, <2>4 DEF Elapsed
  <2> QED  BY <2>2, <2>5
<1>3. /\ Elapsed \in Int /\ Longest \in Int /\ lag \in Int /\ MaxLag \in Nat
      /\ Longest + MaxLag < Horizon /\ Horizon \in Int
  <2>1. Longest \in Nat /\ Elapsed \in 0 .. Horizon
      BY Counts
  <2> QED  BY <2>1, ClockTypes DEF AnswersComeInTime
<1>4. incoming = <<>>
  <2>1. ASSUME incoming # <<>>, Handling = 1
        PROVE  FALSE
    <3>1. Len(incoming) \in Nat /\ Len(incoming) # 0
        BY <2>1, Counts DEF NumbersOK
    <3> QED  BY <2>1, <3>1, Counts DEF ExchangeOK, Underway
  <2>2. callback \in {"none", "message_handler", "answer_handler"}
      BY DEF InTimeOK, IndInv, TypeOK
  <2> QED  BY <1>1, <2>1, <2>2 DEF Handling, One
<1>5. callback' = "message_handler" => e <= Longest + lag'
  <2> SUFFICES ASSUME callback = "message_handler" PROVE e <= Longest + lag'
      BY <1>1
  <2>1. Elapsed <= Longest + lag /\ lag' = lag + 1
      BY <1>1 DEF InTimeOK
  <2>2. e <= Longest + (lag + 1)
      BY <1>2, <1>3, <2>1
  <2> QED  BY <2>1, <2>2
<1>6. Waits' => OnItsWay' /\ Longest <= answer_time_point' + e
  <2> SUFFICES ASSUME Waits
               PROVE  OnItsWay' /\ Longest <= answer_time_point' + e
      BY <1>1 DEF Waits
  <2>1. Elapsed <= Longest /\ Longest <= answer_time_point + Elapsed
      BY NotOverdue DEF InTimeOK
  <2>2. e = Elapsed + 1
      BY <1>2, <1>3, <2>1
  <2>3. /\ Aged(answer_time_point, Past) \in Int
        /\ answer_time_point \in Int
        /\ Aged(answer_time_point, Past) >= answer_time_point - 1
      BY ClockTypes DEF Aged
  <2>4. Longest <= Aged(answer_time_point, Past) + e
      BY <1>3, <2>1, <2>2, <2>3
  <2>5. OnItsWay'
    <3>1. /\ in_flight # <<>> => in_flight' # <<>>
          /\ answers # <<>> => answers' # <<>>
      <4>1. /\ in_flight' = Older(in_flight) /\ answers' = Older(answers)
            /\ in_flight \in Seq([message: Message, age: Nat])
            /\ answers \in Seq([message: Message, age: Nat])
          BY FlightTypes DEF DialogueTick, Tick, Older, NumbersOK
      <4>2. /\ Len(in_flight') = Len(in_flight)
            /\ Len(answers') = Len(answers)
          BY <4>1, OlderIs
      <4>3. /\ in_flight # <<>> => Len(in_flight) # 0
            /\ answers # <<>> => Len(answers) # 0
          BY <4>1
      <4>4. Len(<<>>) = 0
          OBVIOUS
      <4> QED  BY <4>2, <4>3, <4>4
    <3>2. UNCHANGED <<server_incoming, server_callback, server_answer_sent>>
        BY SameHandler
           DEF DialogueTick, ServerSide!Tick, ServerSide!answerVars
    <3>3. Thinking' = Thinking
        BY <3>2 DEF Thinking
    <3> QED  BY <1>1, <3>1, <3>2, <3>3 DEF InTimeOK, OnItsWay
  <2> QED  BY <1>1, <2>4, <2>5
<1>7. SentOnce' <=> SentOnce
    BY <1>1 DEF SentOnce, HeadTransmitted, SendsOf, Written
<1> QED  BY <1>1, <1>2, <1>4, <1>5, <1>6, <1>7 DEF InTimeOK

InTimeInv ==
    /\ Longest <= answer_timeout_interval
    /\ ServerOnlyAnswers /\ ~lost => InTimeOK

LEMMA InitInTime ==
    ASSUME DialogueInit, AnswersComeInTime
    PROVE  InTimeInv
<1>1. /\ state = "IDLE" /\ callback = "none" /\ log = <<>>
      /\ outgoing_messages = <<>> /\ incoming = <<>>
      /\ answer_timeout_interval = DEFAULT_ANSWER_TIMEOUT
    BY DEF DialogueInit, Init
<1>2. Longest <= answer_timeout_interval
    BY <1>1 DEF AnswersComeInTime
<1>3. SentOnce
  <2>1. \A n \in Message : SendsOf(n) = 0
      BY <1>1 DEF SendsOf
  <2> QED  BY <1>1, <2>1 DEF SentOnce, HeadTransmitted
<1> QED  BY <1>1, <1>2, <1>3 DEF InTimeInv, InTimeOK, Waits

\* What was lost stays lost, and so does a request left unanswered.
LEMMA NothingWasLost ==
    ASSUME [DialogueNext]_dialogueVars, ~lost'
    PROVE  /\ ~lost
           /\ ServerRuns /\ ServerSide!MessageHandlerReturns
                => server_answer_sent
<1>1. ~lost
    BY DEF DialogueNext, dialogueVars, ClientSubmits, ClientLoops,
           ClientAnswers, ServerSubmits, ServerRuns, ServerDispatches,
           ServerReturns, ServerLoops, ServerAnswers, Line, RequestArrives,
           AnswerArrives, ServerRequestArrives, ReplyArrives,
           ArrivesAtClient, ArrivesAtServer, RequestLost, ServerRequestLost,
           AnswerLost, ReplyLost, DialogueTick, serveVars
<1>2. ASSUME ServerRuns, ServerSide!MessageHandlerReturns
      PROVE  server_answer_sent
  <2>1. ServerReturns
      BY <1>2, SameHandler
         DEF ServerRuns, ServerDispatches, ServerLoops, ServerSide!LoopSend,
             ServerSide!LoopDispatch, ServerSide!LoopRetry,
             ServerSide!LoopTimeout, ServerSide!TimedOut,
             ServerSide!LoopAnswer, ServerSide!TimeoutHandlerReturns,
             ServerSide!AnswerHandlerReturns,
             ServerSide!MessageHandlerReturns
  <2> QED  BY <2>1 DEF ServerReturns
<1> QED  BY <1>1, <1>2

LEMMA InTimeStep ==
    ASSUME AnswersComeInTime, DialogueInv, ExchangeInv, InTimeInv,
           [DialogueNext]_dialogueVars
    PROVE  InTimeInv'
<1>1. Longest <= answer_timeout_interval'
    BY TimeoutKept DEF InTimeInv
<1>2. ASSUME ServerOnlyAnswers', ~lost'
      PROVE  InTimeOK'
  <2>1. /\ IndInv /\ ServerSide!IndInv /\ NumbersOK /\ ClockInv
        /\ IndInv' /\ ServerOnlyAnswers
      BY <1>2, DialogueStep, ServerWasSilent DEF DialogueInv, ExchangeInv
  <2>2. ExchangeOK /\ InTimeOK
      BY <1>2, <2>1, NothingWasLost DEF ExchangeInv, InTimeInv
  <2>3. CASE ClientSubmits \/ ClientLoops
      BY <2>1, <2>2, <2>3, ClientSteps, ClientStaysInTime DEF InTimeInv
  <2>4. CASE ServerSubmits \/ ServerRuns
    <3>1. ServerSide!MessageHandlerReturns => server_answer_sent
      <4>1. ServerSide!MessageHandlerReturns => ~ServerSubmits
          BY SameHandler
             DEF ServerSubmits, ServerSide!MessageHandlerReturns,
                 ServerSide!Application, ServerSide!SendMessage,
                 ServerSide!SendMessageWithoutAnswer, ServerSide!Enqueue,
                 ServerSide!SetAnswerTimeout,
                 ServerSide!SetCooldownInterval, ServerSide!loopVars
      <4> QED  BY <1>2, <2>4, <4>1, NothingWasLost
    <3> QED  BY <2>1, <2>2, <2>4, <3>1, ServerSteps, ServerStaysInTime
  <2>5. CASE ServerAnswers
      BY <2>1, <2>2, <2>5, AnswerStaysInTime
  <2>6. CASE Line
      BY <1>2, <2>1, <2>2, <2>6, LineStaysInTime
  <2>7. CASE DialogueTick
      BY <2>1, <2>2, <2>7, TickStaysInTime
  <2>8. ~ClientAnswers
    <3>1. frame \in Message \union {NoFrame} /\ MaxMessages \in Nat
        BY <2>2, Limits DEF ExchangeOK
    <3>2. ~(frame > MaxMessages)
        BY <3>1 DEF Message, NoFrame
    <3> QED  BY <3>2 DEF ClientAnswers
  <2>9. CASE UNCHANGED dialogueVars
      BY <2>2, <2>9
         DEF dialogueVars, vars, serverVars, lineVars, queueVars, clockVars,
             loopVars, wireVars, history, InTimeOK, Waits, OnItsWay,
             Thinking, Elapsed, SentOnce, HeadTransmitted, SendsOf, Written
  <2> QED  BY <2>3, <2>4, <2>5, <2>6, <2>7, <2>8, <2>9 DEF DialogueNext
<1> QED  BY <1>1, <1>2 DEF InTimeInv

(***************************************************************************)
(* When every answer timeout is at least the longest exchange, a request is*)
(* sent again or given up only after a frame was lost or left unanswered,  *)
(* though loop() looks at the clock before it looks at what arrived.       *)
(***************************************************************************)
THEOREM RetriesFollowLoss ==
    ASSUME AnswersComeInTime
    PROVE  DialogueSpec => []RetryOnlyAfterLoss
<1>1. CooldownOutlastsExchange
    BY DEF AnswersComeInTime
<1>2. DialogueInit => InTimeInv
    BY InitInTime
<1>3. (DialogueInv /\ ExchangeInv) /\ InTimeInv
          /\ [DialogueNext]_dialogueVars => InTimeInv'
    BY InTimeStep
<1>4. (DialogueInv /\ ExchangeInv) /\ InTimeInv => RetryOnlyAfterLoss
  <2> SUFFICES ASSUME DialogueInv, ExchangeInv, InTimeInv,
                      ServerOnlyAnswers, ~lost, NEW n \in 1 .. Len(log)
               PROVE  log[n].sends <= 1 /\ log[n].outcome # "timed_out"
      BY DEF RetryOnlyAfterLoss
  <2>1. Len(log) \in Nat /\ Len(log) <= MaxMessages /\ MaxMessages \in Nat
      BY Limits DEF DialogueInv, IndInv, QueueOK, TypeOK
  <2>2. n \in Message
      BY <2>1 DEF Message
  <2> QED  BY <2>2 DEF InTimeInv, InTimeOK, SentOnce, SendsOf
<1> QED  BY <1>1, <1>2, <1>3, <1>4, ExchangeInvariance, PTL DEF DialogueSpec

=============================================================================
