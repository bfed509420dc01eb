------------------------------ MODULE Dialogue ------------------------------
(***************************************************************************)
(* Two ends of a line, each run by its own ProtocolHandler, the way the    *)
(* test of the hOn simulator runs them (CLIENT_SERVER_LOOP): a client that *)
(* sends requests, and a server that answers them and may send requests of *)
(* its own, as the simulated appliance does to report alarms.              *)
(*                                                                         *)
(* The module extends ProtocolHandler for the client and instantiates it   *)
(* once more for the server, in place of the device of that module.  A     *)
(* frame that arrives is the number of the message it answers, or, above   *)
(* the numbers of those, a request of the other end.                       *)
(***************************************************************************)
EXTENDS ProtocolHandler

CONSTANTS
    ServerMessages,     \* bound: messages the server submits
    ServerRepeats,      \* values of num_repeats it passes to send_message
    ServerLag           \* bound: time a handler of the server takes

ASSUME DialogueAssumption ==
    /\ ServerMessages \in Nat
    /\ ServerRepeats \subseteq Nat
    /\ ServerLag \in Nat

VARIABLES
    server_state, server_outgoing, server_processing, server_answer_sent,
    server_last_type, server_timeout_interval, server_cooldown_interval,
    server_cooldown, server_answer_time, server_retry_time, server_callback,
    server_lag, server_frame, server_incoming, server_in_flight, server_log,
    server_last_write, server_last_request,
    answers,        \* answers of the server on the way to the client
    replies,        \* answers of the client on the way to the server
    served,     \* history: calls of the server's message handler, by message
    lost        \* history: whether a frame got lost or stayed unanswered

serverVars == <<server_state, server_outgoing, server_processing,
    server_answer_sent, server_last_type, server_timeout_interval,
    server_cooldown_interval, server_cooldown, server_answer_time,
    server_retry_time, server_callback, server_lag, server_frame,
    server_incoming, server_in_flight, server_log, server_last_write,
    server_last_request>>

lineVars == <<answers, replies>>
serveVars == <<served, lost>>
dialogueVars == <<vars, serverVars, lineVars, serveVars>>

Server == INSTANCE ProtocolHandler WITH
    MaxMessages <- ServerMessages, Repeats <- ServerRepeats,
    MaxLag <- ServerLag, state <- server_state,
    outgoing_messages <- server_outgoing,
    processing_message <- server_processing,
    answer_sent <- server_answer_sent,
    last_message_type <- server_last_type,
    answer_timeout_interval <- server_timeout_interval,
    cooldown_interval <- server_cooldown_interval,
    cooldown_time_point <- server_cooldown,
    answer_time_point <- server_answer_time,
    retry_time_point <- server_retry_time, callback <- server_callback,
    lag <- server_lag, frame <- server_frame, incoming <- server_incoming,
    in_flight <- server_in_flight, log <- server_log,
    last_write <- server_last_write, last_request <- server_last_request

\* How the two ends number what arrives.
RequestOfClient(n) == ServerMessages + n
RequestOfServer(n) == MaxMessages + n

DialogueInit ==
    /\ Init
    /\ Server!Init
    /\ answers = <<>>
    /\ replies = <<>>
    /\ served = [n \in Message |-> 0]
    /\ lost = FALSE

-----------------------------------------------------------------------------
(***************************************************************************)
(* The two ends.  A message handler answers once, and only requests: an    *)
(* answer that comes late, when its end does not wait any more, goes to    *)
(* default_message_handler, which sends nothing.                           *)
(***************************************************************************)
Travelling(answer) == [message |-> answer, age |-> 0]

ClientSubmits ==
    /\ Application
    /\ UNCHANGED <<serverVars, lineVars, serveVars>>

ClientLoops ==
    /\ Loop \/ HandlerReturns
    /\ UNCHANGED <<serverVars, lineVars, serveVars>>

ClientAnswers ==
    /\ frame > MaxMessages
    /\ ~answer_sent
    /\ SendAnswer("sent")
    /\ replies' = Append(replies, Travelling(frame - MaxMessages))
    /\ UNCHANGED <<serverVars, answers, serveVars>>

ServerSubmits ==
    /\ Server!Application
    /\ UNCHANGED <<vars, lineVars, serveVars>>

ServerDispatches ==
    /\ Server!LoopDispatch
    /\ served' = [n \in Message |->
                    IF server_frame' = RequestOfClient(n) THEN served[n] + 1
                    ELSE served[n]]
    /\ UNCHANGED <<vars, lineVars, lost>>

ServerAnswers ==
    /\ server_frame > ServerMessages
    /\ ~server_answer_sent
    /\ Server!SendAnswer("sent")
    /\ answers' = Append(answers, Travelling(server_frame - ServerMessages))
    /\ UNCHANGED <<vars, replies, serveVars>>

ServerReturns ==
    /\ Server!MessageHandlerReturns
    /\ lost' = (lost \/ ~server_answer_sent)
    /\ UNCHANGED <<vars, lineVars, served>>

ServerLoops ==
    /\ \/ Server!LoopSend
       \/ Server!LoopRetry
       \/ Server!LoopTimeout
       \/ Server!LoopAnswer
       \/ Server!TimeoutHandlerReturns
       \/ Server!AnswerHandlerReturns
    /\ UNCHANGED <<vars, lineVars, serveVars>>

-----------------------------------------------------------------------------
(***************************************************************************)
(* The line.  It delays a frame by at most MaxAnswerDelay, keeps the       *)
(* requests of an end in order, and its answers, and may lose any of them. *)
(***************************************************************************)
ArrivesAtClient(arrived) ==
    /\ Len(incoming) < MaxFrames
    /\ incoming' = Append(incoming, arrived)
    /\ DeviceUnchanged
    /\ UNCHANGED <<in_flight, serveVars>>

ArrivesAtServer(arrived) ==
    /\ Len(server_incoming) < MaxFrames
    /\ server_incoming' = Append(server_incoming, arrived)
    /\ Server!DeviceUnchanged
    /\ UNCHANGED <<server_in_flight, serveVars>>

RequestArrives ==
    /\ in_flight # <<>>
    /\ in_flight' = Tail(in_flight)
    /\ ArrivesAtServer(RequestOfClient(Head(in_flight).message))
    /\ DeviceUnchanged
    /\ UNCHANGED <<incoming, lineVars>>

AnswerArrives ==
    /\ answers # <<>>
    /\ answers' = Tail(answers)
    /\ ArrivesAtClient(Head(answers).message)
    /\ UNCHANGED <<serverVars, replies>>

ServerRequestArrives ==
    /\ server_in_flight # <<>>
    /\ server_in_flight' = Tail(server_in_flight)
    /\ ArrivesAtClient(RequestOfServer(Head(server_in_flight).message))
    /\ Server!DeviceUnchanged
    /\ UNCHANGED <<server_incoming, lineVars>>

ReplyArrives ==
    /\ replies # <<>>
    /\ replies' = Tail(replies)
    /\ ArrivesAtServer(Head(replies).message)
    /\ UNCHANGED <<vars, answers>>

RequestLost ==
    /\ DeviceStaysSilent
    /\ lost' = TRUE
    /\ UNCHANGED <<serverVars, lineVars, served>>

ServerRequestLost ==
    /\ Server!DeviceStaysSilent
    /\ lost' = TRUE
    /\ UNCHANGED <<vars, lineVars, served>>

AnswerLost ==
    /\ answers # <<>>
    /\ answers' = Tail(answers)
    /\ lost' = TRUE
    /\ UNCHANGED <<vars, serverVars, replies, served>>

ReplyLost ==
    /\ replies # <<>>
    /\ replies' = Tail(replies)
    /\ lost' = TRUE
    /\ UNCHANGED <<vars, serverVars, answers, served>>

Older(travelling) ==
    [i \in 1 .. Len(travelling) |-> [travelling[i] EXCEPT !.age = @ + 1]]

(***************************************************************************)
(* Time goes by for both ends.  Each calls loop() in every unit of time,   *)
(* so that what arrived is looked at in the unit in which it arrived,      *)
(* unless a handler is running.                                            *)
(***************************************************************************)
DialogueTick ==
    /\ callback = "none" => incoming = <<>>
    /\ server_callback = "none" => server_incoming = <<>>
    /\ \A i \in 1 .. Len(answers) : answers[i].age < MaxAnswerDelay
    /\ \A i \in 1 .. Len(replies) : replies[i].age < MaxAnswerDelay
    /\ Tick
    /\ Server!Tick
    /\ answers' = Older(answers)
    /\ replies' = Older(replies)
    /\ UNCHANGED serveVars

Line ==
    \/ RequestArrives
    \/ AnswerArrives
    \/ ServerRequestArrives
    \/ ReplyArrives
    \/ RequestLost
    \/ ServerRequestLost
    \/ AnswerLost
    \/ ReplyLost

ServerRuns == ServerDispatches \/ ServerReturns \/ ServerLoops

DialogueNext ==
    \/ ClientSubmits
    \/ ClientLoops
    \/ ClientAnswers
    \/ ServerSubmits
    \/ ServerRuns
    \/ ServerAnswers
    \/ Line
    \/ DialogueTick

DialogueSpec == DialogueInit /\ [][DialogueNext]_dialogueVars

\* Both ends call loop() for ever, their handlers return, the line delivers
\* or loses what it carries, and time goes by.
FairDialogue ==
    /\ DialogueSpec
    /\ WF_dialogueVars(ClientLoops)
    /\ WF_dialogueVars(ServerRuns)
    /\ WF_dialogueVars(Line)
    /\ WF_dialogueVars(DialogueTick)

-----------------------------------------------------------------------------
(***************************************************************************)
(* Properties.  As long as the server only answers, client and server      *)
(* never talk at the same time.                                            *)
(***************************************************************************)
ServerOnlyAnswers == \A n \in 1 .. Len(server_log) : server_log[n].sends = 0

(***************************************************************************)
(* Whenever loop() looks, at most one frame has arrived ("Shouldn't get    *)
(* more than 1 message", haier_protocol.cpp), so that it never drops one   *)
(* unread: the cooldown of the client keeps its frames further apart than  *)
(* the line and a handler of the server may delay them.                    *)
(***************************************************************************)
OneFrameAtATime ==
    ServerOnlyAnswers => Len(server_incoming) <= 1 /\ Len(incoming) <= 1

(***************************************************************************)
(* What the client reports of a request is what happened at the server: no *)
(* transmission is handled twice, and an answered request was handled.     *)
(***************************************************************************)
ReportedAsServed ==
    /\ \A n \in 1 .. Len(log) : served[n] <= log[n].sends
    /\ ServerOnlyAnswers =>
         \A n \in 1 .. Len(log) : log[n].outcome = "answered" => served[n] >= 1

(***************************************************************************)
(* A request is sent again, or given up, only after a frame got lost or    *)
(* was left unanswered: an answer that is on its way is always in time,    *)
(* though loop() looks at the clock before it looks at what arrived.       *)
(***************************************************************************)
RetryOnlyAfterLoss ==
    ServerOnlyAnswers /\ ~lost =>
        \A n \in 1 .. Len(log) :
            log[n].sends <= 1 /\ log[n].outcome # "timed_out"

(***************************************************************************)
(* The answer handler gets the answer to its request.                      *)
(***************************************************************************)
OwnAnswer == ServerOnlyAnswers => AnswerMatchesRequest

(***************************************************************************)
(* Two ends that wait for each other do not wait for ever: each message of *)
(* either is decided in the end, though both may send at once and each may *)
(* then take the request of the other for its answer.                      *)
(***************************************************************************)
BothSettle ==
    /\ \A n \in Message : Queued(n) ~> ~Queued(n)
    /\ \A n \in 1 .. ServerMessages : Server!Queued(n) ~> ~Server!Queued(n)

=============================================================================
