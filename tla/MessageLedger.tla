--------------------------- MODULE MessageLedger ---------------------------
(***************************************************************************)
(* What a ProtocolHandler promises to the application that submits messages*)
(* to it, without queue, clocks, handlers, frames or device: messages are  *)
(* decided one after the other in the order of their submission; each is   *)
(* transmitted at most as often as its budget allows; at most one of them, *)
(* the first undecided one, awaits an answer at any moment, and while it   *)
(* does nothing else is transmitted; and each outcome has its reason.      *)
(*                                                                         *)
(* This is the abstract specification that ProtocolHandler implements.     *)
(***************************************************************************)
EXTENDS Integers, Sequences

CONSTANTS
    Budgets,      \* how many transmissions a message may be granted
    MaxMessages   \* bound: messages submitted in a behaviour

VARIABLES
    log,       \* per message: does it expect an answer, budget, transmissions
               \* made, and outcome
    awaiting   \* the message whose answer is awaited, 0 when there is none

vars == <<log, awaiting>>

Init == log = <<>> /\ awaiting = 0

\* The message whose turn it is.
FirstUndecided(n) ==
    /\ log[n].outcome = "queued"
    /\ \A k \in 1 .. n - 1 : log[k].outcome # "queued"

Decide(n, outcome) == log' = [log EXCEPT ![n].outcome = outcome]

Submit ==
    /\ Len(log) < MaxMessages
    /\ \E expects \in BOOLEAN, budget \in Budgets :
         /\ expects \/ budget = 1
         /\ log' = Append(log, [expects |-> expects, budget |-> budget,
                                sends |-> 0, outcome |-> "queued"])
    /\ UNCHANGED awaiting

\* It is awaited from now on, or the sender was told that the write failed.
TransmitRequest(n) ==
    /\ awaiting = 0
    /\ FirstUndecided(n)
    /\ log[n].sends < log[n].budget
    /\ log' = [log EXCEPT ![n].sends = @ + 1]
    /\ awaiting' = 0 \/ (log[n].expects /\ awaiting' = n)

TransmitAndForget(n) ==
    /\ awaiting = 0
    /\ FirstUndecided(n)
    /\ ~log[n].expects
    /\ log[n].sends = 0
    /\ log' = [log EXCEPT ![n].sends = 1, ![n].outcome = "sent"]
    /\ UNCHANGED awaiting

\* The wait is over and transmissions are left.
WaitAgain(n) ==
    /\ awaiting = n
    /\ log[n].sends < log[n].budget
    /\ awaiting' = 0
    /\ UNCHANGED log

TimeOut(n) ==
    /\ awaiting = n
    /\ log[n].sends = log[n].budget
    /\ Decide(n, "timed_out")
    /\ awaiting' = 0

Answer(n) ==
    /\ awaiting = n
    /\ Decide(n, "answered")
    /\ awaiting' = 0

\* Every write was reported as a failure: none of them reached the wire, or
\* all of them did.
Drop(n) ==
    /\ awaiting = 0
    /\ FirstUndecided(n)
    /\ log[n].sends \in {0, log[n].budget}
    /\ Decide(n, "dropped")
    /\ UNCHANGED awaiting

Next ==
    \/ Submit
    \/ \E n \in 1 .. Len(log) :
         \/ TransmitRequest(n)
         \/ TransmitAndForget(n)
         \/ WaitAgain(n)
         \/ TimeOut(n)
         \/ Answer(n)
         \/ Drop(n)

Spec == Init /\ [][Next]_vars
=============================================================================
