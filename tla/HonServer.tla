----------------------------- MODULE HonServer -----------------------------
(***************************************************************************)
(* The simulated hOn appliance: what it does with the messages of a        *)
(* communication module, how it reports alarms to it, and the two threads  *)
(* of the simulator.                                                       *)
(*                                                                         *)
(* The protocol thread repeats preloop and loop().  preloop looks at four  *)
(* flags that the keyboard thread sets, one after the other: it tests the  *)
(* flag, clears it and acts, and these are three steps, because nothing    *)
(* protects the flags.  loop() is here what ProtocolHandler promises of    *)
(* it: a submitted report is transmitted once and awaits its answer, the   *)
(* first frame to come or a timeout; and while none is awaited, a frame is *)
(* handed to the message handler of its type.                              *)
(*                                                                         *)
(* Some settings of the appliance are bits of one byte, `switches', which  *)
(* both threads change: whoever changes a bit loads the byte, and stores   *)
(* it later with the other bits as they were loaded.                       *)
(***************************************************************************)
EXTENDS Integers, Sequences, FiniteSets

CONSTANTS
    HON_ALARM_COUNT,    \* 51 in the code
    SHORT_ALARM_REPORT_INTERVAL,    \* 300 ms in the code
    LONG_ALARM_REPORT_INTERVAL,     \* 5000 ms in the code
    SIZE_T_BYTES,       \* sizeof(size_t) of the build
    RandomIds,          \* values of the random alarm code, from 1 to 51
    Requests,           \* what the communication module may send, see Request
    ToggleKeys,         \* switches that have a key of their own
    MaxPending          \* bound: flags set at the same time

ALARM_BUF_SIZE == 8

ASSUME HonServerAssumption ==
    /\ HON_ALARM_COUNT \in 0 .. 8 * ALARM_BUF_SIZE
    /\ SHORT_ALARM_REPORT_INTERVAL \in Nat
    /\ LONG_ALARM_REPORT_INTERVAL \in Nat
    /\ SHORT_ALARM_REPORT_INTERVAL <= LONG_ALARM_REPORT_INTERVAL
    /\ SIZE_T_BYTES \in Nat
    /\ RandomIds \subseteq Nat
    /\ MaxPending \in Nat

VARIABLES
    control,        \* ac_status.control, but for the switches
    switches,       \* its sixth byte
    config_mode,
    alarm_status_buf,   \* the alarms whose bit is set
    alarm_paused,
    alarm_stopped,
    since_report,   \* time since last_alarm_message
    flags,          \* the four flags of the keys that preloop acts on
    at,             \* where the protocol thread is
    loaded,         \* the switches as the protocol thread loaded them
    request,        \* the message that is being handled
    toggling,       \* what the keyboard thread loaded to toggle which switch
    outgoing,       \* outgoing_messages_ of the protocol handler: reports
    awaiting,       \* is_waiting_for_answer()
    pressed,        \* history: flagged keys pressed and not acted on since
    unsent,         \* history: alarms raised that no report was sent about
    told_to_stop    \* history: a stop message came after the last alarm

applianceVars == <<control, switches, config_mode>>
alarmVars     == <<alarm_status_buf, alarm_paused, alarm_stopped, unsent,
                   told_to_stop>>
reportVars    == <<since_report, outgoing, awaiting>>
keyVars       == <<flags, toggling, pressed>>
threadVars    == <<at, loaded, request>>
vars == <<applianceVars, alarmVars, reportVars, keyVars, threadVars>>

Bit     == {0, 1}
Switch  == {"ac_power", "quiet_mode"}
Off     == [s \in Switch |-> 0]
AlarmId == 0 .. HON_ALARM_COUNT - 1

\* Values of the enumerations
FAN_LOW  == 3
FAN_AUTO == 5
FanMode  == {1, 2, FAN_LOW, FAN_AUTO}
COOL     == 1
ConditioningMode == 0 .. 6
SetPoint         == 0 .. 14
PAIRING_SET_POINT == 14
CONFIGURATION_MODE == 3

Control == [set_point: 0 .. 255, ac_mode: 0 .. 7, fan_mode: 0 .. 7]

\* The single parameters and their numbers.  Six more switches of the code
\* behave like quiet_mode.
DataParameters ==
    [ac_power |-> 1, set_point |-> 2, ac_mode |-> 4, fan_mode |-> 5,
     quiet_mode |-> 25]

Parameter == DOMAIN DataParameters
Word      == 0 .. 65535

\* A message that changes nothing is a question, or one that its handler
\* rejects for its size or subcommand.
SingleRequest ==
    [type: {"single"}, parameter: Parameter, value: Word]
GroupRequest ==
    [type: {"group"}, control: Control, switches: [Switch -> Bit]]
NetworkRequest == [type: {"network"}, status: 0 .. 255]
PlainRequest   == [type: {"stop", "nothing"}]

Request ==
    SingleRequest \union GroupRequest \union NetworkRequest
    \union PlainRequest

ASSUME RequestsAssumption ==
    Requests \subseteq Request /\ ToggleKeys \subseteq Switch

Keys == <<"_toggle_ac_power", "_pairing_mode", "_trigger_random_alarm",
          "_reset_alarm">>
Key == {Keys[n] : n \in DOMAIN Keys}

NoRequest == [type |-> "nothing"]
NotToggling == [switch |-> "none", byte |-> Off]
LongAgo == LONG_ALARM_REPORT_INTERVAL + 1

Place == [step: {"test", "clear", "act"}, key: DOMAIN Keys]
         \union [step: {"alarms", "loop", "handle"}]

Init ==
    /\ control = [set_point |-> 9, ac_mode |-> 0, fan_mode |-> FAN_AUTO]
    /\ switches = Off
    /\ config_mode = FALSE
    /\ alarm_status_buf = {}
    /\ alarm_paused = FALSE
    /\ alarm_stopped = TRUE
    /\ since_report = 0
    /\ flags = [k \in Key |-> FALSE]
    /\ at = [step |-> "test", key |-> 1]
    /\ loaded = Off
    /\ request = NoRequest
    /\ toggling = NotToggling
    /\ outgoing = <<>>
    /\ awaiting = FALSE
    /\ pressed = {}
    /\ unsent = {}
    /\ told_to_stop = FALSE

-----------------------------------------------------------------------------
(***************************************************************************)
(* Alarms                                                                  *)
(***************************************************************************)
\* The byte of alarm_status_buf that has the bit of an alarm.
ByteOf(id) == ALARM_BUF_SIZE - 1 - id \div 8

LastByteMissed == \E id \in alarm_status_buf :      \* mutant of the next
                      ByteOf(id) \in 0 .. ALARM_BUF_SIZE - 2
has_active_alarms == \E id \in alarm_status_buf :
                         ByteOf(id) \in 0 .. ALARM_BUF_SIZE - 1

StoppedStays == alarm_stopped       \* mutant of StoppedByStart
StoppedByStart == FALSE

start_alarm(id) ==
    /\ id < HON_ALARM_COUNT
    /\ alarm_paused' = FALSE
    /\ alarm_stopped' = StoppedByStart
    /\ alarm_status_buf' = alarm_status_buf \union {id}
    /\ unsent' = unsent \union {id}
    /\ told_to_stop' = FALSE

StartRejected(id) == id >= HON_ALARM_COUNT /\ UNCHANGED alarmVars

\* memset is given the size of the constant's type, not its value.
Unreset == {id \in alarm_status_buf : ByteOf(id) >= SIZE_T_BYTES}

reset_alarms ==
    /\ alarm_status_buf' = Unreset
    /\ unsent' = unsent \intersect Unreset
    /\ alarm_paused' = FALSE
    /\ UNCHANGED <<alarm_stopped, told_to_stop>>

QueueIgnored == ~alarm_stopped /\ ~awaiting         \* mutant of MayReport
MayReport    == ~alarm_stopped /\ ~awaiting /\ outgoing = <<>>

ReportDue ==
    /\ MayReport
    /\ since_report > IF alarm_paused THEN LONG_ALARM_REPORT_INTERVAL
                                      ELSE SHORT_ALARM_REPORT_INTERVAL

process_alarms ==
    /\ at = [step |-> "alarms"]
    /\ at' = [step |-> "loop"]
    /\ \/ /\ ReportDue
          /\ alarm_paused' = FALSE
          /\ outgoing' = Append(outgoing, alarm_status_buf)
          /\ since_report' = 0
       \/ ~ReportDue /\ UNCHANGED <<alarm_paused, outgoing, since_report>>
    /\ UNCHANGED <<applianceVars, keyVars, loaded, request, awaiting,
                   alarm_status_buf, alarm_stopped, unsent, told_to_stop>>

\* alarm_status_report_answer_handler, for a confirmation without data
ReportConfirmed ==
    /\ IF has_active_alarms
       THEN alarm_paused' = TRUE /\ UNCHANGED alarm_stopped
       ELSE alarm_stopped' = TRUE /\ UNCHANGED alarm_paused
    /\ UNCHANGED <<alarm_status_buf, unsent, told_to_stop>>

-----------------------------------------------------------------------------
(***************************************************************************)
(* preloop                                                                 *)
(***************************************************************************)
ActFirst(step) ==       \* mutant of StepAfter
    CASE step = "test" -> "act" [] step = "act" -> "clear"
      [] step = "clear" -> "done"
StepAfter(step) ==
    CASE step = "test" -> "clear" [] step = "clear" -> "act"
      [] step = "act" -> "done"

NextKey(n) ==
    IF n = Len(Keys) THEN [step |-> "alarms"]
                     ELSE [step |-> "test", key |-> n + 1]

After(step, n) ==
    IF StepAfter(step) = "done" THEN NextKey(n)
    ELSE [step |-> StepAfter(step), key |-> n]

TestFlag(n) ==
    /\ at = [step |-> "test", key |-> n]
    /\ at' = IF flags[Keys[n]] THEN After("test", n) ELSE NextKey(n)
    /\ UNCHANGED <<applianceVars, alarmVars, reportVars, keyVars, loaded,
                   request>>

\* What is loaded for the action that follows may be as old as this step.
ClearFlag(n) ==
    /\ at = [step |-> "clear", key |-> n]
    /\ at' = After("clear", n)
    /\ flags' = [flags EXCEPT ![Keys[n]] = FALSE]
    /\ loaded' = switches
    /\ UNCHANGED <<applianceVars, alarmVars, reportVars, toggling, pressed,
                   request>>

TogglePower ==
    /\ switches' = IF config_mode THEN switches
                   ELSE [loaded EXCEPT !.ac_power = 1 - @]
    /\ UNCHANGED <<control, config_mode, alarmVars>>

EnterPairing ==
    /\ \/ config_mode /\ UNCHANGED <<control, switches>>
       \/ /\ ~config_mode
          /\ control' = [set_point |-> PAIRING_SET_POINT, ac_mode |-> COOL,
                         fan_mode |-> FAN_LOW]
          /\ switches' = [loaded EXCEPT !.ac_power = 1, !.quiet_mode = 0]
    /\ UNCHANGED <<config_mode, alarmVars>>

TriggerRandomAlarm ==
    /\ \E id \in RandomIds : start_alarm(id) \/ StartRejected(id)
    /\ UNCHANGED applianceVars

ResetAlarm == reset_alarms /\ UNCHANGED applianceVars

ActOnKey(n) ==
    /\ at = [step |-> "act", key |-> n]
    /\ at' = After("act", n)
    /\ \/ Keys[n] = "_toggle_ac_power" /\ TogglePower
       \/ Keys[n] = "_pairing_mode" /\ EnterPairing
       \/ Keys[n] = "_trigger_random_alarm" /\ TriggerRandomAlarm
       \/ Keys[n] = "_reset_alarm" /\ ResetAlarm
    /\ loaded' = Off
    /\ pressed' = pressed \ {Keys[n]}
    /\ UNCHANGED <<reportVars, flags, toggling, request>>

preloop ==
    \/ \E n \in DOMAIN Keys : TestFlag(n) \/ ClearFlag(n) \/ ActOnKey(n)
    \/ process_alarms

-----------------------------------------------------------------------------
(***************************************************************************)
(* One iteration of loop(), of which at most one thing below happens.      *)
(***************************************************************************)
Repeat == at = [step |-> "loop"] /\ at' = [step |-> "test", key |-> 1]

LoopIdles ==
    Repeat /\ UNCHANGED <<applianceVars, alarmVars, reportVars, keyVars,
                          loaded, request>>

ReportSent ==
    /\ Repeat
    /\ ~awaiting /\ outgoing # <<>>
    /\ awaiting' = TRUE
    /\ unsent' = unsent \ Head(outgoing)
    /\ UNCHANGED <<applianceVars, alarm_status_buf, alarm_paused,
                   alarm_stopped, told_to_stop, since_report, outgoing,
                   keyVars, loaded, request>>

\* Of the frames that come while an answer is awaited, all but a confirmation
\* are an error of the answer handler, messages of the module included.
ReportSettled ==
    /\ Repeat
    /\ awaiting
    /\ awaiting' = FALSE
    /\ outgoing' = Tail(outgoing)
    /\ ReportConfirmed \/ UNCHANGED alarmVars
    /\ UNCHANGED <<applianceVars, since_report, keyVars, loaded, request>>

RequestArrives ==
    /\ at = [step |-> "loop"]
    /\ ~awaiting
    /\ at' = [step |-> "handle"]
    /\ request' \in Requests
    /\ loaded' = switches
    /\ UNCHANGED <<applianceVars, alarmVars, reportVars, keyVars>>

\* process_single_parameter tests the parameter where it should test the
\* value, and the fields are as wide as the packet has room.
InRange(parameter, value) ==
    LET number == DataParameters[parameter] IN
    CASE parameter = "set_point" -> number \in SetPoint
      [] parameter = "ac_mode"   -> number \in ConditioningMode
      [] parameter = "fan_mode"  -> number \in FanMode
      [] OTHER                   -> value \in Bit

Width(parameter) == IF parameter = "set_point" THEN 256 ELSE 8

\* Where nothing differs from what was loaded, nothing is stored, so that a
\* change of the keyboard thread in between stays.
SetIfDifferent(byte) ==
    switches' = IF byte = loaded THEN switches ELSE byte

process_single_parameter(parameter, value) ==
    /\ IF InRange(parameter, value)
       THEN IF parameter \in Switch
            THEN /\ SetIfDifferent([loaded EXCEPT ![parameter] = value])
                 /\ UNCHANGED control
            ELSE /\ control' = [control EXCEPT ![parameter] =
                                                 value % Width(parameter)]
                 /\ UNCHANGED switches
       ELSE UNCHANGED <<control, switches>>
    /\ UNCHANGED <<config_mode, alarmVars>>

SetGroupParameters(new, byte) ==
    /\ control' = new
    /\ SetIfDifferent(byte)
    /\ UNCHANGED <<config_mode, alarmVars>>

report_network_status_handler(st) ==
    /\ config_mode' = (st = CONFIGURATION_MODE)
    /\ control' = IF ~config_mode' /\ control.set_point = PAIRING_SET_POINT
                  THEN [control EXCEPT !.set_point = PAIRING_SET_POINT - 1]
                  ELSE control
    /\ UNCHANGED <<switches, alarmVars>>

stop_alarm_handler ==
    /\ alarm_stopped' = TRUE
    /\ told_to_stop' = TRUE
    /\ unsent' = {}
    /\ UNCHANGED <<applianceVars, alarm_status_buf, alarm_paused>>

HandleRequest ==
    /\ at = [step |-> "handle"]
    /\ at' = [step |-> "test", key |-> 1]
    /\ \/ /\ request.type = "single"
          /\ process_single_parameter(request.parameter, request.value)
       \/ /\ request.type = "group"
          /\ SetGroupParameters(request.control, request.switches)
       \/ /\ request.type = "network"
          /\ report_network_status_handler(request.status)
       \/ request.type = "stop" /\ stop_alarm_handler
       \/ request.type = "nothing" /\ UNCHANGED <<applianceVars, alarmVars>>
    /\ request' = NoRequest
    /\ loaded' = Off
    /\ UNCHANGED <<reportVars, keyVars>>

loop == LoopIdles \/ ReportSent \/ ReportSettled \/ RequestArrives
        \/ HandleRequest

protocol_loop == preloop \/ loop

-----------------------------------------------------------------------------
(***************************************************************************)
(* The keyboard thread, and time                                           *)
(***************************************************************************)
Pending(others) == Cardinality({k \in Key \ others : flags[k]})

FlagKeyPressed ==
    /\ toggling = NotToggling
    /\ \E k \in Key :
         /\ Pending({k}) < MaxPending
         /\ flags' = [flags EXCEPT ![k] = TRUE]
         /\ pressed' = pressed \union {k}
    /\ UNCHANGED <<applianceVars, alarmVars, reportVars, threadVars, toggling>>

ToggleKeyPressed ==
    /\ toggling = NotToggling
    /\ Pending({}) < MaxPending
    /\ \E s \in ToggleKeys : toggling' = [switch |-> s, byte |-> switches]
    /\ UNCHANGED <<applianceVars, alarmVars, reportVars, threadVars, flags,
                   pressed>>

SwitchStored ==
    /\ toggling # NotToggling
    /\ switches' = [toggling.byte EXCEPT ![toggling.switch] = 1 - @]
    /\ toggling' = NotToggling
    /\ UNCHANGED <<control, config_mode, alarmVars, reportVars, threadVars,
                   flags, pressed>>

Keyboard == FlagKeyPressed \/ ToggleKeyPressed \/ SwitchStored

Tick ==
    /\ since_report < LongAgo
    /\ since_report' = since_report + 1
    /\ UNCHANGED <<applianceVars, alarmVars, outgoing, awaiting, keyVars,
                   threadVars>>

Next == protocol_loop \/ Keyboard \/ Tick

Spec == Init /\ [][Next]_vars

\* The protocol thread runs.  That a report is sent and settled is what the
\* protocol handler promises (EveryMessageSettles of ProtocolHandler).
FairSpec ==
    Spec /\ WF_vars(protocol_loop) /\ SF_vars(ReportSent \/ ReportSettled)
         /\ WF_vars(Tick)

-----------------------------------------------------------------------------
(***************************************************************************)
(* Properties                                                              *)
(***************************************************************************)
\* Every variable has a value of its type; in particular there is at most
\* one report in the queue of the protocol handler, the one awaited if any.
TypeOK ==
    /\ control \in Control
    /\ switches \in [Switch -> Bit]
    /\ config_mode \in BOOLEAN
    /\ alarm_status_buf \subseteq AlarmId
    /\ alarm_paused \in BOOLEAN /\ alarm_stopped \in BOOLEAN
    /\ since_report \in 0 .. LongAgo
    /\ flags \in [Key -> BOOLEAN]
    /\ at \in Place
    /\ loaded \in [Switch -> Bit]
    /\ request \in Requests \union {NoRequest}
    /\ toggling \in [switch: ToggleKeys \union {"none"}, byte: [Switch -> Bit]]
    /\ outgoing \in Seq(SUBSET AlarmId) /\ Len(outgoing) <= 1
    /\ awaiting \in BOOLEAN /\ (awaiting => outgoing # <<>>)
    /\ pressed \subseteq Key
    /\ unsent \subseteq alarm_status_buf
    /\ told_to_stop \in BOOLEAN

\* While an alarm is active its reports end for no other reason than a stop
\* message of the module: not because a confirmation of an older report, made
\* when other alarms were active or none, comes late.
StoppedOnlyOnRequest ==
    alarm_stopped /\ alarm_status_buf # {} => told_to_stop

\* A key is acted on after it was pressed, wherever the protocol thread was
\* between testing, clearing and acting at that moment.
KeyActedOn == \A k \in Key : k \in pressed ~> k \notin pressed

\* An alarm that was raised is in a report sent later, unless it is reset or
\* the module stops the reports, also if a confirmation of a report without
\* it has paused them.
RaisedAlarmIsSent ==
    \A id \in RandomIds \intersect AlarmId : id \in unsent ~> id \notin unsent

\* What a single parameter sets stays within its enumeration or range.
ControlInRange ==
    /\ control.set_point \in SetPoint
    /\ control.ac_mode \in ConditioningMode
    /\ control.fan_mode \in FanMode

=============================================================================
