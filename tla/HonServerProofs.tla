-------------------------- MODULE HonServerProofs --------------------------
(***************************************************************************)
(* Proofs about HonServer: type correctness, and that reports of an active *)
(* alarm end only when the module says so.                                 *)
(***************************************************************************)
EXTENDS HonServer, TLAPS

\* An alarm has its bit in the mask, so that has_active_alarms finds it.
LEMMA AlarmHasByte ==
    ASSUME NEW id \in AlarmId
    PROVE  ByteOf(id) \in 0 .. ALARM_BUF_SIZE - 1
BY HonServerAssumption DEF AlarmId, ByteOf, ALARM_BUF_SIZE

\* What an action does to the alarms, wherever it is part of a step.
LEMMA AlarmActions ==
    ASSUME alarm_status_buf \subseteq AlarmId, StoppedOnlyOnRequest,
           \/ TriggerRandomAlarm \/ ResetAlarm \/ ReportConfirmed
           \/ stop_alarm_handler \/ UNCHANGED alarmVars
    PROVE  alarm_status_buf' \subseteq AlarmId /\ StoppedOnlyOnRequest'
<1>1. CASE TriggerRandomAlarm
  <2>1. PICK id \in RandomIds : start_alarm(id) \/ StartRejected(id)
    BY <1>1 DEF TriggerRandomAlarm
  <2>2. CASE start_alarm(id)
    BY <2>2, HonServerAssumption
    DEF start_alarm, StoppedByStart, AlarmId, StoppedOnlyOnRequest
  <2>3. CASE StartRejected(id)
    BY <2>3 DEF StartRejected, alarmVars, StoppedOnlyOnRequest
  <2> QED BY <2>1, <2>2, <2>3
<1>2. CASE ResetAlarm
  BY <1>2 DEF ResetAlarm, reset_alarms, Unreset, StoppedOnlyOnRequest
<1>3. CASE ReportConfirmed
  <2>1. ~has_active_alarms => alarm_status_buf = {}
    BY AlarmHasByte DEF has_active_alarms
  <2> QED BY <1>3, <2>1 DEF ReportConfirmed, StoppedOnlyOnRequest
<1>4. CASE stop_alarm_handler
  BY <1>4 DEF stop_alarm_handler, StoppedOnlyOnRequest
<1>5. CASE UNCHANGED alarmVars
  BY <1>5 DEF alarmVars, StoppedOnlyOnRequest
<1> QED BY <1>1, <1>2, <1>3, <1>4, <1>5

\* The alarms are changed by nothing else.
LEMMA NextAlarms ==
    ASSUME [Next]_vars
    PROVE  \/ TriggerRandomAlarm \/ ResetAlarm \/ ReportConfirmed
           \/ stop_alarm_handler \/ UNCHANGED alarmVars
           \/ UNCHANGED <<alarm_status_buf, alarm_stopped, told_to_stop>>
<1>1. CASE preloop
  <2>1. CASE \E n \in DOMAIN Keys : TestFlag(n) \/ ClearFlag(n)
    BY <2>1 DEF TestFlag, ClearFlag
  <2>2. CASE \E n \in DOMAIN Keys : ActOnKey(n)
    BY <2>2 DEF ActOnKey, TogglePower, EnterPairing
  <2>3. CASE process_alarms
    BY <2>3 DEF process_alarms
  <2> QED BY <1>1, <2>1, <2>2, <2>3 DEF preloop
<1>2. CASE LoopIdles \/ ReportSent \/ RequestArrives
  BY <1>2 DEF LoopIdles, ReportSent, RequestArrives, alarmVars
<1>3. CASE ReportSettled
  BY <1>3 DEF ReportSettled
<1>4. CASE HandleRequest
  BY <1>4 DEF HandleRequest, process_single_parameter, SetGroupParameters,
              report_network_status_handler
<1>5. CASE Keyboard \/ Tick
  BY <1>5 DEF Keyboard, FlagKeyPressed, ToggleKeyPressed, SwitchStored, Tick
<1>6. CASE UNCHANGED vars
  BY <1>6 DEF vars
<1> QED BY <1>1, <1>2, <1>3, <1>4, <1>5, <1>6 DEF Next, protocol_loop, loop

-----------------------------------------------------------------------------
\* Reports of an active alarm are stopped only by a stop message, for any
\* alarm codes, messages and interleaving of the two threads.
THEOREM StopsAreRequested == Spec => []StoppedOnlyOnRequest
<1> DEFINE Inv == alarm_status_buf \subseteq AlarmId /\ StoppedOnlyOnRequest
<1>1. Init => Inv
  BY DEF Init, StoppedOnlyOnRequest
<1>2. Inv /\ [Next]_vars => Inv'
  <2> SUFFICES ASSUME Inv, [Next]_vars PROVE Inv'
    OBVIOUS
  <2>1. CASE UNCHANGED <<alarm_status_buf, alarm_stopped, told_to_stop>>
    BY <2>1 DEF StoppedOnlyOnRequest
  <2> QED BY <2>1, NextAlarms, AlarmActions
<1> QED BY <1>1, <1>2, PTL DEF Spec

-----------------------------------------------------------------------------
\* The types of the parts that several actions share.
AppliancesOK ==
    /\ control \in Control
    /\ switches \in [Switch -> Bit]
    /\ config_mode \in BOOLEAN

AlarmsOK ==
    /\ alarm_status_buf \subseteq AlarmId
    /\ alarm_paused \in BOOLEAN /\ alarm_stopped \in BOOLEAN
    /\ unsent \subseteq alarm_status_buf
    /\ told_to_stop \in BOOLEAN

LEMMA KeyNames ==
    /\ DOMAIN Keys = 1 .. 4 /\ Len(Keys) = 4
    /\ \A n \in DOMAIN Keys : Keys[n] \in Key
BY DEF Keys, Key

LEMMA AlarmTypes ==
    ASSUME AlarmsOK,
           \/ TriggerRandomAlarm \/ ResetAlarm \/ ReportConfirmed
           \/ stop_alarm_handler \/ UNCHANGED alarmVars
    PROVE  AlarmsOK'
<1>1. CASE TriggerRandomAlarm
  <2>1. PICK id \in RandomIds : start_alarm(id) \/ StartRejected(id)
    BY <1>1 DEF TriggerRandomAlarm
  <2>2. CASE start_alarm(id)
    <3>1. id \in AlarmId
      BY <2>2, HonServerAssumption DEF start_alarm, AlarmId
    <3>2. /\ alarm_status_buf' \subseteq AlarmId
          /\ unsent' \subseteq alarm_status_buf'
      BY <2>2, <3>1 DEF start_alarm, AlarmsOK
    <3> QED BY <2>2, <3>2 DEF start_alarm, StoppedByStart, AlarmsOK
  <2>3. CASE StartRejected(id)
    BY <2>3 DEF StartRejected, alarmVars, AlarmsOK
  <2> QED BY <2>1, <2>2, <2>3
<1>2. CASE ResetAlarm
  BY <1>2 DEF ResetAlarm, reset_alarms, Unreset, AlarmsOK
<1>3. CASE ReportConfirmed
  BY <1>3 DEF ReportConfirmed, AlarmsOK
<1>4. CASE stop_alarm_handler
  BY <1>4 DEF stop_alarm_handler, AlarmsOK
<1>5. CASE UNCHANGED alarmVars
  BY <1>5 DEF alarmVars, AlarmsOK
<1> QED BY <1>1, <1>2, <1>3, <1>4, <1>5

\* Where a step of preloop leaves the protocol thread.
LEMMA PlaceAfter ==
    ASSUME NEW n \in DOMAIN Keys, NEW step \in {"test", "clear", "act"}
    PROVE  After(step, n) \in Place /\ NextKey(n) \in Place
<1>1. NextKey(n) \in Place
  BY KeyNames DEF NextKey, Place
<1>2. StepAfter(step) \in {"clear", "act", "done"}
  BY DEF StepAfter
<1> QED BY <1>1, <1>2 DEF After, Place

THEOREM TypeCorrect == Spec => []TypeOK
<1>1. Init => TypeOK
  <2> SUFFICES ASSUME Init PROVE TypeOK
    OBVIOUS
  <2> USE DEF Init
  <2>1. control \in Control /\ switches \in [Switch -> Bit]
        /\ loaded \in [Switch -> Bit]
    BY DEF Control, Switch, Bit, FAN_AUTO, Off
  <2>2. since_report \in 0 .. LongAgo
    BY HonServerAssumption DEF LongAgo
  <2>3. at \in Place
    BY KeyNames DEF Place
  <2>4. toggling \in [switch: ToggleKeys \union {"none"},
                      byte: [Switch -> Bit]]
    BY DEF NotToggling, Off, Bit
  <2>5. flags \in [Key -> BOOLEAN] /\ pressed \subseteq Key
    OBVIOUS
  <2>6. /\ outgoing \in Seq(SUBSET AlarmId) /\ Len(outgoing) <= 1
        /\ awaiting => outgoing # <<>>
    OBVIOUS
  <2>7. AlarmsOK
    BY DEF AlarmsOK
  <2> QED BY <2>1, <2>2, <2>3, <2>4, <2>5, <2>6, <2>7 DEF TypeOK, AlarmsOK
<1>2. TypeOK /\ [Next]_vars => TypeOK'
  <2> SUFFICES ASSUME TypeOK, [Next]_vars PROVE TypeOK'
    OBVIOUS
  <2>0. AlarmsOK /\ AppliancesOK
    BY DEF TypeOK, AlarmsOK, AppliancesOK
  <2>1. CASE \E n \in DOMAIN Keys : TestFlag(n)
    <3>1. PICK n \in DOMAIN Keys : TestFlag(n)
      BY <2>1
    <3>2. at' \in Place
      BY <3>1, PlaceAfter DEF TestFlag
    <3> QED BY <3>1, <3>2 DEF TestFlag, TypeOK, applianceVars, alarmVars,
                              reportVars, keyVars
  <2>2. CASE \E n \in DOMAIN Keys : ClearFlag(n)
    <3>1. PICK n \in DOMAIN Keys : ClearFlag(n)
      BY <2>2
    <3>2. at' \in Place
      BY <3>1, PlaceAfter DEF ClearFlag
    <3> QED BY <3>1, <3>2 DEF ClearFlag, TypeOK, applianceVars, alarmVars,
                              reportVars
  <2>3. CASE \E n \in DOMAIN Keys : ActOnKey(n)
    <3>1. PICK n \in DOMAIN Keys : ActOnKey(n)
      BY <2>3
    <3>2. at' \in Place
      BY <3>1, PlaceAfter DEF ActOnKey
    <3>3. AlarmsOK'
      BY <3>1, <2>0, AlarmTypes DEF ActOnKey, TogglePower, EnterPairing
    <3>4. AppliancesOK'
      <4>0. loaded \in [Switch -> Bit]
        BY DEF TypeOK
      <4>1. CASE TogglePower
        BY <4>0, <4>1, <2>0 DEF TogglePower, AppliancesOK, Switch, Bit
      <4>2. CASE EnterPairing
        <5>1. control' \in Control
          BY <4>2, <2>0 DEF EnterPairing, AppliancesOK, Control,
                            PAIRING_SET_POINT, COOL, FAN_LOW
        <5>2. switches' \in [Switch -> Bit]
          BY <4>0, <4>2, <2>0 DEF EnterPairing, AppliancesOK, Bit
        <5> QED BY <4>2, <2>0, <5>1, <5>2 DEF EnterPairing, AppliancesOK
      <4>3. CASE TriggerRandomAlarm \/ ResetAlarm
        BY <4>3, <2>0 DEF TriggerRandomAlarm, ResetAlarm, applianceVars,
              AppliancesOK
      <4> QED BY <3>1, <4>1, <4>2, <4>3 DEF ActOnKey
    <3>5. loaded' \in [Switch -> Bit]
      BY <3>1 DEF ActOnKey, Off, Bit
    <3> QED BY <3>1, <3>2, <3>3, <3>4, <3>5
            DEF ActOnKey, TypeOK, AlarmsOK, AppliancesOK, reportVars
  <2>4. CASE process_alarms
    <3>1. alarm_paused' \in BOOLEAN
      BY <2>4 DEF process_alarms, TypeOK
    <3>2. /\ outgoing' \in Seq(SUBSET AlarmId) /\ Len(outgoing') <= 1
          /\ awaiting' => outgoing' # <<>>
      BY <2>4 DEF process_alarms, ReportDue, MayReport, TypeOK
    <3>3. since_report' \in 0 .. LongAgo
      BY <2>4, HonServerAssumption DEF process_alarms, TypeOK, LongAgo
    <3>4. at' \in Place
      BY <2>4 DEF process_alarms, Place
    <3> QED BY <2>4, <3>1, <3>2, <3>3, <3>4
            DEF process_alarms, TypeOK, applianceVars, keyVars
  <2>5. CASE LoopIdles \/ RequestArrives
    <3>1. at' \in Place
      BY <2>5, KeyNames DEF LoopIdles, RequestArrives, Repeat, Place
    <3> QED BY <2>5, <3>1 DEF LoopIdles, RequestArrives, TypeOK,
              applianceVars, alarmVars, reportVars, keyVars
  <2>6. CASE ReportSent
    <3>1. at' \in Place
      BY <2>6, KeyNames DEF ReportSent, Repeat, Place
    <3> QED BY <2>6, <3>1 DEF ReportSent, TypeOK, applianceVars, keyVars
  <2>7. CASE ReportSettled
    <3>1. at' \in Place
      BY <2>7, KeyNames DEF ReportSettled, Repeat, Place
    <3>2. AlarmsOK'
      BY <2>7, <2>0, AlarmTypes DEF ReportSettled
    <3>3. outgoing' \in Seq(SUBSET AlarmId) /\ Len(outgoing') <= 1
      <4>1. /\ outgoing \in Seq(SUBSET AlarmId) /\ Len(outgoing) <= 1
            /\ outgoing # <<>>
        BY <2>7 DEF TypeOK, ReportSettled
      <4>2. outgoing' = Tail(outgoing)
        BY <2>7 DEF ReportSettled
      <4> QED BY <4>1, <4>2
    <3> QED BY <2>7, <3>1, <3>2, <3>3
            DEF ReportSettled, TypeOK, AlarmsOK, applianceVars, keyVars
  <2>8. CASE HandleRequest
    <3>1. at' \in Place
      BY <2>8, KeyNames DEF HandleRequest, Place
    <3>2. AlarmsOK'
      BY <2>8, <2>0, AlarmTypes
      DEF HandleRequest, process_single_parameter, SetGroupParameters,
          report_network_status_handler
    <3>3. AppliancesOK'
      <4>0. request \in Request /\ loaded \in [Switch -> Bit]
        <5>1. NoRequest \in PlainRequest
          BY DEF NoRequest, PlainRequest
        <5> QED BY <5>1, RequestsAssumption DEF TypeOK, Request
      <4>1. CASE /\ request.type = "single"
                 /\ process_single_parameter(request.parameter, request.value)
        <5>1. /\ request.parameter \in Parameter
              /\ request.value \in Nat
          <6>1. request \in SingleRequest
            BY <4>0, <4>1
            DEF Request, GroupRequest, NetworkRequest, PlainRequest
          <6>2. \A r \in SingleRequest :
                   r.parameter \in Parameter /\ r.value \in Word
            BY DEF SingleRequest
          <6>3. Word \subseteq Nat
            BY DEF Word
          <6> QED BY <6>1, <6>2, <6>3
        <5>2. switches' \in [Switch -> Bit]
          <6>1. InRange(request.parameter, request.value)
                /\ request.parameter \in Switch => request.value \in Bit
            BY DEF InRange, Switch
          <6> QED BY <4>0, <4>1, <6>1, <2>0
                  DEF process_single_parameter, SetIfDifferent, AppliancesOK
        <5>3. control' \in Control
          <6>1. /\ request.value % 256 \in 0 .. 255
                /\ request.value % 8 \in 0 .. 7
            BY <5>1
          <6> QED BY <4>1, <5>1, <6>1, <2>0
                  DEF process_single_parameter, AppliancesOK, Control, Width,
                      Parameter, DataParameters, Switch
        <5> QED BY <4>1, <5>2, <5>3, <2>0
                DEF process_single_parameter, AppliancesOK
      <4>2. CASE /\ request.type = "group"
                 /\ SetGroupParameters(request.control, request.switches)
        <5>1. request \in GroupRequest
          <6>1. request \notin SingleRequest
            BY <4>2 DEF SingleRequest
          <6>2. request \notin NetworkRequest \union PlainRequest
            BY <4>2 DEF NetworkRequest, PlainRequest
          <6> QED BY <4>0, <6>1, <6>2 DEF Request
        <5>2. /\ request.control \in Control
              /\ request.switches \in [Switch -> Bit]
          BY <5>1 DEF GroupRequest
        <5> QED BY <5>2, <4>2, <2>0
                DEF SetGroupParameters, SetIfDifferent, AppliancesOK
      <4>3. CASE report_network_status_handler(request.status)
        <5>1. control' \in Control
          BY <4>3, <2>0 DEF report_network_status_handler, AppliancesOK,
                            Control, PAIRING_SET_POINT
        <5> QED BY <4>3, <5>1, <2>0
                DEF report_network_status_handler, AppliancesOK
      <4>4. CASE UNCHANGED applianceVars
        BY <4>4, <2>0 DEF applianceVars, AppliancesOK
      <4> QED BY <2>8, <4>1, <4>2, <4>3, <4>4
              DEF HandleRequest, stop_alarm_handler
    <3>4. loaded' \in [Switch -> Bit]
      BY <2>8 DEF HandleRequest, Off, Bit
    <3> QED BY <2>8, <3>1, <3>2, <3>3, <3>4
            DEF HandleRequest, TypeOK, AlarmsOK, AppliancesOK, reportVars,
                keyVars
  <2>9. CASE FlagKeyPressed
    BY <2>9 DEF FlagKeyPressed, TypeOK, applianceVars, alarmVars, reportVars,
                threadVars
  <2>10. CASE ToggleKeyPressed
    BY <2>10 DEF ToggleKeyPressed, TypeOK, applianceVars, alarmVars,
                 reportVars, threadVars
  <2>11. CASE SwitchStored
    <3>1. switches' \in [Switch -> Bit]
      <4>1. toggling.byte \in [Switch -> Bit]
        BY DEF TypeOK
      <4>2. ASSUME toggling.switch \in Switch
            PROVE  1 - toggling.byte[toggling.switch] \in Bit
        BY <4>1, <4>2 DEF Bit
      <4> QED BY <2>11, <4>1, <4>2 DEF SwitchStored
    <3>2. toggling' \in [switch: ToggleKeys \union {"none"},
                         byte: [Switch -> Bit]]
      BY <2>11 DEF SwitchStored, NotToggling, Off, Bit
    <3> QED BY <2>11, <3>1, <3>2 DEF SwitchStored, TypeOK, alarmVars,
              reportVars, threadVars
  <2>12. CASE Tick
    BY <2>12, HonServerAssumption DEF Tick, TypeOK, LongAgo, applianceVars,
              alarmVars, keyVars, threadVars
  <2>13. CASE UNCHANGED vars
    BY <2>13 DEF vars, TypeOK, applianceVars, alarmVars, reportVars, keyVars,
              threadVars
  <2> QED BY <2>1, <2>2, <2>3, <2>4, <2>5, <2>6, <2>7, <2>8, <2>9, <2>10,
             <2>11, <2>12, <2>13
          DEF Next, protocol_loop, preloop, loop, Keyboard
<1> QED BY <1>1, <1>2, PTL DEF Spec
=============================================================================
