---------------------------- MODULE MCHonServer ----------------------------
(***************************************************************************)
(* Instances of HonServer for TLC.                                         *)
(***************************************************************************)
EXTENDS HonServer

Single(p, v) == [type |-> "single", parameter |-> p, value |-> v]
Network(st)  == [type |-> "network", status |-> st]

\* An alarm of the last byte of the mask, and the code that is no alarm.
SomeIds == {1, 51}

Quiet == {"quiet_mode"}
NoKey == {}

\* One message of each kind; the settings are those of Init or of pairing, so
\* that they tell states apart where messages and keys interfere.
SomeRequests ==
    {Single("ac_power", 1),
     [type |-> "group", switches |-> Off,
      control |-> [set_point |-> 9, ac_mode |-> 0, fan_mode |-> FAN_AUTO]],
     Network(1), Network(CONFIGURATION_MODE), [type |-> "stop"],
     [type |-> "nothing"]}

\* Settings on both sides of each bound.
SettingRequests ==
    {Single("set_point", v) : v \in {0, 14}}
    \union {Single("ac_mode", v) : v \in {0, 6}}
    \union {Single("fan_mode", v) : v \in 0 .. 9}
    \union {Single("ac_power", v) : v \in 0 .. 2}
=============================================================================
