------------------------------- MODULE MCAlarm -------------------------------
(* Names for the alarms and callbacks of the instances of Alarm: three alarms,
   timers among them, draw on two handles, so that the list runs empty. *)
EXTENDS Alarm

CONSTANTS a1, a2, t1, t2, c1, c2

=============================================================================
