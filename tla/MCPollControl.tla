---------------------------- MODULE MCPollControl ----------------------------
(* A program that starts on two signals, of which one handler asks for the
   status, with three alarms and two handles.  Its Poll Control clusters: three
   that sleep later, of which one has "never" as its interval and one an
   interval too long for kU32; one that sleeps at once; one that is awake. *)
EXTENDS PollControl, TLC

CONSTANTS a1, t1, low_power, c1, c2, enter,
          reboot, steering, leave, p1, p2, p3, p4, p5

Handler == reboot :> "of status" @@ steering :> "of nothing" @@ leave :> "none"

Config(sleepy, at_start, awake) ==
    [sleepy_end_device |-> sleepy, long_poll_at_start |-> at_start,
     start_awake_time |-> awake]

Configs ==
    p1 :> Config(TRUE, 2000, 8000) @@ p2 :> Config(TRUE, 2000, 8000) @@
    p3 :> Config(TRUE, 2000, 8000) @@ p4 :> Config(TRUE, 2000, 0) @@
    p5 :> Config(FALSE, 2000, 8000)

Intervals == p1 :> 7 @@ p2 :> 8191 @@ p3 :> 9 @@ p4 :> 5 @@ p5 :> 5

==============================================================================
