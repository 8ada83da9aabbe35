---------------------------- MODULE AlarmService ----------------------------
(***************************************************************************)
(* What zb_alarm_t and zb_timer_t promise the application, with neither    *)
(* handles nor lists: an alarm that was set up is called back once, with   *)
(* the callback of its last Setup, unless it is cancelled first; at most   *)
(* Capacity alarms take a slot; setting up an alarm that has a slot is     *)
(* never refused for want of one.                                          *)
(***************************************************************************)
EXTENDS Integers, FiniteSets

CONSTANTS
    Alarms, Timers, Cbs,
    Capacity,     \* alarms that can run at once
    MayRefuse     \* can the stack refuse an alarm that has a slot?

VARIABLES
    armed,        \* <<cb>> for an alarm that will be called, else <<>>
    slots,        \* the alarms that take a slot
    serving       \* <<alarm, cb>> while a callback runs, else <<>>

Init ==
    /\ armed = [a \in Alarms |-> <<>>]
    /\ slots = {}
    /\ serving = <<>>

\* a is set up with callback cb.  A slot it has already is its own to reuse.
Arms(a, cb) ==
    \/ /\ a \in slots \/ Cardinality(slots) < Capacity
       /\ slots' = slots \cup {a}
       /\ \/ armed' = [armed EXCEPT ![a] = <<cb>>]
          \/ MayRefuse /\ armed' = [armed EXCEPT ![a] = <<>>]
    \/ /\ a \notin slots /\ Cardinality(slots) = Capacity
       /\ UNCHANGED <<armed, slots>>

Setup(a, cb) == Arms(a, cb) /\ UNCHANGED serving

Cancel(a) ==
    /\ armed' = [armed EXCEPT ![a] = <<>>]
    /\ slots' = slots \ {a}
    /\ UNCHANGED serving

Expire(a) ==
    /\ serving = <<>>
    /\ armed[a] # <<>>
    /\ serving' = <<a, armed[a][1]>>
    /\ armed' = [armed EXCEPT ![a] = <<>>]
    /\ slots' = slots \ {a}

Return ==
    /\ serving # <<>>
    /\ serving' = <<>>
    /\ UNCHANGED <<armed, slots>>

\* A timer whose callback returns true goes on with the callback that ran.
GoOn ==
    /\ serving # <<>>
    /\ serving[1] \in Timers
    /\ Arms(serving[1], serving[2])
    /\ serving' = <<>>

Restart ==
    /\ armed' = [a \in Alarms |-> <<>>]
    /\ slots' = {}
    /\ serving' = <<>>

Next ==
    \/ \E a \in Alarms, cb \in Cbs : Setup(a, cb)
    \/ \E a \in Alarms : Cancel(a) \/ Expire(a)
    \/ Return
    \/ GoOn
    \/ Restart

Spec == Init /\ [][Next]_<<armed, slots, serving>>

=============================================================================
