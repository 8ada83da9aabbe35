-------------------------------- MODULE Alarm --------------------------------
(***************************************************************************)
(* The alarms (zb_alarm_t) and timers (zb_timer_t) of zb_alarm.hpp, and    *)
(* the pool of handles they share.  ZBOSS takes a function and one byte    *)
(* for a scheduled alarm, so every running alarm owns a handle, the number *)
(* of an entry of g_TimerList in which its callback waits.                 *)
(*                                                                         *)
(* One thread runs all of this, the ZBOSS thread: a call of Setup or       *)
(* Cancel is one step.  What interleaves is the callbacks: while ZBOSS     *)
(* runs one (call # NoCall) the application may set up and cancel any      *)
(* alarm, the one being served too, before the callback returns and        *)
(* on_timer decides whether to re-arm.  Durations are left out: ZBOSS may  *)
(* run any alarm that is pending.                                          *)
(***************************************************************************)
EXTENDS Integers, FiniteSets

CONSTANTS
    Alarms,                  \* the zb_alarm_t objects of the application
    Timers,                  \* those of them that are zb_timer_t
    Cbs,                     \* the application's callbacks
    kMaxSize,                \* entries of the list
    kLowOnHandlesThreshold,  \* the first handle that is a sign of shortage
    kCounterOfDeathValue,    \* length of the countdown to the restart
    ScheduleMayFail          \* can zb_schedule_app_alarm return an error?

ASSUME AlarmAssumption ==
    /\ IsFiniteSet(Alarms)
    /\ Timers \subseteq Alarms
    /\ kMaxSize \in 1 .. 254
    /\ kLowOnHandlesThreshold \in Nat
    /\ kCounterOfDeathValue \in 1 .. 254
    /\ ScheduleMayFail \in BOOLEAN

VARIABLES
    g_TimerList,             \* [head, entries]: the list of handles
    h,                       \* zb_alarm_t::h of every alarm
    pending,                 \* what ZBOSS has scheduled: <<trampoline, handle>>
    call,                    \* the callback ZBOSS is in, or NoCall
    g_RunningOutOfHandles,
    g_CounterOfDeath,
    peak                     \* history: most alarms ever running at once

vars == <<g_TimerList, h, pending, call, g_RunningOutOfHandles,
          g_CounterOfDeath, peak>>

-----------------------------------------------------------------------------
(* The list of handles. *)

Handles == 0 .. kMaxSize - 1
kFull == kMaxSize + 1
kInvalidHandle == kFull
kCounterOfDeathInactive == 255

\* A list_entry_t is a union: a link while the handle is free, the alarm's
\* callback while it is taken.
FreeEntry == [nextFree : Handles \cup {kFull}]
TimerEntry == [pAlarm : Alarms, cb : Cbs]

Create_Backwards ==
    [head    |-> kMaxSize - 1,
     entries |-> [i \in Handles |->
                    [nextFree |-> IF i = 0 THEN kFull ELSE i - 1]]]

Create ==
    [head    |-> 0,
     entries |-> [i \in Handles |->
                    [nextFree |-> IF i = kMaxSize - 1 THEN kFull ELSE i + 1]]]

Freed_LinkLost(list, hd) ==
    [head    |-> hd,
     entries |-> [list.entries EXCEPT ![hd] = [nextFree |-> kFull]]]

\* Free pushes, Allocate pops and its caller fills the entry in.
Freed(list, hd) ==
    [head    |-> hd,
     entries |-> [list.entries EXCEPT ![hd] = [nextFree |-> list.head]]]

Allocated(list, entry) ==
    [head    |-> list.entries[list.head].nextFree,
     entries |-> [list.entries EXCEPT ![list.head] = entry]]

-----------------------------------------------------------------------------
(* zb_alarm_t.  The trampoline is the instance of on_scheduled_alarm. *)

NoCall == [trampoline |-> "none"]

Trampoline(a) == IF a \in Timers THEN "on_timer" ELSE "on_alarm"

IsRunning(a) == h[a] # kInvalidHandle

\* The alarms that hold a handle according to hh.
Holders(hh) == {a \in Alarms : hh[a] # kInvalidHandle}

\* Is a's callback scheduled in ZBOSS?
Armed(a) == <<Trampoline(a), h[a]>> \in pending

\* h once a has given its handle back.
Released(a) == [h EXCEPT ![a] = kInvalidHandle]

Cancelled_AsAlarm(a) ==
    IF IsRunning(a)
    THEN [list |-> Freed(g_TimerList, h[a]), h |-> Released(a),
          due  |-> pending \ {<<"on_alarm", h[a]>>}]
    ELSE [list |-> g_TimerList, h |-> h, due |-> pending]

\* The list, the handles and the schedule once a is cancelled.
Cancelled(a) ==
    IF IsRunning(a)
    THEN [list |-> Freed(g_TimerList, h[a]), h |-> Released(a),
          due  |-> pending \ {<<Trampoline(a), h[a]>>}]
    ELSE [list |-> g_TimerList, h |-> h, due |-> pending]

\* Remember the largest number of alarms that were ever running together.
RecordPeak ==
    LET n == Cardinality(Holders(h'))
    IN  peak' = IF n > peak THEN n ELSE peak

IsShortage(hd) == hd >= kLowOnHandlesThreshold

Scheduled(due, a, hd) == due \cup {<<Trampoline(a), hd>>}

\* Setup<CB>: cancel, take a handle, fill its entry in, note a shortage and
\* schedule.  A refusal of ZBOSS is returned, and the handle stays taken.
TakeHandle(a, cb, accepted) ==
    LET c  == Cancelled(a)
        hd == c.list.head
    IN  /\ hd # kFull
        /\ g_TimerList' = Allocated(c.list, [pAlarm |-> a, cb |-> cb])
        /\ h' = [c.h EXCEPT ![a] = hd]
        /\ pending' = IF accepted THEN Scheduled(c.due, a, hd) ELSE c.due
        /\ g_RunningOutOfHandles' = (g_RunningOutOfHandles \/ IsShortage(hd))
        /\ RecordPeak

NoHandle(a) ==
    LET c == Cancelled(a)
    IN  /\ c.list.head = kFull
        /\ g_TimerList' = c.list
        /\ h' = c.h
        /\ pending' = c.due
        /\ UNCHANGED <<g_RunningOutOfHandles, peak>>

SetupEffect(a, cb) ==
    \/ TakeHandle(a, cb, TRUE)
    \/ ScheduleMayFail /\ TakeHandle(a, cb, FALSE)
    \/ NoHandle(a)

-----------------------------------------------------------------------------
(* What the application and ZBOSS do. *)

Init ==
    /\ g_TimerList = Create
    /\ h = [a \in Alarms |-> kInvalidHandle]
    /\ pending = {}
    /\ call = NoCall
    /\ g_RunningOutOfHandles = FALSE
    /\ g_CounterOfDeath = kCounterOfDeathInactive
    /\ peak = 0

Setup(a, cb) ==
    /\ SetupEffect(a, cb)
    /\ UNCHANGED <<call, g_CounterOfDeath>>

\* The destructor does the same.
Cancel(a) ==
    /\ g_TimerList' = Cancelled(a).list
    /\ h' = Cancelled(a).h
    /\ pending' = Cancelled(a).due
    /\ UNCHANGED <<call, g_RunningOutOfHandles, g_CounterOfDeath, peak>>

\* ZBOSS calls on_scheduled_alarm, which frees the handle of the alarm it
\* finds in the entry before it enters the callback.
OnScheduledAlarm(trampoline, hd) ==
    LET e == g_TimerList.entries[hd]
    IN  /\ call = NoCall
        /\ <<trampoline, hd>> \in pending
        /\ pending' = pending \ {<<trampoline, hd>>}
        /\ g_TimerList' = Freed(g_TimerList, h[e.pAlarm])
        /\ h' = Released(e.pAlarm)
        /\ call' = [trampoline |-> trampoline, e |-> e]
        /\ UNCHANGED <<g_RunningOutOfHandles, g_CounterOfDeath, peak>>

\* The callback of an alarm returns, or that of a timer returns false.
ReturnStop ==
    /\ call # NoCall
    /\ call' = NoCall
    /\ UNCHANGED <<g_TimerList, h, pending, g_RunningOutOfHandles,
                   g_CounterOfDeath, peak>>

ReturnGoOn_AnyAlarm ==
    /\ call # NoCall
    /\ SetupEffect(call.e.pAlarm, call.e.cb)
    /\ call' = NoCall
    /\ UNCHANGED g_CounterOfDeath

\* The callback of a timer returns true: on_timer sets it up again.
ReturnGoOn ==
    /\ call # NoCall
    /\ call.trampoline = "on_timer"
    /\ SetupEffect(call.e.pAlarm, call.e.cb)
    /\ call' = NoCall
    /\ UNCHANGED g_CounterOfDeath

DeactivateCounterOfDeath ==
    /\ g_CounterOfDeath' = kCounterOfDeathInactive
    /\ UNCHANGED <<g_TimerList, h, pending, call, g_RunningOutOfHandles, peak>>

CheckCounterOfDeath ==
    /\ g_RunningOutOfHandles
    /\ g_CounterOfDeath' = kCounterOfDeathValue
    /\ UNCHANGED <<g_TimerList, h, pending, call, g_RunningOutOfHandles, peak>>

CountsDown ==
    /\ g_RunningOutOfHandles
    /\ g_CounterOfDeath # kCounterOfDeathInactive

Tick_PostDecrement ==
    /\ CountsDown
    /\ g_CounterOfDeath' = (g_CounterOfDeath - 1) % 256
    /\ UNCHANGED <<g_TimerList, h, pending, call, g_RunningOutOfHandles, peak>>

Tick_Restarts ==
    /\ CountsDown
    /\ g_CounterOfDeath # 1
    /\ g_CounterOfDeath' = kCounterOfDeathValue
    /\ UNCHANGED <<g_TimerList, h, pending, call, g_RunningOutOfHandles, peak>>

Tick ==
    /\ CountsDown
    /\ g_CounterOfDeath # 1
    /\ g_CounterOfDeath' = (g_CounterOfDeath - 1) % 256
    /\ UNCHANGED <<g_TimerList, h, pending, call, g_RunningOutOfHandles, peak>>

\* sys_reboot: memory is what the loader puts there, ZBOSS has no alarm.
Reboot ==
    /\ CountsDown
    /\ g_CounterOfDeath = 1
    /\ g_TimerList' = Create
    /\ h' = [a \in Alarms |-> kInvalidHandle]
    /\ pending' = {}
    /\ call' = NoCall
    /\ g_RunningOutOfHandles' = FALSE
    /\ g_CounterOfDeath' = kCounterOfDeathInactive
    /\ peak' = 0

CheckDeathCount == Tick \/ Reboot

Next ==
    \/ \E a \in Alarms, cb \in Cbs : Setup(a, cb)
    \/ \E a \in Alarms : Cancel(a)
    \/ \E p \in pending : OnScheduledAlarm(p[1], p[2])
    \/ ReturnGoOn
    \/ ReturnStop
    \/ DeactivateCounterOfDeath
    \/ CheckCounterOfDeath
    \/ CheckDeathCount

Spec == Init /\ [][Next]_vars

-----------------------------------------------------------------------------
(* Properties. *)

ListType == [head    : Handles \cup {kFull},
             entries : [Handles -> FreeEntry \cup TimerEntry]]

TypeOK ==
    /\ g_TimerList \in ListType
    /\ h \in [Alarms -> Handles \cup {kInvalidHandle}]
    /\ pending \subseteq {"on_alarm", "on_timer"} \X Handles
    /\ call \in {NoCall} \cup
                [trampoline : {"on_alarm", "on_timer"}, e : TimerEntry]
    /\ g_RunningOutOfHandles \in BOOLEAN
    /\ g_CounterOfDeath \in
         1 .. kCounterOfDeathValue \cup {kCounterOfDeathInactive}
    /\ peak \in 0 .. kMaxSize

\* s is the list of free handles, n of them from head to the end, and has
\* every handle that no alarm holds according to hh, once.
IsFreeList(list, hh, n, s) ==
    /\ list.head = IF n = 0 THEN kFull ELSE s[1]
    /\ \A i \in 1 .. n :
         /\ list.entries[s[i]] = [nextFree |-> IF i = n THEN kFull ELSE s[i + 1]]
         /\ \A j \in 1 .. n : s[i] = s[j] => i = j
    /\ \A hd \in Handles :
         (\E i \in 1 .. n : s[i] = hd) <=> (\A a \in Alarms : hh[a] # hd)

\* The entry of a handle that is held names its one holder.
EntriesOwned(list, hh) ==
    /\ \A a, b \in Holders(hh) : hh[a] = hh[b] => a = b
    /\ \A a \in Holders(hh) :
         \E cb \in Cbs : list.entries[hh[a]] = [pAlarm |-> a, cb |-> cb]

\* No handle is ever lost, held twice, or held and free at once, and an entry
\* that is held names its holder: what Allocate, Free and the pairs of them in
\* Setup, Cancel and on_scheduled_alarm keep, in whatever order the
\* application and its callbacks use them.
HandlesConserved ==
    /\ \E n \in 0 .. kMaxSize : \E s \in [1 .. n -> Handles] :
          IsFreeList(g_TimerList, h, n, s)
    /\ EntriesOwned(g_TimerList, h)

\* ZBOSS never has a call scheduled for a handle that was given back or went
\* to another alarm, nor through the wrong trampoline: on_scheduled_alarm
\* reads an entry that is the alarm's own, not a link of the free list.
AreOwned(due, hh) ==
    \A p \in due : \E a \in Holders(hh) : p = <<Trampoline(a), hh[a]>>

PendingOwned == AreOwned(pending, h)

\* "Low on handles" is said exactly when more than kLowOnHandlesThreshold
\* alarms have run at once since the start.  Setup only compares the handle
\* it got with the threshold; that this is the same thing rests on the order
\* in which the list hands handles out.
LowOnHandlesExact == g_RunningOutOfHandles <=> peak > kLowOnHandlesThreshold

\* The handles from m on were never taken: they are the end of the list, in
\* order, and everything before them is smaller.
FreshAtEnd(n, s, m) ==
    /\ kMaxSize - m <= n
    /\ \A i \in 1 .. n : IF i <= n - (kMaxSize - m)
                        THEN s[i] < m
                        ELSE s[i] = kMaxSize - 1 - (n - i)

Pool(list, hh, m) ==
    /\ \E n \in 0 .. kMaxSize : \E s \in [1 .. n -> Handles] :
          /\ IsFreeList(list, hh, n, s)
          /\ FreshAtEnd(n, s, m)
          /\ n + Cardinality(Holders(hh)) = kMaxSize
    /\ \A a \in Holders(hh) : hh[a] < m
    /\ EntriesOwned(list, hh)

\* The callback that runs was entered through its alarm's own trampoline.
CallOwned == call # NoCall => call.trampoline = Trampoline(call.e.pAlarm)

\* Why all this holds: the handles that were never taken wait at the end
\* of the list, so a handle is taken for the first time only when all smaller
\* ones are held at that moment.  This is the inductive invariant.
IInv ==
    /\ TypeOK
    /\ Pool(g_TimerList, h, peak)
    /\ PendingOwned
    /\ CallOwned
    /\ LowOnHandlesExact

\* The comment on zb_timer_t::callback_t: "return 'true' if timer should go
\* on".  A step that leaves the callback of a timer with true arms the timer.
TimerGoesOn ==
    [][\A a \in Timers : ReturnGoOn /\ call.e.pAlarm = a => Armed(a)']_vars

-----------------------------------------------------------------------------
(* Liveness.  ZBOSS runs an alarm once its time has come however many others
   are due (SF: it is between two callbacks again and again), every callback
   returns, and the application calls check_death_count again and again. *)

Fairness ==
    /\ \A p \in {"on_alarm", "on_timer"} \X Handles :
         SF_vars(OnScheduledAlarm(p[1], p[2]))
    /\ WF_vars(ReturnStop \/ ReturnGoOn)
    /\ WF_vars(CheckDeathCount)

FairSpec == Spec /\ Fairness

\* Who can set a up: the application, and on_timer if a is a timer.
SetsUp(a) ==
    \/ \E cb \in Cbs : Setup(a, cb)
    \/ a \in Timers /\ ReturnGoOn /\ call.e.pAlarm = a

\* An alarm nobody sets up any more is called or cancelled in the end, whatever
\* the other alarms do.
Expires ==
    \A a \in Alarms : <>[][~ SetsUp(a)]_vars => <>[](~ Armed(a))

\* A countdown that nobody restarts or deactivates ends in the restart.
CountdownEnds ==
    <>[][~ CheckCounterOfDeath /\ ~ DeactivateCounterOfDeath]_vars
        => <>[](g_CounterOfDeath = kCounterOfDeathInactive)

-----------------------------------------------------------------------------
(* What the application sees of all this: alarms, and no handles. *)

ArmedWith == [a \in Alarms |->
    IF Armed(a) THEN <<g_TimerList.entries[h[a]].cb>> ELSE <<>>]

ServedNow == IF call = NoCall THEN <<>> ELSE <<call.e.pAlarm, call.e.cb>>

Service == INSTANCE AlarmService WITH
    Capacity  <- kMaxSize,
    MayRefuse <- ScheduleMayFail,
    armed     <- ArmedWith,
    slots     <- Holders(h),
    serving   <- ServedNow

\* Every run is one of the service: an alarm is called exactly when it is armed,
\* with the callback of its last Setup, and refused only when all slots are
\* taken by others.
ImplementsService == Service!Spec

=============================================================================
