----------------------------- MODULE PollControl -----------------------------
(***************************************************************************)
(* A program that starts on a signal of ZBOSS (zb_signals.hpp) and then    *)
(* configures the Poll Control clusters of its device                      *)
(* (zb_poll_ctrl_tools.hpp), beside the other alarms of the application.   *)
(*                                                                         *)
(* A sleepy device polls its parent often for a while, and one alarm,      *)
(* shared by all clusters, lets it sleep longer.  That alarm takes its     *)
(* handle from the pool of Alarm and its Setup is never asked what became  *)
(* of it.  Signals come again and again: a steering that failed is         *)
(* signalled as one that succeeded is.                                     *)
(***************************************************************************)
EXTENDS Alarm

CONSTANTS
    SignalIds,                   \* signals of ZBOSS
    Handlers,                    \* what the program gives for each: see Callables
    PollClusters,                \* the Poll Control clusters that are configured
    cfg,                         \* poll_ctrl_cfg_t of each
    long_poll_interval,          \* their attribute, in quarters of a second
    g_EnterLowPowerLongPollMode, \* the alarm
    EnterLowPower,               \* its callback
    kU32                         \* 2^32 in the code

Callables == {"none", "of status", "of nothing"}

ASSUME PollControlAssumption ==
    /\ Handlers \in [SignalIds -> Callables]
    /\ kU32 \in Nat \ {0}
    /\ long_poll_interval \in [PollClusters -> 0 .. kU32 - 1]
    /\ cfg \in [PollClusters -> [sleepy_end_device : BOOLEAN,
                                 long_poll_at_start : 0 .. kU32 - 1,
                                 start_awake_time : 0 .. kU32 - 1]]
    /\ g_EnterLowPowerLongPollMode \in Alarms \ Timers
    /\ EnterLowPower \in Cbs

VARIABLES
    poll,          \* ZBOSS's long poll interval in ms, or Unset
    m_Callback,    \* the cluster the alarm's function has captured, or Unset
    configured     \* history: <<cluster, armed>> of the last configuration

app_vars == <<vars, poll, m_Callback, configured>>

Unset == -1

-----------------------------------------------------------------------------
(* sig_handlers_t and tpl_signal_handler *)

\* The constructors of handler_mem_t: what can be called with a status becomes
\* the typed handler, and anything else the simple one.
handler_mem(callable) ==
    [m_TypedHandler |-> callable = "of status", m_SimpleHandler |-> callable = "of nothing"]

HasHandler(m) == m.m_TypedHandler \/ m.m_SimpleHandler

\* What the handler learns of the signal's status.
Told(m, status) == IF m.m_TypedHandler THEN status ELSE "nothing"

-----------------------------------------------------------------------------
(* configure_poll_control *)

Never == kU32 - 1       \* 0xffffffff

\* In uint32_t.
LowPower(c) == ((long_poll_interval[c] * 1000) % kU32) \div 4

\* The interval that the function of the alarm sets for c, over the present one.
EntersLowPower(c, present) ==
    IF long_poll_interval[c] = Never THEN present ELSE LowPower(c)

Captured_IfIdle(c) == IF IsRunning(g_EnterLowPowerLongPollMode) THEN m_Callback ELSE c

\* zb_alarm_ext_t::Setup replaces the function before it cancels the alarm.
Captured(c) == c

\* Later: the alarm is set up and may get no handle, or be refused by ZBOSS.
SleepLater(c) ==
    /\ cfg[c].sleepy_end_device
    /\ cfg[c].start_awake_time # 0
    /\ poll' = cfg[c].long_poll_at_start
    /\ m_Callback' = Captured(c)
    /\ SetupEffect(g_EnterLowPowerLongPollMode, EnterLowPower)
    /\ configured' = <<c, Armed(g_EnterLowPowerLongPollMode)'>>
    /\ UNCHANGED <<call, g_CounterOfDeath>>

SleepAtOnce(c) ==
    /\ cfg[c].sleepy_end_device
    /\ cfg[c].start_awake_time = 0
    /\ poll' = EntersLowPower(c, poll)
    /\ configured' = <<c, FALSE>>
    /\ UNCHANGED <<vars, m_Callback>>

StayAwake(c) ==
    /\ ~ cfg[c].sleepy_end_device
    /\ poll' = cfg[c].long_poll_at_start
    /\ configured' = <<c, FALSE>>
    /\ UNCHANGED <<vars, m_Callback>>

configure_poll_control(c) == SleepLater(c) \/ SleepAtOnce(c) \/ StayAwake(c)

-----------------------------------------------------------------------------
(* The program: alarms of its own as in Alarm, and the ones above. *)

StartInit ==
    /\ Init
    /\ poll = Unset
    /\ m_Callback = Unset
    /\ configured = <<>>

Own(action) == action /\ UNCHANGED <<poll, m_Callback, configured>>

\* A signal whose handler configures a cluster, unless it knows of a failure.
\* Then ZBOSS's own handler gets the signal, and its buffer is freed.
tpl_signal_handler(s, status) ==
    LET m == handler_mem(Handlers[s])
    IN  /\ call = NoCall
        /\ HasHandler(m)
        /\ Told(m, status) # "error"
        /\ \E c \in PollClusters : configure_poll_control(c)

\* An alarm is called back, this one or one of the application's.
OnAlarm(trampoline, hd) ==
    /\ OnScheduledAlarm(trampoline, hd)
    /\ poll' = IF call'.e.pAlarm = g_EnterLowPowerLongPollMode
               THEN EntersLowPower(m_Callback, poll)
               ELSE poll
    /\ UNCHANGED <<m_Callback, configured>>

Restarts ==
    /\ Reboot
    /\ poll' = Unset
    /\ m_Callback' = Unset
    /\ configured' = <<>>

AppAlarms == Alarms \ {g_EnterLowPowerLongPollMode}

StartNext ==
    \/ \E a \in AppAlarms, cb \in Cbs \ {EnterLowPower} : Own(Setup(a, cb))
    \/ \E a \in AppAlarms : Own(Cancel(a))
    \/ \E p \in pending : OnAlarm(p[1], p[2])
    \/ Own(ReturnGoOn)
    \/ Own(ReturnStop)
    \/ Own(DeactivateCounterOfDeath)
    \/ Own(CheckCounterOfDeath)
    \/ Own(Tick)
    \/ Restarts
    \/ \E s \in SignalIds, status \in {"ok", "error"} : tpl_signal_handler(s, status)

StartSpec == StartInit /\ [][StartNext]_app_vars

\* The fairness of Alarm: its actions are enabled when these are.
FairStartSpec == StartSpec /\ Fairness

-----------------------------------------------------------------------------
(* Properties. *)

Configures == \E c \in PollClusters : configure_poll_control(c)

\* poll is long_poll_interval in ms.
IsLowPower(c) == poll * 4 = long_poll_interval[c] * 1000

\* What the last configuration asked for, if it got its alarm.
Settled ==
    configured # <<>> /\ configured[2] =>
        LET c == configured[1]
        IN  IF long_poll_interval[c] = Never
            THEN poll = cfg[c].long_poll_at_start
            ELSE long_poll_interval[c] * 1000 < kU32 => IsLowPower(c)

\* Once no signal configures a cluster any more, and if the last one to do so
\* got its alarm, ZBOSS ends up polling at that cluster's interval, however
\* long the application's alarms crowd the pool and whichever cluster was
\* configured before; an interval of "never" leaves the first one in place.
\* Intervals whose milliseconds fit into a uint32_t are meant; others wrap.
PollSettles == <>[][~ Configures]_app_vars => <>[]Settled

=============================================================================
