------------------------------- MODULE CmdSend -------------------------------
(***************************************************************************)
(* Sending cluster commands: ep_desc_t::send_cmd_impl with the pool of     *)
(* pre-allocated ZBOSS buffers (zb_buf.hpp) and the table of issued        *)
(* commands (zb_desc_helper_types_ep.hpp).                                 *)
(*                                                                         *)
(* A command takes a buffer of the pool and hands it to ZBOSS, which gives *)
(* it back in on_send_cmd_cb2.  A command with a callback also takes an    *)
(* entry of the table and arms an alarm; the first of the answer and the   *)
(* alarm reports the command, the other one has to find that out.  All of  *)
(* this runs in the ZBOSS thread; the application may send from inside the *)
(* callback that reports.                                                  *)
(*                                                                         *)
(* ZB_ASSERT stops the program when it fails.  Here an assertion guards    *)
(* the step that makes it, and AssertsHold says that none of the guards    *)
(* ever holds a step back.                                                 *)
(***************************************************************************)
EXTENDS Integers, FiniteSets, FiniteSetsExt

CONSTANTS
    Bufs,              \* the buffers ZBOSS can lend to this endpoint
    kCmdQueueSize,     \* cmd_queue_depth: slots of the pool and of the table
    kIdModulus,        \* cmd_id_t wraps here, at 256 in the code
    Timeouts,          \* timeout_ms of the application's commands
    ScheduleMayFail,   \* can zb_schedule_app_alarm return an error?
    kMaxInFlight       \* bound: packets ZBOSS holds in one buffer

ZB_BUF_INVALID == "ZB_BUF_INVALID"

ASSUME CmdSendAssumption ==
    /\ IsFiniteSet(Bufs)
    /\ ZB_BUF_INVALID \notin Bufs
    /\ kCmdQueueSize \in Nat \ {0}
    /\ kIdModulus \in Nat \ {0}
    /\ Timeouts \subseteq Nat
    /\ ScheduleMayFail \in BOOLEAN
    /\ kMaxInFlight \in Nat \ {0}

VARIABLES
    bufs,              \* g_PreAllocBufs: the buffers in the slots of the pool
    g_IssuedCmds,      \* the table: buf, cmd_id, and the timeout asked for
    g_cmd_num,
    inflight,          \* packets ZBOSS still owes an on_send_cmd_cb2, by buffer
    alarms,            \* scheduled on_send_cmd_timeout2, by buffer
    call,              \* the report the application is in, or NoCall
    ready,             \* has init() been called?
    lent,              \* history: the buffers that init() got
    refused            \* history: has zb_schedule_app_alarm returned an error?

vars == <<bufs, g_IssuedCmds, g_cmd_num, inflight, alarms, call, ready, lent, refused>>

Slots == 1 .. kCmdQueueSize
CmdIds == 0 .. kIdModulus - 1
NoCall == [status |-> "none"]
NoStatus == "nullptr"
NoEntry == [buf |-> ZB_BUF_INVALID]

-----------------------------------------------------------------------------
(* pre_alloc_zb_bufs_out: s is the array of buffers. *)

FullSlots(s) == {i \in Slots : s[i] # ZB_BUF_INVALID}
EmptySlots(s) == {i \in Slots : s[i] = ZB_BUF_INVALID}

\* The buffer allocate() returns when there is one, and what it leaves.
NextBuf == bufs[Min(FullSlots(bufs))]
Allocated == [bufs EXCEPT ![Min(FullSlots(bufs))] = ZB_BUF_INVALID]

\* deallocate(b) on the pool s; without an empty slot "we're dead".
Deallocate(s, b) ==
    /\ EmptySlots(s) # {}
    /\ bufs' = [s EXCEPT ![Min(EmptySlots(s))] = b]

Init ==
    /\ bufs = [i \in Slots |-> ZB_BUF_INVALID]
    /\ g_IssuedCmds = [i \in Slots |-> NoEntry]
    /\ g_cmd_num = 0
    /\ inflight = [b \in Bufs |-> 0]
    /\ alarms = [b \in Bufs |-> 0]
    /\ call = NoCall
    /\ ready = FALSE
    /\ lent = {}
    /\ refused = FALSE

\* init(): ZBOSS may run out of buffers at any slot, and nobody is told.
InitBufs ==
    /\ ~ ready
    /\ ready' = TRUE
    /\ bufs' \in {s \in [Slots -> Bufs \cup {ZB_BUF_INVALID}] :
                    \A i, j \in FullSlots(s) : 1 .. i \subseteq FullSlots(s)
                                               /\ (s[i] = s[j] => i = j)}
    /\ lent' = {bufs'[i] : i \in FullSlots(bufs')}
    /\ UNCHANGED <<g_IssuedCmds, g_cmd_num, inflight, alarms, call, refused>>

-----------------------------------------------------------------------------
(* send_cmd_impl, once for each way it can end. *)

EntriesOf(b) == {i \in Slots : g_IssuedCmds[i].buf = b}

\* No buffer: nullopt.
SendRefused == FullSlots(bufs) = {} /\ UNCHANGED vars

\* A free entry is looked for, and asserted, for every command.
CanSend == FullSlots(bufs) # {} /\ EntriesOf(ZB_BUF_INVALID) # {}

\* ZBOSS does not take the packet: nullopt.
SendFails ==
    /\ CanSend
    /\ Deallocate(Allocated, NextBuf)
    /\ UNCHANGED <<g_IssuedCmds, g_cmd_num, inflight, alarms, call, ready, lent, refused>>

PacketSent ==
    /\ CanSend
    /\ inflight[NextBuf] < kMaxInFlight
    /\ inflight' = [inflight EXCEPT ![NextBuf] = @ + 1]

NextId_NoWrap == g_cmd_num + 1

NextId == (g_cmd_num + 1) % kIdModulus

NewEntry_PreIncrement(timeout) ==
    [buf |-> NextBuf, cmd_id |-> NextId, timeout |-> timeout]

NewEntry(timeout) == [buf |-> NextBuf, cmd_id |-> g_cmd_num, timeout |-> timeout]

\* The alarm is armed whatever the timeout is.
ArmAlarm(timeout) == alarms' = [alarms EXCEPT ![NextBuf] = @ + 1]

\* No callback: the command is forgotten here and only its buffer comes back.
SendUntracked ==
    /\ PacketSent
    /\ bufs' = Allocated
    /\ g_cmd_num' = NextId
    /\ UNCHANGED <<g_IssuedCmds, alarms, call, ready, lent, refused>>

\* With a callback.
SendTracked(timeout) ==
    /\ PacketSent
    /\ bufs' = Allocated
    /\ g_IssuedCmds' = [g_IssuedCmds EXCEPT ![Min(EntriesOf(ZB_BUF_INVALID))] =
                                          NewEntry(timeout)]
    /\ ArmAlarm(timeout)
    /\ g_cmd_num' = NextId
    /\ UNCHANGED <<call, ready, lent, refused>>

\* The alarm cannot be armed: the entry and the buffer are given back, and
\* nullopt returned, but the packet is on its way.
AlarmFails ==
    /\ ScheduleMayFail
    /\ PacketSent
    /\ Deallocate(Allocated, NextBuf)
    /\ UNCHANGED <<g_IssuedCmds, g_cmd_num, alarms, call, ready, lent>>
    /\ refused' = TRUE

-----------------------------------------------------------------------------
(* What ZBOSS calls, between two callbacks, and the end of the callback. *)

Report_KeepsEntry(i, status) ==
    /\ call' = [status  |-> status,
                cmd_id  |-> g_IssuedCmds[i].cmd_id,
                timeout |-> g_IssuedCmds[i].timeout]
    /\ UNCHANGED g_IssuedCmds

\* Free entry i and enter its callback.
Report(i, status) ==
    /\ g_IssuedCmds' = [g_IssuedCmds EXCEPT ![i] = NoEntry]
    /\ call' = [status  |-> status,
                cmd_id  |-> g_IssuedCmds[i].cmd_id,
                timeout |-> g_IssuedCmds[i].timeout]

\* on_send_cmd_cb2(b): zb_schedule_alarm_cancel takes one alarm of b away.
PacketDone(b) ==
    /\ call = NoCall
    /\ inflight[b] > 0
    /\ inflight' = [inflight EXCEPT ![b] = @ - 1]
    /\ Deallocate(bufs, b)

Answered_KeepsAlarm(b) ==
    /\ EntriesOf(b) # {}
    /\ PacketDone(b)
    /\ Report(Min(EntriesOf(b)), b)
    /\ UNCHANGED <<g_cmd_num, alarms, ready, lent, refused>>

Answered_CancelsAll(b) ==
    /\ EntriesOf(b) # {}
    /\ PacketDone(b)
    /\ alarms' = [c \in Bufs |-> 0]
    /\ Report(Min(EntriesOf(b)), b)
    /\ UNCHANGED <<g_cmd_num, ready, lent, refused>>

Answered(b) ==
    /\ EntriesOf(b) # {}
    /\ PacketDone(b)
    /\ alarms' = [alarms EXCEPT ![b] = Max({@ - 1, 0})]
    /\ Report(Min(EntriesOf(b)), b)
    /\ UNCHANGED <<g_cmd_num, ready, lent, refused>>

\* The command has timed out already, or nobody waits for it.
AnsweredLate(b) ==
    /\ EntriesOf(b) = {}
    /\ PacketDone(b)
    /\ UNCHANGED <<g_IssuedCmds, g_cmd_num, alarms, call, ready, lent, refused>>

TimedOut_Deallocates(b) ==
    /\ call = NoCall
    /\ alarms[b] > 0
    /\ EntriesOf(b) # {}
    /\ alarms' = [alarms EXCEPT ![b] = @ - 1]
    /\ Deallocate(bufs, b)
    /\ Report(Min(EntriesOf(b)), NoStatus)
    /\ UNCHANGED <<g_cmd_num, inflight, ready, lent, refused>>

\* on_send_cmd_timeout2(b): the buffer stays with ZBOSS.
TimedOut(b) ==
    /\ call = NoCall
    /\ alarms[b] > 0
    /\ EntriesOf(b) # {}
    /\ alarms' = [alarms EXCEPT ![b] = @ - 1]
    /\ Report(Min(EntriesOf(b)), NoStatus)
    /\ UNCHANGED <<bufs, g_cmd_num, inflight, ready, lent, refused>>

Return ==
    /\ call # NoCall
    /\ call' = NoCall
    /\ UNCHANGED <<bufs, g_IssuedCmds, g_cmd_num, inflight, alarms, ready, lent, refused>>

Next ==
    \/ InitBufs
    \/ SendRefused
    \/ SendFails
    \/ SendUntracked
    \/ \E timeout \in Timeouts : SendTracked(timeout)
    \/ AlarmFails
    \/ \E b \in Bufs : Answered(b) \/ AnsweredLate(b) \/ TimedOut(b)
    \/ Return

Spec == Init /\ [][Next]_vars

-----------------------------------------------------------------------------
(* Properties. *)

Entry == [buf : Bufs, cmd_id : CmdIds, timeout : Timeouts]
Reports == [status : Bufs \cup {NoStatus}, cmd_id : CmdIds, timeout : Timeouts]

TypeOK ==
    /\ bufs \in [Slots -> Bufs \cup {ZB_BUF_INVALID}]
    /\ g_IssuedCmds \in [Slots -> Entry \cup {NoEntry}]
    /\ g_cmd_num \in CmdIds
    /\ inflight \in [Bufs -> 0 .. kMaxInFlight]
    /\ alarms \in [Bufs -> Nat]
    /\ call \in Reports \cup {NoCall}
    /\ ready \in BOOLEAN /\ lent \subseteq Bufs /\ refused \in BOOLEAN

\* No ZB_ASSERT can fail: a free entry whenever there is a buffer
\* (send_cmd_impl), an entry for every alarm (on_send_cmd_timeout2), a free
\* slot for every buffer that comes back (deallocate, "we're dead").
AssertsHold ==
    /\ FullSlots(bufs) # {} => EntriesOf(ZB_BUF_INVALID) # {}
    /\ \A b \in Bufs : alarms[b] > 0 => EntriesOf(b) # {}
    /\ \A b \in Bufs : inflight[b] > 0 => EmptySlots(bufs) # {}

\* None can fail as long as ZBOSS accepts every alarm.
AssertsHoldIfArmed == ~ refused => AssertsHold

\* As long as ZBOSS accepts every alarm, a buffer that init() got is in one slot
\* of the pool or carries one packet, and never both or neither: no order of
\* sends, failures, answers, timeouts and answers after the timeout duplicates
\* a buffer, overwrites or leaks one.
BuffersConserved ==
    ~ refused =>
        \A b \in Bufs :
            Cardinality({i \in Slots : bufs[i] = b}) + inflight[b] =
                IF b \in lent THEN 1 ELSE 0

\* ... and an alarm is armed exactly for the commands that wait for their
\* report, and their packet is on its way: a timeout never hits a command that
\* reuses the buffer of the one it was armed for.
AlarmOfItsCommand ==
    ~ refused => \A b \in Bufs :
        /\ alarms[b] = Cardinality(EntriesOf(b))
        /\ alarms[b] > 0 => inflight[b] = 1

\* The comment on cmd_cfg_t::timeout_ms, whose default is 0: "no timeout".
NoTimeoutNeverTimesOut ==
    call # NoCall /\ call.timeout = 0 => call.status # NoStatus

-----------------------------------------------------------------------------
(* Liveness: alarms expire, however busy the stack is, and callbacks return.
   That ZBOSS ever answers is not assumed. *)

FairSpec ==
    /\ Spec
    /\ WF_vars(Return)
    /\ \A b \in Bufs : SF_vars(TimedOut(b))

WaitingFor(id) == {i \in Slots : g_IssuedCmds[i] # NoEntry /\ g_IssuedCmds[i].cmd_id = id}

\* Every command that was accepted with a callback and a timeout is reported,
\* even when its answer is lost, whatever becomes of the other commands.  Of
\* one with timeout 0, which by the comment has none, nothing is promised.
EveryCommandReported ==
    \A id \in CmdIds, t \in Timeouts \ {0} :
        (\E i \in WaitingFor(id) : g_IssuedCmds[i].timeout = t)
            ~> (call # NoCall /\ call.cmd_id = id /\ call.timeout = t)

\* What the application sees of this.
Promise == INSTANCE CmdPromise WITH
    awaited   <- [id \in CmdIds |-> Cardinality(WaitingFor(id))],
    next_id   <- g_cmd_num,
    reporting <- IF call = NoCall THEN <<>> ELSE <<call.cmd_id>>

ImplementsPromise == Promise!Spec

=============================================================================
