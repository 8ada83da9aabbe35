-------------------------------- MODULE TxPower --------------------------------
(***************************************************************************)
(* Setting the transmit power of a set of channels: zb::tx_power in        *)
(* zb_tools.hpp.  ZBOSS sets one channel at a time and answers later; the  *)
(* answer goes on with the next channel, and the last one reports to the   *)
(* application.                                                            *)
(*                                                                         *)
(* All requests share the globals g_*.  Nothing stops an application from  *)
(* making a request while another is in progress, in the callback of       *)
(* another or anywhere else: the second takes the globals over, and both   *)
(* go on with its channels, its power and its callback.                    *)
(***************************************************************************)
EXTENDS Integers, FiniteSets, FiniteSetsExt

CONSTANTS
    kFirst, kLast,       \* channel numbers of the transceiver, 11 and 26
    Masks,               \* channel_mask of the requests, as sets of channels
    Powers,
    Callbacks,           \* on_complete
    Statuses,            \* what ZBOSS may answer; 0 is RET_OK
    Requests,            \* bound: requests ZBOSS works on at once
    ScheduleMayFail      \* can zigbee_schedule_callback return an error?

NoCallback == "nullptr"

\* g_error keeps the larger status: error codes are taken to be positive.
ASSUME TxPowerAssumption ==
    /\ kFirst \in Nat /\ kLast \in kFirst .. 200
    /\ Masks \subseteq SUBSET (0 .. 31)
    /\ Powers \subseteq -128 .. 127
    /\ Statuses \subseteq Nat /\ 0 \in Statuses
    /\ IsFiniteSet(Requests) /\ Cardinality(Requests) <= 50
    /\ ScheduleMayFail \in BOOLEAN

VARIABLES
    g_cb, g_channels_to_set, g_last_channel, g_tx_power, g_error,
    work,        \* what every request in progress waits for
    report,      \* the last call of a callback: [cb, error]
    asked,       \* history: <<channel, power>> ZBOSS was asked to set since
                 \* the last call of set_tx_power
    worst,       \* history: the largest status answered since that call
    alone,       \* history: no request was in progress at that call
    lost         \* history: ZBOSS refused to do something at or since that call

globals == <<g_cb, g_channels_to_set, g_last_channel, g_tx_power, g_error>>
history == <<asked, worst, alone, lost>>
vars == <<globals, work, report, history>>

Channels == kFirst .. kLast
NoWork == [waits |-> "no"]
NoReport == [cb |-> NoCallback, error |-> -1]
InProgress == {r \in Requests : work[r] # NoWork}

Init ==
    /\ g_cb = NoCallback /\ g_channels_to_set = {} /\ g_last_channel = 0
    /\ g_tx_power = 0 /\ g_error = 0
    /\ work = [r \in Requests |-> NoWork]
    /\ report = NoReport
    /\ asked = {} /\ worst = 0 /\ alone = TRUE /\ lost = FALSE

\* The channel on which a loop over g_last_channel stops that begins at `from`.
NextChannel_ExceptLast(from, mask) ==
    Min({c \in from .. kLast - 1 : c \in mask} \cup {Max({from, kLast + 1})})

NextChannel_AnyChannel(from, mask) == from

NextChannel(from, mask) ==
    Min({c \in from .. kLast : c \in mask} \cup {Max({from, kLast + 1})})

-----------------------------------------------------------------------------
(* set_tx_power, which takes the globals over whatever comes of it. *)

TakesGlobals(power, mask, cb, refused) ==
    /\ g_cb' = cb /\ g_channels_to_set' = mask /\ g_tx_power' = power
    /\ g_last_channel' = NextChannel(kFirst, mask)
    /\ g_error' = 0
    /\ asked' = {} /\ worst' = 0 /\ lost' = refused
    /\ alone' = (InProgress = {})
    /\ UNCHANGED report

Accepted_NoCheck(power, mask, cb) ==
    /\ TakesGlobals(power, mask, cb, FALSE)
    /\ \E r \in Requests \ InProgress :
          work' = [work EXCEPT ![r] = [waits |-> "buffer", channel |-> g_last_channel']]

\* ZBOSS will call set_tx_power_for_channel with a buffer,
Accepted(power, mask, cb) ==
    /\ TakesGlobals(power, mask, cb, FALSE)
    /\ g_last_channel' <= kLast
    /\ \E r \in Requests \ InProgress :
          work' = [work EXCEPT ![r] = [waits |-> "buffer", channel |-> g_last_channel']]

\* or zb_buf_get_out_delayed_ext fails,
NoBuffer(power, mask, cb) ==
    /\ TakesGlobals(power, mask, cb, TRUE)
    /\ g_last_channel' <= kLast
    /\ UNCHANGED work

\* or there is no channel to set: RET_ERROR.
NoChannel(power, mask, cb) ==
    /\ TakesGlobals(power, mask, cb, FALSE)
    /\ g_last_channel' > kLast
    /\ UNCHANGED work

SetTxPower(power, mask, cb) ==
    \/ Accepted(power, mask, cb)
    \/ NoBuffer(power, mask, cb)
    \/ NoChannel(power, mask, cb)

-----------------------------------------------------------------------------
(* What ZBOSS calls. *)

\* set_tx_power_for_channel: zigbee_schedule_callback may fail unnoticed.
SetTxPowerForChannel(r, channel) ==
    \/ /\ work' = [work EXCEPT ![r] = [waits |-> "radio", channel |-> channel]]
       /\ asked' = asked \cup {<<channel, g_tx_power>>}
       /\ UNCHANGED lost
    \/ /\ ScheduleMayFail
       /\ work' = [work EXCEPT ![r] = NoWork]
       /\ lost' = TRUE
       /\ UNCHANGED asked

GotBuffer(r) ==
    /\ work[r].waits = "buffer"
    /\ SetTxPowerForChannel(r, work[r].channel)
    /\ UNCHANGED <<globals, report, worst, alone>>

\* The channel is set, or not; on with the next one.
Advances(r, status, next) ==
    /\ work[r].waits = "radio"
    /\ g_error' = Max({g_error, status})
    /\ worst' = Max({worst, status})
    /\ g_last_channel' = next
    /\ UNCHANGED <<g_cb, g_channels_to_set, g_tx_power, alone>>
    /\ \/ /\ next <= kLast
          /\ SetTxPowerForChannel(r, next)
          /\ UNCHANGED report
       \/ /\ next > kLast
          /\ work' = [work EXCEPT ![r] = NoWork]
          /\ report' = [cb |-> g_cb, error |-> g_error']
          /\ UNCHANGED <<asked, lost>>

OnTxPowerSet_WrapsAround(r, status) ==
    LET next == NextChannel(g_last_channel + 1, g_channels_to_set)
    IN  Advances(r, status,
                 IF next > kLast THEN NextChannel(kFirst, g_channels_to_set)
                                 ELSE next)

OnTxPowerSet(r, status) ==
    Advances(r, status, NextChannel(g_last_channel + 1, g_channels_to_set))

Next ==
    \/ \E power \in Powers, mask \in Masks, cb \in Callbacks \cup {NoCallback} :
          SetTxPower(power, mask, cb)
    \/ \E r \in Requests : GotBuffer(r)
    \/ \E r \in Requests, status \in Statuses : OnTxPowerSet(r, status)

Spec == Init /\ [][Next]_vars

-----------------------------------------------------------------------------
(* Properties. *)

TypeOK ==
    /\ g_cb \in Callbacks \cup {NoCallback}
    /\ g_channels_to_set \in Masks \cup {{}}
    /\ g_tx_power \in Powers \cup {0}
    /\ g_error \in Statuses
    \* every request that ends takes the cursor one further
    /\ g_last_channel \in 0 .. kLast + 1 + Cardinality(Requests)
    /\ work \in [Requests -> {NoWork} \cup
                             [waits : {"buffer", "radio"}, channel : Channels]]
    /\ report = NoReport \/
          (report.cb \in Callbacks \cup {NoCallback} /\ report.error \in Statuses)
    /\ asked \subseteq Channels \X (Powers \cup {0})
    /\ worst \in Statuses /\ alone \in BOOLEAN /\ lost \in BOOLEAN

\* g_last_channel hands out the channels of the last request, and hands out
\* each, even if earlier requests are still at work and take some of them: when
\* ZBOSS has nothing left to do, it was asked to set every channel of the last
\* mask to the last power, and the last callback, if any, was told the worst
\* answer.
LastRequestServed ==
    InProgress = {} /\ ~ lost =>
        /\ \A c \in g_channels_to_set \cap Channels : <<c, g_tx_power>> \in asked
        /\ asked # {} => report = [cb |-> g_cb, error |-> worst]

\* A request that began when no other was in progress sets its own channels
\* only, one at a time and in their order.
AloneOnly ==
    alone =>
        /\ \A q, r \in InProgress : q = r
        /\ \A r \in InProgress : work[r].channel = g_last_channel
        /\ \A a \in asked : a[1] \in g_channels_to_set /\ a[1] <= g_last_channel

\* ZBOSS finds a buffer in the end and answers every request.
FairSpec ==
    /\ Spec
    /\ \A r \in Requests :
          /\ WF_vars(GotBuffer(r))
          /\ WF_vars(\E status \in Statuses : OnTxPowerSet(r, status))

NewRequest ==
    \E power \in Powers, mask \in Masks, cb \in Callbacks \cup {NoCallback} :
        SetTxPower(power, mask, cb)

\* Requests that overlap never keep each other going: unless the application
\* goes on making new ones, all end.
RequestsEnd == <>[][~ NewRequest]_vars => <>[](InProgress = {})

===============================================================================
