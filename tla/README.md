# A TLA+ model of nrf_zb_cpp

nrf_zb_cpp is a header-only C++ layer over ZBOSS, the Zigbee stack of the
nRF Connect SDK.  An application describes its endpoints, clusters, attributes
and commands as C++ types; the library turns the description into what ZBOSS
expects, sends and dispatches cluster commands, and gives the application
alarms, settings and attribute reports.  This directory holds a model of the
parts of the library that keep state or make decisions, the TLC runs that check
the model and the TLAPS proofs about it.  All paths below are relative to
`src/include/nrfzbcpp/`.

## The system's parts

Everything the library does runs in one thread, the ZBOSS thread: ZBOSS calls
the library, the library calls the application's callbacks, and these call the
library again.  There is no preemption inside a call.  What makes the code hard
is therefore not two threads but *re-entrancy* (a callback changes the state its
caller is about to use), *late calls* (ZBOSS still calls for something the
library has given up) and *shared fixed-size pools*.

| part | state | operations | interacts with | what must hold |
|---|---|---|---|---|
| alarms and timers, `zb_alarm.hpp` | free list of handles, handle of every alarm, shortage flag, countdown | Setup, Cancel, on_scheduled_alarm, on_timer, check_death_count ... | ZBOSS's scheduler; callbacks that call back in | no handle lost or shared; every alarm called once with its last callback; shortage noticed in time |
| sending commands, `zb_desc_helper_types_ep.hpp`, `zb_buf.hpp` | pool of buffers, table of issued commands, next id | init, send_cmd, on_send_cmd_cb2, on_send_cmd_timeout2 | ZBOSS's packet queue and scheduler; callbacks that send again | buffers conserved; every command reported once with its id; no assertion fails |
| receiving commands, `zb_desc_helper_types_cluster.hpp`, `zb_desc_helper_types_cmd_handling.hpp` | what ZBOSS has registered, slots of additional handlers | generic_cluster_init, on_cluster_cmd_handling, on_cluster_check_value, raw_handler | ZBOSS's cluster dispatch | a command reaches the handler of its own endpoint and cluster; a buffer is either answered or left to ZBOSS, once |
| device callback and reports, `zb_handlers.hpp` | none (tables fixed at compile time) | tpl_device_cb, tpl_report_cb | ZBOSS's device interface | a typed handler gets the value that was written or reported, whole, or none |
| signals, `zb_signals.hpp` | none (handlers fixed at compile time) | tpl_signal_handler | ZBOSS's signals | the handlers of a signal run, the default handler unless they say no, the buffer is freed once |
| settings, `zb_settings.hpp` | attributes in RAM, their copies in flash | set, export, on_setting_changed | Zephyr settings | what is loaded is what was last saved |
| transmit power, `zb_tools.hpp` | the globals of the last request | set_tx_power, on_tx_power_set | ZBOSS's asynchronous request | all requests share the globals; whatever overlaps, the last one is served completely and all end |
| battery, `zb_power_config_tools.hpp` | the block that was set up, two attributes of its cluster | setup, update, update_zb_callback | ADC, attributes | both attributes tell of the same measurement, in their units and exact in range |
| poll control, `zb_poll_ctrl_tools.hpp` | one alarm and the cluster its function captured, for all clusters | configure_poll_control | alarms, signals | the device settles at the interval of the last configured cluster, converted without error |
| values on the wire, `zb_str.hpp`, `zb_types.hpp` | strings and arrays of fixed size | serialize, deserialize | command arguments | never beyond the buffer, what is read is what was written |
| library clusters, `zb_*_cluster_desc.hpp` | none: descriptions, and what a constructor sets | sums of descriptions, lists of sensors | descriptions, battery, poll control | what is added up is of one cluster, has no id twice, and every member fits its declared type |
| descriptions, the other headers | none: computed by the compiler | lookups, orderings, unique ids | all of the above | lookups find what was declared |

ZBOSS, Zephyr and the application are external: they appear as actions that
may happen whenever their contracts let them.

## Modules

Every module states properties after the actions.  A definition whose name ends
in `_Something` (`Freed_LinkLost`, `TimedOut_Deallocates`) is a *mutated form* of
the definition that follows it: the same code with a plausible bug.  No action
uses it; it is there to show that the property it is paired with in
`PROJECT.json` does depend on that code.

### Alarm (with AlarmService, MCAlarm, AlarmProofs)

`Alarm` models `zb_alarm.hpp`.  `g_TimerList` is the record of `head` and the
array `entries`; an entry is a union in the code and here one of two records, so
that reading the wrong side of it is an error TLC would stop at.  `h[a]` is
`zb_alarm_t::h`; `pending` is what ZBOSS has scheduled, pairs of a trampoline
(`on_scheduled_alarm<on_alarm>` or `<on_timer>`) and a handle.  `Setup`, `Cancel`
(also the destructors) are one step each.  `OnScheduledAlarm` is the part of the
trampoline before the callback; then `call` holds the copy of the entry, and any
`Setup` and `Cancel` may happen, as a callback may do that, until `ReturnStop`
or `ReturnGoOn` (the callback of a timer returns true and `on_timer` sets it up
again).  `peak`, the largest number of alarms that ever ran together, is a
history variable.  Left out: durations (ZBOSS may run any pending alarm), the
callbacks' parameters, and the life of the objects (alarms are static).

`AlarmService` is the abstract specification: alarms with slots and no handles.
`ImplementsService` maps the handles away.

### PollControl (with MCPollControl; EXTENDS Alarm; proofs in AlarmProofs)

A program that starts on ZBOSS's signals (`zb_signals.hpp`) and configures its
Poll Control clusters in the handler.  `handler_mem` is what the constructors of
`handler_mem_t` make of a callable, `Told` what a handler learns of the signal's
status.  `SleepLater`, `SleepAtOnce` and `StayAwake` are the three ways through
`configure_poll_control`; the alarm it sets up is one of `Alarms`, so that it
competes for handles with the application's own and ZBOSS may refuse it, which
the code does not look at.  `OnAlarm` is the trampoline of `Alarm` with the
effect of the alarm's function, which is that of the cluster captured last,
whoever armed the alarm.  A restart forgets everything.  `configured` is a
history variable: the last cluster configured, and whether its alarm was armed.
`PollSettles` speaks of configurations that armed the alarm.  Of the others the
model shows why: a refused alarm leaves the first interval in place, and a
configuration that sleeps at once or stays awake does not cancel the alarm of an
earlier one, which then sets its interval over the later configuration's.

### CmdSend (with CmdPromise, MCCmdSend, CmdSendProofs)

`CmdSend` models `pre_alloc_zb_bufs_out`, the table `g_IssuedCmds`, and
`send_cmd_impl` split by the way it ends: `SendRefused` (no buffer),
`SendFails` (ZBOSS refuses the packet), `SendUntracked` (no callback),
`SendTracked`, `AlarmFails`.  `Answered`, `AnsweredLate` and `TimedOut` are the
two functions ZBOSS calls; `call` is the report the application is in, and every
way of sending may happen there.  `inflight` counts the packets ZBOSS will still
report, by buffer, and the history variable `lent` holds the buffers that
`init()` got, which may be fewer than there are slots.  A `ZB_ASSERT` is a guard
of the step that makes it, and `AssertsHold` says that no such guard ever holds
a step back.  It does not hold once `zb_schedule_app_alarm` has refused an alarm
(`refused`, a history variable): see the findings.  The properties of the pool
are stated for the runs up to that moment, the promise to the application for
all runs.

`CmdPromise` is the abstract specification: ids and reports, no buffers.  Its
`Waiting` has one element for every command that waits for its report, and there
are never more than slots; `CmdSend!WaitingFor` counts those commands by id.

### ClusterDispatch (with MCClusterDispatch, ClusterDispatchProofs, NatMin)

The init function of every cluster of the device runs once, in any order:
`InitPlain` (nothing to register), `InitRegistered` (ZBOSS has no entry for this
id and role yet), `InitRefused` (ZBOSS returns another error, which the code does
not look at), `InitAdditional` (a slot of
`reserved_array_additional_cluster_handlers_t`), `InitNoMemory`.  A
description with a `zboss_init_func` may let ZBOSS register handlers of its own
first (`AfterZboss`, the record `ZbossOwn`): if nothing else was registered for
the id and role these take the place, the library's functions go to a slot, and
nobody looks in it (`Shadowed`).  Functions can be lost in silence:
`g_GlobalErrorHandler`, which an application may have set or not, is called for
want of a slot only, and what ZBOSS refused (the history variable `refused`) is
told to nobody.  Then requests
come: `OnClusterCmdHandling` with every result a callback may give,
`OnClusterCheckValue` and the lists of commands.  `Resolve` is the choice both
make: the function ZBOSS calls belongs to the endpoint that registered first and
looks in the slots when the request is for another one.  `last` is what became
of the last request.  A call of a null function pointer is an outcome, not an
error of the model.

`Lost` are the clusters whose functions are nowhere.  `ServedUnlessLost` speaks
of all others, told of a loss or not, except where a description lets ZBOSS
register first: there the library's functions may never be called, against what the
repository's own README says of validators (see the findings).  `SlotsSuffice` says when three slots are enough.

### CmdArgs (with MCCmdArgs, CmdArgsProofs)

A variable is the sequence of its bytes.  ZBOSS writes the sender's variables
(`WriteAttr`: any bytes of the right wire type that `TypeValidator` accepts),
`SendCmd` packs them (`serialize_to` of each kind, `store_to` with what is left
of the packet), `RawHandler` unpacks them with `cmd_to_arg_t`.  Two things
depend on what the compiler does and are constants: what the sender passes (a
literal is an `int`) and in which order the receiver's compiler evaluates the
arguments of the call in `raw_handler`, each of which moves the pointer.  The
recursions over `Args...` are recursive functions: `Sizes`, where each argument
begins, and `Stored` in `StoreTo`.  A literal may need more bytes than the
static_assert of `ep_desc_t` reckoned for the declared type, so `AlwaysStored` and
`FixedArgsArrive` speak of commands sent without literals.

### Settings (with MCSettings, SettingsProofs)

`SetAttrValue` is `tpl_device_cb` for a written attribute: the handlers that fit
are put in `todo` and run one by one in their order (`Handler`,
`OnSettingChanged`), so that power may fail between any two.  `Export` does the
same with the entries; `job` is the attribute whose handlers run, or `EXPORT`.
`Restart` loses RAM, may change the size of every attribute (another firmware)
and begins a load; `ZigbeeSettingsSet` takes the records in any order.  A read
that fails half way leaves the old value or `Torn`, one that no one wrote.  An attribute stands
for the triple of endpoint, cluster and attribute id.  Left out: error paths of
`tpl_device_cb` for a missing parameter and lists of nodes that change while a
callback runs.

### Declarations (with MCDeclarations, DeclarationsProofs, NatMin)

The description of a device grows item by item (`AddEndpoint`, `AddCluster`,
`AddAttribute`, `AddCommand`); after each item the operators compute what the
templates compute: the static assertions (`Compiles`), the attribute list with
the revision and the end mark, the simple descriptor, the counts that reserve
room for reports (`EndpointTables`), the two lists of commands (`CommandIds`) and
the lookups of handlers and validators (`LookupsMatch`).  The recursions over
parameter packs (`kAllUniqueIds`, `kAllClientClustersAtEnd`, `SumOf`) keep the
shape of the code, as recursive functions.  `NatMin` has the lemmas about minimum,
maximum and induction that several proofs share.

### ZclTypes, TypedValues, ClusterLibrary (with MCDeclarations; EXTENDS Declarations)

`ZclTypes` is `zb_types.hpp`: C++ types of members, what the templates ask of
them, and the ZCL type each gets.  `ClusterLibrary` has every description of
`zb_*_cluster_desc.hpp` as a cluster of `Declarations`, named as its struct and
added up with `Plus` as the code does with `operator+`; `OccupancyCfgs` are the
lists of sensors the template of occupancy sensing accepts.  A device may begin
with any of them (`LibraryInit`), be continued with items of the application's,
or have a second one (`AddLibraryCluster`).  `LibraryFits` says that they compile
and that no declared type is wider than its member.

`TypedValues` is what a typed handler reads: `ReadFor` the union in which ZBOSS
passes a written value, `TypedReportData` the bytes of a report.  Bytes have
names, so that reading the wrong member, too few bytes or a neighbour's shows.
`TypedValuesArrive` compares, for every attribute of every device, what arrives
with what was sent, and says which reports stop the device: `bool` for any
handler, and what is declared as a bitmap or a Bool.

### Battery (with MCDeclarations; EXTENDS ClusterLibrary; proof in DeclarationsProofs)

`DeviceSpec` is the whole device: a description grows, with clusters of the
application and of the library; once it begins with an endpoint that is a single
battery cluster, blocks may be set up
(`setup`: the first one is the one, whether its ADC works or not) and measure
(`update`: any reading, converted to mV or not).  `Place` finds the attributes
through the attribute list of `Declarations`, so that a wrong list would send the
percentage to another member.  The arithmetic is that of the code, in `int32_t`
with C++'s division and cut to a `uint8_t`.

### TxPower (with MCTxPower, TxPowerProofs)

`SetTxPower` takes the globals over and then either has a buffer promised, is
refused one, or finds no channel.  `GotBuffer` and `OnTxPowerSet` are what ZBOSS
calls; `work[r]` is what request `r` waits for, `Requests` bounds how many there
are at once.  Error codes are taken to be positive (the code keeps the larger
one).  The history variables say what ZBOSS was asked for since the last
`set_tx_power`, the worst answer, whether that request began alone, and whether
ZBOSS refused anything.

## What the runs check

| run | instance | what it shows |
|---|---|---|
| `alarm_pool` | an alarm and a timer with 2 callbacks and the alarm of poll control, 5 Poll Control clusters, 3 signals; 2 handles; ZBOSS may refuse | list, holders and schedule agree; the shortage flag is exact; alarms nobody sets up end; the countdown ends in the restart; polling settles at the last configured interval; refinement of `AlarmService` |
| `alarm_timer_goes_on` (violation) | 2 alarms, 1 timer, 2 handles, ZBOSS never refuses | a timer whose callback returned true stops when the callback gave its handle away |
| `cmd_pool` | 2 slots (the default of `cmd_queue_depth`), 2 buffers, ids modulo 3, alarms may be refused | buffers conserved, assertions hold while no alarm is refused; every accepted command with a callback is reported at most once, with its id, and in the end if it has a timeout; refinement of `CmdPromise` |
| `cmd_alarm_fails` (violation) | the same, ids modulo 4 | after a refused alarm `deallocate` runs into its assertion |
| `cmd_no_timeout` (violation) | alarms never refused | `timeout_ms` 0 times out |
| `dispatch_uniform` | 3 endpoints, 2 clusters, every placement and order, with and without ZBOSS's own handlers, an error handler and refusals; 3 slots as in the code; one request | requests reach their own cluster; a cluster that has not lost its functions is served with them, whatever others lost; slots are lost only when all are needed, and an error handler hears of each loss |
| `dispatch_mixed` (violation) | one cluster with a validator on one endpoint only | a write on the other endpoint calls null |
| `args_declared` | six signatures, contents of 2 values | what is stored fits; numbers and arguments of fixed size arrive if arguments are evaluated from left to right |
| `args_arrive` (violation) | strings and literals, both orders of evaluation | strings and literals do not arrive |
| `settings_flash` | 2 stored attributes of 1 or 2 bytes, 2 values, one obsolete record, a handler for every attribute | what was saved is what is loaded, whatever the restart; exports tell the truth; loads touch their own attribute only |
| `declared_device` | every description of up to 5 items of 2 endpoints, 2 clusters, 3 attributes, 2 commands; every library cluster with one item or library cluster more; battery blocks with 13 readings | exactly the ambiguous descriptions are rejected; tables and lookups agree; the library's descriptions fit; typed handlers get what was sent; a battery tells what it measured |
| `tx_power` | 3 channels, 2 requests, 2 powers, 4 masks, ZBOSS may refuse | the last request is served although requests share globals; overlapping requests end |

**Why the bounds are enough.** In each instance the interesting limit is
reached: three alarms, one of them poll control's, ask for two handles, so the
list runs empty, is refilled in every order, and a timer's handle can be given
away; two commands fill the queue while a third is refused, and with ids modulo
3 the id wraps while commands are under way; three endpoints with two clusters
need up to four additional slots and there are three, the number in the code;
five items are enough for two endpoints that share a cluster, for two clusters
on one endpoint with an attribute, and for a list of three attributes, which is
where the recursion of `kAllUniqueIds` leaves its base cases; two requests of
three channels can take each other's cursor at every point.  Of the five Poll
Control clusters three take the alarm, two of them with an interval at the edge
("never", and one whose milliseconds wrap), one sleeps at once and one stays
awake; 2^32 is scaled to `kU32` = 8192.  The readings of the battery lie at and
on both sides of the bounds, of a 100 mV step, of what the percentage can hold
and of a wrap.  A second library cluster is only added beside a first one, so
that descriptions of the application's and of the library do not multiply; the
theorems below cover all other sizes, and any items beside any library cluster.
Bounds in the modules: `kIdModulus` (256 in the code), `kMaxInFlight` (packets
ZBOSS holds in one buffer, more than one only after the failure of an alarm),
`kMaxItems`, `Requests`, and `MCOneRequest`: a request changes nothing but
`last`, so the run lets every request follow every registration once.  Symmetry is used where values are interchangeable and
no liveness is checked (`dispatch_uniform`, `declared_device`).
`declared_device` turns the deadlock check off: a finished description ends.

**Fairness.**  `Alarm!FairSpec`: ZBOSS runs an alarm that is due (strong: while a
callback runs, none can), callbacks return, and the application calls
`check_death_count` again and again, as its contract asks.
`PollControl!FairStartSpec` is that fairness and no more: each of its actions is
enabled exactly when the composite's is.  That signals stop is a premise of
`PollSettles`, not an assumption.  `CmdSend!FairSpec`:
alarms expire and callbacks return; that an answer ever comes is *not* assumed.
`TxPower!FairSpec`: ZBOSS finds a buffer and answers every request it accepted.

## What is proved

All theorems hold for every value of the constants that the assumption of the
module allows (`AlarmAssumption`, `PollControlAssumption`, `CmdSendAssumption`,
`ClusterDispatchAssumption`, `CmdArgsAssumption`, `SettingsAssumption`,
`DeclarationsAssumption`, `BatteryAssumption`, `TxPowerAssumption`: finite sets,
the ranges of the types in the code, and what its static_asserts check).  Every
safety invariant and every refinement that a passing run checks is also a
theorem; two need a property of the application's own kinds (`KindsFit`).

* **AlarmProofs.** `Invariance` of `IInv`, and from it `TypeCorrect`,
  `HandlesAreConserved`, `PendingIsOwned`, `LowOnHandlesIsExact`.  (`IInv` is no
  invariant of a run of its own: the theorem covers it.)  That the free list, the
  holders and ZBOSS's schedule agree is not enough for the last one: the
  shortage is recognised by the *number* of a handle.  The strengthening
  (`FreshAtEnd`) is that the handles never taken wait at the end of the list in
  order, so that handle n is first taken when the n smaller ones are all held.
  `AlarmImplementsService`: every step of `Alarm` is one
  of `AlarmService` or changes nothing the application sees.  Besides `IInv` it
  needs that the callback that runs was entered through its alarm's own
  trampoline (`CallOwned`, part of `IInv`): else an alarm could be re-armed as a
  timer.

  Then `PollControl`.  `StartIsAlarm`: each of its steps is one of `Alarm` or leaves
  the alarms alone, so that what is proved of `Alarm` holds of it
  (`StartConservesHandles`, `StartPendingOwned`, `StartLowOnHandlesExact`,
  `StartImplementsService`: these are what the run `alarm_pool` checks).  Its own
  is `IntervalsSettle`: once the alarm of the last configuration has been called,
  the interval in place is that configuration's.  It rests on `AlarmHasItsCluster`:
  the function the alarm will call has captured the cluster configured last, and
  until then the first interval stays in place.
* **CmdSendProofs.** `Invariance`, and from it `TypeCorrect`, `BuffersAreConserved`,
  `AlarmsBelong`, `AssertionsHold`.  The invariant counts: as long as no alarm was
  refused, every buffer that was lent is in exactly one slot or carries exactly
  one packet (`PoolOwned`, `PacketsOwned`), and every command that waits has a
  buffer and an alarm of its own (`CommandsOwned`).  That an answer always finds an
  empty slot is a counting argument: a buffer on its way is in no slot, and there
  are no more buffers than slots.  `CommandsKeepPromise` is the refinement of
  `CmdPromise`, and holds in all runs, those with refused alarms too: it needs only
  `TypeOK` and that the entries of the table are counted as `Waiting` counts them.
* **ClusterDispatchProofs.** `RegistryAlways`: each initialised cluster is
  registered, in one slot, or lost; the slots belong to clusters
  whose id and role ZBOSS has (else nobody would look in them).  From it
  `TypeCorrect` and `LossesAreTold`.  `SlotsAlwaysSuffice` is a counting argument:
  were a cluster lost, the slots would hold as many clusters as there are slots
  and it would be one more; behind each of them another of its id and role is
  registered (`LostBehind`, `SlotsReachable`), so that of every id and role that
  needs no slot one cluster is left over (`GroupOutside`).  `RightClusterServes`
  needs no more than
  the guards of `Find`, with `MinIsLeast` (`NatMin`) for the search.  What ZBOSS
  registers on its own shadows the library's functions only where some
  description asked for it (`ZbossAsked`, part of the invariant).
  `ServedOrLost` (which excepts those clusters) and `NoNullCallUniform` assume
  `Uniform` (a cluster is described alike on all endpoints), the second also
  `OneRoleEverywhere`; `dispatch_mixed` shows that `Uniform` is needed.
* **TxPowerProofs.** `Invariance`, and from it `TypeCorrect` (the cursor is a
  `uint8_t`; each request that ends moves it one further, so the number of
  requests bounds it), `LastRequestIsServed`, `AloneSetsItsOwn` and
  `RequestsComeToAnEnd`.  The
  invariant says of the shared cursor that every channel of the last mask up to
  it was asked for or waits for its buffer (`HandedOut`), and that it is behind
  all channels when the last request ends (`Finished`).
* **SettingsProofs.** `Invariance`, and from it `TypeCorrect`,
  `CleanAttributesAreStored` and `ExportsAreComplete`, for any attributes, handlers,
  sizes and values.  `CleanIsStored` and `ExportStoresAll` are not inductive:
  a load could overwrite what was assigned or exported before it ended, were it not
  that records are loaded first and each once (`LoadingFirst`), and an export that
  succeeds says something of all entries because those it has passed are stored
  (`ExportedSoFar`).  `LoadsTouchTheirOwn` is an action
  property of every step of a load.
* **CmdArgsProofs.** `Invariance`, and from it `TypeCorrect`,
  `ArgumentsAreStored`, `FixedArgumentsArrive` and `NumbersAreReadBack`, for
  signatures of any length and arguments of any size.  The invariant says of every
  variable that it has its size, holds bytes and a length its type accepts, and
  of the packet that it is what `StoreTo` makes of the variables sent.  Then each
  `serialize_to` takes at most the size of its argument, so that the sum the
  compiler checks leaves room for each one; and when all types are of fixed size,
  argument i lies at `Sizes(sig)[i - 1]`.  `FixedArgumentsArrive` assumes that the
  receiver's compiler evaluates from left to right; `args_arrive` shows what
  happens otherwise.
* **DeclarationsProofs.** First what the recursions compute for parameter packs of
  any length: `UniqueIds` (the one of `kAllUniqueIds` has three base cases),
  `ClientsAtEnd`, `AddedCommands`, `SumAdds`, `PlusAllAdds`.  Next the library's
  descriptions: each struct has distinct ids and types that fit, the structs of a
  sum have no id in common, and so every sum is well described
  (`LibraryIsWellDescribed`), for every list of sensors too.

  Then `Invariance` (a description is made of what the application can write) and,
  for all such descriptions, `TypeCorrect`, `AssertsAreExact`,
  `AttributesAreReached`, `LookupsAgree` and `TablesAgree`.  These are about `Spec`,
  the application's own descriptions.  `DeviceInvariance` and `DeviceIsWellFormed`
  are the same of `DeviceSpec`, where clusters of the library stand among the
  application's, are continued with items of its own and are measured.  The
  invariant keeps the ids apart that the attribute list itself adds.

  `LibraryAlwaysFits` and `TypedHandlersGetTheValue` are about `DeviceSpec` too and assume
  `KindsFit`: an attribute of the application's declares no type, or one of its
  member's size.  Nothing in the code asks for this, and without it ZBOSS reads
  and writes the wrong number of bytes; TLC checks it of the kinds of the run
  (`MCKindsFit`).  That the library's own attributes fit is proved, not assumed.

  `BatteryIsTold` is about `DeviceSpec`: whatever was described before, both
  attributes are found at their members, and the arithmetic is exact for any
  bounds of the voltage.  It assumes readings below 25.6 V (`ReadingsFit`), which is
  what a byte holds; above that the voltage is cut.

**Recursive functions.**  tlapm cannot use the induction theorems of its library.
Where a proof speaks of what a recursive function computes, it shows that a
function with the values claimed satisfies the recursion, and that any function
that does has these values, each by `NatMin!SetInduction`: a set that contains 0
and with each number the next contains all.

Only model-checked is liveness, which is out of the prover's reach: `Expires`,
`CountdownEnds`, `PollSettles`, `EveryCommandReported`, `RequestsEnd`.  Of four the
safety half is proved, so that only the fairness argument rests on the runs:

* `RequestsEnd`: `RequestsComeToAnEnd` gives a number (`StepsLeft`) that every step
  but a new request makes smaller, however many requests overlap.
* `PollSettles`: `IntervalsSettle`.
* `EveryCommandReported` (of commands with a timeout; that one without a timeout
  is reported all the same is the finding of `cmd_no_timeout`): a command stays in
  the table until it is reported
  (`CommandsKeepPromise`), and has an alarm of its own as long (`AlarmsBelong`).
* `Expires`: an alarm that is armed is pending under its own handle
  (`PendingIsOwned`), and nobody but its owner arms it (`AlarmImplementsService`).

## Findings

With a run:

* A timer whose callback returns true can stop (`alarm_timer_goes_on`).
* A refused timeout alarm gives a buffer back that ZBOSS still has
  (`cmd_alarm_fails`).
* `timeout_ms = 0`, documented as no timeout, times out at once
  (`cmd_no_timeout`).
* A null validator of a slot is called (`dispatch_mixed`).
* Arguments that are strings, or literals, do not arrive (`args_arrive`).

Met while reading, without a run of their own:

* `Find` ignores the role: an endpoint with both roles of a cluster may answer
  with the other role's functions.  When the slots ran out, every write to the
  affected endpoint is refused with RET_BUSY.
* Literals passed to `send_cmd` are packed as `int` (README.md:224 shows one), and
  the order in which the arguments in `raw_handler` are evaluated is the
  compiler's choice.
* `serialize_from` of strings and buffers copies one byte too few.
* The status given to a command's callback lies in a buffer already back in the
  pool (`zb_desc_helper_types_ep.hpp:265`).
* Typed report handlers assert for `bool` and bitmap attributes.
* `make_endpoint` and `configure_device` check neither endpoint ids nor clusters
  for uniqueness; the ids 0xFFFD and 0xFFFF of an attribute pass the assertions
  although the list adds one and ends with the other.
* README.md:316, 697 and 700 say that a `cmd_queue_depth` of 0 means inferred; the
  code takes it as it is.
* A transmit power request refused for want of a channel has already taken the
  globals of the one in progress: that one is cut short and the refused one's
  callback is called.  With overlapping requests a callback may be called early
  and twice.  The result of `zigbee_schedule_callback` is ignored, and no callback
  comes then.
* Where a description has a `zboss_init_func` that registers handlers, the
  library's need never run: the validator of batt_manufacture, which README.md:615
  says is called before a write, sits in a slot nobody reads.  The model reaches
  such states (`Shadowed`), and `ServedUnlessLost` leaves those clusters out
  because it does not hold of them.
* A cluster that finds no slot is lost without a word unless the application has
  set `g_GlobalErrorHandler`, which is `nullptr` by default
  (`zb_desc_helper_types_cluster.hpp:645`).  Any error of
  `zb_zcl_add_cluster_handlers` but RET_ALREADY_EXISTS (line 676) is taken for
  success, and no handler is called.
* `configure_poll_control` does not look at the result of `Setup`: without a
  handle the device polls at its first interval until it is configured again.  It
  does not cancel the alarm of an earlier configuration either, and intervals of
  more than 4294967 quarters of a second wrap.
* A voltage outside the configured bounds gives a battery percentage above 200
  or a wrapped one.  A raw reading that could not be converted is taken for mV.
* `zb_zcl_rel_humid_ext_t` has no `get()` in its description and cannot be used.
* A callback that returns RET_BUSY for a command leaves its buffer to nobody.
* The result of `settings_save_one` is ignored.

## Not modelled

* The parameters of signals, `zigbee_default_signal_handler` and the buffer's
  end: they follow every handler and touch nothing that the model keeps.
* Check-ins of poll control, the ADC and the regulator: external, and inputs.
* Report callbacks of `zb_handlers.hpp` beyond the typed values: the lists of
  nodes that an application changes while a callback runs.
* `make_endpoint` and `configure_device`, manufacturer codes, and the layout of
  the C structures.
* `zb_zcl_rel_humid_ext_t` and `zigbee_bin_typed_t`, which do not compile when
  used.
* A second thread that uses alarms (the spin lock): planned; the ZBOSS functions
  the alarms use may only be called in the ZBOSS thread.
* Lifetime of alarm and timer objects; contents of buffers and addresses.

## Plan

Done in this order: Alarm, CmdSend, ClusterDispatch, CmdArgs, Settings,
Declarations, TxPower; proofs of the first, third and last; ZBOSS's own handlers
in ClusterDispatch and its proofs; ZclTypes, TypedValues and ClusterLibrary;
Battery; PollControl; proofs of CmdSend, Settings, PollControl, Declarations,
CmdArgs and Battery; the library's clusters in the proofs of Declarations, and
those of ClusterLibrary and TypedValues.

To come, in this order:

1. `AlarmThreads`: the alarms with the spin lock and two threads.
2. The lists of nodes of `zb_handlers.hpp`.
