------------------------------- MODULE Battery -------------------------------
(***************************************************************************)
(* battery_measurements_block_t (zb_power_config_tools.hpp) on a device    *)
(* whose first cluster is the library's Power Configuration of a battery:  *)
(* blocks set up with an ADC that may not work, and measurements that      *)
(* write the attributes of the cluster.  An update turns a regulator on    *)
(* and off again, which changes nothing here.                              *)
(***************************************************************************)
EXTENDS ClusterLibrary

CONSTANTS
    Blocks,              \* blocks of one battery_cfg_t
    minBatteryVoltage,   \* in mV
    maxBatteryVoltage,
    AdcReadings          \* in mV, or raw if they cannot be converted

ASSUME BatteryAssumption ==
    /\ minBatteryVoltage \in Nat /\ maxBatteryVoltage \in Nat
    /\ minBatteryVoltage < maxBatteryVoltage
    /\ AdcReadings \subseteq Nat
    /\ \A reading \in AdcReadings : reading < 65536

VARIABLES
    g_Battery,     \* the block that was set up, or <<>>
    values,        \* the attributes of the cluster, by the place of their data
    measured       \* history: <<mV>> of the last measurement in mV, or <<>>

battery_vars == <<g_Battery, values, measured>>

BatteryClusters == {battery_info, Plus(battery_info, battery_settings)}

\* kAttrBattVoltage and kAttrBattPercentage
Voltage == battery_info.attrs[1]
PercentageRemaining == battery_info.attrs[2]

\* Where ZBOSS puts what is assigned to zb_ep.attr<a>().
Place(a) == ZbossFinds(AttrRaw(device[1], device[1].clusters[1], a))

g_BatteryVoltageRange == maxBatteryVoltage - minBatteryVoltage

\* Division in C++ rounds to zero.
Quotient(a, b) == IF a < 0 THEN -((-a) \div b) ELSE a \div b

AsU8(n) == n % 256

Percentage_DividesFirst(mV) ==
    AsU8(Quotient(mV - minBatteryVoltage, g_BatteryVoltageRange) * 200)

Percentage(mV) ==
    AsU8(Quotient((mV - minBatteryVoltage) * 200, g_BatteryVoltageRange))

-----------------------------------------------------------------------------

BatteryInit ==
    /\ g_Battery = <<>>
    /\ values = [place \in {<<1, 1, 1>>, <<1, 1, 2>>} |-> 0]
    /\ measured = <<>>

\* The first block counts as set up, whether its ADC works or not; to others
\* setup() only returns an error.
setup(b) ==
    /\ g_Battery = <<>>
    /\ g_Battery' = <<b>>
    /\ UNCHANGED <<values, measured>>

\* update() with a reading: it may not be in mV, which update() ignores.  An
\* ADC that cannot be read leaves everything as it is.
update(reading, in_mV) ==
    /\ values' = [values EXCEPT ![Place(Voltage)] = AsU8(reading \div 100),
                                ![Place(PercentageRemaining)] = Percentage(reading)]
    /\ measured' = IF in_mV THEN <<reading>> ELSE <<>>
    /\ UNCHANGED g_Battery

\* What the application schedules.
update_zb_callback(reading, in_mV) == g_Battery # <<>> /\ update(reading, in_mV)

BatteryNext ==
    \/ \E b \in Blocks : setup(b)
    \/ \E reading \in AdcReadings, in_mV \in BOOLEAN : update_zb_callback(reading, in_mV)

(* A device that describes what it likes, until its program measures.      *)

DeviceInit == (Init \/ LibraryInit) /\ BatteryInit

Described == g_Battery = <<>> /\ UNCHANGED battery_vars

Measures ==
    /\ device[1].clusters \in {<<c>> : c \in BatteryClusters}
    /\ BatteryNext
    /\ UNCHANGED vars

DeviceNext ==
    \/ Described /\ Next
    \/ Described /\ \E c \in Library : AddLibraryCluster(c)
    \/ Measures

DeviceSpec == DeviceInit /\ [][DeviceNext]_<<vars, battery_vars>>

-----------------------------------------------------------------------------

\* After a measurement in mV between the bounds the cluster tells the voltage
\* in 100 mV and the percentage in halves, both rounded down and of the same
\* measurement; a percentage above 200 is only told of a voltage out of bounds.
BatteryTold ==
    measured # <<>> =>
        LET mV == measured[1]
            voltage == values[<<1, 1, 1>>]
            halves == values[<<1, 1, 2>>]
        IN  /\ voltage * 100 <= mV /\ mV < (voltage + 1) * 100
            /\ mV \in minBatteryVoltage .. maxBatteryVoltage =>
                  /\ halves * g_BatteryVoltageRange <= (mV - minBatteryVoltage) * 200
                  /\ (mV - minBatteryVoltage) * 200 < (halves + 1) * g_BatteryVoltageRange
                  /\ halves <= 200

==============================================================================
