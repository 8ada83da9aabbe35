---------------------------- MODULE ClusterLibrary ----------------------------
(***************************************************************************)
(* The clusters that the library describes (zb_*_cluster_desc.hpp), as     *)
(* items of a device of Declarations: the application may declare any of   *)
(* them, add attributes of its own to it, or put two on an endpoint.  An   *)
(* operator is named for the C++ struct whose description it is, without   *)
(* zb_zcl_ and the endings _t and _attrs_t.                                *)
(***************************************************************************)
EXTENDS Declarations, TypedValues

Read == {"Read"}
RW == {"Read", "Write"}
RP == {"Read", "Report"}
RPS == {"Read", "Report", "Scene"}

\* attribute_t with the type and the validator of its member, or another type.
Attr(id, mem, access) ==
    [id |-> id, access |-> access, mem |-> mem, type |-> TypeToTypeId(mem),
     validator |-> HasTypeValidator(mem)]

AttrAs(id, mem, access, type) ==
    [id |-> id, access |-> access, mem |-> mem, type |-> type,
     validator |-> HasTypeValidator(mem)]

CmdOut(id, size) == [id |-> id, receive |-> FALSE, size |-> size]
CmdIn(id) == [id |-> id, receive |-> TRUE, size |-> 0]

Server(id, attrs) == [id |-> id, role |-> "Server", attrs |-> attrs, cmds |-> <<>>]
Client(id, cmds) == [id |-> id, role |-> "Client", attrs |-> <<>>, cmds |-> cmds]

\* operator+ of two descriptions, which asserts that they are of one cluster.
Plus(c, d) == [c EXCEPT !.attrs = @ \o d.attrs, !.cmds = @ \o d.cmds]
PlusAll(pieces) ==
    LET Sum[n \in 1 .. Len(pieces)] ==
            IF n = 1 THEN pieces[1] ELSE Plus(Sum[n - 1], pieces[n])
    IN  Sum[Len(pieces)]

-----------------------------------------------------------------------------
(* zb_std_cluster_desc.hpp *)

basic_min == Server("BASIC",
    <<Attr("ZCL_VERSION", "u8", Read), Attr("POWER_SOURCE", "enum", Read)>>)

basic_names == Server("BASIC",
    <<Attr("MANUFACTURER_NAME", "str", Read), Attr("MODEL_IDENTIFIER", "str", Read)>>)

basic_ext == Server("BASIC",
    <<Attr("ZCL_VERSION", "u8", Read), Attr("APPLICATION_VERSION", "u8", Read),
      Attr("STACK_VERSION", "u8", Read), Attr("HW_VERSION", "u8", Read),
      AttrAs("MANUFACTURER_NAME", "chars", Read, "CharStr"),
      AttrAs("MODEL_IDENTIFIER", "chars", Read, "CharStr"),
      AttrAs("DATE_CODE", "chars", Read, "CharStr"),
      AttrAs("POWER_SOURCE", "u8", Read, "E8"),
      AttrAs("LOCATION_DESCRIPTION", "chars", RW, "CharStr"),
      AttrAs("PHYSICAL_ENVIRONMENT", "u8", RW, "E8"),
      AttrAs("SW_BUILD", "chars", Read, "CharStr")>>)

identify == Server("IDENTIFY", <<Attr("IDENTIFY_TIME", "u16", RW)>>)

identify_client == Client("IDENTIFY",
    <<CmdOut("IDENTIFY", 2), CmdOut("QUERY", 0), CmdOut("TRIGGER_EFFECT", 2)>>)

on_off == Server("ON_OFF", <<AttrAs("ON_OFF", "u8", RPS, "Bool")>>)

on_off_client == Client("ON_OFF",
    <<CmdOut("ON", 0), CmdOut("OFF", 0), CmdOut("ON_WITH_TIMED_OFF", 5),
      CmdOut("TOGGLE", 0)>>)

groups == Server("GROUPS", <<AttrAs("NAME_SUPPORT", "u8", Read, "Map8")>>)

scenes == Server("SCENES",
    <<Attr("SCENE_COUNT", "u8", Read), Attr("CURRENT_SCENE", "u8", Read),
      AttrAs("SCENE_VALID", "u8", Read, "Bool"),
      AttrAs("NAME_SUPPORT", "u8", Read, "Map8"),
      Attr("CURRENT_GROUP", "u16", Read)>>)

level_control == Server("LEVEL_CONTROL",
    <<Attr("CURRENT_LEVEL", "u8", RPS), Attr("REMAINING_TIME", "u16", Read)>>)

level_control_client == Client("LEVEL_CONTROL",
    <<CmdOut("MOVE_TO_LEVEL", 5), CmdOut("MOVE", 4), CmdOut("STEP", 6),
      CmdOut("STOP", 2), CmdOut("MOVE_TO_LEVEL_WITH_ON_OFF", 5),
      CmdOut("MOVE_WITH_ON_OFF", 4), CmdOut("STEP_WITH_ON_OFF", 6),
      CmdOut("STOP_WITH_ON_OFF", 2), CmdOut("MOVE_TO_CLOSEST_FREQUENCY", 2)>>)

-----------------------------------------------------------------------------
(* The other descriptions; attributes by their number. *)

Attrs(mem, access, ids) == [i \in DOMAIN ids |-> Attr(ids[i], mem, access)]

mains_info == Server("0001", <<Attr("0000", "u16", Read), Attr("0001", "u8", Read)>>)

mains_settings == Server("0001",
    <<Attr("0010", "map8", RW)>> \o Attrs("u16", RW, <<"0011", "0012", "0013">>))

battery_info == Server("0001", Attrs("u8", RP, <<"0020", "0021">>))

battery_settings == Server("0001",
    <<Attr("0030", "str", RW), Attr("0031", "enum_class", RW),
      Attr("0032", "u16", RW), Attr("0033", "u8", RW), Attr("0034", "u8", RW),
      Attr("0035", "map8", RW)>> \o
    Attrs("u8", RW, <<"0036", "0037", "0038", "0039", "003a", "003b", "003c", "003d">>) \o
    <<Attr("003e", "map32", RW)>>)

poll_ctrl_basic == Server("0020",
    <<Attr("0000", "u32", RW), Attr("0001", "u32", Read), Attr("0002", "u16", Read),
      Attr("0003", "u16", RW), AttrAs("effe", "struct", {"Internal"}, "Null")>>)

poll_ctrl == Server("0020",
    <<Attr("0004", "u32", Read), Attr("0005", "u32", Read), Attr("0006", "u16", Read)>>)

WithCommands(c, cmds) == [c EXCEPT !.cmds = cmds]
status_cmds == <<CmdIn("1"), CmdIn("2"), CmdIn("3")>>

status == WithCommands(
    Server("fc80", Attrs("s16", RP, <<"0000", "0001", "0002">>)), status_cmds)

status2 == WithCommands(
    Server("fc81", Attrs("s32", RP, <<"0000", "0001", "0002", "0003">>)), status_cmds)

\* A measured value, its range and its tolerance.
Measurement(id, mem) ==
    <<Server(id, Attrs(mem, RP, <<"0000">>)),
      Server(id, Attrs(mem, Read, <<"0001", "0002">>))>>

temp == Measurement("0402", "s16")
temp_ext == Server("0402", Attrs("u16", Read, <<"0003">>))
rel_humid == Measurement("0405", "u16")
co2 == Measurement("040D", "float")
co2_ext == Server("040D", Attrs("float", Read, <<"0003">>))

air_q == Server("fc08", <<Attr("0000", "float", RP), Attr("0001", "enum_class", RP)>>)

-----------------------------------------------------------------------------
(* Occupancy sensing: a description for every list of kinds of sensor.  The *)
(* constructor of the struct sets what the cluster tells of them.          *)

Sensors == {"PIR", "Ultrasonic", "PhysicalContact"}

occupancy == Server("0406",
    <<AttrAs("0000", "u8", RP, "Map8"), Attr("0001", "enum", Read),
      AttrAs("0002", "u8", Read, "Map8")>>)

occupancy_cfg(sensor) == Server("0406",
    LET ids == [PIR |-> <<"0010", "0011", "0012">>,
                Ultrasonic |-> <<"0020", "0021", "0022">>,
                PhysicalContact |-> <<"0030", "0031", "0032">>][sensor]
    IN  <<Attr(ids[1], "u16", RW), Attr(ids[2], "u16", RW), Attr(ids[3], "u8", RW)>>)

\* The lists that the requires clause of zb_zcl_occupancy_tpl_t lets through;
\* its kAllUnique is that of the ids, for at most three types.
OccupancyCfgs == {cfgs \in BoundedSeq(Sensors, 3) : cfgs # <<>> /\ kAllUniqueIds(cfgs)}

occupancy_tpl(cfgs) == <<occupancy>> \o Each(cfgs, occupancy_cfg)

Bit == [PIR |-> 1, Ultrasonic |-> 2, PhysicalContact |-> 4]
kTypeBitMask(cfgs) == SumOf(Each(cfgs, LAMBDA s : Bit[s]))   \* | of distinct bits

\* get_occupancy_bitmask_to_type
sensor_type(bmp) ==
    <<"PIR", "Ultrasonic", "PIRandUltrasonic", "PhysicalContact", "PIR",
      "Ultrasonic", "PIRandUltrasonic">>[bmp]

-----------------------------------------------------------------------------

\* What each description is the sum of, header by header.
StdDescriptions ==
    {<<basic_min>>, <<basic_min, basic_names>>, <<basic_ext>>, <<identify>>,
     <<identify_client>>, <<on_off>>, <<on_off_client>>, <<groups>>, <<scenes>>,
     <<level_control>>, <<level_control_client>>}

PowerConfigDescriptions ==
    {<<mains_info>>, <<mains_info, mains_settings>>,
     <<battery_info>>, <<battery_info, battery_settings>>}

PollCtrlDescriptions == {<<poll_ctrl_basic>>, <<poll_ctrl_basic, poll_ctrl>>}
StatusDescriptions == {<<status>>, <<status2>>}
TempDescriptions == {<<temp[1]>>, temp, temp \o <<temp_ext>>}
HumidDescriptions == {<<rel_humid[1]>>, rel_humid}
Co2Descriptions == {<<co2[1]>>, co2, co2 \o <<co2_ext>>}
AirQDescriptions == {<<air_q>>}

\* What a sensor is, what one kind of sensor adds, and the sums of these.
OccupancyDescriptions ==
    {<<occupancy>>} \cup {<<occupancy_cfg(s)>> : s \in Sensors}
        \cup {occupancy_tpl(cfgs) : cfgs \in OccupancyCfgs}

Descriptions ==
    UNION {StdDescriptions, PowerConfigDescriptions, PollCtrlDescriptions,
           StatusDescriptions, TempDescriptions, HumidDescriptions, Co2Descriptions,
           AirQDescriptions, OccupancyDescriptions}

Library == {PlusAll(d) : d \in Descriptions}

\* A device may begin with a cluster of the library ...
LibraryInit ==
    /\ \E ep \in Eps, c \in Library : device = <<[ep |-> ep, clusters |-> <<c>>]>>
    /\ items = kMaxItems - 1

\* ... and have another one on the same endpoint.
AddLibraryCluster(c) ==
    /\ Continued
    /\ device' = InLastEndpoint(Append(Last(device).clusters, c))

-----------------------------------------------------------------------------
(* Properties. *)

\* ZBOSS takes as many bytes for a value as the member has: a string starts
\* with its length in both, and Null is a place ZBOSS does not read or write.
Fits(a) ==
    \/ a.type \in DOMAIN Width /\ Width[a.type] = SizeOf[a.mem]
    \/ a.type = "CharStr" /\ a.mem \in {"str", "chars"}
    \/ a.type = "Null" /\ a.access = {"Internal"}

\* What the compiler does not see to: an attribute of the application declares no
\* type, or one of its member's size.
KindsFit ==
    \A kind \in AttrKinds :
        /\ kind.mem \in DOMAIN SizeOf
        /\ \/ kind.mem \in DOMAIN TypeIds /\ kind.type = TypeToTypeId(kind.mem)
           \/ Fits(kind)

SumsOfOneCluster ==
    \A d \in Descriptions : \A i \in DOMAIN d : IdAndRole(d[i]) = IdAndRole(d[1])

SensorsAgree ==
    \A cfgs \in OccupancyCfgs :
        LET type == sensor_type(kTypeBitMask(cfgs))
            has(s) == s \in ToSet(cfgs)
        IN  /\ has("PIR") <=> type \in {"PIR", "PIRandUltrasonic"}
            /\ has("Ultrasonic") <=> type \in {"Ultrasonic", "PIRandUltrasonic"}

\* Every sum of descriptions is of one cluster and compiles, whatever sensors
\* are chosen and in whatever order; the declared type of an attribute is that
\* of its member, so that no neighbour is read or written with it; and
\* a sensor's type and bitmap say the same of PIR and ultrasonic sensors.
LibraryFits ==
    /\ SumsOfOneCluster
    /\ \A p \in Declared :
          /\ ClusterAt(p) \in Library => ClusterCompiles(ClusterAt(p))
          /\ \A i \in DOMAIN ClusterAt(p).attrs : Fits(ClusterAt(p).attrs[i])
    /\ SensorsAgree

\* A handler gets the whole value that was written, whatever type it takes.  A
\* handler of reports gets the value or stops the device, and stops it for no
\* value of the integral type of a member, except that a bool is refused; what
\* is declared a Bool or a bitmap no handler of an integral type can take.
TypedValuesArrive ==
    \A p \in Declared : \A i \in DOMAIN ClusterAt(p).attrs :
        LET a == ClusterAt(p).attrs[i]
        IN  /\ (a.mem = "str" \/ SizeOf[a.mem] \in {1, 2, 3, 4, 6, 8}) =>
                  \A arg \in HandlerTypes(a.mem) :
                      ReadFor(a.mem, arg, SetAttrValues(a.type)) = Bytes(a.type)
            /\ \A T \in Integral :
                  LET read == TypedReportData(T, a.type)
                  IN  /\ read \in {Abort, Bytes(a.type)}
                      /\ a.type \in {"Bool", "Map8", "Map32"} => read = Abort
                      /\ T = a.mem /\ a.type \in {TypeToTypeId(T), "E8"} \ {"Bool"} =>
                            read # Abort

===============================================================================
