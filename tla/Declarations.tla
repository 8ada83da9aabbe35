----------------------------- MODULE Declarations -----------------------------
(***************************************************************************)
(* What the compiler makes of an application's description of its device:  *)
(* the tables handed to ZBOSS (attribute lists, cluster lists, simple      *)
(* descriptors, command lists, room for reporting), the lookups the        *)
(* library itself makes, and the static_asserts that a description has to  *)
(* pass.  make_ep_args, make_device and the templates they instantiate, in *)
(* zb_desc_helper_types*.hpp.                                              *)
(*                                                                         *)
(* The application writes its description item by item; after every item   *)
(* the tables are those of the device described so far.  A description     *)
(* that does not compile is not continued.                                 *)
(***************************************************************************)
EXTENDS Integers, Sequences, SequencesExt, FiniteSetsExt

CONSTANTS
    Eps, ClusterIds, AttrIds, CmdIds,
    AttrKinds,                 \* an attribute may be: [access, mem, type, validator]
    CmdKinds,                  \* what a command may be: [receive, size]
    kMaxAllowedArgumentSize,
    kMaxItems                  \* bound: items of a description

Roles == {"Server", "Client"}

\* Ids no application should declare.
RevisionId == "ZB_ZCL_ATTR_GLOBAL_CLUSTER_REVISION_ID"
NullId == "ZB_ZCL_NULL_ID"

ASSUME DeclarationsAssumption ==
    /\ {RevisionId, NullId} \cap AttrIds = {}
    /\ kMaxAllowedArgumentSize \in Nat
    /\ kMaxItems \in Nat /\ kMaxItems >= 2
    /\ \A kind \in AttrKinds :
          kind.access \subseteq {"Read", "Write", "Report", "Scene"}
          /\ kind.validator \in BOOLEAN
    /\ \A kind \in CmdKinds : kind.receive \in BOOLEAN /\ kind.size \in 0 .. 255

VARIABLES
    device,      \* the endpoints described so far: sequence of [ep, clusters]
    items        \* how many items that took

vars == <<device, items>>

\* What f makes of every element of s.
Each(s, f(_)) == [i \in DOMAIN s |-> f(s[i])]

IdOf(x) == x.id

Count(s, P(_)) == Cardinality({i \in DOMAIN s : P(s[i])})

\* (... + 0) over a parameter pack.
SumOf(ns) ==
    LET Sum[n \in 0 .. Len(ns)] == IF n = 0 THEN 0 ELSE Sum[n - 1] + ns[n]
    IN  Sum[Len(ns)]

-----------------------------------------------------------------------------
(* The checks of the compiler. *)

IsAllUniqueHelper(prime, rest) == \A i \in DOMAIN rest : prime # rest[i]

kAllUniqueIds_OneTooFew(ids) ==
    LET Primary[n \in 0 .. Len(ids)] ==
            n > 2 => /\ IsAllUniqueHelper(ids[Len(ids) - n + 1],
                                         SubSeq(ids, Len(ids) - n + 2, Len(ids)))
                     /\ Primary[n - 1]
    IN  Primary[Len(ids)]

\* Primary[n] looks at the last n ids, as IsAllUniquePrimaryHelper does.
kAllUniqueIds(ids) ==
    LET Primary[n \in 0 .. Len(ids)] ==
            n > 1 => /\ IsAllUniqueHelper(ids[Len(ids) - n + 1],
                                         SubSeq(ids, Len(ids) - n + 2, Len(ids)))
                     /\ Primary[n - 1]
    IN  Primary[Len(ids)]

kAllClientClustersAtEnd_OnlyFirst(clusters) ==
    clusters[1].role = "Client" =>
        \A i \in DOMAIN clusters : clusters[i].role = "Client"

\* AtEnd[i][role]: what follows from i on, after a first cluster of that role,
\* which a server hands on to its successor and a client keeps.
kAllClientClustersAtEnd(clusters) ==
    LET AtEnd[i \in 2 .. Len(clusters) + 1] ==
            [role \in Roles |->
                i <= Len(clusters) =>
                    /\ role = "Client" => clusters[i].role = role
                    /\ AtEnd[i + 1][clusters[i].role]]
    IN  AtEnd[2][clusters[1].role]

MaxArgSize_Last(c) == IF c.cmds = <<>> THEN 0 ELSE Last(c.cmds).size

\* max_command_arg_raw_size of a cluster, and of all of an endpoint.
MaxArgSize(c) == Max({0} \cup {c.cmds[i].size : i \in DOMAIN c.cmds})
kCmdMaxArgsSize(e) == Max({MaxArgSize(e.clusters[i]) : i \in DOMAIN e.clusters})

IdAndRole(c) == <<c.id, c.role>>

ClusterCompiles(c) ==
    /\ kAllUniqueIds(Each(c.attrs, IdOf))
    /\ kAllUniqueIds(Each(c.cmds, IdOf))

EndpointCompiles(e) ==
    /\ \A i \in DOMAIN e.clusters : ClusterCompiles(e.clusters[i])
    /\ kAllUniqueIds(Each(e.clusters, IdAndRole))
    /\ kAllClientClustersAtEnd(e.clusters)
    /\ kCmdMaxArgsSize(e) <= kMaxAllowedArgumentSize

EpId(e) == e.ep

Compiles ==
    /\ \A i \in DOMAIN device : EndpointCompiles(device[i])
    /\ kAllUniqueIds(Each(device, EpId))

-----------------------------------------------------------------------------
(* The tables. *)

RevisionAttr == [id |-> RevisionId, access |-> {"Read"}, data |-> "rev"]
g_LastAttribute == [id |-> NullId, access |-> {}, data |-> "nullptr"]

\* attribute_list_t::attributes: data names the member by its place.
AttributeList(c) ==
    <<RevisionAttr>> \o
    [i \in DOMAIN c.attrs |->
        [id |-> c.attrs[i].id, access |-> c.attrs[i].access, data |-> i]] \o
    <<g_LastAttribute>>

HasReport(a) == "Report" \in a.access

CvcTypes == {"S8", "U8", "S16", "U16", "S24", "U24", "S32", "U32",
             "Float", "HalfFloat", "Double"}

IsCvc(a) == HasReport(a) /\ a.type \in CvcTypes

RepInfoCount(e) == SumOf(Each(e.clusters, LAMBDA c : Count(c.attrs, HasReport)))
CvcAlarmCount(e) == SumOf(Each(e.clusters, LAMBDA c : Count(c.attrs, IsCvc)))

IsServer(c) == c.role = "Server"
IsClient(c) == c.role = "Client"

SimpleDesc(e) ==
    [app_input_cluster_count  |-> Count(e.clusters, IsServer),
     app_output_cluster_count |-> Count(e.clusters, IsClient),
     app_cluster_list         |-> Each(e.clusters, IdOf)]

IsReceived(cmd) == cmd.receive
IsGenerated(cmd) == ~ cmd.receive

\* The ids of the commands of a direction, added one behind the other to an
\* array that is as long as these are many.
CommandIds(cmds, receive) ==
    LET Added[n \in 0 .. Len(cmds)] ==
            IF n = 0 THEN <<>>
            ELSE IF cmds[n].receive = receive THEN Append(Added[n - 1], cmds[n].id)
            ELSE Added[n - 1]
    IN  Added[Len(cmds)]

\* cmd_list of attribute_list_t.
ReceivedCommands(c) == CommandIds(c.cmds, TRUE)
GeneratedCommands(c) == CommandIds(c.cmds, FALSE)

-----------------------------------------------------------------------------
(* The lookups of the library.  0 stands for a null handler or validator;  *)
(* a handler or a validator is named by the place of its member.           *)

First(S) == IF S = {} THEN 0 ELSE Min(S)

FindCmdHandler_AnyDirection(c, id) ==
    First({i \in DOMAIN c.cmds : c.cmds[i].id = id})

FindCmdHandler(c, id) ==
    First({i \in DOMAIN c.cmds : c.cmds[i].id = id /\ c.cmds[i].receive})

\* The first attribute with the id, whether it has a validator or not.
FindAttributeValidator(c, id) ==
    LET i == First({k \in DOMAIN c.attrs : c.attrs[k].id = id})
    IN  IF i # 0 /\ c.attrs[i].validator THEN i ELSE 0

HasValidator(a) == a.validator
CountWithValidators(c) == Count(c.attrs, HasValidator)

AttrRaw_AsServer(e, c, a) ==
    [ep |-> e.ep, cluster |-> c.id, role |-> "Server", attr |-> a.id]

\* What ep.attr<&Cluster::member>() passes to zb_zcl_set_attr_val.
AttrRaw(e, c, a) == [ep |-> e.ep, cluster |-> c.id, role |-> c.role, attr |-> a.id]

\* ZBOSS walks the endpoints, the cluster descriptors, the attribute list to
\* its end, and writes where data points: <<endpoint, cluster, data>>.
ZbossFinds(to) ==
    LET e == First({i \in DOMAIN device : device[i].ep = to.ep})
        clusters == device[e].clusters
        c == First({i \in DOMAIN clusters : IdAndRole(clusters[i]) = <<to.cluster, to.role>>})
        list == AttributeList(clusters[c])
        a == First({i \in DOMAIN list : list[i].id \in {to.attr, NullId}})
    IN  IF e = 0 \/ c = 0 THEN <<>> ELSE <<e, c, list[a].data>>

-----------------------------------------------------------------------------
(* Writing a description. *)

NewCluster(id, role) == [id |-> id, role |-> role, attrs |-> <<>>, cmds |-> <<>>]

Init ==
    /\ \E ep \in Eps, id \in ClusterIds, role \in Roles :
          device = <<[ep |-> ep, clusters |-> <<NewCluster(id, role)>>]>>
    /\ items = 1

Continued ==
    /\ items < kMaxItems
    /\ Compiles
    /\ items' = items + 1

InLastEndpoint(clusters) == [device EXCEPT ![Len(device)].clusters = clusters]

LastCluster == Last(Last(device).clusters)

WithLastCluster(c) == InLastEndpoint(Append(Front(Last(device).clusters), c))

AddEndpoint_Empty(ep, id, role) ==
    /\ Continued
    /\ device' = Append(device, [ep |-> ep, clusters |-> <<>>])

\* An endpoint has a cluster: ep_desc_t has no constructor for none.
AddEndpoint(ep, id, role) ==
    /\ Continued
    /\ device' = Append(device, [ep |-> ep, clusters |-> <<NewCluster(id, role)>>])

AddCluster(id, role) ==
    /\ Continued
    /\ device' = InLastEndpoint(Append(Last(device).clusters, NewCluster(id, role)))

\* A member of an attributes_t, or of one added with operator+.
AddAttribute(id, kind) ==
    LET a == [id |-> id, access |-> kind.access, mem |-> kind.mem,
              type |-> kind.type, validator |-> kind.validator]
    IN  /\ Continued
        /\ device' = WithLastCluster([LastCluster EXCEPT !.attrs = Append(@, a)])

AddCommand(id, kind) ==
    LET cmd == [id |-> id, receive |-> kind.receive, size |-> kind.size]
    IN  /\ Continued
        /\ device' = WithLastCluster([LastCluster EXCEPT !.cmds = Append(@, cmd)])

Next ==
    \/ \E ep \in Eps, id \in ClusterIds, role \in Roles : AddEndpoint(ep, id, role)
    \/ \E id \in ClusterIds, role \in Roles : AddCluster(id, role)
    \/ \E id \in AttrIds, kind \in AttrKinds : AddAttribute(id, kind)
    \/ \E id \in CmdIds, kind \in CmdKinds : AddCommand(id, kind)

Spec == Init /\ [][Next]_vars

-----------------------------------------------------------------------------
(* Properties. *)

TypeOK ==
    /\ items \in 1 .. kMaxItems
    /\ device # <<>>
    /\ \A i \in DOMAIN device :
          /\ device[i].ep \in Eps
          /\ device[i].clusters # <<>>

\* Every cluster of the device with its endpoint.
Declared == UNION {{i} \X DOMAIN device[i].clusters : i \in DOMAIN device}

ClusterAt(p) == device[p[1]].clusters[p[2]]

Distinct(s, f(_)) == \A i, k \in DOMAIN s : f(s[i]) = f(s[k]) => i = k

\* The static_asserts ("All attribute ids must be unique!", "Client (output)
\* clusters must be grouped at the end!", ...) reject exactly the descriptions
\* they speak of, for any number of members.
CompilesExactly ==
    Compiles <=>
        /\ Distinct(device, EpId)
        /\ \A i \in DOMAIN device :
              LET clusters == device[i].clusters
              IN  /\ Distinct(clusters, IdAndRole)
                  /\ \A k, l \in DOMAIN clusters :
                        IsClient(clusters[k]) /\ IsServer(clusters[l]) => l < k
        /\ \A p \in Declared :
              /\ Distinct(ClusterAt(p).attrs, IdOf)
              /\ Distinct(ClusterAt(p).cmds, IdOf)
              /\ \A j \in DOMAIN ClusterAt(p).cmds :
                    ClusterAt(p).cmds[j].size <= kMaxAllowedArgumentSize

\* In a device that compiles, ep.attr<...>() names exactly one attribute of
\* ZBOSS's tables, the one the application wrote.
AttrReachesMember ==
    Compiles =>
        \A p \in Declared : \A a \in DOMAIN ClusterAt(p).attrs :
            ZbossFinds(AttrRaw(device[p[1]], ClusterAt(p), ClusterAt(p).attrs[a]))
                = <<p[1], p[2], a>>

\* What ZBOSS is told of an endpoint agrees with its tables: the simple
\* descriptor lists the input clusters and then the output clusters, which
\* ZBOSS splits by the two counts; the room for reporting is what the attribute
\* lists ask for, and that for change conditions is never larger.
EndpointTables ==
    \A i \in DOMAIN device :
        LET e == device[i]
            d == SimpleDesc(e)
            reported(c) == {j \in DOMAIN AttributeList(c) : HasReport(AttributeList(c)[j])}
        IN  /\ Compiles =>
                  /\ Len(d.app_cluster_list)
                       = d.app_input_cluster_count + d.app_output_cluster_count
                  /\ \A k \in DOMAIN e.clusters :
                        IsServer(e.clusters[k]) <=> k <= d.app_input_cluster_count
            /\ RepInfoCount(e) = SumOf(Each(e.clusters, LAMBDA c : Cardinality(reported(c))))
            /\ CvcAlarmCount(e) <= RepInfoCount(e)

\* The commands a cluster tells the network it receives are those it finds a
\* handler for, each once, and none of those it generates; both lists are as
\* long as the arrays counted for them.  It registers for check_value if there
\* is something to check, and a written attribute is checked by its own
\* validator.
LookupsMatch ==
    Compiles =>
        \A p \in Declared :
            LET c == ClusterAt(p)
                received == ReceivedCommands(c)
                generated == GeneratedCommands(c)
                cmds == CmdIds \cup ToSet(Each(c.cmds, IdOf))
                attrs == AttrIds \cup ToSet(Each(c.attrs, IdOf))
            IN  /\ \A id \in cmds : FindCmdHandler(c, id) # 0 <=> id \in ToSet(received)
                /\ Len(received) = Cardinality(ToSet(received))
                /\ ToSet(received) \cap ToSet(generated) = {}
                /\ Len(received) = Count(c.cmds, IsReceived)
                /\ Len(generated) = Count(c.cmds, IsGenerated)
                /\ CountWithValidators(c) > 0
                     <=> \E id \in attrs : FindAttributeValidator(c, id) # 0
                /\ \A a \in DOMAIN c.attrs :
                      FindAttributeValidator(c, c.attrs[a].id)
                          = IF c.attrs[a].validator THEN a ELSE 0

===============================================================================
