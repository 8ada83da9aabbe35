--------------------------- MODULE ClusterDispatch ---------------------------
(***************************************************************************)
(* How a received command, or a value about to be written, finds the       *)
(* cluster it is for: generic_cluster_init, on_cluster_cmd_handling and    *)
(* on_cluster_check_value of zb_desc_helper_types_cluster.hpp, with        *)
(* cluster_custom_handler_t of zb_desc_helper_types_cmd_handling.hpp.      *)
(*                                                                         *)
(* ZBOSS keeps one pair of handlers for a cluster id and role, whatever    *)
(* the endpoint.  The first cluster that registers gets it; the functions  *)
(* of the same cluster on other endpoints go to a few additional slots, in *)
(* which the first one looks when the request is not for its endpoint.     *)
(*                                                                         *)
(* A cluster of the device is a record: its endpoint, id and role, the     *)
(* commands it can receive (cmd_in_t members), the attributes that have a  *)
(* validator, and whether its description names an init function of ZBOSS  *)
(* (zboss_init_func) that registers handlers.  Its own init function runs  *)
(* once, in any order of the clusters; requests come when all have run.    *)
(* Functions can be lost on the way: for want of a slot, which only an     *)
(* application that has set g_GlobalErrorHandler is told, or because ZBOSS *)
(* refuses them, which nobody is told.                                     *)
(***************************************************************************)
EXTENDS Integers, Sequences, FiniteSetsExt

CONSTANTS
    Devices,           \* the devices: sets of clusters
    Cmds,              \* ids of commands
    Attrs,             \* ids of attributes
    kMaxEntries        \* additional slots

ASSUME ClusterDispatchAssumption ==
    /\ kMaxEntries \in Nat
    /\ \A device \in Devices : IsFiniteSet(device)
    /\ \A device \in Devices : \A c \in device :
          /\ c.ep # 0                      \* endpoint 0 is ZBOSS's own
          /\ c.cmds \subseteq Cmds
          /\ c.attrs \subseteq Attrs
          /\ c.zboss \in BOOLEAN
          /\ \A d \in device :          \* cluster_tools::kAllUniqueIds
                <<c.ep, c.id, c.role>> = <<d.ep, d.id, d.role>> => c = d

VARIABLES
    device,            \* the clusters declared
    uninit,            \* those of them whose init function is still to run
    registered,        \* those whose functions ZBOSS has, and ZBOSS's own
    slots,             \* g_AdditionalClusterHandlers: those with a slot
    g_GlobalErrorHandler,   \* has the application set it?
    errors,            \* calls of it
    last,              \* what became of the last request
    refused            \* history: those whose functions ZBOSS did not take

vars == <<device, uninit, registered, slots, g_GlobalErrorHandler, errors, last,
          refused>>

NoCluster == [ep |-> 0, cmds |-> {}, attrs |-> {}]
NoRequest == [kind |-> "none"]

\* cmd_handling_result_t; RET_ILLEGAL_REQUEST stands for every other error.
Statuses == {"RET_OK", "RET_NOT_IMPLEMENTED", "RET_BUSY", "RET_ILLEGAL_REQUEST"}
CmdResults == [status : Statuses, processed : BOOLEAN]

-----------------------------------------------------------------------------
(* Registration. *)

HasCmdHandler(c) == c.cmds # {}
HasChecker(c) == c.attrs # {}
Registers(c) == HasCmdHandler(c) \/ HasChecker(c)

SameForZboss(c, d) == c.id = d.id /\ c.role = d.role

\* ZBOSS's own handlers for the id and role of c, on no endpoint in particular.
ZbossOwn(c) == [ep |-> 0, id |-> c.id, role |-> c.role, cmds |-> {}, attrs |-> {}]

\* Requests for c go to ZBOSS's own handlers.
Shadowed(c) == ZbossOwn(c) \in registered

\* The application sets its error handler before the device starts, or never.
Init ==
    /\ device \in Devices
    /\ uninit = device
    /\ registered = {}
    /\ slots = <<>>
    /\ g_GlobalErrorHandler \in BOOLEAN
    /\ errors = 0
    /\ last = NoRequest
    /\ refused = {}

\* What may be registered once zboss_init_f has run, which comes first: ZBOSS's
\* init functions need not register anything.
AfterZboss(c) ==
    IF c.zboss /\ \A r \in registered : ~ SameForZboss(r, c)
    THEN {registered, registered \cup {ZbossOwn(c)}} ELSE {registered}

InitBegins(c) ==
    /\ c \in uninit
    /\ uninit' = uninit \ {c}
    /\ UNCHANGED <<device, g_GlobalErrorHandler, last>>

\* Nothing more to register.
InitPlain(c, after) ==
    /\ InitBegins(c)
    /\ ~ Registers(c)
    /\ registered' = after
    /\ UNCHANGED <<slots, errors, refused>>

AlreadyExists(c, after) == \E r \in after : SameForZboss(r, c)

\* zb_zcl_add_cluster_handlers takes the functions,
InitRegistered(c, after) ==
    /\ InitBegins(c)
    /\ Registers(c)
    /\ ~ AlreadyExists(c, after)
    /\ registered' = after \cup {c}
    /\ UNCHANGED <<slots, errors, refused>>

\* or returns an error other than RET_ALREADY_EXISTS, which is not looked at,
InitRefused(c, after) ==
    /\ InitBegins(c)
    /\ Registers(c)
    /\ registered' = after
    /\ refused' = refused \cup {c}
    /\ UNCHANGED <<slots, errors>>

HasRoom_OffByOne == Len(slots) <= kMaxEntries

HasRoom_OneTooFew == Len(slots) + 1 < kMaxEntries

HasRoom == Len(slots) < kMaxEntries

InitAdditional_SizeKept(c, after) ==
    /\ InitBegins(c)
    /\ Registers(c)
    /\ AlreadyExists(c, after)
    /\ HasRoom
    /\ registered' = after
    /\ UNCHANGED <<slots, errors, refused>>

\* or returns RET_ALREADY_EXISTS: take a slot,
InitAdditional(c, after) ==
    /\ InitBegins(c)
    /\ Registers(c)
    /\ AlreadyExists(c, after)
    /\ HasRoom
    /\ slots' = Append(slots, c)
    /\ registered' = after
    /\ UNCHANGED <<errors, refused>>

\* and if add() has none, tell the application, if it has a handler for that.
InitNoMemory(c, after) ==
    /\ InitBegins(c)
    /\ Registers(c)
    /\ AlreadyExists(c, after)
    /\ ~ HasRoom
    /\ errors' = IF g_GlobalErrorHandler THEN errors + 1 ELSE errors
    /\ registered' = after
    /\ UNCHANGED <<slots, refused>>

GenericClusterInit(c) ==
    \E after \in AfterZboss(c) :
        \/ InitPlain(c, after)
        \/ InitRegistered(c, after)
        \/ InitRefused(c, after)
        \/ InitAdditional(c, after)
        \/ InitNoMemory(c, after)

-----------------------------------------------------------------------------
(* Requests. *)

\* The cluster of set S whose functions ZBOSS has for c, if any.
Primary(S, c) ==
    IF \E r \in S : SameForZboss(r, c)
    THEN CHOOSE r \in S : SameForZboss(r, c) ELSE NoCluster

Find_AnyCluster(c) ==
    LET fit == {i \in DOMAIN slots : slots[i].ep = c.ep}
    IN  IF fit = {} THEN NoCluster ELSE slots[Min(fit)]

Find_ExceptLast(c) ==
    LET fit == {i \in 1 .. Len(slots) - 1 : slots[i].ep = c.ep /\ slots[i].id = c.id}
    IN  IF fit = {} THEN NoCluster ELSE slots[Min(fit)]

\* find(ep, cluster): the first slot that fits.
Find(c) ==
    LET fit == {i \in DOMAIN slots : slots[i].ep = c.ep /\ slots[i].id = c.id}
    IN  IF fit = {} THEN NoCluster ELSE slots[Min(fit)]

\* The cluster to which p's function hands a request for c, if any.
Resolve(p, c) == IF p.ep = c.ep THEN p ELSE Find(c)

\* What the caller of on_cmd makes of its result.
Outcome(r, disableDefaultResponse) ==
    CASE ~ r.processed -> "default handling"
      [] r.processed /\ disableDefaultResponse /\ r.status = "RET_OK" -> "freed"
      [] r.processed /\ r.status = "RET_NOT_IMPLEMENTED" -> "UNSUP_CMD"
      [] r.processed /\ r.status = "RET_BUSY" -> "kept"
      [] r.processed /\ ~ disableDefaultResponse /\ r.status = "RET_OK" -> "SUCCESS"
      [] OTHER -> "INVALID_FIELD"

\* The request for cluster `to` ended with outcome; `by` is the cluster whose
\* callback, validator or list was used.  wanted says that it has one.
Served(kind, to, wanted, by, outcome) ==
    /\ last' = [kind |-> kind, to |-> to, wanted |-> wanted, by |-> by,
                outcome |-> outcome]
    /\ UNCHANGED <<device, uninit, registered, slots, g_GlobalErrorHandler, errors,
                   refused>>

\* on_cmd of cluster t and raw_handler of the field it finds: a callback may
\* be missing, and too few bytes of arguments are refused before the call.
OnCmd(t, c, cmd, disable) ==
    \/ /\ cmd \notin t.cmds
       /\ Served("cmd", c, cmd \in c.cmds, NoCluster, "default handling")
    \/ /\ cmd \in t.cmds
       /\ Served("cmd", c, FALSE, NoCluster, "default handling")   \* no cb
    \/ /\ cmd \in t.cmds                                           \* too short
       /\ LET illegal == [status |-> "RET_ILLEGAL_REQUEST", processed |-> TRUE]
          IN  Served("cmd", c, FALSE, NoCluster, Outcome(illegal, disable))
    \/ /\ cmd \in t.cmds
       /\ \E r \in CmdResults :
             Served("cmd", c, cmd \in c.cmds, t, Outcome(r, disable))

\* ZBOSS has received command cmd for cluster c.
OnClusterCmdHandling(c, cmd, disable) ==
    LET p == Primary(registered, c)
        t == Resolve(p, c)
    IN  /\ uninit = {}
        /\ \/ /\ ~ HasCmdHandler(p)     \* none, not this one, or ZBOSS's own
              /\ Served("cmd", c, cmd \in c.cmds, NoCluster, "default handling")
           \/ /\ HasCmdHandler(p)
              /\ \/ /\ t = NoCluster                        \* RET_NOT_FOUND
                    /\ Served("cmd", c, cmd \in c.cmds, NoCluster, "INVALID_FIELD")
                 \/ /\ t # NoCluster /\ ~ HasCmdHandler(t)
                    /\ Served("cmd", c, cmd \in c.cmds, NoCluster, "null call")
                 \/ /\ HasCmdHandler(t)
                    /\ OnCmd(t, c, cmd, disable)

\* ZB_ZCL_GENERAL_GET_CMD_LISTS_PARAM names no endpoint: the list is p's.
GetCmdList(c) ==
    LET p == Primary(registered, c)
    IN  /\ uninit = {}
        /\ HasCmdHandler(p)
        /\ Served("list", c, TRUE, p, "list")

\* ZBOSS is about to write attribute attr of cluster c.
OnClusterCheckValue(c, attr) ==
    LET p == Primary(registered, c)
        t == Resolve(p, c)
        wanted == attr \in c.attrs
    IN  /\ uninit = {}
        /\ \/ /\ ~ HasChecker(p)
              /\ \/ Served("write", c, wanted, NoCluster, "RET_OK")
                 \/ /\ Shadowed(c)                \* a checker of ZBOSS's own
                    /\ Served("write", c, wanted, NoCluster, "RET_BUSY")
           \/ /\ HasChecker(p)
              /\ \/ /\ t = NoCluster
                    /\ Served("write", c, wanted, NoCluster, "RET_BUSY")
                 \/ /\ t # NoCluster /\ ~ HasChecker(t)
                    /\ Served("write", c, wanted, NoCluster, "null call")
                 \/ /\ HasChecker(t) /\ attr \notin t.attrs
                    /\ Served("write", c, wanted, NoCluster, "RET_OK")
                 \/ /\ HasChecker(t) /\ attr \in t.attrs
                    /\ \E ret \in {"RET_OK", "RET_BUSY"} :
                          Served("write", c, wanted, t, ret)

Next ==
    \/ \E c \in uninit : GenericClusterInit(c)
    \/ \E c \in device, cmd \in Cmds, disable \in BOOLEAN :
          OnClusterCmdHandling(c, cmd, disable)
    \/ \E c \in device : GetCmdList(c)
    \/ \E c \in device, attr \in Attrs : OnClusterCheckValue(c, attr)

Spec == Init /\ [][Next]_vars

-----------------------------------------------------------------------------
(* Properties. *)

Clusters == UNION Devices

TypeOK ==
    /\ device \in Devices
    /\ uninit \subseteq device
    /\ registered \subseteq device \cup {ZbossOwn(c) : c \in device}
    /\ slots \in Seq(device)
    /\ Len(slots) <= kMaxEntries
    /\ g_GlobalErrorHandler \in BOOLEAN
    /\ errors \in 0 .. Cardinality(device)
    /\ refused \subseteq device \ uninit
    /\ \/ last = NoRequest
       \/ /\ last.kind \in {"cmd", "list", "write"}
          /\ last.to \in device
          /\ last.by \in device \cup {NoCluster}

\* No endpoint has both roles of a cluster.  Slots are found by endpoint and
\* id, and where one has both, find may return the slot of the other role.
OneRole ==
    \A c, d \in device : c.ep = d.ep /\ c.id = d.id => c = d

\* A request is never served with the callback or the validator of another
\* endpoint or another cluster id, whatever the order in which the clusters
\* were initialised; nor of another role, if no endpoint has both.
RightCluster ==
    last.kind \in {"cmd", "write"} /\ last.by # NoCluster =>
        /\ last.by.ep = last.to.ep /\ last.by.id = last.to.id
        /\ OneRole => last.by = last.to

\* The descriptions of c's id and role that let ZBOSS register.
ZbossDescribed(c) == {d \in device : SameForZboss(d, c) /\ d.zboss}

\* Initialised clusters whose functions are nowhere.
Lost ==
    {c \in device \ uninit :
       Registers(c) /\ c \notin registered /\ \A i \in DOMAIN slots : slots[i] # c}

\* Unless its functions were lost, a cluster is served however many others
\* were: its own callback or validator is used when it has one, nothing is
\* refused for want of a slot, and the list of commands is its own.  Of
\* clusters of which some description lets ZBOSS register first, nothing is
\* said: their functions may sit in slots in which nobody looks.
ServedUnlessLost ==
    last.kind # "none" /\ last.to \notin Lost /\ OneRole
        /\ ZbossDescribed(last.to) = {} =>
            /\ last.wanted => last.by # NoCluster
            /\ last.kind = "write" /\ ~ last.wanted => last.outcome = "RET_OK"
            /\ last.kind = "list" => last.by.cmds = last.to.cmds

\* A missing checker or command handler is never called: the ones of a slot
\* are called because those of another endpoint exist.
NoNullCall == last.kind # "none" => last.outcome # "null call"

\* What ZBOSS takes is lost only when all slots are taken, by clusters that
\* need them, each once; and the application is told of each such loss once if
\* it has an error handler, and otherwise not at all.
LossesTold ==
    /\ errors = IF g_GlobalErrorHandler THEN Cardinality(Lost \ refused) ELSE 0
    /\ Lost \ refused # {} => Len(slots) = kMaxEntries
    /\ \A i, j \in DOMAIN slots : slots[i] = slots[j] => i = j
    /\ \A i \in DOMAIN slots : slots[i] \notin registered

\* One cluster of each id and role needs no slot, unless ZBOSS may register
\* before it.
Registering == {c \in device : Registers(c)}
NeedNone == {<<c.id, c.role>> : c \in {d \in Registering : ZbossDescribed(d) = {}}}

\* Whatever the order in which the clusters are initialised, a device that needs
\* no more slots than there are loses nothing, if ZBOSS refuses nothing.
SlotsSuffice ==
    Cardinality(Registering) - Cardinality(NeedNone) <= kMaxEntries /\ refused = {} =>
        Lost = {}

=============================================================================
