------------------------ MODULE ClusterDispatchProofs ------------------------
(***************************************************************************)
(* Proofs about ClusterDispatch, for any devices and any number of slots.  *)
(* First where the functions of a cluster are (the invariant of the        *)
(* registration), then which cluster a request resolves to, then what      *)
(* follows for requests.                                                   *)
(***************************************************************************)
EXTENDS ClusterDispatch, FiniteSetTheorems, NatMin

\* The description of a cluster is the same on every endpoint that has it.
Uniform ==
    \A dev \in Devices : \A c, d \in dev :
        SameForZboss(c, d) => c.cmds = d.cmds /\ c.attrs = d.attrs

\* No device has both roles of a cluster on one endpoint.
OneRoleEverywhere ==
    \A dev \in Devices : \A c, d \in dev : c.ep = d.ep /\ c.id = d.id => c = d

\* What the slots mean: the function that looks in them is registered.
SlotsReachable ==
    \A i \in DOMAIN slots :
        /\ slots[i] \notin uninit
        /\ \E r \in registered : SameForZboss(r, slots[i])

OnePerZboss ==
    /\ registered \cap uninit = {}
    /\ \A r, s \in registered : SameForZboss(r, s) => r = s

\* Requests come when every init function has run.
InitFirst == last # NoRequest => uninit = {}

\* ZBOSS's own handlers are only registered when a description asked for them.
ZbossAsked == \A c \in device : Shadowed(c) => ZbossDescribed(c) # {}

\* What ZBOSS has of the device has something to register; and a cluster of the
\* same id and role is registered before one that finds no slot.
LostBehind ==
    /\ \A r \in registered \cap device : Registers(r)
    /\ \A c \in Lost \ refused : \E r \in registered : SameForZboss(r, c)
    /\ \A i \in DOMAIN slots : Registers(slots[i])

\* The inductive invariant of the registration.
Registry ==
    /\ TypeOK /\ LossesTold /\ SlotsReachable /\ OnePerZboss
    /\ InitFirst /\ ZbossAsked /\ LostBehind

-----------------------------------------------------------------------------
(* Registration. *)

\* What the assumptions say of a device.
LEMMA DeviceFacts ==
    ASSUME NEW dev \in Devices
    PROVE  /\ IsFiniteSet(dev)
           /\ \A c \in dev : c # NoCluster /\ \A d : c # ZbossOwn(d)
<1>1. \A c \in dev : c.ep # 0
  BY ClusterDispatchAssumption
<1> QED BY <1>1, ClusterDispatchAssumption DEF NoCluster, ZbossOwn

LEMMA InitRegistry == Init => Registry
<1> SUFFICES ASSUME Init PROVE Registry
  OBVIOUS
<1> USE DEF Init
<1>1. Lost = {}
  BY DEF Lost
<1>2. Cardinality(Lost \ refused) = 0
  BY <1>1, FS_EmptySet
<1>3. Cardinality(device) \in Nat
  BY DeviceFacts, FS_CardinalityType
<1>4. TypeOK
  BY <1>3, ClusterDispatchAssumption DEF TypeOK
<1>5. LossesTold
  BY <1>1, <1>2 DEF LossesTold
<1>6. ZbossAsked /\ LostBehind
  BY <1>1 DEF ZbossAsked, LostBehind, Shadowed
<1> QED BY <1>4, <1>5, <1>6 DEF Registry, SlotsReachable, OnePerZboss, InitFirst

\* ZBOSS's init function adds at most its own handlers, of no cluster of the
\* device, and only when nothing is registered for the id and role.
LEMMA AfterZbossFacts ==
    ASSUME Registry, NEW c \in uninit, NEW after \in AfterZboss(c)
    PROVE  /\ c \in device /\ device \in Devices
           /\ registered \subseteq after
           /\ after \subseteq device \cup {ZbossOwn(d) : d \in device}
           /\ \A d \in device : d \in after <=> d \in registered
           /\ \A r, s \in after : SameForZboss(r, s) => r = s
           /\ \A d \in device : ZbossOwn(d) \in after =>
                 Shadowed(d) \/ (c.zboss /\ SameForZboss(c, d))
<1> DEFINE z == ZbossOwn(c)
<1>1. \/ after = registered
      \/ /\ after = registered \cup {z} /\ c.zboss
         /\ \A r \in registered : ~ SameForZboss(r, c)
  BY DEF AfterZboss
<1>2. c \in device /\ device \in Devices
  BY DEF Registry, TypeOK
<1>3. z.id = c.id /\ z.role = c.role
  BY DEF ZbossOwn
<1>4. z \notin device
  BY <1>2, DeviceFacts
<1>5. after \subseteq device \cup {ZbossOwn(d) : d \in device}
  BY <1>1, <1>2 DEF Registry, TypeOK
<1>6. \A d \in device : ZbossOwn(d) = z => SameForZboss(c, d)
  BY DEF ZbossOwn, SameForZboss
<1> HIDE DEF z
<1>7. \A r, s \in after : SameForZboss(r, s) => r = s
  BY <1>1, <1>3 DEF Registry, OnePerZboss, SameForZboss
<1>8. \A d \in device : ZbossOwn(d) \in after =>
         Shadowed(d) \/ (c.zboss /\ SameForZboss(c, d))
  BY <1>1, <1>6 DEF Shadowed
<1> QED BY <1>1, <1>2, <1>4, <1>5, <1>7, <1>8

\* Whatever an init function registers besides, ZBOSS's own handlers are there
\* only if they were, or if it had ZBOSS register them.
LEMMA ZbossAskedStep ==
    ASSUME Registry, NEW c \in uninit, NEW after \in AfterZboss(c), InitBegins(c),
           registered' = after \/ registered' = after \cup {c}
    PROVE  ZbossAsked'
<1> SUFFICES ASSUME NEW d \in device', Shadowed(d)'
             PROVE  ZbossDescribed(d)' # {}
  BY DEF ZbossAsked
<1>1. ZbossOwn(d) \in registered' /\ ZbossOwn(d) # c
  BY AfterZbossFacts, DeviceFacts DEF Shadowed, ZbossOwn, InitBegins
<1>2. Shadowed(d) \/ (c.zboss /\ SameForZboss(c, d))
  BY <1>1, AfterZbossFacts DEF InitBegins
<1>3. ZbossDescribed(d) # {}
  BY <1>2, AfterZbossFacts DEF Registry, ZbossAsked, ZbossDescribed, InitBegins
<1> QED BY <1>3 DEF ZbossDescribed, SameForZboss, InitBegins

\* Errors are counted by lost clusters, of which a device has finitely many.
LEMMA LostBound ==
    ASSUME device \in Devices
    PROVE  /\ IsFiniteSet(Lost \ refused)
           /\ Cardinality(Lost \ refused) \in 0 .. Cardinality(device)
<1>1. IsFiniteSet(device) /\ Lost \ refused \in SUBSET device
  BY DeviceFacts DEF Lost
<1>2. IsFiniteSet(Lost \ refused) /\ Cardinality(Lost \ refused) <= Cardinality(device)
  BY <1>1, FS_Subset
<1> QED BY <1>1, <1>2, FS_CardinalityType

LEMMA SlotsOfDevice ==
    ASSUME TypeOK
    PROVE  \A i \in DOMAIN slots : slots[i] \in device
BY DEF TypeOK

\* A step that loses nothing that ZBOSS did not refuse and takes no slot: the
\* invariant is kept if every cluster stays where it was.
LEMMA QuietStep ==
    ASSUME Registry, NEW c \in uninit, NEW after \in AfterZboss(c), InitBegins(c),
           \/ registered' = after
           \/ /\ registered' = after \cup {c} /\ Registers(c)
              /\ ~ AlreadyExists(c, after),
           slots' = slots, errors' = errors, refused' \in {refused, refused \cup {c}},
           Lost' \ refused' = Lost \ refused
    PROVE  Registry'
<1> USE DEF Registry
<1>1. /\ device' = device /\ uninit' = uninit \ {c} /\ last' = last
      /\ g_GlobalErrorHandler' = g_GlobalErrorHandler
  BY DEF InitBegins
<1>2. TypeOK'
  BY <1>1, AfterZbossFacts DEF TypeOK
<1>3. c \in device /\ c \notin registered /\ \A i \in DOMAIN slots : slots[i] # c
  BY AfterZbossFacts DEF OnePerZboss, SlotsReachable
<1>4. LossesTold'
  <2>1. \A i \in DOMAIN slots : slots[i] \notin registered'
    BY <1>3, AfterZbossFacts, SlotsOfDevice DEF LossesTold
  <2> QED BY <1>1, <2>1 DEF LossesTold
<1>5. SlotsReachable'
  BY <1>1, AfterZbossFacts DEF SlotsReachable
<1>6. OnePerZboss'
  <2>1. registered' \cap uninit' = {}
    BY <1>1, <1>3, AfterZbossFacts DEF OnePerZboss, TypeOK
  <2>2. \A r, s \in registered' : SameForZboss(r, s) => r = s
    BY AfterZbossFacts DEF SameForZboss, AlreadyExists
  <2> QED BY <2>1, <2>2 DEF OnePerZboss
<1>7. LostBehind'
  <2>1. \A r \in registered' \cap device' : Registers(r)
    BY <1>1, AfterZbossFacts DEF LostBehind
  <2>2. \A d \in Lost' \ refused' : \E r \in registered' : SameForZboss(r, d)
    BY AfterZbossFacts DEF LostBehind
  <2>3. \A i \in DOMAIN slots' : Registers(slots'[i])
    BY DEF LostBehind
  <2> QED BY <2>1, <2>2, <2>3 DEF LostBehind
<1>8. InitFirst'
  BY <1>1 DEF InitFirst
<1> QED BY <1>2, <1>4, <1>5, <1>6, <1>7, <1>8, ZbossAskedStep

\* The init function of a cluster that has nothing to register, whose
\* functions ZBOSS takes or refuses, that takes a slot, or that finds none.
LEMMA PlainStep ==
    ASSUME Registry, NEW c \in uninit, NEW after \in AfterZboss(c), InitPlain(c, after)
    PROVE  Registry'
<1> USE DEF InitPlain
<1>1. Lost' = Lost
  BY AfterZbossFacts DEF Lost, InitBegins
<1> QED BY <1>1, QuietStep

LEMMA RegisteredStep ==
    ASSUME Registry, NEW c \in uninit, NEW after \in AfterZboss(c), InitRegistered(c, after)
    PROVE  Registry'
<1> USE DEF InitRegistered
<1>1. Lost' = Lost
  BY AfterZbossFacts DEF Lost, InitBegins
<1> QED BY <1>1, QuietStep

LEMMA RefusedStep ==
    ASSUME Registry, NEW c \in uninit, NEW after \in AfterZboss(c), InitRefused(c, after)
    PROVE  Registry'
<1> USE DEF InitRefused
<1>1. c \notin Lost
  BY DEF Lost
<1>2. Lost' \ refused' = Lost \ refused
  BY <1>1, AfterZbossFacts DEF Lost, InitBegins
<1> QED BY <1>2, QuietStep

LEMMA AdditionalStep ==
    ASSUME Registry, NEW c \in uninit, NEW after \in AfterZboss(c), InitAdditional(c, after)
    PROVE  Registry'
<1> USE DEF Registry, InitAdditional, InitBegins
<1>1. /\ slots \in Seq(device) /\ slots' \in Seq(device)
      /\ Len(slots') = Len(slots) + 1
      /\ \A i \in 1 .. Len(slots) : slots'[i] = slots[i]
      /\ slots'[Len(slots) + 1] = c
  BY DEF TypeOK
<1>2. DOMAIN slots = 1 .. Len(slots) /\ DOMAIN slots' = 1 .. Len(slots) + 1
      /\ Len(slots) \in Nat
  BY <1>1
<1>3. Lost' = Lost
  <2>1. ASSUME NEW x PROVE x # c => ((\A i \in DOMAIN slots' : slots'[i] # x)
                                     <=> (\A i \in DOMAIN slots : slots[i] # x))
    BY <1>1, <1>2
  <2>2. ~ (\A i \in DOMAIN slots' : slots'[i] # c)
    BY <1>1, <1>2
  <2> QED BY <2>1, <2>2, AfterZbossFacts DEF Lost
<1>4. TypeOK'
  BY <1>1, AfterZbossFacts, ClusterDispatchAssumption DEF TypeOK, HasRoom
<1>5. LossesTold'
  <2>1. \A i \in DOMAIN slots' : slots'[i] \in device /\ slots'[i] \notin registered
    BY <1>1, <1>2, SlotsOfDevice DEF LossesTold, OnePerZboss, TypeOK
  <2>2. \A i \in DOMAIN slots' : slots'[i] \notin registered'
    BY <2>1, AfterZbossFacts
  <2>3. \A i, j \in DOMAIN slots' : slots'[i] = slots'[j] => i = j
    BY <1>1, <1>2 DEF LossesTold, SlotsReachable
  <2>4. Lost \ refused = {}
    <3>1. Len(slots) < kMaxEntries /\ kMaxEntries \in Nat
      BY ClusterDispatchAssumption DEF HasRoom
    <3>2. \A m, n \in Nat : m < n => m # n
      OBVIOUS
    <3>3. Len(slots) # kMaxEntries
      BY ONLY <1>2, <3>1, <3>2
    <3> QED BY <3>3 DEF LossesTold
  <2> QED BY <1>3, <2>2, <2>3, <2>4 DEF LossesTold
<1>6. SlotsReachable'
  BY <1>1, <1>2, AfterZbossFacts DEF SlotsReachable, AlreadyExists
<1>7. OnePerZboss'
  BY AfterZbossFacts DEF OnePerZboss, TypeOK
<1>8. LostBehind'
  BY <1>1, <1>2, <1>3, AfterZbossFacts DEF LostBehind
<1> QED BY <1>4, <1>5, <1>6, <1>7, <1>8, ZbossAskedStep DEF InitFirst

LEMMA NoMemoryStep ==
    ASSUME Registry, NEW c \in uninit, NEW after \in AfterZboss(c), InitNoMemory(c, after)
    PROVE  Registry'
<1> USE DEF Registry, InitNoMemory, InitBegins
<1>1. device \in Devices /\ device' = device /\ c \in device /\ c \notin refused
  BY DEF TypeOK
<1> DEFINE L == Lost \ refused
<1>2. L' = L \cup {c} /\ c \notin L
  BY <1>1, AfterZbossFacts DEF Lost, OnePerZboss, SlotsReachable
<1>3. IsFiniteSet(L) /\ Cardinality(L) \in Nat
  BY <1>1, LostBound, FS_CardinalityType
<1>4. Cardinality(L') = Cardinality(L) + 1
  <2> HIDE DEF L
  <2> QED BY <1>2, <1>3, FS_AddElement
<1>5. LossesTold'
  <2>1. Len(slots) = kMaxEntries
    BY ClusterDispatchAssumption DEF TypeOK, HasRoom
  <2>2. \A i \in DOMAIN slots : slots[i] \notin registered'
    BY AfterZbossFacts, SlotsOfDevice DEF LossesTold
  <2> QED BY <1>3, <1>4, <2>1, <2>2 DEF LossesTold
<1>6. Cardinality(L') \in 0 .. Cardinality(device)
  <2>1. IsFiniteSet(device) /\ L' \in SUBSET device
    BY <1>1, DeviceFacts DEF Lost
  <2>2. Cardinality(L') <= Cardinality(device) /\ Cardinality(device) \in Nat
    BY <2>1, FS_Subset, FS_CardinalityType
  <2> QED BY <1>3, <1>4, <2>2
<1>7. TypeOK'
  BY <1>1, <1>5, <1>6, AfterZbossFacts DEF TypeOK, LossesTold
<1>8. SlotsReachable'
  BY AfterZbossFacts DEF SlotsReachable
<1>9. OnePerZboss'
  BY AfterZbossFacts DEF OnePerZboss, TypeOK
<1>10. LostBehind'
  <2>1. \A d \in L' : \E r \in registered' : SameForZboss(r, d)
    BY <1>2, AfterZbossFacts DEF LostBehind, AlreadyExists
  <2> QED BY <2>1, AfterZbossFacts DEF LostBehind
<1> QED BY <1>5, <1>7, <1>8, <1>9, <1>10, ZbossAskedStep DEF InitFirst

-----------------------------------------------------------------------------
(* Requests change nothing but last, and name a cluster of the device. *)

\* What find returns: a slot of the cluster's endpoint and id, or nothing when
\* there is none.
LEMMA FindIs ==
    ASSUME TypeOK, NEW c
    PROVE  \/ /\ Find(c) = NoCluster
              /\ \A i \in DOMAIN slots : ~ (slots[i].ep = c.ep /\ slots[i].id = c.id)
           \/ /\ \E i \in DOMAIN slots : Find(c) = slots[i]
              /\ Find(c).ep = c.ep /\ Find(c).id = c.id
<1> DEFINE fit == {i \in DOMAIN slots : slots[i].ep = c.ep /\ slots[i].id = c.id}
<1>1. CASE fit = {}
  BY <1>1 DEF Find
<1>2. CASE fit # {}
  <2>1. fit \in SUBSET Nat
    BY DEF TypeOK
  <2> HIDE DEF fit
  <2>2. Min(fit) \in fit
    BY <1>2, <2>1, MinIsLeast
  <2>3. Find(c) = slots[Min(fit)]
    BY <1>2 DEF Find, fit
  <2> QED BY <2>2, <2>3 DEF fit
<1> QED BY <1>1, <1>2

\* What ZBOSS calls: a registered cluster of the same id and role, if any.
LEMMA PrimaryIs ==
    ASSUME NEW c
    PROVE  \/ /\ Primary(registered, c) = NoCluster
              /\ \A r \in registered : ~ SameForZboss(r, c)
           \/ /\ Primary(registered, c) \in registered
              /\ SameForZboss(Primary(registered, c), c)
BY DEF Primary

\* The functions that ZBOSS calls are those of a cluster of the device, or
\* its own.
LEMMA PrimaryOfDevice ==
    ASSUME TypeOK, NEW c \in device, Primary(registered, c) \in registered,
           SameForZboss(Primary(registered, c), c)
    PROVE  Primary(registered, c) \in device \/ Primary(registered, c) = ZbossOwn(c)
<1> DEFINE p == Primary(registered, c)
<1>1. CASE p \notin device
  <2>1. PICK d \in device : p = ZbossOwn(d)
    BY <1>1 DEF TypeOK
  <2>2. d.id = c.id /\ d.role = c.role
    BY <2>1 DEF SameForZboss, ZbossOwn
  <2> QED BY <2>1, <2>2 DEF ZbossOwn
<1> QED BY <1>1

\* Whatever a request resolves to is of its endpoint and id.
LEMMA ResolveIs ==
    ASSUME TypeOK, NEW c \in device,
           Primary(registered, c) # NoCluster
    PROVE  LET t == Resolve(Primary(registered, c), c)
           IN  t # NoCluster => t \in device /\ t.ep = c.ep /\ t.id = c.id
<1> DEFINE p == Primary(registered, c)
<1>1. p \in registered /\ p.id = c.id /\ (p \in device \/ p = ZbossOwn(c))
  BY PrimaryIs, PrimaryOfDevice DEF SameForZboss
<1>2. CASE p.ep = c.ep
  <2>1. c.ep # 0
    BY ClusterDispatchAssumption DEF TypeOK
  <2>2. p \in device
    BY <1>1, <1>2, <2>1 DEF ZbossOwn
  <2> QED BY <1>1, <1>2, <2>2 DEF Resolve
<1>3. CASE p.ep # c.ep
  <2>1. Resolve(p, c) = Find(c)
    BY <1>3 DEF Resolve
  <2>2. \A i \in DOMAIN slots : slots[i] \in device
    BY DEF TypeOK
  <2> QED BY <2>1, <2>2, FindIs
<1> QED BY <1>2, <1>3

\* With one role for an id on an endpoint, it is the request's own cluster.
LEMMA ResolveOwn ==
    ASSUME TypeOK, OneRole, NEW c \in device,
           Primary(registered, c) # NoCluster
    PROVE  Resolve(Primary(registered, c), c) \in {c, NoCluster}
BY ResolveIs DEF OneRole

\* Unless it was lost, a cluster that registers anything is found.
LEMMA ResolvePlaced ==
    ASSUME Registry, OneRole, uninit = {}, NEW c \in device \ Lost,
           ~ Shadowed(c), Registers(c)
    PROVE  /\ Primary(registered, c) \in device
           /\ SameForZboss(Primary(registered, c), c)
           /\ Resolve(Primary(registered, c), c) = c
<1> USE DEF Registry
<1> DEFINE p == Primary(registered, c)
<1>2. c \in registered \/ \E i \in DOMAIN slots : slots[i] = c
  BY DEF Lost
<1>3. p \in registered /\ SameForZboss(p, c)
  <2>1. \E r \in registered : SameForZboss(r, c)
    BY <1>2 DEF SlotsReachable, SameForZboss
  <2> QED BY <2>1, PrimaryIs
<1>3a. p \in device
  BY <1>3, PrimaryOfDevice DEF Shadowed
<1>4. c # NoCluster /\ p # NoCluster
  BY <1>3a, DeviceFacts DEF TypeOK
<1>5. Resolve(p, c) # NoCluster
  <2>1. CASE p.ep = c.ep
    BY <2>1, <1>4 DEF Resolve
  <2>2. CASE p.ep # c.ep
    <3>1. Resolve(p, c) = Find(c)
      BY <2>2 DEF Resolve
    <3>2. c \notin registered
      BY <1>3, <2>2 DEF OnePerZboss, SameForZboss
    <3>3. PICK i \in DOMAIN slots : slots[i] = c
      BY <1>2, <3>2
    <3>4. \A j \in DOMAIN slots : slots[j] \in device /\ slots[j] # NoCluster
      BY DeviceFacts DEF TypeOK
    <3> QED BY <3>1, <3>3, <3>4, FindIs
  <2> QED BY <2>1, <2>2
<1> QED BY <1>3, <1>3a, <1>4, <1>5, ResolveOwn

-----------------------------------------------------------------------------
(* Requests. *)

ByZboss(c) == Primary(registered, c)
Target(c) == Resolve(ByZboss(c), c)

Unregistered ==
    UNCHANGED <<device, uninit, registered, slots, g_GlobalErrorHandler, errors, refused>>

\* A command is served with the callback of its target or with none, and with
\* none only when somebody on the way does not know it.
LEMMA CmdServed ==
    ASSUME NEW c, NEW cmd, NEW disable, OnClusterCmdHandling(c, cmd, disable)
    PROVE  /\ uninit = {} /\ Unregistered
           /\ last'.kind = "cmd" /\ last'.to = c
           /\ last'.by # NoCluster =>
                 last'.by = Target(c) /\ HasCmdHandler(ByZboss(c))
           /\ (last'.wanted /\ last'.by = NoCluster) =>
                 /\ cmd \in c.cmds
                 /\ \/ ~ HasCmdHandler(ByZboss(c))
                    \/ Target(c) = NoCluster
                    \/ cmd \notin Target(c).cmds
           /\ last'.outcome = "null call" =>
                 /\ HasCmdHandler(ByZboss(c))
                 /\ Target(c) # NoCluster /\ ~ HasCmdHandler(Target(c))
<1> USE DEF ByZboss, Target
<1>1. CASE ~ HasCmdHandler(ByZboss(c))
  <2>1. uninit = {} /\ Served("cmd", c, cmd \in c.cmds, NoCluster, "default handling")
    BY <1>1 DEF OnClusterCmdHandling
  <2> QED BY <1>1, <2>1 DEF Served, Unregistered
<1>2. CASE HasCmdHandler(ByZboss(c)) /\ Target(c) = NoCluster
  <2>1. ~ HasCmdHandler(NoCluster)
    BY DEF HasCmdHandler, NoCluster
  <2>2. uninit = {} /\ Served("cmd", c, cmd \in c.cmds, NoCluster, "INVALID_FIELD")
    BY <1>2, <2>1 DEF OnClusterCmdHandling
  <2> QED BY <1>2, <2>2 DEF Served, Unregistered
<1>3. CASE /\ HasCmdHandler(ByZboss(c))
           /\ Target(c) # NoCluster /\ ~ HasCmdHandler(Target(c))
  <2>1. cmd \notin Target(c).cmds
    BY <1>3 DEF HasCmdHandler
  <2>2. uninit = {} /\ Served("cmd", c, cmd \in c.cmds, NoCluster, "null call")
    BY <1>3 DEF OnClusterCmdHandling
  <2> QED BY <1>3, <2>1, <2>2 DEF Served, Unregistered
<1>4. CASE /\ HasCmdHandler(ByZboss(c))
           /\ Target(c) # NoCluster /\ HasCmdHandler(Target(c))
  <2>1. uninit = {} /\ OnCmd(Target(c), c, cmd, disable)
    BY <1>4 DEF OnClusterCmdHandling
  <2>2. \A r : Outcome(r, disable) # "null call"
    BY DEF Outcome
  <2>3. CASE /\ cmd \notin Target(c).cmds
             /\ Served("cmd", c, cmd \in c.cmds, NoCluster, "default handling")
    BY <2>1, <2>3 DEF Served, Unregistered
  <2>4. CASE Served("cmd", c, FALSE, NoCluster, "default handling")
    BY <2>1, <2>4 DEF Served, Unregistered
  <2>5. ASSUME NEW r, Served("cmd", c, FALSE, NoCluster, Outcome(r, disable))
        PROVE  /\ Unregistered /\ last'.kind = "cmd" /\ last'.to = c
               /\ last'.by = NoCluster /\ ~ last'.wanted
               /\ last'.outcome # "null call"
    BY <2>2, <2>5 DEF Served, Unregistered
  <2>6. ASSUME NEW r,
               Served("cmd", c, cmd \in c.cmds, Target(c), Outcome(r, disable))
        PROVE  /\ Unregistered /\ last'.kind = "cmd" /\ last'.to = c
               /\ last'.by = Target(c) /\ last'.outcome # "null call"
    BY <2>2, <2>6 DEF Served, Unregistered
  <2> QED BY <1>4, <2>1, <2>3, <2>4, <2>5, <2>6 DEF OnCmd
<1> QED BY <1>1, <1>2, <1>3, <1>4

\* A write is served with the validator of its target or with none, and is
\* refused without one only when somebody on the way has no checker.
LEMMA WriteServed ==
    ASSUME NEW c, NEW attr, OnClusterCheckValue(c, attr)
    PROVE  /\ uninit = {} /\ Unregistered
           /\ last'.kind = "write" /\ last'.to = c
           /\ last'.wanted <=> (attr \in c.attrs)
           /\ last'.by # NoCluster =>
                 /\ last'.by = Target(c) /\ HasChecker(ByZboss(c))
                 /\ attr \in Target(c).attrs
           /\ last'.by = NoCluster =>
                 \/ ~ HasChecker(ByZboss(c))
                 \/ Target(c) = NoCluster
                 \/ attr \notin Target(c).attrs
           /\ (last'.by = NoCluster /\ last'.outcome # "RET_OK") =>
                 \/ Shadowed(c)
                 \/ /\ HasChecker(ByZboss(c))
                    /\ Target(c) = NoCluster \/ last'.outcome = "null call"
           /\ last'.outcome = "null call" =>
                 /\ HasChecker(ByZboss(c))
                 /\ Target(c) # NoCluster /\ ~ HasChecker(Target(c))
<1> USE DEF ByZboss, Target
<1>1. CASE ~ HasChecker(ByZboss(c))
  <2>1. /\ uninit = {}
        /\ \/ Served("write", c, attr \in c.attrs, NoCluster, "RET_OK")
           \/ /\ Shadowed(c)
              /\ Served("write", c, attr \in c.attrs, NoCluster, "RET_BUSY")
    BY <1>1 DEF OnClusterCheckValue
  <2>2. CASE Served("write", c, attr \in c.attrs, NoCluster, "RET_OK")
    BY <1>1, <2>1, <2>2 DEF Served, Unregistered
  <2>3. CASE /\ Shadowed(c)
             /\ Served("write", c, attr \in c.attrs, NoCluster, "RET_BUSY")
    BY <1>1, <2>1, <2>3 DEF Served, Unregistered
  <2> QED BY <2>1, <2>2, <2>3
<1>2. CASE HasChecker(ByZboss(c)) /\ Target(c) = NoCluster
  <2>1. ~ HasChecker(NoCluster)
    BY DEF HasChecker, NoCluster
  <2>2. uninit = {} /\ Served("write", c, attr \in c.attrs, NoCluster, "RET_BUSY")
    BY <1>2, <2>1 DEF OnClusterCheckValue
  <2> QED BY <1>2, <2>2 DEF Served, Unregistered
<1>3. CASE /\ HasChecker(ByZboss(c))
           /\ Target(c) # NoCluster /\ ~ HasChecker(Target(c))
  <2>1. attr \notin Target(c).attrs
    BY <1>3 DEF HasChecker
  <2>2. uninit = {} /\ Served("write", c, attr \in c.attrs, NoCluster, "null call")
    BY <1>3 DEF OnClusterCheckValue
  <2> QED BY <1>3, <2>1, <2>2 DEF Served, Unregistered
<1>4. CASE /\ HasChecker(ByZboss(c))
           /\ Target(c) # NoCluster /\ HasChecker(Target(c))
  <2>1. CASE attr \notin Target(c).attrs
    <3>1. uninit = {} /\ Served("write", c, attr \in c.attrs, NoCluster, "RET_OK")
      BY <1>4, <2>1 DEF OnClusterCheckValue
    <3> QED BY <1>4, <2>1, <3>1 DEF Served, Unregistered
  <2>2. CASE attr \in Target(c).attrs
    <3>1. /\ uninit = {}
          /\ \E ret \in {"RET_OK", "RET_BUSY"} :
                Served("write", c, attr \in c.attrs, Target(c), ret)
      BY <1>4, <2>2 DEF OnClusterCheckValue
    <3>2. PICK ret \in {"RET_OK", "RET_BUSY"} :
                Served("write", c, attr \in c.attrs, Target(c), ret)
      BY <3>1
    <3> QED BY <1>4, <2>2, <3>1, <3>2 DEF Served, Unregistered
  <2> QED BY <2>1, <2>2
<1> QED BY <1>1, <1>2, <1>3, <1>4

LEMMA ListServed ==
    ASSUME NEW c, GetCmdList(c)
    PROVE  /\ uninit = {} /\ Unregistered /\ HasCmdHandler(ByZboss(c))
           /\ last'.kind = "list" /\ last'.to = c /\ last'.by = ByZboss(c)
           /\ last'.outcome = "list"
<1>1. /\ uninit = {} /\ HasCmdHandler(ByZboss(c))
      /\ Served("list", c, TRUE, ByZboss(c), "list")
  BY DEF GetCmdList, ByZboss
<1> QED BY <1>1 DEF Served, Unregistered

\* A handler of ZBOSS's side belongs to a registered cluster of the request's
\* id and role, and so its target, if any, is of the request's endpoint and id.
LEMMA TargetIs ==
    ASSUME TypeOK, NEW c \in device,
           HasCmdHandler(ByZboss(c)) \/ HasChecker(ByZboss(c))
    PROVE  /\ ByZboss(c) \in device /\ SameForZboss(ByZboss(c), c)
           /\ Target(c) # NoCluster =>
                 /\ Target(c) \in device
                 /\ Target(c).ep = c.ep /\ Target(c).id = c.id
<1>1. ByZboss(c) # NoCluster /\ ByZboss(c) # ZbossOwn(c)
  BY DEF HasCmdHandler, HasChecker, NoCluster, ZbossOwn
<1>2. ByZboss(c) \in device /\ SameForZboss(ByZboss(c), c)
  BY <1>1, PrimaryIs, PrimaryOfDevice DEF ByZboss
<1> QED BY <1>1, <1>2, ResolveIs DEF ByZboss, Target

\* When ZBOSS has handlers of its own, it calls those.
LEMMA ShadowedIs ==
    ASSUME Registry, NEW c \in device, Shadowed(c)
    PROVE  ~ HasCmdHandler(ByZboss(c)) /\ ~ HasChecker(ByZboss(c))
<1>1. ZbossOwn(c) \in registered /\ SameForZboss(ZbossOwn(c), c)
  BY DEF Shadowed, SameForZboss, ZbossOwn
<1>2. ByZboss(c) \in registered /\ SameForZboss(ByZboss(c), c)
  BY <1>1, PrimaryIs DEF ByZboss
<1>3. SameForZboss(ByZboss(c), ZbossOwn(c))
  BY <1>1, <1>2 DEF SameForZboss
<1>4. ByZboss(c) = ZbossOwn(c)
  BY <1>1, <1>2, <1>3 DEF Registry, OnePerZboss
<1> QED BY <1>4 DEF HasCmdHandler, HasChecker, ZbossOwn

\* The invariant of the registration does not depend on the requests.
LEMMA RequestStep ==
    ASSUME Registry, uninit = {}, Unregistered,
           last'.kind \in {"cmd", "list", "write"}, last'.to \in device,
           last'.by \in device \cup {NoCluster}
    PROVE  Registry'
<1> USE DEF Registry, Unregistered
<1>1. Lost' = Lost
  BY DEF Lost
<1>2. TypeOK'
  BY DEF TypeOK
<1>3. LossesTold'
  BY <1>1 DEF LossesTold
<1>4. ZbossAsked' /\ LostBehind'
  BY <1>1 DEF ZbossAsked, LostBehind, Shadowed, ZbossDescribed, SameForZboss, ZbossOwn
<1> QED BY <1>2, <1>3, <1>4 DEF SlotsReachable, OnePerZboss, InitFirst

LEMMA RegistryStep == Registry /\ [Next]_vars => Registry'
<1> SUFFICES ASSUME Registry, [Next]_vars PROVE Registry'
  OBVIOUS
<1>0. TypeOK
  BY DEF Registry
<1>1. ASSUME NEW c \in uninit, GenericClusterInit(c) PROVE Registry'
  BY <1>1, PlainStep, RegisteredStep, RefusedStep, AdditionalStep, NoMemoryStep
     DEF GenericClusterInit
<1>2. ASSUME NEW c \in device, NEW cmd, NEW disable,
             OnClusterCmdHandling(c, cmd, disable)
      PROVE  Registry'
  <2>1. last'.by # NoCluster => last'.by \in device
    BY <1>0, <1>2, CmdServed, TargetIs
  <2> QED BY <1>2, <2>1, CmdServed, RequestStep
<1>3. ASSUME NEW c \in device, GetCmdList(c) PROVE Registry'
  BY <1>0, <1>3, ListServed, TargetIs, RequestStep
<1>4. ASSUME NEW c \in device, NEW attr, OnClusterCheckValue(c, attr)
      PROVE  Registry'
  <2>1. last'.by # NoCluster => last'.by \in device
    BY <1>0, <1>4, WriteServed, TargetIs
  <2> QED BY <1>4, <2>1, WriteServed, RequestStep
<1>5. CASE UNCHANGED vars
  <2>1. Lost' = Lost
    BY <1>5 DEF Lost, vars
  <2>2. TypeOK' /\ LossesTold'
    BY <1>5, <2>1 DEF Registry, TypeOK, LossesTold, vars
  <2>3. ZbossAsked' /\ LostBehind'
    BY <1>5, <2>1 DEF vars, Registry, ZbossAsked, LostBehind, Shadowed, ZbossDescribed,
                SameForZboss, ZbossOwn
  <2> QED BY <1>5, <2>2, <2>3
          DEF Registry, SlotsReachable, OnePerZboss, InitFirst, vars
<1> QED BY <1>1, <1>2, <1>3, <1>4, <1>5 DEF Next

-----------------------------------------------------------------------------
(* The theorems. *)

THEOREM RegistryAlways == Spec => []Registry
BY InitRegistry, RegistryStep, PTL DEF Spec

\* The variables keep their types, whatever the order of the init functions.
THEOREM TypeCorrect == Spec => []TypeOK
<1>1. Registry => TypeOK
  BY DEF Registry
<1> QED BY <1>1, RegistryAlways, PTL

\* add() fails only when every slot is taken by a cluster that is nowhere else,
\* and an application that has set g_GlobalErrorHandler is told of each such
\* loss once; without it (its default) a loss is silent (generic_cluster_init).
THEOREM LossesAreTold == Spec => []LossesTold
<1>1. Registry => LossesTold
  BY DEF Registry
<1> QED BY <1>1, RegistryAlways, PTL

-----------------------------------------------------------------------------
(* How many slots a device needs. *)

\* A group of clusters of one id and role that ZBOSS leaves to the library has
\* a member that is neither in a slot nor lost.
LEMMA GroupOutside ==
    ASSUME Registry, refused = {}, NEW c \in Registering, ZbossDescribed(c) = {},
           NEW T, \A y \in T : y \in Lost \/ \E i \in DOMAIN slots : slots[i] = y
    PROVE  \E d \in Registering \ T : SameForZboss(d, c)
<1> USE DEF Registry
<1>1. CASE \A y \in T : ~ SameForZboss(y, c)
  BY <1>1 DEF SameForZboss
<1>2. ASSUME NEW y \in T, SameForZboss(y, c)
      PROVE  \E d \in Registering \ T : SameForZboss(d, c)
  <2>1. PICK r \in registered : SameForZboss(r, y)
    BY DEF SlotsReachable, LostBehind
  <2>2. SameForZboss(r, c)
    BY <1>2, <2>1 DEF SameForZboss
  <2>3. r \in device
    <3>1. c \in device /\ ~ Shadowed(c)
      BY DEF ZbossAsked, Registering
    <3>2. ASSUME NEW d \in device, r = ZbossOwn(d) PROVE r = ZbossOwn(c)
      BY <2>2, <3>2 DEF SameForZboss, ZbossOwn
    <3> QED BY <3>1, <3>2 DEF TypeOK, Shadowed
  <2>4. r \in Registering
    BY <2>3 DEF LostBehind, Registering
  <2>5. r \notin T
    BY DEF Lost, LossesTold
  <2> QED BY <2>2, <2>4, <2>5
<1> QED BY <1>1, <1>2

\* The clusters in the slots are as many as the slots taken.
LEMMA SlotsCounted ==
    ASSUME TypeOK, LossesTold
    PROVE  LET S == {slots[i] : i \in DOMAIN slots}
           IN  IsFiniteSet(S) /\ Cardinality(S) = Len(slots)
<1> DEFINE S == {slots[i] : i \in DOMAIN slots}
<1>1. DOMAIN slots = 1 .. Len(slots) /\ Len(slots) \in Nat
  BY DEF TypeOK
<1> DEFINE f == [i \in 1 .. Len(slots) |-> slots[i]]
<1>2. f \in Bijection(1 .. Len(slots), S)
  BY <1>1 DEF LossesTold, Bijection, Injection, Surjection, IsInjective
<1>3. IsFiniteSet(1 .. Len(slots)) /\ Cardinality(1 .. Len(slots)) = Len(slots)
  <2>1. \A n \in Nat : IsFiniteSet(1 .. n) /\ Cardinality(1 .. n) = n
    <3> TAKE n \in Nat
    <3>1. 1 \in Int /\ n \in Int /\ (1 > n => n = 0) /\ n - 1 + 1 = n
      OBVIOUS
    <3> QED BY <3>1, FS_Interval
  <2> QED BY <1>1, <2>1
<1> HIDE DEF S, f
<1>4. IsFiniteSet(S) /\ Cardinality(S) = Len(slots)
  BY <1>2, <1>3, FS_Bijection DEF ExistsBijection
<1> QED BY <1>4 DEF S

\* Whatever the order of the init functions, a device with no more clusters to
\* place than slots, one of each id and role not counted, loses none
\* (generic_cluster_init, cluster_custom_handlers_t::add).
THEOREM SlotsAlwaysSuffice == Spec => []SlotsSuffice
<1>1. ASSUME Registry PROVE SlotsSuffice
  <2> SUFFICES ASSUME Cardinality(Registering) - Cardinality(NeedNone) <= kMaxEntries,
                      refused = {}, NEW x \in Lost
               PROVE  FALSE
    BY DEF SlotsSuffice
  <2> DEFINE S == {slots[i] : i \in DOMAIN slots}
             T == S \cup {x}
             Free == Registering \ T
             Has(d, g) == <<d.id, d.role>> = g
             f == [g \in NeedNone |-> CHOOSE d \in Free : Has(d, g)]
  <2>1. TypeOK /\ LossesTold
    BY <1>1 DEF Registry
  <2>2. IsFiniteSet(Registering)
    BY <2>1, DeviceFacts, FS_Subset DEF TypeOK, Registering
  <2>3. IsFiniteSet(T) /\ Cardinality(T) = kMaxEntries + 1
    <3>1. IsFiniteSet(S) /\ Cardinality(S) = kMaxEntries
      BY <2>1, SlotsCounted DEF LossesTold
    <3>2. x \notin S
      BY DEF Lost
    <3> HIDE DEF S
    <3> QED BY <3>1, <3>2, FS_AddElement
  <2>4. T \subseteq Registering
    BY <1>1, SlotsOfDevice DEF Registry, LostBehind, Lost, Registering
  <2>5. \A g \in NeedNone : \E d \in Free : Has(d, g)
    <3> SUFFICES ASSUME NEW c \in Registering, ZbossDescribed(c) = {}
                 PROVE  \E d \in Free : Has(d, <<c.id, c.role>>)
      BY DEF NeedNone
    <3>1. \A y \in T : y \in Lost \/ \E i \in DOMAIN slots : slots[i] = y
      OBVIOUS
    <3> HIDE DEF T
    <3>2. \E d \in Registering \ T : SameForZboss(d, c)
      BY <1>1, <3>1, GroupOutside
    <3> QED BY <3>2 DEF SameForZboss
  <2> HIDE DEF T, S
  <2>6. IsFiniteSet(Free) /\ Cardinality(Free) = Cardinality(Registering) - (kMaxEntries + 1)
    <3>1. Registering \cap T = T
      BY <2>4
    <3> QED BY <2>2, <2>3, <3>1, FS_Difference
  <2>7. IsFiniteSet(NeedNone) /\ Cardinality(NeedNone) <= Cardinality(Free)
    <3> HIDE DEF Free, Has
    <3>1. \A g \in NeedNone : f[g] \in Free /\ Has(f[g], g)
      BY <2>5
    <3>2. \A g, h \in NeedNone : f[g] = f[h] => g = h
      BY <3>1 DEF Has
    <3>3. f \in Injection(NeedNone, Free)
      BY <3>1, <3>2 DEF Injection, IsInjective
    <3> QED BY <2>6, <3>3, FS_Injection
  <2> QED BY <2>2, <2>6, <2>7, FS_CardinalityType, ClusterDispatchAssumption
<1> QED BY <1>1, RegistryAlways, PTL

-----------------------------------------------------------------------------
(* Which cluster answers. *)

\* The init functions come before the first request.
LEMMA InitKeepsLast ==
    ASSUME Registry, NEW c \in uninit, GenericClusterInit(c)
    PROVE  last' = last /\ last = NoRequest
BY DEF GenericClusterInit, InitPlain, InitRegistered, InitRefused, InitAdditional,
       InitNoMemory, InitBegins, Registry, InitFirst

\* The callback and the validator used are of the endpoint and cluster id that
\* the request names, and of its cluster if no endpoint has both roles.
THEOREM RightClusterServes == Spec => []RightCluster
<1>1. Init => RightCluster
  BY DEF Init, RightCluster, NoRequest
<1>2. ASSUME Registry, RightCluster, [Next]_vars PROVE RightCluster'
  <2> USE <1>2
  <2>0. TypeOK
    BY DEF Registry
  <2>1. ASSUME device' = device, last' = last PROVE RightCluster'
    BY <2>1 DEF RightCluster, OneRole
  <2>2. ASSUME NEW c \in uninit, GenericClusterInit(c) PROVE RightCluster'
    BY <2>2, InitKeepsLast DEF RightCluster, NoRequest
  <2>3. ASSUME NEW c \in device, Unregistered, last'.to = c,
               last'.by # NoCluster =>
                  /\ last'.by = Target(c)
                  /\ HasCmdHandler(ByZboss(c)) \/ HasChecker(ByZboss(c))
        PROVE  RightCluster'
    <3>1. last'.by # NoCluster =>
             /\ last'.by \in device
             /\ last'.by.ep = c.ep /\ last'.by.id = c.id
      BY <2>0, <2>3, TargetIs
    <3> QED BY <2>3, <3>1 DEF RightCluster, OneRole, Unregistered
  <2>4. ASSUME NEW c \in device, NEW cmd, NEW disable,
               OnClusterCmdHandling(c, cmd, disable)
        PROVE  RightCluster'
    BY <2>3, <2>4, CmdServed
  <2>5. ASSUME NEW c \in device, GetCmdList(c) PROVE RightCluster'
    BY <2>5, ListServed DEF RightCluster
  <2>6. ASSUME NEW c \in device, NEW attr, OnClusterCheckValue(c, attr)
        PROVE  RightCluster'
    BY <2>3, <2>6, WriteServed
  <2>7. CASE UNCHANGED vars
    BY <2>1, <2>7 DEF vars
  <2> QED BY <2>2, <2>4, <2>5, <2>6, <2>7 DEF Next
<1> QED BY <1>1, <1>2, RegistryAlways, PTL DEF Spec

\* With one description for every endpoint, the functions of ZBOSS's side have
\* what the request's cluster has.
LEMMA UniformPrimary ==
    ASSUME Uniform, TypeOK, NEW c \in device,
           HasCmdHandler(ByZboss(c)) \/ HasChecker(ByZboss(c))
    PROVE  ByZboss(c).cmds = c.cmds /\ ByZboss(c).attrs = c.attrs
BY TargetIs DEF Uniform, TypeOK

\* ... so a cluster with handlers is its own target.
LEMMA UniformTarget ==
    ASSUME Uniform, Registry, OneRole, uninit = {},
           NEW c \in device \ Lost, ~ Shadowed(c), Registers(c)
    PROVE  /\ Target(c) = c /\ c # NoCluster
           /\ ByZboss(c).cmds = c.cmds /\ ByZboss(c).attrs = c.attrs
<1>1. Target(c) = c /\ ByZboss(c) \in device /\ SameForZboss(ByZboss(c), c)
  BY ResolvePlaced DEF ByZboss, Target, Registry, TypeOK
<1>2. c # NoCluster /\ device \in Devices
  BY DeviceFacts DEF Registry, TypeOK
<1> QED BY <1>1, <1>2 DEF Uniform

\* The same as ServedUnlessLost, told by what is registered.
ServedUnlessShadowed ==
    last.kind # "none" /\ last.to \notin Lost /\ OneRole /\ ~ Shadowed(last.to) =>
        /\ last.wanted => last.by # NoCluster
        /\ last.kind = "write" /\ ~ last.wanted => last.outcome = "RET_OK"
        /\ last.kind = "list" => last.by.cmds = last.to.cmds

LEMMA ServedOrShadowed ==
    ASSUME Uniform
    PROVE  Spec => []ServedUnlessShadowed
<1>1. Init => ServedUnlessShadowed
  BY DEF Init, ServedUnlessShadowed, NoRequest
<1>2. ASSUME Registry, ServedUnlessShadowed, [Next]_vars PROVE ServedUnlessShadowed'
  <2> USE <1>2
  <2>0. TypeOK
    BY DEF Registry
  <2>1. ASSUME Unregistered
        PROVE  /\ Lost' = Lost /\ (OneRole' <=> OneRole)
               /\ \A c \in device : Shadowed(c)' <=> Shadowed(c)
    BY <2>1 DEF Shadowed, ZbossOwn, Lost, OneRole, Unregistered
  <2>2. ASSUME NEW c \in uninit, GenericClusterInit(c) PROVE ServedUnlessShadowed'
    BY <2>2, InitKeepsLast DEF ServedUnlessShadowed, NoRequest
  <2>3. ASSUME NEW c \in device, NEW cmd, NEW disable,
               OnClusterCmdHandling(c, cmd, disable)
        PROVE  ServedUnlessShadowed'
    <3>1. ASSUME c \notin Lost, OneRole, ~ Shadowed(c), cmd \in c.cmds
          PROVE  ~ (last'.wanted /\ last'.by = NoCluster)
      <4>1. HasCmdHandler(c)
        BY <3>1 DEF HasCmdHandler
      <4>2. uninit = {}
        BY <2>3, CmdServed
      <4>3. Target(c) = c /\ c # NoCluster /\ ByZboss(c).cmds = c.cmds
        BY <3>1, <4>1, <4>2, UniformTarget DEF Registers
      <4>4. HasCmdHandler(ByZboss(c))
        BY <4>1, <4>3 DEF HasCmdHandler
      <4> QED BY <2>3, <3>1, <4>3, <4>4, CmdServed
    <3>2. /\ last'.wanted /\ last'.by = NoCluster => cmd \in c.cmds
          /\ last'.kind = "cmd" /\ Unregistered
      BY <2>3, CmdServed
    <3>3. last'.to = c
      BY <2>3, CmdServed
    <3> QED BY <2>1, <3>1, <3>2, <3>3 DEF ServedUnlessShadowed
  <2>4. ASSUME NEW c \in device, GetCmdList(c) PROVE ServedUnlessShadowed'
    <3>1. ByZboss(c) # NoCluster /\ ByZboss(c).cmds = c.cmds
      <4>1. HasCmdHandler(ByZboss(c))
        BY <2>4, ListServed
      <4> QED BY <2>0, <4>1, UniformPrimary DEF HasCmdHandler, NoCluster
    <3>2. last'.to = c /\ last'.kind = "list" /\ last'.by = ByZboss(c)
      BY <2>4, ListServed
    <3> QED BY <3>1, <3>2 DEF ServedUnlessShadowed
  <2>5. ASSUME NEW c \in device, NEW attr, OnClusterCheckValue(c, attr)
        PROVE  ServedUnlessShadowed'
    <3>1. /\ uninit = {} /\ Unregistered /\ last'.kind = "write"
          /\ last'.wanted <=> (attr \in c.attrs)
      BY <2>5, WriteServed
    <3>2. ASSUME c \notin Lost, OneRole, ~ Shadowed(c), HasChecker(c)
          PROVE  /\ Target(c) = c /\ c # NoCluster
                 /\ HasChecker(ByZboss(c))
      BY <3>1, <3>2, UniformTarget DEF HasChecker, Registers
    <3>3. ASSUME c \notin Lost, OneRole, ~ Shadowed(c), attr \in c.attrs
          PROVE  last'.by # NoCluster
      <4>1. HasChecker(c)
        BY <3>3 DEF HasChecker
      <4> QED BY <2>5, <3>2, <3>3, <4>1, WriteServed
    <3>4. ASSUME c \notin Lost, OneRole, ~ Shadowed(c), attr \notin c.attrs
          PROVE  last'.outcome = "RET_OK"
      <4>1. CASE HasChecker(ByZboss(c))
        <5>1. HasChecker(c)
          BY <2>0, <4>1, UniformPrimary DEF HasChecker
        <5>2. Target(c) = c /\ c # NoCluster
          BY <3>2, <3>4, <5>1
        <5> QED BY <2>5, <3>4, <5>1, <5>2, WriteServed
      <4>2. CASE ~ HasChecker(ByZboss(c))
        <5>1. last'.by = NoCluster
          BY <2>5, <4>2, WriteServed
        <5> QED BY <2>5, <3>4, <4>2, <5>1, WriteServed
      <4> QED BY <4>1, <4>2
    <3>5. last'.to = c
      BY <2>5, WriteServed
    <3> QED BY <2>1, <3>1, <3>3, <3>4, <3>5 DEF ServedUnlessShadowed
  <2>6. CASE UNCHANGED vars
    BY <2>6 DEF vars, ServedUnlessShadowed, Lost, OneRole, Shadowed, ZbossOwn
  <2> QED BY <2>2, <2>3, <2>4, <2>5, <2>6 DEF Next
<1> QED BY <1>1, <1>2, RegistryAlways, PTL DEF Spec

\* A device whose clusters are described alike on all endpoints uses the
\* callback or validator of the addressed cluster whenever it has one and has
\* not lost it, refuses no write for want of a slot and lists the right
\* commands: what other clusters lost does no harm.  Clusters of which a
\* description lets ZBOSS register first are left out (on_cluster_cmd_handling,
\* on_cluster_check_value).
THEOREM ServedOrLost ==
    ASSUME Uniform
    PROVE  Spec => []ServedUnlessLost
<1>1. ASSUME Registry, ServedUnlessShadowed PROVE ServedUnlessLost
  <2>1. last.kind # "none" => last.to \in device
    BY <1>1 DEF Registry, TypeOK, NoRequest
  <2> QED BY <1>1, <2>1 DEF Registry, ZbossAsked, ServedUnlessShadowed, ServedUnlessLost
<1>2. Spec => []ServedUnlessShadowed
  BY ServedOrShadowed
<1> QED BY <1>1, <1>2, RegistryAlways, PTL

\* With one description for every endpoint and one role for an id on an
\* endpoint, no missing handler is ever called, whatever was lost.
THEOREM NoNullCallUniform ==
    ASSUME Uniform, OneRoleEverywhere
    PROVE  Spec => []NoNullCall
<1>1. Init => NoNullCall
  <2>1. Init => last.kind = "none"
    BY DEF Init, NoRequest
  <2> QED BY <2>1 DEF NoNullCall
<1>2. ASSUME Registry, NoNullCall, [Next]_vars PROVE NoNullCall'
  <2> USE <1>2
  <2>0. TypeOK
    BY DEF Registry
  <2>1. ASSUME last' = last PROVE NoNullCall'
    BY <2>1 DEF NoNullCall
  <2>2. ASSUME NEW c \in uninit, GenericClusterInit(c) PROVE NoNullCall'
    BY <2>1, <2>2, InitKeepsLast
  <2>3. ASSUME NEW c \in device, Target(c) # NoCluster,
               HasCmdHandler(ByZboss(c)) \/ HasChecker(ByZboss(c))
        PROVE  /\ Target(c).cmds = ByZboss(c).cmds
               /\ Target(c).attrs = ByZboss(c).attrs
    <3>1. Target(c) = c
      BY <2>0, <2>3, TargetIs DEF OneRoleEverywhere, TypeOK
    <3> QED BY <2>0, <2>3, <3>1, UniformPrimary
  <2>4. ASSUME NEW c \in device, NEW cmd, NEW disable,
               OnClusterCmdHandling(c, cmd, disable)
        PROVE  NoNullCall'
    BY <2>3, <2>4, CmdServed DEF NoNullCall, HasCmdHandler
  <2>5. ASSUME NEW c \in device, GetCmdList(c) PROVE NoNullCall'
    BY <2>5, ListServed DEF NoNullCall
  <2>6. ASSUME NEW c \in device, NEW attr, OnClusterCheckValue(c, attr)
        PROVE  NoNullCall'
    BY <2>3, <2>6, WriteServed DEF NoNullCall, HasChecker
  <2>7. CASE UNCHANGED vars
    BY <2>1, <2>7 DEF vars
  <2> QED BY <2>2, <2>4, <2>5, <2>6, <2>7 DEF Next
<1> QED BY <1>1, <1>2, RegistryAlways, PTL DEF Spec

=============================================================================
