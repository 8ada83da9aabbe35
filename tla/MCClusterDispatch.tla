-------------------------- MODULE MCClusterDispatch --------------------------
(* Devices for ClusterDispatch: which clusters an application may declare. *)
EXTENDS ClusterDispatch, TLC

CONSTANTS ep1, ep2, ep3, idA, idB, cmd, attr

MCEndpoints == {ep1, ep2, ep3}

\* What one description of a cluster has: commands, validators or both.
MCKinds == {[cmds |-> {cmd}, attrs |-> {}], [cmds |-> {}, attrs |-> {attr}],
            [cmds |-> {cmd}, attrs |-> {attr}]}

\* A second cluster: with both, or with nothing to register.
MCOtherKinds == {[cmds |-> {cmd}, attrs |-> {attr}], [cmds |-> {}, attrs |-> {}]}

MCCluster(ep, id, role, kind, zboss) ==
    [ep |-> ep, id |-> id, role |-> role, cmds |-> kind.cmds,
     attrs |-> kind.attrs, zboss |-> zboss]

\* The same description of a cluster on every endpoint that has it.  ZBOSS may
\* have handlers for the first, as it has for the library's basic cluster.
MCUniform ==
    {{MCCluster(ep, idA, "Server", a, zboss) : ep \in epsA} \cup
     {MCCluster(ep, idB, "Server", b, FALSE) : ep \in epsB} :
        a \in MCKinds, b \in MCOtherKinds, zboss \in BOOLEAN,
        epsA \in SUBSET MCEndpoints \ {{}}, epsB \in SUBSET MCEndpoints}

\* Both roles of one cluster on two endpoints; ZBOSS may have handlers for one.
MCTwoRoles ==
    {{MCCluster(ep, idA, role, [cmds |-> {cmd}, attrs |-> {}],
                zboss /\ role = "Server") :
        ep \in eps, role \in {"Server", "Client"}} : zboss \in BOOLEAN,
        eps \in {s \in SUBSET MCEndpoints : Cardinality(s) = 2}}

\* One endpoint's description lets ZBOSS register, the other's does not.
MCOneShadows ==
    {{MCCluster(ep, idA, "Server", a, ep = e) : ep \in eps} :
        a \in MCKinds \cup MCOtherKinds, e \in MCEndpoints,
        eps \in {t \in SUBSET MCEndpoints : Cardinality(t) = 2}}

MCDevices == MCUniform \cup MCTwoRoles \cup MCOneShadows

\* One cluster described with a validator on one endpoint, without on another.
MCMixed ==
    {{MCCluster(ep1, idA, "Server", [cmds |-> {cmd}, attrs |-> {attr}],
                FALSE),
      MCCluster(ep2, idA, "Server", [cmds |-> {cmd}, attrs |-> {}], FALSE)}}

\* Bound: one request, of any kind, once all clusters are initialised: requests
\* change nothing but last.
MCOneRequest == last = NoRequest

MCSymmetry == Permutations(MCEndpoints)

=============================================================================
