--------------------------- MODULE TeardownProofs ---------------------------
(* Proofs about Teardown: for any scope, any add-ons, any number of edits    *)
(* and of lost reconciles.                                                 *)
EXTENDS Teardown, TLAPS

-----------------------------------------------------------------------------
(* The Usages of usages.py                                                 *)

(* Whatever add_usage_resources says uses the cluster is one of the guarded *)
(* resources that run in it, and it says so of each of them; only the      *)
(* cluster uses the network.                                               *)
LEMMA UsageTable ==
    /\ AllUsages \subseteq Usages
    /\ \A g \in AllUsages : g.of = "gke" => g.by \in Guarded
    /\ \A g \in AllUsages : g.of = "network" => g.by = "gke"
    /\ \A u \in Guarded : [of |-> "gke", by |-> u] \in AllUsages
    /\ [of |-> "network", by |-> "gke"] \in AllUsages
<1> USE DEF AllUsages, BaseUsages, GatewayUsages, K8gbUsages, ArgocdUsages, EmitGkeUsage
<1>1. AllUsages \subseteq Usages
    BY DEF Usages, Units, Infrastructure, InCluster
<1>2. \A g \in AllUsages : /\ g.of = "gke" => g.by \in Guarded
                           /\ g.of = "network" => g.by = "gke"
    BY DEF Guarded, InCluster
<1>3. \A u \in Guarded : [of |-> "gke", by |-> u] \in AllUsages
    BY DEF Guarded, InCluster
<1>4. [of |-> "network", by |-> "gke"] \in AllUsages
    OBVIOUS
<1> QED BY <1>1, <1>2, <1>3, <1>4

LEMMA DesiredTypes ==
    /\ DesiredUnits \subseteq Scope /\ DesiredUnits \subseteq Units
    /\ DesiredUsages \subseteq Usages
    /\ Scope \cap {"network", "gke"} \subseteq DesiredUnits
<1>1. DesiredUnits \subseteq Scope /\ Scope \cap {"network", "gke"} \subseteq DesiredUnits
    BY DEF DesiredUnits
<1>2. DesiredUnits \subseteq Units
    BY <1>1, TeardownAssumption
<1>3. DesiredUsages \subseteq AllUsages
    BY DEF DesiredUsages, InScope, AllUsages, If
<1> QED BY <1>1, <1>2, <1>3, UsageTable

-----------------------------------------------------------------------------
(* What every apply does, in full or in part.                              *)
Applies ==
    \E done \in SUBSET Units, doneUsages \in SUBSET Usages :
        /\ plan.running /\ ApplyOnly(done, doneUsages)
        /\ faults' \in 0..MaxFaults

LEMMA ApplyApplies ==
    TypeOK /\ (Apply \/ ApplyRefused \/ ApplyPartly) => Applies
<1> SUFFICES ASSUME TypeOK, Apply \/ ApplyRefused \/ ApplyPartly PROVE Applies
    OBVIOUS
<1> USE DEF TypeOK
<1>0. /\ plan.units \subseteq Units /\ plan.usages \subseteq Usages
      /\ Withdrawn \subseteq Units /\ WithdrawnUsages \subseteq Usages
      /\ Denied \subseteq Withdrawn
    BY DEF Withdrawn, WithdrawnUsages, Denied
<1>1. CASE Apply
    BY <1>1, <1>0 DEF Apply, Applies
<1>2. CASE ApplyRefused
    <2>1. PICK u \in Denied, others \in SUBSET (Withdrawn \ Denied),
               doneUsages \in {{}, WithdrawnUsages} :
            ApplyOnly({u} \cup others, doneUsages)
        BY <1>2 DEF ApplyRefused
    <2>2. {u} \cup others \in SUBSET Units /\ doneUsages \in SUBSET Usages
        BY <1>0, <2>1
    <2>3. plan.running /\ faults' \in 0..MaxFaults
        BY <1>2 DEF ApplyRefused
    <2> QED BY <2>1, <2>2, <2>3 DEF Applies
<1>3. CASE ApplyPartly
    <2>1. PICK done \in SUBSET (plan.units \ Present), doneUsages \in {{}, plan.usages} :
            ApplyOnly(done, doneUsages)
        BY <1>3 DEF ApplyPartly
    <2>2. done \in SUBSET Units /\ doneUsages \in SUBSET Usages
        BY <1>0, <2>1
    <2>3. plan.running /\ faults' \in 0..MaxFaults
        BY <1>3, TeardownAssumption DEF ApplyPartly
    <2> QED BY <2>1, <2>2, <2>3 DEF Applies
<1> QED BY <1>1, <1>2, <1>3

-----------------------------------------------------------------------------
LEMMA TypeOKInit == Init => TypeOK
<1> SUFFICES ASSUME Init PROVE TypeOK
    OBVIOUS
<1>1. edits \in 0..MaxEdits /\ faults \in 0..MaxFaults
    BY TeardownAssumption DEF Init
<1>2. plan \in [running : BOOLEAN, units : SUBSET Units, usages : SUBSET Usages,
                dropped : SUBSET Units, droppedUsages : SUBSET Usages]
    BY DEF Init, NoPlan
<1> QED BY <1>1, <1>2 DEF Init, TypeOK

LEMMA TypeOKStep == TypeOK /\ [Next]_vars => TypeOK'
<1> SUFFICES ASSUME TypeOK, [Next]_vars PROVE TypeOK'
    OBVIOUS
<1> USE DEF TypeOK
<1>1. CASE RunFunction
    <2>1. Present \ DesiredUnits \subseteq Units /\ usages \ DesiredUsages \subseteq Usages
        BY DEF Present
    <2>2. plan' \in [running : BOOLEAN, units : SUBSET Units, usages : SUBSET Usages,
                     dropped : SUBSET Units, droppedUsages : SUBSET Usages]
        BY <1>1, <2>1, DesiredTypes DEF RunFunction
    <2> QED BY <1>1, <2>2 DEF RunFunction, userVars, unitVars, usageVars
<1>2. CASE Applies
    <2>1. PICK done \in SUBSET Units, doneUsages \in SUBSET Usages :
            plan.running /\ ApplyOnly(done, doneUsages) /\ faults' \in 0..MaxFaults
        BY <1>2 DEF Applies
    <2> USE DEF ApplyOnly, Withdraw
    <2>2. deleting' \subseteq Units /\ refused' \subseteq Units
        BY <2>1
    <2>3. /\ usages' \subseteq Usages /\ leaving' \subseteq usages'
          /\ active' = active /\ active' \subseteq usages'
        BY <2>1 DEF WithdrawnUsages
    <2>4. state' \in [Units -> {"absent", "pending", "up"}]
        BY <2>1
    <2>5. plan' \in [running : BOOLEAN, units : SUBSET Units, usages : SUBSET Usages,
                     dropped : SUBSET Units, droppedUsages : SUBSET Usages]
        BY <2>1 DEF NoPlan
    <2>6. UNCHANGED userVars /\ faults' \in 0..MaxFaults
        BY <2>1
    <2> QED BY <2>2, <2>3, <2>4, <2>5, <2>6 DEF userVars
<1>3. ASSUME NEW feature \in Features, Edit(feature) PROVE TypeOK'
    <2>1. on' \subseteq Features /\ hasty' \in BOOLEAN /\ edits' \in 0..MaxEdits
        BY <1>3, TeardownAssumption DEF Edit
    <2> QED BY <1>3, <2>1 DEF Edit, unitVars, usageVars
<1>4. CASE Delete
    BY <1>4 DEF Delete, unitVars, usageVars
<1>5. ASSUME NEW u \in Scope, UnitStep(u) PROVE TypeOK'
    <2>0. u \in Units
        BY TeardownAssumption
    <2>1. CASE Collect(u)
        BY <2>0, <2>1 DEF Collect, CanCollect, userVars, usageVars
    <2>2. CASE Provision(u)
        BY <2>0, <2>2 DEF Provision, CanProvision, userVars, usageVars
    <2>3. CASE FinishDelete(u)
        BY <2>0, <2>3 DEF FinishDelete, userVars
    <2> QED BY <1>5, <2>1, <2>2, <2>3 DEF UnitStep
<1>6. ASSUME NEW g \in InScope(AllUsages), UsageStep(g) PROVE TypeOK'
    <2>1. CASE Activate(g)
        BY <2>1 DEF Activate, CanActivate, userVars, unitVars
    <2>2. CASE FinishUsage(g)
        BY <2>2 DEF FinishUsage, CanFinishUsage, userVars
    <2> QED BY <1>6, <2>1, <2>2 DEF UsageStep
<1>7. CASE UNCHANGED vars
    BY <1>7 DEF vars
<1> QED
    BY <1>1, <1>2, <1>3, <1>4, <1>5, <1>6, <1>7, ApplyApplies DEF Next

(* The types, for any scope and any bounds.                                *)
THEOREM TypeCorrect == Spec => []TypeOK
<1> QED BY TypeOKInit, TypeOKStep, PTL DEF Spec
-----------------------------------------------------------------------------
(* The order of a teardown                                                 *)

Core == {"gke", "network"}

(* The Usages that protect the cluster and the network.                    *)
CoreUsages == {g \in InScope(AllUsages) : g.of \in Core}

(* Only what is in scope exists or is planned, no reconcile ever withdraws  *)
(* the cluster or the network, and nothing runs in a cluster, nor a cluster *)
(* in a network, that is not there, while the XR is live.                  *)
LiveInv ==
    /\ Present \subseteq Scope
    /\ deleting \subseteq Present /\ refused \subseteq Present
    /\ plan.units \subseteq Scope
    /\ plan.dropped \cap Core = {} /\ refused \cap Core = {}
    /\ phase = "live" =>
        /\ deleting \cap Core = {}
        /\ \A g \in CoreUsages : Up(g.by) => g.of \in Present

(* Once the XR is deleted, nothing new is created, and what is left of the   *)
(* users of the cluster or the network is covered by an active Usage, or    *)
(* never came up and, without what it needs, never will.                   *)
Covered(g) ==
    g.by \in Present =>
        \/ g \in active /\ g.of \in Present \ deleting
        \/ g.of \notin Present /\ ~Up(g.by)

DeletedInv ==
    (phase = "deleted" /\ ~hasty) => ~plan.running /\ \A g \in CoreUsages : Covered(g)

OrderInv == TypeOK /\ LiveInv /\ DeletedInv

LEMMA CoreUsageFacts ==
    ASSUME NEW g \in CoreUsages
    PROVE  /\ g \in AllUsages /\ g.of \in Scope /\ g.by \in Scope
           /\ g.of \in Needs(g.by) /\ g.of \in Units /\ g.by \in Units
           /\ g.by \notin {"network", "k8gb-address"}
<1>1. g \in AllUsages /\ g.of \in Scope /\ g.by \in Scope /\ g.of \in Core
    BY DEF CoreUsages, InScope
<1>2. g.of \in Units /\ g.by \in Units
    BY <1>1, UsageTable DEF Usages
<1>3. CASE g.of = "gke"
    BY <1>1, <1>2, <1>3, UsageTable DEF Guarded, Needs, InCluster
<1>4. CASE g.of = "network"
    BY <1>1, <1>2, <1>4, UsageTable DEF Needs, InCluster
<1> QED BY <1>1, <1>3, <1>4 DEF Core

LEMMA LiveInvStep == OrderInv /\ [Next]_vars => LiveInv'
<1> SUFFICES ASSUME OrderInv, [Next]_vars PROVE LiveInv'
    OBVIOUS
<1> USE DEF OrderInv, TypeOK, LiveInv
<1>0. \A g \in CoreUsages : /\ g.of \in Needs(g.by) /\ g.of \in Units
                           /\ g.by \in Units /\ g.of \in Core
    BY CoreUsageFacts DEF CoreUsages
<1>1. CASE RunFunction
    <2>1. UNCHANGED <<state, deleting, refused, phase>>
        BY <1>1 DEF RunFunction, unitVars, userVars
    <2>2. plan'.units \subseteq Scope /\ plan'.dropped \cap Core = {}
        BY <1>1, DesiredTypes DEF RunFunction, Core
    <2> QED BY <2>1, <2>2 DEF Present, Up
<1>2. CASE Applies
    <2>1. PICK done \in SUBSET Units, doneUsages \in SUBSET Usages :
            plan.running /\ ApplyOnly(done, doneUsages)
        BY <1>2 DEF Applies
    <2>2. plan' = NoPlan /\ phase' = phase
        BY <2>1 DEF ApplyOnly, userVars
    <2>3. /\ Present \subseteq Present' /\ Present' \subseteq Scope
          /\ \A u \in Units : state'[u] = "up" => state[u] = "up"
        BY <2>1 DEF ApplyOnly, Present
    <2>4. /\ Withdrawn \cap Core = {} /\ Withdrawn \subseteq Present
          /\ Denied \subseteq Withdrawn
        BY DEF Withdrawn, Denied
    <2>5. /\ deleting' \subseteq Present' /\ refused' \subseteq Present'
          /\ refused' \cap Core = {}
          /\ deleting' \cap Core = deleting \cap Core
        BY <2>1, <2>3, <2>4 DEF ApplyOnly, Withdraw
    <2>6. plan'.units = {} /\ plan'.dropped = {}
        BY <2>2 DEF NoPlan
    <2> QED BY <1>0, <2>2, <2>3, <2>5, <2>6 DEF Up
<1>3. ASSUME NEW feature \in Features, Edit(feature) PROVE LiveInv'
    BY <1>3 DEF Edit, unitVars, Present, Up
<1>4. CASE Delete
    BY <1>4 DEF Delete, unitVars, Present
<1>5. ASSUME NEW u \in Scope, UnitStep(u) PROVE LiveInv'
    <2>0. u \in Units
        BY TeardownAssumption
    <2>1. CASE Collect(u)
        BY <2>1 DEF Collect, CanCollect, userVars, Present, Up
    <2>2. CASE Provision(u)
        <3>1. Present' = Present /\ UNCHANGED <<deleting, refused, phase, plan>>
            BY <2>0, <2>2 DEF Provision, CanProvision, userVars, Present
        <3>2. \A v \in Units : state'[v] = "up" => state[v] = "up" \/ v = u
            BY <2>0, <2>2 DEF Provision, CanProvision
        <3>3. \A n \in Needs(u) : state[n] = "up"
            BY <2>2 DEF Provision, CanProvision, Up
        <3> QED BY <1>0, <3>1, <3>2, <3>3 DEF Up, Present
    <2>3. CASE FinishDelete(u)
        <3>1. /\ Present' = Present \ {u} /\ UNCHANGED <<phase, plan>>
              /\ deleting' = deleting \ {u} /\ refused' = refused \ {u}
            BY <2>0, <2>3 DEF FinishDelete, userVars, Present
        <3>2. \A v \in Units : state'[v] = "up" => state[v] = "up"
            BY <2>0, <2>3 DEF FinishDelete
        <3>3. u \in deleting
            BY <2>3 DEF FinishDelete
        <3> QED BY <1>0, <3>1, <3>2, <3>3 DEF Up
    <2> QED BY <1>5, <2>1, <2>2, <2>3 DEF UnitStep
<1>6. ASSUME NEW g \in InScope(AllUsages), UsageStep(g) PROVE LiveInv'
    <2>1. CASE Activate(g)
        BY <2>1 DEF Activate, CanActivate, userVars, unitVars, Present, Up
    <2>2. CASE FinishUsage(g)
        <3>1. UNCHANGED <<state, refused, phase, plan>>
            BY <2>2 DEF FinishUsage, CanFinishUsage, userVars
        <3>2. deleting' \cap Core = deleting \cap Core
            BY <2>2 DEF FinishUsage, CanFinishUsage
        <3>3. deleting' \subseteq Present
            BY <2>2 DEF FinishUsage, CanFinishUsage
        <3> QED BY <3>1, <3>2, <3>3 DEF Present, Up
    <2> QED BY <1>6, <2>1, <2>2 DEF UsageStep
<1>7. CASE UNCHANGED vars
    BY <1>7 DEF vars, Present, Up
<1> QED
    BY <1>1, <1>2, <1>3, <1>4, <1>5, <1>6, <1>7, ApplyApplies DEF Next

LEMMA DeletedInvStep == OrderInv /\ [Next]_vars => DeletedInv'
<1> SUFFICES ASSUME OrderInv, [Next]_vars, phase' = "deleted", ~hasty'
             PROVE  ~plan'.running /\ \A g \in CoreUsages : Covered(g)'
    BY DEF DeletedInv
<1> USE DEF OrderInv, TypeOK, LiveInv
<1>0. \A g \in CoreUsages : /\ g.of \in Needs(g.by) /\ g.of \in Units /\ g.by \in Units
                           /\ g.of \in Core /\ g \in InScope(AllUsages)
    BY CoreUsageFacts DEF CoreUsages
<1>1. CASE Delete
    <2>1. phase = "live" /\ InForce /\ UNCHANGED <<unitVars, usageVars, plan>>
        BY <1>1 DEF Delete
    <2>2. ~plan.running
        BY <2>1 DEF InForce
    <2>3. ASSUME NEW g \in CoreUsages, g.by \in Present
          PROVE  \/ g \in active /\ g.of \in Present \ deleting
                 \/ g.of \notin Present /\ ~Up(g.by)
        BY <1>0, <2>1, <2>3 DEF InForce
    <2> QED BY <2>1, <2>2, <2>3 DEF Covered, unitVars, usageVars, Present, Up
<1>2. ASSUME phase = "deleted", ~hasty PROVE DeletedInv'
    <2>0. ~plan.running /\ \A g \in CoreUsages : Covered(g)
        BY <1>2 DEF DeletedInv
    <2>1. CASE RunFunction \/ Applies \/ Delete
        BY <1>2, <2>0, <2>1 DEF RunFunction, Applies, Delete
    <2>2. ASSUME NEW feature \in Features, Edit(feature) PROVE FALSE
        BY <1>2, <2>2 DEF Edit
    <2>3. ASSUME NEW u \in Scope, UnitStep(u) PROVE DeletedInv'
        <3>0. u \in Units
            BY TeardownAssumption
        <3>1. CASE Collect(u)
            <4>1. /\ UNCHANGED <<state, active, plan>> /\ ~Protected(u, active)
                  /\ deleting' = deleting \cup {u} /\ u \in Present
                BY <3>1 DEF Collect, CanCollect, usageVars
            <4>2. ASSUME NEW g \in CoreUsages, Covered(g) PROVE Covered(g)'
                BY <4>1, <4>2 DEF Covered, Protected, Present, Up
            <4> QED BY <2>0, <4>1, <4>2 DEF DeletedInv
        <3>2. CASE Provision(u)
            <4>1. /\ UNCHANGED <<active, deleting, plan>> /\ Present' = Present
                  /\ \A n \in Needs(u) : n \in Units => n \in Present
                BY <3>0, <3>2 DEF Provision, CanProvision, usageVars, Present, Up
            <4>2. \A v \in Units : state'[v] = "up" => state[v] = "up" \/ v = u
                BY <3>0, <3>2 DEF Provision, CanProvision
            <4>3. ASSUME NEW g \in CoreUsages, Covered(g) PROVE Covered(g)'
                BY <1>0, <4>1, <4>2, <4>3 DEF Covered, Up
            <4> QED BY <2>0, <4>1, <4>3 DEF DeletedInv
        <3>3. CASE FinishDelete(u)
            <4>1. /\ Present' = Present \ {u} /\ u \in deleting /\ plan' = plan
                  /\ deleting' = deleting \ {u}
                  /\ active' = {g \in active : g.of # u}
                BY <3>0, <3>3 DEF FinishDelete, Present
            <4>2. \A v \in Units : state'[v] = "up" => state[v] = "up"
                BY <3>0, <3>3 DEF FinishDelete
            <4>3. ASSUME NEW g \in CoreUsages, Covered(g) PROVE Covered(g)'
                BY <1>0, <4>1, <4>2, <4>3 DEF Covered, Up
            <4> QED BY <2>0, <4>1, <4>3 DEF DeletedInv
        <3> QED BY <2>3, <3>1, <3>2, <3>3 DEF UnitStep
    <2>4. ASSUME NEW h \in InScope(AllUsages), UsageStep(h) PROVE DeletedInv'
        <3>1. CASE Activate(h)
            BY <2>0, <3>1 DEF Activate, CanActivate, unitVars, DeletedInv, Covered, Present, Up
        <3>2. CASE FinishUsage(h)
            <4>1. /\ UNCHANGED <<state, plan>> /\ active' = active \ {h}
                  /\ h \in active => h.by \notin Present
                  /\ deleting' \cap Core = deleting \cap Core
                BY <3>2 DEF FinishUsage, CanFinishUsage
            <4>2. ASSUME NEW g \in CoreUsages, Covered(g) PROVE Covered(g)'
                BY <1>0, <4>1, <4>2 DEF Covered, Present, Up
            <4> QED BY <2>0, <4>1, <4>2 DEF DeletedInv
        <3> QED BY <2>4, <3>1, <3>2 DEF UsageStep
    <2>5. CASE UNCHANGED vars
        BY <2>0, <2>5 DEF vars, DeletedInv, Covered, Present, Up
    <2> QED
        BY <2>1, <2>2, <2>3, <2>4, <2>5, ApplyApplies DEF Next
<1>3. phase # "deleted" \/ hasty => Delete
    <2>1. CASE hasty
        <3>1. hasty'
            BY <2>1 DEF Next, RunFunction, Apply, ApplyRefused, ApplyPartly, ApplyOnly, Edit,
                Delete, UnitStep, UsageStep, Collect, Provision, FinishDelete, Activate,
                FinishUsage, userVars, vars
        <3> QED BY <3>1
    <2>2. CASE phase # "deleted"
        BY <2>2 DEF Next, RunFunction, Apply, ApplyRefused, ApplyPartly, ApplyOnly, Edit,
            UnitStep, UsageStep, Collect, Provision, FinishDelete, Activate,
            FinishUsage, userVars, vars
    <2> QED BY <2>1, <2>2
<1> QED BY <1>1, <1>2, <1>3 DEF DeletedInv

LEMMA OrderInvInit == Init => OrderInv
<1> SUFFICES ASSUME Init PROVE LiveInv /\ DeletedInv
    BY TypeOKInit DEF OrderInv
<1>1. Present = {} /\ ~Up("gke") /\ \A g \in CoreUsages : ~Up(g.by)
    BY CoreUsageFacts DEF Init, Present, Up, Units, Infrastructure
<1> QED BY <1>1 DEF Init, LiveInv, DeletedInv, NoPlan

THEOREM OrderCorrect == Spec => []OrderInv
<1>1. OrderInv /\ [Next]_vars => OrderInv'
    BY TypeOKStep, LiveInvStep, DeletedInvStep DEF OrderInv
<1> QED BY <1>1, OrderInvInit, PTL DEF Spec

LEMMA OrderImplies == OrderInv => ClusterOutlivesAddOns /\ NetworkOutlivesCluster
<1> SUFFICES ASSUME OrderInv PROVE ClusterOutlivesAddOns /\ NetworkOutlivesCluster
    OBVIOUS
<1> USE DEF OrderInv, TypeOK, LiveInv, DeletedInv
<1>0. ASSUME NEW g \in AllUsages, g.of \in Core, ~hasty, Leaving(g.of), Up(g.by),
             g.by \in Units
      PROVE  FALSE
    <2>1. g.of \in Scope /\ g.by \in Scope /\ g.by \in Present
        BY <1>0 DEF Leaving, Present, Up
    <2>2. g \in CoreUsages
        BY <1>0, <2>1 DEF CoreUsages, InScope
    <2>3. phase = "deleted"
        BY <1>0 DEF Leaving
    <2>4. Covered(g)
        BY <1>0, <2>2, <2>3
    <2> QED BY <1>0, <2>1, <2>4 DEF Covered, Leaving
<1>1. ClusterOutlivesAddOns
    <2> SUFFICES ASSUME ~hasty, Leaving("gke"), NEW u \in Guarded, Up(u) PROVE FALSE
        BY DEF ClusterOutlivesAddOns
    <2>1. [of |-> "gke", by |-> u] \in AllUsages /\ u \in Units
        BY UsageTable DEF Guarded, Units
    <2> QED BY <1>0, <2>1 DEF Core
<1>2. NetworkOutlivesCluster
    <2> SUFFICES ASSUME ~hasty, Leaving("network"), Up("gke") PROVE FALSE
        BY DEF NetworkOutlivesCluster
    <2>1. [of |-> "network", by |-> "gke"] \in AllUsages /\ "gke" \in Units
        BY UsageTable DEF Units, Infrastructure
    <2> QED BY <1>0, <2>1 DEF Core
<1> QED BY <1>1, <1>2

(* No guarded Release or Object outlives its cluster, in any scope: the     *)
(* whole of usages.py's table is used.                                     *)
THEOREM ClusterIsLast == Spec => []ClusterOutlivesAddOns
<1> QED BY OrderCorrect, OrderImplies, PTL

(* The network goes after the cluster.                                     *)
THEOREM NetworkIsLast == Spec => []NetworkOutlivesCluster
<1> QED BY OrderCorrect, OrderImplies, PTL

-----------------------------------------------------------------------------
(* A teardown never gets stuck                                             *)

(* Only the Usages of usages.py exist, and the cluster a guarded resource    *)
(* came up in is not one that is still waiting to come up itself: it was    *)
(* never replaced under a live XR, nor after an orderly deletion.          *)
SupportInv ==
    /\ usages \subseteq InScope(AllUsages) /\ plan.usages \subseteq InScope(AllUsages)
    /\ (phase = "live" \/ ~hasty) =>
          \A u \in Guarded : Up(u) => "gke" \in Scope /\ state["gke"] # "pending"

LEMMA SupportInit == Init => SupportInv
BY DEF Init, SupportInv, NoPlan, Up, Guarded, Units

LEMMA SupportStep == OrderInv /\ SupportInv /\ [Next]_vars => SupportInv'
<1> SUFFICES ASSUME OrderInv, SupportInv, [Next]_vars PROVE SupportInv'
    OBVIOUS
<1> USE DEF OrderInv, TypeOK, SupportInv
<1>0. "gke" \in Units /\ Guarded \subseteq Units
    BY DEF Units, Infrastructure, Guarded
<1>1. CASE RunFunction
    <2>1. DesiredUsages \subseteq InScope(AllUsages)
        BY DEF DesiredUsages, InScope, AllUsages, If
    <2> QED BY <1>1, <2>1 DEF RunFunction, unitVars, usageVars, userVars, Up
<1>2. CASE Applies
    <2>1. PICK done \in SUBSET Units, doneUsages \in SUBSET Usages :
            plan.running /\ ApplyOnly(done, doneUsages)
        BY <1>2 DEF Applies
    <2>2. usages' \subseteq InScope(AllUsages) /\ plan'.usages = {}
        BY <2>1 DEF ApplyOnly, NoPlan
    <2>3. ASSUME phase' = "live" \/ ~hasty', NEW u \in Guarded, Up(u)'
          PROVE  "gke" \in Scope /\ state'["gke"] # "pending"
        <3>1. phase' = phase /\ hasty' = hasty
            BY <2>1 DEF ApplyOnly, userVars
        <3>2. Up(u)
            BY <1>0, <2>1, <2>3 DEF ApplyOnly, Up
        <3>3. "gke" \in Scope /\ state["gke"] # "pending"
            BY <2>3, <3>1, <3>2
        <3>4. phase = "live"
            BY <2>1, <2>3, <3>1 DEF DeletedInv
        <3>5. [of |-> "gke", by |-> u] \in CoreUsages
            <4>1. u \in Scope
                BY <1>0, <3>2 DEF LiveInv, Present, Up
            <4>2. [of |-> "gke", by |-> u] \in AllUsages
                BY UsageTable
            <4> QED BY <3>3, <4>1, <4>2 DEF CoreUsages, InScope, Core
        <3>6. "gke" \in Present
            BY <3>2, <3>4, <3>5 DEF LiveInv
        <3> QED BY <1>0, <2>1, <3>3, <3>6 DEF ApplyOnly
    <2> QED BY <2>2, <2>3
<1>3. ASSUME NEW feature \in Features, Edit(feature) PROVE SupportInv'
    BY <1>3 DEF Edit, unitVars, usageVars, Up
<1>4. CASE Delete
    BY <1>4 DEF Delete, unitVars, usageVars, Up
<1>5. ASSUME NEW u \in Scope, UnitStep(u) PROVE SupportInv'
    <2>0. u \in Units
        BY TeardownAssumption
    <2>1. CASE Collect(u)
        BY <2>1 DEF Collect, usageVars, userVars, Up
    <2>2. CASE Provision(u)
        <3>1. UNCHANGED <<usages, plan, phase, hasty>> /\ state' = [state EXCEPT ![u] = "up"]
            BY <2>2 DEF Provision, usageVars, userVars
        <3>2. ASSUME u \in Guarded PROVE "gke" \in Scope /\ state["gke"] = "up"
            <4>1. Up("gke")
                BY <2>2, <3>2 DEF Provision, CanProvision, Needs, Guarded
            <4> QED BY <1>0, <4>1 DEF Up, LiveInv, Present
        <3>3. \A v \in Guarded : Up(v)' => Up(v) \/ v = u
            BY <1>0, <2>0, <3>1 DEF Up
        <3>4. state'["gke"] = "pending" => state["gke"] = "pending"
            BY <1>0, <2>0, <3>1
        <3> QED BY <3>1, <3>2, <3>3, <3>4
    <2>3. CASE FinishDelete(u)
        <3>1. UNCHANGED <<usages, plan, phase, hasty>> /\ state' = [state EXCEPT ![u] = "absent"]
            BY <2>3 DEF FinishDelete, userVars
        <3>2. \A v \in Guarded : Up(v)' => Up(v)
            BY <1>0, <2>0, <3>1 DEF Up
        <3>3. state'["gke"] = "pending" => state["gke"] = "pending"
            BY <1>0, <2>0, <3>1
        <3> QED BY <3>1, <3>2, <3>3
    <2> QED BY <1>5, <2>1, <2>2, <2>3 DEF UnitStep
<1>6. ASSUME NEW g \in InScope(AllUsages), UsageStep(g) PROVE SupportInv'
    BY <1>6 DEF UsageStep, Activate, FinishUsage, userVars, unitVars, Up
<1>7. CASE UNCHANGED vars
    BY <1>7 DEF vars, Up
<1> QED
    BY <1>1, <1>2, <1>3, <1>4, <1>5, <1>6, <1>7, ApplyApplies DEF Next

(* When nobody can do anything about a deleted XR, a Usage there still is    *)
(* has a user still there, and what nothing uses waits for something else.  *)
LEMMA IdleFacts ==
    ASSUME OrderInv, SupportInv, phase = "deleted", Idle
    PROVE  /\ \A g \in usages : g \in InScope(AllUsages) /\ g.by \in Present
           /\ \A u \in Present : (\A g \in usages : g.of # u) => ~CanFinish(u)
<1> USE DEF OrderInv, TypeOK, SupportInv
<1>1. ASSUME NEW g \in usages PROVE g \in InScope(AllUsages) /\ g.by \in Present
    BY <1>1 DEF Idle, CanFinishUsage
<1>2. ASSUME NEW u \in Present, \A g \in usages : g.of # u PROVE ~CanFinish(u)
    <2>1. ~Protected(u, active) /\ u \in Scope
        BY <1>2 DEF Protected, LiveInv
    <2>2. u \in deleting
        BY <2>1 DEF Idle, CanCollect
    <2> QED BY <2>1, <2>2 DEF Idle
<1> QED BY <1>1, <1>2

LEMMA IdleIsTornDown == OrderInv /\ SupportInv => NeverStuck
<1> SUFFICES ASSUME OrderInv, SupportInv, phase = "deleted", ~hasty, Idle PROVE TornDown
    BY DEF NeverStuck
<1> USE DEF OrderInv, TypeOK
<1>0. \A g \in usages : /\ g \in AllUsages /\ g.of \in Units /\ g.by \in Units
                         /\ g.by \in Present
    BY IdleFacts, UsageTable DEF InScope, Usages
<1>1. \A g \in AllUsages : g.of \in Infrastructure /\ g.by \in Guarded \cup {"gke"}
    BY DEF AllUsages, BaseUsages, GatewayUsages, K8gbUsages, ArgocdUsages, EmitGkeUsage,
           Infrastructure, Guarded, InCluster
(* The guarded resources go first: nothing uses them.                      *)
<1>2. ASSUME NEW u \in Guarded, u \in Present PROVE FALSE
    <2>1. u \notin Infrastructure /\ u # "k8gb-address" /\ u \in InCluster
        BY DEF Guarded, InCluster, Infrastructure
    <2>2. ~CanFinish(u)
        BY <1>0, <1>1, <1>2, <2>1, IdleFacts
    <2>3. Up(u) /\ ~Up("gke")
        BY <2>1, <2>2 DEF CanFinish
    <2>4. "gke" \in Scope /\ state["gke"] # "pending"
        BY <2>3 DEF SupportInv
    <2>5. [of |-> "gke", by |-> u] \in CoreUsages
        <3>1. u \in Scope
            BY <1>2 DEF LiveInv
        <3>2. [of |-> "gke", by |-> u] \in AllUsages
            BY UsageTable
        <3> QED BY <2>4, <3>1, <3>2 DEF CoreUsages, InScope, Core
    <2>6. "gke" \in Present
        BY <1>2, <2>3, <2>5 DEF DeletedInv, Covered
    <2>7. "gke" \in Units
        BY DEF Units, Infrastructure
    <2> QED BY <2>3, <2>4, <2>6, <2>7 DEF Up, Present
(* Then the address and the cluster, then the network.                     *)
<1>3. \A g \in usages : g.by = "gke"
    BY <1>0, <1>1, <1>2
<1>4. "k8gb-address" \notin Present
    <2>1. \A g \in AllUsages : g.of = "k8gb-address" => g.by # "gke"
        BY DEF AllUsages, BaseUsages, GatewayUsages, K8gbUsages, ArgocdUsages, EmitGkeUsage
    <2>2. \A g \in usages : g.of # "k8gb-address"
        BY <1>0, <1>3, <2>1
    <2>3. {"k8gb-release", "k8gb-coredns-tcp"} \subseteq Guarded \cap Units
        BY DEF Guarded, InCluster, Units
    <2>4. ~Up("k8gb-release") /\ ~Up("k8gb-coredns-tcp") /\ "k8gb-address" \notin InCluster
        BY <1>2, <2>3 DEF Up, Present, InCluster
    <2> QED BY <2>2, <2>4, IdleFacts DEF CanFinish
<1>5. "gke" \notin Present
    <2>1. \A g \in usages : g.of # "gke"
        BY <1>0, <1>3, UsageTable DEF Guarded, InCluster
    <2> QED BY <2>1, IdleFacts DEF CanFinish, InCluster
<1>6. usages = {}
    BY <1>0, <1>3, <1>5
<1>7. "network" \notin Present
    BY <1>6, IdleFacts DEF CanFinish, InCluster
<1>8. Present \subseteq {"certmanager-release"}
    BY <1>2, <1>4, <1>5, <1>7 DEF Present, Units, Infrastructure, Guarded
<1> QED BY <1>6, <1>8 DEF TornDown

(* The deletion of a control plane that was in force never gets stuck, in    *)
(* any scope and with any add-ons: the Usages have no cycle, and nothing a   *)
(* provider still needs is taken away before it.                           *)
THEOREM TeardownNeverStuck == Spec => []NeverStuck
<1>1. OrderInv /\ SupportInv /\ [Next]_vars => SupportInv'
    BY SupportStep
<1> QED BY <1>1, SupportInit, OrderCorrect, IdleIsTornDown, PTL DEF Spec

-----------------------------------------------------------------------------
(* The reserved address, while the add-on is turned on or off only once     *)

Address == "k8gb-address"
OnAddress == {"k8gb-release", "k8gb-coredns-tcp"}
UsageBy(b) == [of |-> Address, by |-> b]

(* k8gb is not wanted and was not before: nothing of it is there or planned. *)
Unused ==
    /\ phase = "live" /\ ~Enabled("k8gb")
    /\ (OnAddress \cup {Address}) \cap (Present \cup plan.units) = {}

(* k8gb is wanted: the address stays, and comes before what is on it.       *)
Serving ==
    /\ phase = "live" /\ Enabled("k8gb")
    /\ Address \notin deleting \cup refused \cup plan.dropped
    /\ OnAddress \cap (Present \cup plan.units) # {} => Up(Address)

(* k8gb, or the XR, was given up for good: nothing on the address comes up    *)
(* again, and what there is of it is covered by an active Usage.           *)
Retiring ==
    /\ \/ phase = "deleted" /\ ~plan.running
       \/ phase = "live" /\ ~Enabled("k8gb") /\ edits = MaxEdits
    /\ OnAddress \cap plan.units = {}
    /\ \A b \in OnAddress : b \in Present =>
            UsageBy(b) \in active /\ Address \in Present \ deleting

AddressInv ==
    /\ ~plan.running => plan = NoPlan
    /\ hasty \/ Unused \/ Serving \/ Retiring

LEMMA AddressUsages ==
    \A b \in OnAddress : UsageBy(b) \in AllUsages /\ b \in Units
BY DEF OnAddress, UsageBy, Address, AllUsages, K8gbUsages, Units, InCluster

LEMMA K8gbDesired ==
    /\ Enabled("k8gb") /\ Address \in Scope => Address \in DesiredUnits
    /\ OnAddress \cap DesiredUnits # {} => Enabled("k8gb") /\ Up(Address)
    /\ Address \in DesiredUnits => Enabled("k8gb")
BY DEF DesiredUnits, If, Address, OnAddress

(* What an apply does to the address and what is on it.                    *)
LEMMA ApplyAddress ==
    ASSUME OrderInv, NEW done \in SUBSET Units, NEW doneUsages \in SUBSET Usages,
           plan.running, ApplyOnly(done, doneUsages)
    PROVE  /\ plan' = NoPlan /\ UNCHANGED <<phase, on, edits, hasty, active>>
           /\ Present \subseteq Present' /\ Present' \subseteq Present \cup plan.units
           /\ Up(Address) => Up(Address)'
           /\ Address \in deleting' => \/ Address \in deleting
                                       \/ Address \in plan.dropped /\ ~Protected(Address, active)
           /\ Address \in refused' => Address \in refused \cup plan.dropped
<1> USE DEF OrderInv, TypeOK
<1>1. plan' = NoPlan /\ UNCHANGED <<phase, on, edits, hasty, active>>
    BY DEF ApplyOnly, userVars
<1>2. Present \subseteq Present' /\ Present' \subseteq Present \cup plan.units
    BY DEF ApplyOnly, Present
<1>3. Up(Address) => Up(Address)'
    BY DEF ApplyOnly, Up, Address, Present, Units, Infrastructure
<1>4. Address \in deleting' => \/ Address \in deleting
                               \/ Address \in plan.dropped /\ ~Protected(Address, active)
    BY DEF ApplyOnly, Withdraw, Withdrawn, Denied
<1>5. Address \in refused' => Address \in refused \cup plan.dropped
    BY DEF ApplyOnly, Withdraw, Withdrawn, Denied
<1> QED BY <1>1, <1>2, <1>3, <1>4, <1>5

LEMMA AddressStep ==
    ASSUME MaxEdits <= 1, OrderInv, AddressInv, [Next]_vars
    PROVE  AddressInv'
<1> USE DEF OrderInv, TypeOK, LiveInv
<1>0. Address \in Units /\ MaxEdits \in Nat
    BY TeardownAssumption DEF Address, Units, Infrastructure
<1>1. CASE RunFunction
    <2>1. /\ plan'.running /\ plan'.units = DesiredUnits
          /\ plan'.dropped = Present \ DesiredUnits
          /\ UNCHANGED <<state, deleting, refused, active, on, phase, edits, hasty>>
          /\ phase = "live" /\ ~plan.running
        BY <1>1 DEF RunFunction, unitVars, usageVars, userVars
    <2>2. UNCHANGED Present /\ (Up(Address)' <=> Up(Address)) /\ (Enabled("k8gb")' <=> Enabled("k8gb"))
        BY <2>1 DEF Present, Up, Enabled
    <2>3. Unused => Unused'
        BY <2>1, <2>2, K8gbDesired DEF Unused
    <2>4. Serving => Serving'
        BY <2>1, <2>2, K8gbDesired DEF Serving
    <2>5. Retiring => Retiring'
        BY <2>1, <2>2, K8gbDesired DEF Retiring
    <2> QED BY <2>1, <2>3, <2>4, <2>5 DEF AddressInv
<1>2. CASE Applies
    <2>1. PICK done \in SUBSET Units, doneUsages \in SUBSET Usages :
            plan.running /\ ApplyOnly(done, doneUsages)
        BY <1>2 DEF Applies
    <2>2. /\ plan' = NoPlan /\ UNCHANGED <<phase, on, edits, hasty, active>>
          /\ Present \subseteq Present' /\ Present' \subseteq Present \cup plan.units
          /\ Up(Address) => Up(Address)'
          /\ Address \in deleting' => \/ Address \in deleting
                                      \/ Address \in plan.dropped /\ ~Protected(Address, active)
          /\ Address \in refused' => Address \in refused \cup plan.dropped
        BY <2>1, ApplyAddress
    <2>3. plan'.units = {} /\ plan'.dropped = {} /\ (Enabled("k8gb")' <=> Enabled("k8gb"))
        BY <2>2 DEF NoPlan, Enabled
    <2>4. Unused => Unused'
        BY <2>2, <2>3 DEF Unused
    <2>5. Serving => Serving'
        BY <2>2, <2>3 DEF Serving
    <2>6. Retiring => Retiring'
        BY <2>1, <2>2, <2>3 DEF Retiring, Protected, UsageBy
    <2>7. hasty => hasty'
        BY <2>2
    <2> QED BY <2>2, <2>4, <2>5, <2>6, <2>7 DEF AddressInv
<1>3. ASSUME NEW feature \in Features, Edit(feature) PROVE AddressInv'
    <2>1. /\ UNCHANGED <<state, deleting, refused, active, phase, plan>>
          /\ phase = "live" /\ edits < MaxEdits /\ edits' = edits + 1
          /\ on' = (on \cup {feature}) \ (on \cap {feature})
          /\ hasty' \/ (~hasty /\ InForce)
        BY <1>3 DEF Edit, unitVars, usageVars
    <2>2. UNCHANGED Present /\ (Up(Address)' <=> Up(Address)) /\ edits' = MaxEdits
        BY <2>1, <1>0 DEF Present, Up
    <2>3. ASSUME ~hasty', Unused PROVE Unused' \/ Serving'
        <3>1. plan = NoPlan
            BY <2>1, <2>3 DEF InForce, AddressInv
        <3> QED BY <2>1, <2>2, <2>3, <3>1 DEF Unused, Serving, NoPlan
    <2>4. ASSUME ~hasty', Serving PROVE Serving' \/ Retiring'
        <3>1. plan = NoPlan /\ InForce
            BY <2>1, <2>4 DEF InForce, AddressInv
        <3>2. ASSUME NEW b \in OnAddress, b \in Present
              PROVE  UsageBy(b) \in active /\ Address \in Present \ deleting
            <4>1. Address \in Present /\ Address \notin deleting
                BY <2>4, <3>2, <1>0 DEF Serving, Up, Present
            <4>2. UsageBy(b) \in InScope(AllUsages)
                BY <3>2, <4>1, AddressUsages DEF InScope, UsageBy
            <4> QED BY <3>1, <3>2, <4>1, <4>2 DEF InForce, UsageBy
        <3> QED BY <2>1, <2>2, <2>4, <3>1, <3>2 DEF Serving, Retiring, NoPlan
    <2>5. ~Retiring
        BY <2>1, <1>0 DEF Retiring
    <2> QED BY <2>1, <2>3, <2>4, <2>5 DEF AddressInv
<1>4. CASE Delete
    <2>1. /\ UNCHANGED <<state, deleting, refused, active, plan>> /\ phase' = "deleted"
          /\ hasty' \/ (~hasty /\ InForce)
        BY <1>4 DEF Delete, unitVars, usageVars
    <2>2. UNCHANGED Present
        BY <2>1 DEF Present
    <2>3. ASSUME ~hasty' PROVE Retiring'
        <3>1. plan = NoPlan /\ InForce /\ ~plan.running
            BY <2>1, <2>3 DEF InForce, AddressInv
        <3>2. ASSUME NEW b \in OnAddress, b \in Present
              PROVE  UsageBy(b) \in active /\ Address \in Present \ deleting
            <4>1. CASE Serving
                <5>1. Address \in Present /\ Address \notin deleting
                    BY <4>1, <3>2, <1>0 DEF Serving, Up, Present
                <5>2. UsageBy(b) \in InScope(AllUsages)
                    BY <3>2, <5>1, AddressUsages DEF InScope, UsageBy
                <5> QED BY <3>1, <3>2, <5>1, <5>2 DEF InForce, UsageBy
            <4>2. CASE Unused
                BY <4>2, <3>2 DEF Unused
            <4>3. CASE Retiring
                BY <4>3, <3>2 DEF Retiring
            <4> QED BY <2>1, <2>3, <4>1, <4>2, <4>3 DEF AddressInv
        <3> QED BY <2>1, <2>2, <3>1, <3>2 DEF Retiring, NoPlan
    <2> QED BY <2>1, <2>3 DEF AddressInv
<1>5. ASSUME NEW u \in Scope, UnitStep(u) PROVE AddressInv'
    <2>0. u \in Units
        BY TeardownAssumption
    <2>1. CASE Collect(u)
        <3>1. /\ UNCHANGED <<state, refused, active, plan, on, phase, edits, hasty>>
              /\ deleting' = deleting \cup {u} /\ ~Protected(u, active) /\ phase = "deleted"
            BY <2>1 DEF Collect, CanCollect, userVars, usageVars
        <3>2. UNCHANGED Present /\ (Enabled("k8gb")' <=> Enabled("k8gb"))
            BY <3>1 DEF Present, Enabled
        <3>3. Retiring => Retiring'
            BY <3>1, <3>2 DEF Retiring, Protected, UsageBy
        <3> QED BY <3>1, <3>3 DEF AddressInv, Unused, Serving
    <2>2. CASE Provision(u)
        <3>1. /\ UNCHANGED <<deleting, refused, active, plan, on, phase, edits, hasty>>
              /\ Present' = Present /\ (Up(Address) => Up(Address)')
              /\ (Enabled("k8gb")' <=> Enabled("k8gb"))
            BY <2>0, <2>2, <1>0 DEF Provision, CanProvision, userVars, usageVars, Present, Up, Enabled
        <3> QED BY <3>1 DEF AddressInv, Unused, Serving, Retiring
    <2>3. CASE FinishDelete(u)
        <3>1. /\ UNCHANGED <<plan, on, phase, edits, hasty>>
              /\ Present' = Present \ {u} /\ u \in deleting
              /\ deleting' = deleting \ {u} /\ refused' = refused \ {u}
              /\ active' = {g \in active : g.of # u}
              /\ u # Address /\ Up(Address) => Up(Address)'
              /\ (Enabled("k8gb")' <=> Enabled("k8gb"))
            BY <2>0, <2>3, <1>0 DEF FinishDelete, userVars, Present, Up, Enabled
        <3>2. Unused => Unused'
            BY <3>1 DEF Unused
        <3>3. Serving => Serving'
            BY <3>1 DEF Serving
        <3>4. Retiring => Retiring'
            BY <3>1 DEF Retiring, UsageBy
        <3> QED BY <3>1, <3>2, <3>3, <3>4 DEF AddressInv
    <2> QED BY <1>5, <2>1, <2>2, <2>3 DEF UnitStep
<1>6. ASSUME NEW g \in InScope(AllUsages), UsageStep(g) PROVE AddressInv'
    <2>1. CASE Activate(g)
        <3>1. /\ UNCHANGED <<state, deleting, refused, plan, on, phase, edits, hasty>>
              /\ active \subseteq active'
            BY <2>1 DEF Activate, CanActivate, userVars, unitVars
        <3> QED BY <3>1 DEF AddressInv, Unused, Serving, Retiring, Present, Up, Enabled
    <2>2. CASE FinishUsage(g)
        <3>1. /\ UNCHANGED <<state, refused, plan, on, phase, edits, hasty>>
              /\ active' = active \ {g} /\ (g \in active => g.by \notin Present)
              /\ Address \in deleting' =>
                    \/ Address \in deleting
                    \/ Address \in refused /\ ~Protected(Address, active \ {g})
            BY <2>2 DEF FinishUsage, CanFinishUsage, userVars
        <3>2. UNCHANGED Present /\ (Up(Address)' <=> Up(Address))
              /\ (Enabled("k8gb")' <=> Enabled("k8gb"))
            BY <3>1 DEF Present, Up, Enabled
        <3>3. Unused => Unused'
            BY <3>1, <3>2 DEF Unused
        <3>4. Serving => Serving'
            BY <3>1, <3>2 DEF Serving
        <3>5. ASSUME Retiring PROVE Retiring'
            <4>1. ASSUME NEW b \in OnAddress, b \in Present
                  PROVE  UsageBy(b) \in active \ {g} /\ Address \in Present \ deleting'
                <5>1. UsageBy(b) \in active /\ UsageBy(b) # g
                    BY <3>1, <3>5, <4>1 DEF Retiring, UsageBy
                <5>2. Protected(Address, active \ {g})
                    BY <5>1 DEF Protected, UsageBy
                <5> QED BY <3>1, <3>5, <4>1, <5>1, <5>2 DEF Retiring
            <4> QED BY <3>1, <3>2, <3>5, <4>1 DEF Retiring
        <3> QED BY <3>1, <3>3, <3>4, <3>5 DEF AddressInv
    <2> QED BY <1>6, <2>1, <2>2 DEF UsageStep
<1>7. CASE UNCHANGED vars
    BY <1>7 DEF vars, AddressInv, Unused, Serving, Retiring, Present, Up, Enabled
<1> QED
    BY <1>1, <1>2, <1>3, <1>4, <1>5, <1>6, <1>7, ApplyApplies DEF Next

LEMMA AddressInit == Init => AddressInv
<1> SUFFICES ASSUME Init PROVE AddressInv
    OBVIOUS
<1>1. Present = {} /\ plan.units = {} /\ plan.dropped = {} /\ plan = NoPlan
    BY DEF Init, Present, NoPlan
<1> QED BY <1>1 DEF Init, AddressInv, Unused, Serving

LEMMA AddressImplies == OrderInv /\ AddressInv => AddressReleasedLast
BY DEF OrderInv, LiveInv, AddressInv, AddressReleasedLast, Leaving, Unused, Serving,
       Retiring, OnAddress, Address

(* As long as k8gb is not turned off and on again, the address is released  *)
(* last; the run address_toggle shows that the bound cannot be dropped.     *)
THEOREM AddressIsLast ==
    ASSUME MaxEdits <= 1
    PROVE  Spec => []AddressReleasedLast
<1>1. OrderInv /\ AddressInv /\ [Next]_vars => AddressInv'
    BY AddressStep
<1>2. Init => AddressInv
    BY AddressInit
<1>3. Spec => []AddressInv
    BY <1>1, <1>2, OrderCorrect, PTL DEF Spec
<1> QED BY <1>3, OrderCorrect, AddressImplies, PTL
=============================================================================
