------------------------------ MODULE Teardown ------------------------------
(***************************************************************************)
(* How a ControlPlane, or one of its add-ons, is taken down.  What runs in *)
(* the child cluster can only be cleaned up while the cluster is there, so *)
(* compose() adds Usages: objects that say one resource is used by another. *)
(* The API server refuses to delete a resource while an active Usage is on *)
(* it; a composed Usage that is itself being deleted stays until its user  *)
(* is gone, then repeats the refused deletion.  Usages are composed,       *)
(* activated and deleted like everything else, in no particular order.     *)
(***************************************************************************)
EXTENDS Integers, FiniteSets

CONSTANTS
    Features,   \* what users may turn on in this instance
    Scope,      \* the composed resources this instance looks at
    MaxEdits,   \* BOUND on the edits of the parameters
    MaxFaults   \* BOUND on reconciles whose writes are lost in part

Infrastructure == {"network", "gke", "k8gb-address"}

(* The Releases and Objects whose provider config is the child cluster's.   *)
InCluster == {"uxp-release", "certmanager-release",
    "envoy-gateway-release", "envoy-proxy-config", "gateway-class",
    "k8gb-release", "k8gb-coredns-tcp", "k8gb-coredns-observe",
    "argocd-release", "argocd-issuer", "argocd-cert", "argocd-gateway",
    "argocd-httproute", "argocd-app"}

Units == Infrastructure \cup InCluster

ASSUME TeardownAssumption ==
    /\ Features \subseteq {"k8gb", "argocd"}
    /\ Scope \subseteq Units
    /\ MaxEdits \in Nat /\ MaxFaults \in Nat

Usages == [of : Units, by : Units]

VARIABLES
    on,         \* the add-ons the parameters turn on
    phase,      \* of the XR: live, or deleted
    state,      \* of each unit: absent, pending (no contact yet), up
    deleting,   \* the units with a deletionTimestamp
    refused,    \* the units whose deletion was refused, to be replayed
    usages,     \* the Usage objects there are
    active,     \* those their controller has put into force
    leaving,    \* those with a deletionTimestamp
    plan,       \* what the running reconcile is to apply, and to withdraw
    edits, faults,
    hasty       \* HISTORY: an edit or a deletion came before all was in force

vars == <<on, phase, state, deleting, refused, usages, active, leaving, plan,
          edits, faults, hasty>>
unitVars == <<state, deleting, refused>>
usageVars == <<usages, active, leaving>>
userVars == <<on, phase, edits, hasty>>

NoPlan == [running |-> FALSE, units |-> {}, usages |-> {}, dropped |-> {},
           droppedUsages |-> {}]

(* The type invariant.                                                     *)
TypeOK ==
    /\ on \subseteq Features
    /\ phase \in {"live", "deleted"}
    /\ state \in [Units -> {"absent", "pending", "up"}]
    /\ deleting \subseteq Units /\ refused \subseteq Units
    /\ usages \subseteq Usages /\ active \subseteq usages /\ leaving \subseteq usages
    /\ plan \in [running : BOOLEAN, units : SUBSET Units, usages : SUBSET Usages,
                 dropped : SUBSET Units, droppedUsages : SUBSET Usages]
    /\ edits \in 0..MaxEdits /\ faults \in 0..MaxFaults
    /\ hasty \in BOOLEAN

Up(u) == state[u] = "up"
Present == {u \in Units : state[u] # "absent"}
Enabled(feature) == feature \in on
If(condition, things) == IF condition THEN things ELSE {}

-----------------------------------------------------------------------------
(* add_usage_resources                                                     *)

EmitGkeUsage(children) == {[of |-> "gke", by |-> c] : c \in children}

(* MUTANT of BaseUsages: the network is said to use the cluster.            *)
BaseUsages_Swapped == EmitGkeUsage({"uxp-release", "network"})

(* MUTANT of BaseUsages: network and cluster use each other.                *)
BaseUsages_Loop ==
    EmitGkeUsage({"uxp-release", "network"}) \cup {[of |-> "network", by |-> "gke"]}

BaseUsages == EmitGkeUsage({"uxp-release"}) \cup {[of |-> "network", by |-> "gke"]}

GatewayUsages ==
    EmitGkeUsage({"envoy-gateway-release", "envoy-proxy-config", "gateway-class"})

(* MUTANT of K8gbUsages: when the TCP Service came, the Release was lost.   *)
K8gbUsages_NoRelease ==
    EmitGkeUsage({"k8gb-coredns-observe", "k8gb-coredns-tcp"})
    \cup {[of |-> "k8gb-address", by |-> "k8gb-coredns-tcp"]}

K8gbUsages ==
    EmitGkeUsage({"k8gb-release", "k8gb-coredns-observe", "k8gb-coredns-tcp"})
    \cup {[of |-> "k8gb-address", by |-> "k8gb-release"],
          [of |-> "k8gb-address", by |-> "k8gb-coredns-tcp"]}

ArgocdUsages ==
    EmitGkeUsage({"argocd-release", "argocd-issuer", "argocd-cert", "argocd-gateway",
                  "argocd-httproute", "argocd-app"})

AllUsages == BaseUsages \cup GatewayUsages \cup K8gbUsages \cup ArgocdUsages
InScope(things) == {g \in things : g.of \in Scope /\ g.by \in Scope}

(* A Usage is composed with its add-on, be its user composed already or not. *)
DesiredUsages ==
    InScope(BaseUsages
            \cup If(Enabled("k8gb") \/ Enabled("argocd"), GatewayUsages)
            \cup If(Enabled("k8gb"), K8gbUsages)
            \cup If(Enabled("argocd"), ArgocdUsages))

(* MUTANT of DesiredUnits: keyed by the names of the Releases.              *)
DesiredUnits_Misnamed == {"network", "gke", "uxp", "certmanager"}

(* What compose() returns besides: always the cluster, UXP, cert-manager;   *)
(* the add-ons behind their gates.  An address or a Release that is being   *)
(* deleted still opens its gate.                                           *)
DesiredUnits ==
    Scope \cap (
        {"network", "gke", "uxp-release", "certmanager-release"}
        \cup If(Enabled("k8gb") \/ Enabled("argocd"), {"envoy-gateway-release"}
                \cup If(Up("envoy-gateway-release"), {"envoy-proxy-config", "gateway-class"}))
        \cup If(Enabled("k8gb"), {"k8gb-address", "k8gb-coredns-observe"}
                \cup If(Up("k8gb-address"), {"k8gb-release", "k8gb-coredns-tcp"}))
        \cup If(Enabled("argocd"), {"argocd-release"}
                \cup If(Up("envoy-gateway-release"), {"argocd-gateway", "argocd-httproute"})
                \cup If(Up("certmanager-release"), {"argocd-issuer", "argocd-cert"})
                \cup If(Up("argocd-release"), {"argocd-app"})))

-----------------------------------------------------------------------------
(* The reconciles of the live XR                                           *)

(* A new XR, with any of the add-ons: nothing is composed yet.             *)
Init ==
    /\ on \in SUBSET Features /\ phase = "live"
    /\ state = [u \in Units |-> "absent"]
    /\ deleting = {} /\ refused = {}
    /\ usages = {} /\ active = {} /\ leaving = {}
    /\ plan = NoPlan
    /\ edits = 0 /\ faults = 0 /\ hasty = FALSE

(* It reads what is there, and what of it is not desired is to be deleted.  *)
RunFunction ==
    /\ phase = "live" /\ ~plan.running
    /\ plan' = [running |-> TRUE, units |-> DesiredUnits, usages |-> DesiredUsages,
                dropped |-> Present \ DesiredUnits,
                droppedUsages |-> usages \ DesiredUsages]
    /\ UNCHANGED <<userVars, unitVars, usageVars, faults>>

(* The admission webhook: an active Usage protects what it is of.           *)
Protected(u, inForce) == \E g \in inForce : g.of = u

Withdrawn == plan.dropped \cap Present
WithdrawnUsages == plan.droppedUsages \cap usages
Denied == {u \in Withdrawn : Protected(u, active)}

(* Deletions among done are asked for, and refused for what is in use.      *)
Withdraw(done) ==
    /\ deleting' = deleting \cup ((done \cap Withdrawn) \ Denied)
    /\ refused' = refused \cup (done \cap Denied)

(* The writes among done and doneUsages are made.  Applying what exists,     *)
(* deleted or not, changes nothing here.                                   *)
ApplyOnly(done, doneUsages) ==
    /\ Withdraw(done)
    /\ leaving' = leaving \cup (doneUsages \cap WithdrawnUsages)
    /\ state' = [u \in Units |-> IF u \in (done \cap plan.units) \ Present
                                 THEN "pending" ELSE state[u]]
    /\ usages' = usages \cup (doneUsages \cap plan.usages)
    /\ plan' = NoPlan
    /\ UNCHANGED <<userVars, active>>

(* Crossplane deletes first and creates then.                              *)
Apply ==
    /\ plan.running /\ Denied = {}
    /\ ApplyOnly(plan.units \cup Withdrawn, plan.usages \cup WithdrawnUsages)
    /\ UNCHANGED faults

(* A refused deletion ends the reconcile, after whichever deletions came    *)
(* before it.                                                              *)
ApplyRefused ==
    /\ plan.running
    /\ \E u \in Denied, others \in SUBSET (Withdrawn \ Denied),
          doneUsages \in {{}, WithdrawnUsages} :
            ApplyOnly({u} \cup others, doneUsages)
    /\ UNCHANGED faults

(* Some of the creations fail, or Crossplane restarts.                     *)
ApplyPartly ==
    /\ plan.running /\ Denied = {} /\ faults < MaxFaults
    /\ faults' = faults + 1
    /\ \E done \in SUBSET (plan.units \ Present), doneUsages \in {{}, plan.usages} :
            ApplyOnly(done, doneUsages)

-----------------------------------------------------------------------------
(* Users                                                                   *)

(* Everything there is that uses something is covered by an active Usage,   *)
(* and no reconcile is under way.                                          *)
InForce ==
    /\ ~plan.running
    /\ \A g \in InScope(AllUsages) : {g.of, g.by} \subseteq Present => g \in active

Edit(feature) ==
    /\ phase = "live" /\ edits < MaxEdits
    /\ edits' = edits + 1
    /\ on' = (on \cup {feature}) \ (on \cap {feature})
    /\ hasty' = (hasty \/ ~InForce)
    /\ UNCHANGED <<phase, unitVars, usageVars, plan, faults>>

(* The XR is gone at once; what it owned is left to the garbage collector.  *)
Delete ==
    /\ phase = "live"
    /\ phase' = "deleted"
    /\ hasty' = (hasty \/ ~InForce)
    /\ UNCHANGED <<on, edits, unitVars, usageVars, plan, faults>>

-----------------------------------------------------------------------------
(* The garbage collector, the providers, and the controller of Usages       *)

(* The garbage collector retries what is refused.                          *)
CanCollect(u) == phase = "deleted" /\ u \in Present \ deleting /\ ~Protected(u, active)

Collect(u) ==
    /\ CanCollect(u)
    /\ deleting' = deleting \cup {u}
    /\ UNCHANGED <<userVars, state, refused, usageVars, plan, faults>>

Needs(u) ==
    IF u \in InCluster THEN {"gke"} ELSE IF u = "gke" THEN {"network"} \cap Scope ELSE {}

CanProvision(u) ==
    state[u] = "pending" /\ u \notin deleting /\ \A n \in Needs(u) : Up(n)

Provision(u) ==
    /\ CanProvision(u)
    /\ state' = [state EXCEPT ![u] = "up"]
    /\ UNCHANGED <<userVars, deleting, refused, usageVars, plan, faults>>

(* What the deletion of u waits for once it is accepted: the cluster must    *)
(* still be there, an address must not serve a load balancer any more.      *)
CanFinish(u) ==
    /\ Up(u) /\ u \in InCluster => Up("gke")
    /\ u = "k8gb-address" => ~Up("k8gb-release") /\ ~Up("k8gb-coredns-tcp")

FinishDelete(u) ==
    /\ u \in deleting /\ CanFinish(u)
    /\ state' = [state EXCEPT ![u] = "absent"]
    /\ deleting' = deleting \ {u} /\ refused' = refused \ {u}
    /\ active' = {g \in active : g.of # u}
    /\ UNCHANGED <<userVars, usages, leaving, plan, faults>>

CanActivate(g) == g \in usages \ (active \cup leaving) /\ g.of \in Present

Activate(g) ==
    /\ CanActivate(g)
    /\ active' = active \cup {g}
    /\ UNCHANGED <<userVars, unitVars, usages, leaving, plan, faults>>

(* A Usage withdrawn, or collected, lets go of its resource once its user is *)
(* gone; the last one repeats the deletion it refused (replayDeletion).     *)
CanFinishUsage(g) ==
    /\ g \in leaving \/ (phase = "deleted" /\ g \in usages)
    /\ g \in active => g.by \notin Present

FinishUsage(g) ==
    /\ CanFinishUsage(g)
    /\ usages' = usages \ {g} /\ active' = active \ {g} /\ leaving' = leaving \ {g}
    /\ deleting' = deleting \cup
          {u \in refused \cap {g.of} : ~Protected(u, active \ {g})}
    /\ UNCHANGED <<userVars, state, refused, plan, faults>>

-----------------------------------------------------------------------------
UnitStep(u) == Collect(u) \/ Provision(u) \/ FinishDelete(u)
UsageStep(g) == Activate(g) \/ FinishUsage(g)

Next ==
    \/ RunFunction \/ Apply \/ ApplyRefused \/ ApplyPartly
    \/ \E feature \in Features : Edit(feature)
    \/ Delete
    \/ \E u \in Scope : UnitStep(u)
    \/ \E g \in InScope(AllUsages) : UsageStep(g)

Spec == Init /\ [][Next]_vars

(* The garbage collector and every controller keep trying.                 *)
Fairness ==
    /\ WF_vars(RunFunction) /\ WF_vars(Apply) /\ WF_vars(ApplyRefused)
    /\ \A u \in Scope : WF_vars(Collect(u)) /\ WF_vars(Provision(u)) /\ WF_vars(FinishDelete(u))
    /\ \A g \in InScope(AllUsages) :
        WF_vars(Activate(g)) /\ WF_vars(FinishUsage(g))

FairSpec == Spec /\ Fairness

-----------------------------------------------------------------------------
(* Properties                                                              *)

Leaving(u) == u \in deleting \/ (phase = "deleted" /\ u \in Scope \ Present)

(* What usages.py promises for: every add-on's Release and Object, and UXP.  *)
Guarded == InCluster \ {"certmanager-release"}

(* A control plane or add-on that was in force is taken down in order: the  *)
(* deletion of the cluster does not even begin while one of the guarded     *)
(* Releases and Objects still runs in it ("otherwise the child Objects      *)
(* orphan-finalize", usages.py).                                           *)
ClusterOutlivesAddOns ==
    ~hasty /\ Leaving("gke") => \A u \in Guarded : ~Up(u)

(* ... nor that of the network while the cluster is there (usages.py "GKE   *)
(* cluster must be fully deleted before the network is removed").          *)
NetworkOutlivesCluster ==
    ~hasty /\ Leaving("network") => ~Up("gke")

(* ... nor that of the reserved address while the k8gb Release or the TCP   *)
(* Service, whose load balancers serve on it, is there (usages.py "CoreDNS  *)
(* reserved Address must be released only after the k8gb Release (and its   *)
(* LB) is gone").                                                          *)
AddressReleasedLast ==
    ~hasty /\ Leaving("k8gb-address") =>
        {"k8gb-release", "k8gb-coredns-tcp"} \cap Present = {}

(* Nobody can do anything: no reconcile runs, and neither the garbage        *)
(* collector nor a provider nor the controller of Usages has a step to take. *)
Idle ==
    /\ ~plan.running
    /\ \A u \in Scope : ~CanCollect(u) /\ ~CanProvision(u) /\ ~(u \in deleting /\ CanFinish(u))
    /\ \A g \in InScope(AllUsages) : ~CanActivate(g) /\ ~CanFinishUsage(g)

(* The Usages do not hold each other up: when nobody can do anything any     *)
(* more about a deleted XR that was in force, it is because nothing is left *)
(* but, possibly, cert-manager's Release, which no Usage speaks of.         *)
TornDown == Present \subseteq {"certmanager-release"} /\ usages = {}
NeverStuck == (phase = "deleted" /\ ~hasty /\ Idle) => TornDown

(* ... and that point is reached: the deletion ends.                        *)
TeardownEnds == (phase = "deleted" /\ ~hasty) ~> TornDown
=============================================================================
