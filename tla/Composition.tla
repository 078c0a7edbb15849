---------------------------- MODULE Composition ----------------------------
(***************************************************************************)
(* The life of one ControlPlane: compose() is a pure function of the XR's  *)
(* parameters and of the composed resources observed at the start of a     *)
(* reconcile.  It returns the resources that should exist; Crossplane      *)
(* creates the missing ones and deletes the observed ones that are no      *)
(* longer wanted; the providers bring each of them up, or take it down, in *)
(* their own time.  Resources that are wanted under the same condition are *)
(* one unit here, named after one of them.                                 *)
(***************************************************************************)
EXTENDS Integers, FiniteSets

CONSTANTS
    Together,    \* BOUND: whatever is on at a time is part of one of these sets
    StaleReady,  \* the provider-helm defect: a Release's Ready stays False
    MaxEdits,    \* BOUND on the edits of the parameters
    MaxFaults    \* BOUND on failed upgrades, lapsed licenses, lost reconciles

AllFeatures == {"k8gb", "argocd", "backup", "installFrom", "vpa", "knative",
                "license", "licenseConflict"}

(* What users may turn on in this instance.                                *)
Features == UNION Together

ASSUME CompositionAssumption ==
    /\ Features \subseteq AllFeatures
    /\ StaleReady \in BOOLEAN
    /\ MaxEdits \in Nat /\ MaxFaults \in Nat

(* The Helm Releases.                                                      *)
Releases == {"uxp-release", "certmanager-release", "envoy-gateway-release",
             "k8gb-release", "argocd-release", "vpa-release",
             "knative-operator-release"}

(* Everything else: network and GKE cluster together; the Objects and the   *)
(* cloud resources of each add-on.                                         *)
Units == Releases \cup
    {"gke", "gateway-class", "k8gb-address", "k8gb-coredns-observe",
     "argocd-gateway", "argocd-cert", "argocd-app", "backup-config",
     "backup-identity", "backup-restore", "uxp-license",
     "knative-serving-cr", "upbound-runtime-config"}

VARIABLES
    on,         \* the features the parameters turn on
    state,      \* of each unit: absent, pending, up (deployed, Ready), failed
    deleting,   \* the units with a deletionTimestamp
    serving,    \* the KnativeServing inside knative-serving-cr reports Ready
    args,       \* upbound.manager.args in the spec of the UXP Release
    caps,       \* the capabilities in the spec of the runtime configuration
    plan,       \* what the function returned to the running reconcile
    statusReady,\* the Ready condition in status.controlplane.conditions
    xrReady,    \* the Ready condition function-auto-ready gives the XR
    edits, faults,
    deployed,   \* HISTORY: Releases that were deployed once: their CRDs exist
    restores    \* HISTORY: how often backup-restore was created, up to 2

vars == <<on, state, deleting, serving, args, caps, plan, statusReady, xrReady,
          edits, faults, deployed, restores>>

Flags == {"--enable-provider-vpa", "--enable-knative-runtime"}
CapabilityNames == {"ProviderVPA", "FunctionKnativeRuntime"}
NoPlan == [desired |-> {}, observed |-> {}, args |-> {}, caps |-> {},
           statusReady |-> FALSE, xrReady |-> FALSE, running |-> FALSE]

(* The type invariant.                                                     *)
TypeOK ==
    /\ on \subseteq Features
    /\ state \in [Units -> {"absent", "pending", "up", "failed"}]
    /\ deleting \subseteq Units
    /\ serving \in BOOLEAN
    /\ args \subseteq Flags /\ caps \subseteq CapabilityNames
    /\ plan \in [desired : SUBSET Units, observed : SUBSET Units,
                 args : SUBSET Flags, caps : SUBSET CapabilityNames,
                 statusReady : BOOLEAN, xrReady : BOOLEAN, running : BOOLEAN]
    /\ statusReady \in BOOLEAN /\ xrReady \in BOOLEAN
    /\ edits \in 0..MaxEdits /\ faults \in 0..MaxFaults
    /\ deployed \subseteq Releases
    /\ restores \in 0..2

Present == {u \in Units : state[u] # "absent"}

-----------------------------------------------------------------------------
(* compose()                                                               *)

Up(u) == state[u] = "up"
Enabled(feature) == feature \in on

(* is_release_deployed: also true of a Release that is being deleted.      *)
Deployed(r) == Up(r)

(* MUTANT of GatewayReady: the gate waits for what it gates.                *)
GatewayReady_WaitsForClass == Deployed("envoy-gateway-release") /\ Up("gateway-class")

GatewayReady == Deployed("envoy-gateway-release")
KnativeDepsReady == Deployed("certmanager-release") /\ Deployed("knative-operator-release")

(* is_knative_serving_ready: not the Object's own Ready, which says that the  *)
(* manifest was applied, but the one inside the manifest.                   *)
KnativeServingReady == "knative-serving-cr" \in Present /\ serving
KnativeFullyReady == KnativeDepsReady /\ KnativeServingReady

FeaturesLicensed == ~Enabled("license") \/ Up("uxp-license")

(* build_manager_args                                                      *)
ManagerArgs ==
    {f \in Flags :
        /\ FeaturesLicensed
        /\ CASE f = "--enable-provider-vpa" -> Enabled("vpa") /\ Deployed("vpa-release")
             [] f = "--enable-knative-runtime" -> Enabled("knative") /\ KnativeFullyReady}

(* MUTANT of Capabilities: one feature that is ready speaks for all enabled. *)
Capabilities_AnyReady ==
    {c \in CapabilityNames :
        /\ \/ Enabled("vpa") /\ Deployed("vpa-release")
           \/ Enabled("knative") /\ KnativeFullyReady
        /\ Enabled(IF c = "ProviderVPA" THEN "vpa" ELSE "knative")}

(* What add_runtime_config lists; whether it is licensed is not asked.      *)
Capabilities ==
    {c \in CapabilityNames :
        \/ c = "ProviderVPA" /\ Enabled("vpa") /\ Deployed("vpa-release")
        \/ c = "FunctionKnativeRuntime" /\ Enabled("knative") /\ KnativeFullyReady}

If(condition, units) == IF condition THEN units ELSE {}

ClusterDesired == {"gke"}
UxpDesired == {"uxp-release"}
CertManagerDesired == {"certmanager-release"}

(* MUTANT of GatewayDesired: the GatewayClass does not wait for its CRDs.    *)
GatewayDesired_Ungated == {"envoy-gateway-release", "gateway-class"}

(* MUTANT of GatewayDesired: a misspelt resource name.                      *)
GatewayDesired_Misspelt == {"envoy-gateway"} \cup If(GatewayReady, {"gateway-class"})

(* MUTANT of GatewayDesired: the GatewayClass is composed until it is there. *)
GatewayDesired_UntilThere ==
    {"envoy-gateway-release"} \cup If(GatewayReady /\ ~Up("gateway-class"), {"gateway-class"})

(* The Envoy Gateway, then the EnvoyProxy and GatewayClass.                *)
GatewayDesired == {"envoy-gateway-release"} \cup If(GatewayReady, {"gateway-class"})

(* MUTANT of K8gbDesired: the glue address is read from the CoreDNS Service, *)
(* which the Release creates.                                              *)
K8gbDesired_GlueFromService ==
    {"k8gb-address", "k8gb-coredns-observe"}
    \cup If(Up("k8gb-coredns-observe"), {"k8gb-release"})

(* The reserved address, then the k8gb Release and its TCP Service on it.   *)
K8gbDesired ==
    {"k8gb-address", "k8gb-coredns-observe"} \cup If(Up("k8gb-address"), {"k8gb-release"})

(* MUTANT of ArgocdDesired: the whole add-on waits for the gateway.         *)
ArgocdDesired_WaitsForGateway ==
    If(GatewayReady,
       {"argocd-release", "argocd-gateway"}
       \cup If(Deployed("certmanager-release"), {"argocd-cert"})
       \cup If(Deployed("argocd-release"), {"argocd-app"}))

(* Argo CD; Gateway and HTTPRoute; Issuer and Certificate; Application.     *)
ArgocdDesired ==
    {"argocd-release"}
    \cup If(GatewayReady, {"argocd-gateway"})
    \cup If(Deployed("certmanager-release"), {"argocd-cert"})
    \cup If(Deployed("argocd-release"), {"argocd-app"})

(* Bucket, BackupConfig, RBAC, and the schedule if there is one.           *)
BackupDesired == {"backup-config"}

(* Service account, its bindings, the controller's restart; and the Restore. *)
WorkloadIdentityDesired ==
    {"backup-identity"} \cup If(Enabled("installFrom"), {"backup-restore"})

(* On conflict a license already installed is kept.                        *)
LicenseComposed ==
    Enabled("license") /\ (~Enabled("licenseConflict") \/ "uxp-license" \in Present)
LicenseDesired == {"uxp-license"}

(* MUTANT of VpaDesired: VPA waits for UXP, as the backup identity does.     *)
VpaDesired_WaitsForUxp == If(Deployed("uxp-release"), {"vpa-release"})

VpaDesired == {"vpa-release"}

(* MUTANT of KnativeDesired: the operator waits for cert-manager.            *)
KnativeDesired_WaitsForCertManager ==
    If(Deployed("certmanager-release"),
       {"knative-operator-release"} \cup If(KnativeDepsReady, {"knative-serving-cr"}))

KnativeDesired ==
    {"knative-operator-release"} \cup If(KnativeDepsReady, {"knative-serving-cr"})

(* Only with something to list; the one licensed part the license does not   *)
(* gate.                                                                   *)
RuntimeConfigDesired == If(Capabilities # {}, {"upbound-runtime-config"})

(* MUTANT of Desired: the identity does not wait for the UXP Release.       *)
Desired_IdentityUngated ==
    ClusterDesired \cup UxpDesired \cup CertManagerDesired
    \cup If(Enabled("backup"), BackupDesired \cup WorkloadIdentityDesired)

Desired ==
    ClusterDesired \cup UxpDesired \cup CertManagerDesired
    \cup If(Enabled("k8gb") \/ Enabled("argocd"), GatewayDesired)
    \cup If(Enabled("k8gb"), K8gbDesired)
    \cup If(Enabled("argocd"), ArgocdDesired)
    \cup If(Enabled("backup"), BackupDesired)
    \cup If(Enabled("backup") /\ Deployed("uxp-release"), WorkloadIdentityDesired)
    \cup If(LicenseComposed, LicenseDesired)
    \cup If(Enabled("vpa") /\ FeaturesLicensed, VpaDesired)
    \cup If(Enabled("knative") /\ FeaturesLicensed, KnativeDesired)
    \cup RuntimeConfigDesired

(* The observed Ready condition; provider-helm may leave it False.         *)
ReadyCondition(u) == Up(u) /\ ~(StaleReady /\ u \in Releases)

(* MUTANT of XrReady: what is observed counts, not what is desired.         *)
XrReady_Observed == Present # {} /\ \A u \in Present : ReadyCondition(u)

(* MUTANT of StatusReady: what is not composed counts as not ready.         *)
StatusReady_Everything == \A u \in Units : ReadyCondition(u)

(* status.py counts what is observed, function-auto-ready what is desired,  *)
(* by the conditions of what is observed: the function returns no explicit  *)
(* readiness, its crossplane.io/ready annotations are metadata like any.    *)
StatusReady == Present # {} /\ \A u \in Present : ReadyCondition(u)
XrReady == \A u \in Desired : ReadyCondition(u)

-----------------------------------------------------------------------------
Init ==
    /\ \E features \in Together : on \in SUBSET features
    /\ state = [u \in Units |-> "absent"]
    /\ deleting = {} /\ serving = FALSE
    /\ args = {} /\ caps = {} /\ plan = NoPlan
    /\ statusReady = FALSE /\ xrReady = FALSE
    /\ edits = 0 /\ faults = 0
    /\ deployed = {} /\ restores = 0

(* A reconcile reads the XR and its resources, and runs the pipeline.      *)
RunFunction ==
    /\ ~plan.running
    /\ plan' = [desired |-> Desired, observed |-> Present,
                args |-> ManagerArgs, caps |-> Capabilities,
                statusReady |-> StatusReady, xrReady |-> XrReady, running |-> TRUE]
    /\ UNCHANGED <<on, state, deleting, serving, args, caps, statusReady, xrReady,
                   edits, faults, deployed, restores>>

(* Crossplane applies units "done" of the plan, and deletes of them what was *)
(* observed and is not desired any more.  Applying an object that is being  *)
(* deleted does not bring it back.  New arguments are a Helm upgrade of UXP: *)
(* it is not deployed again until that is through.                         *)
ApplyUnits(done) ==
    /\ state' = [u \in Units |->
          IF \/ u \in done \cap plan.desired /\ state[u] = "absent"
             \/ u = "uxp-release" /\ u \in done /\ Up(u) /\ plan.args # args
          THEN "pending" ELSE state[u]]
    /\ deleting' = deleting \cup ((plan.observed \ plan.desired) \cap done \cap Present)
    /\ args' = IF "uxp-release" \in done THEN plan.args ELSE args
    /\ caps' = IF "upbound-runtime-config" \in done \cap plan.desired THEN plan.caps ELSE caps
    /\ restores' = IF "backup-restore" \in (done \cap plan.desired) \ Present /\ restores < 2
                   THEN restores + 1 ELSE restores
    /\ plan' = NoPlan

Apply ==
    /\ plan.running
    /\ ApplyUnits(Units)
    /\ statusReady' = plan.statusReady /\ xrReady' = plan.xrReady
    /\ UNCHANGED <<on, serving, edits, faults, deployed>>

(* Some of the writes fail, or Crossplane restarts: the status is not       *)
(* written, the next reconcile starts over.                                *)
ApplyPartly ==
    /\ plan.running /\ faults < MaxFaults
    /\ faults' = faults + 1
    /\ \E done \in SUBSET ((plan.desired \ Present) \cup (plan.observed \ plan.desired)
                           \cup (plan.desired \cap {"uxp-release", "upbound-runtime-config"})) :
          ApplyUnits(done)
    /\ UNCHANGED <<on, serving, statusReady, xrReady, edits, deployed>>

-----------------------------------------------------------------------------
(* Providers                                                               *)

(* What a unit needs in the cluster before its provider can bring it up.    *)
Needs(u) ==
    CASE u \in {"gke", "k8gb-address"} -> {}
      [] u \in {"gateway-class", "argocd-gateway"} -> {"envoy-gateway-release"}
      [] u = "k8gb-coredns-observe" -> {"k8gb-release"}
      [] u = "argocd-cert" -> {"certmanager-release"}
      [] u = "argocd-app" -> {"argocd-release"}
      [] u = "knative-serving-cr" -> {"knative-operator-release", "certmanager-release"}
      [] u \in {"backup-config", "backup-identity", "backup-restore", "uxp-license",
                "upbound-runtime-config"} -> {"uxp-release"}
      [] OTHER -> {"gke"}

(* There is something for the provider of u to do, and what it needs.      *)
CanProvision(u) ==
    /\ state[u] \in {"pending", "failed"} /\ u \notin deleting
    /\ \A n \in Needs(u) : Up(n) \/ n \in deployed

(* The provider brings u up, retrying until what it needs is there.        *)
Provision(u) ==
    /\ CanProvision(u)
    /\ state' = [state EXCEPT ![u] = "up"]
    /\ deployed' = deployed \cup ({u} \cap Releases)
    /\ UNCHANGED <<on, deleting, serving, args, caps, plan, statusReady, xrReady,
                   edits, faults, restores>>

(* A Helm upgrade of a deployed Release fails; or the license is no longer   *)
(* accepted.                                                               *)
Fail(u) ==
    /\ Up(u) /\ faults < MaxFaults
    /\ faults' = faults + 1
    /\ u \in Releases \cup {"uxp-license"}
    /\ state' = [state EXCEPT ![u] = "failed"]
    /\ UNCHANGED <<on, deleting, serving, args, caps, plan, statusReady, xrReady,
                   edits, deployed, restores>>

Remove(u) ==
    /\ u \in deleting
    /\ deleting' = deleting \ {u}
    /\ state' = [state EXCEPT ![u] = "absent"]
    /\ serving' = (serving /\ u # "knative-serving-cr")
    /\ caps' = IF u = "upbound-runtime-config" THEN {} ELSE caps
    /\ UNCHANGED <<on, args, plan, statusReady, xrReady, edits, faults, deployed, restores>>

(* The Knative operator brings up what knative-serving-cr describes, some    *)
(* time after the Object itself is Ready, for that only means applied.      *)
CanServe == Up("knative-serving-cr") /\ "knative-serving-cr" \notin deleting /\ ~serving

Serve ==
    /\ CanServe
    /\ serving' = TRUE
    /\ UNCHANGED <<on, state, deleting, args, caps, plan, statusReady, xrReady,
                   edits, faults, deployed, restores>>

(* Knative Serving degrades; the Object stays Ready.                       *)
StopServing ==
    /\ serving /\ faults < MaxFaults
    /\ serving' = FALSE
    /\ faults' = faults + 1
    /\ UNCHANGED <<on, state, deleting, args, caps, plan, statusReady, xrReady,
                   edits, deployed, restores>>

(* The user turns a feature on or off; another XR takes the license, or     *)
(* gives it back.                                                          *)
Edit(feature) ==
    /\ edits < MaxEdits
    /\ edits' = edits + 1
    /\ on' = (on \cup {feature}) \ (on \cap {feature})
    /\ \E features \in Together : on' \subseteq features
    /\ UNCHANGED <<state, deleting, serving, args, caps, plan, statusReady, xrReady,
                   faults, deployed, restores>>

-----------------------------------------------------------------------------
Next ==
    \/ RunFunction \/ Apply \/ ApplyPartly
    \/ \E u \in Units : Provision(u) \/ Fail(u) \/ Remove(u)
    \/ Serve \/ StopServing
    \/ \E feature \in Features : Edit(feature)

Spec == Init /\ [][Next]_vars

(* Crossplane reconciles again and again, and providers retry for ever.    *)
Fairness ==
    /\ WF_vars(RunFunction) /\ WF_vars(Apply)
    /\ \A u \in Units : WF_vars(Provision(u)) /\ WF_vars(Remove(u))
    /\ WF_vars(Serve)

FairSpec == Spec /\ Fairness

-----------------------------------------------------------------------------
(* Properties                                                              *)

(* The units whose manifests are refused until the CRDs, or the objects, of *)
(* a Release are there.                                                    *)
Gated == {"gateway-class", "argocd-gateway", "argocd-cert", "argocd-app",
          "knative-serving-cr", "backup-identity", "backup-restore"}

(* An Object that needs the CRDs of a Release is never created before that  *)
(* Release was deployed, whatever fails, is deleted, or is edited between   *)
(* the reconcile's read and its writes ("so the CRDs exist first").        *)
CRDsBeforeObjects == \A u \in Gated \cap Present : Needs(u) \subseteq deployed

(* UXP is never started with a capability, and the runtime configuration    *)
(* never lists one, whose Releases were never there (build_manager_args,    *)
(* add_runtime_config).                                                    *)
CapabilitiesBacked ==
    /\ "--enable-provider-vpa" \in args \/ "ProviderVPA" \in caps =>
          "vpa-release" \in deployed
    /\ "--enable-knative-runtime" \in args \/ "FunctionKnativeRuntime" \in caps =>
          {"knative-operator-release", "certmanager-release"} \subseteq deployed

(* What no failure may uninstall: only an edit takes it away.  VPA and the    *)
(* Knative operator are here only without a license: a lapsed one withdraws  *)
(* them.  What stands behind a gate is not here (gateway-class, the Argo CD  *)
(* Objects, knative-serving-cr, identity and restore, the runtime            *)
(* configuration): the gate's Release failing does withdraw it.             *)
Kept ==
    {"gke", "uxp-release", "certmanager-release", "envoy-gateway-release",
     "k8gb-address", "k8gb-release", "k8gb-coredns-observe", "argocd-release",
     "backup-config", "uxp-license"}
    \cup If(~Enabled("license"), {"vpa-release", "knative-operator-release"})

(* No failed upgrade or lost reconcile uninstalls the cluster, UXP, a         *)
(* license or an add-on's Release, and no lapsed license any of these but    *)
(* VPA and Knative, the two it licenses (fn.py: whether a Release is desired *)
(* depends on parameters and on the license, never on another Release).     *)
FailureUninstallsNothing == edits = 0 => deleting \cap Kept = {}

(* All that the parameters ask for.                                        *)
WantedFor(feature) ==
    CASE feature = "k8gb" -> {"envoy-gateway-release", "gateway-class", "k8gb-address",
                              "k8gb-release", "k8gb-coredns-observe"}
      [] feature = "argocd" -> {"envoy-gateway-release", "gateway-class", "argocd-release",
                                "argocd-gateway", "argocd-cert", "argocd-app"}
      [] feature = "backup" -> {"backup-config", "backup-identity"}
      [] feature = "vpa" -> {"vpa-release", "upbound-runtime-config"}
      [] feature = "knative" -> {"knative-operator-release", "knative-serving-cr",
                                 "upbound-runtime-config"}
      [] feature = "license" -> {"uxp-license"}
      [] OTHER -> {}

LicenseWithheld == {"license", "licenseConflict"} \subseteq on /\ ~Up("uxp-license")
Effective == IF LicenseWithheld THEN on \ {"license", "vpa", "knative"} ELSE on

(* The XR's Ready condition implies the whole of what its parameters ask    *)
(* for, gated parts included: "Ready implies UXP + backup chain + Workload  *)
(* Identity" (tests/e2etest-controlplane).  Two things it does not imply:    *)
(* that Knative serves, hence the runtime configuration that waits for it,   *)
(* since auto-ready sees no more of it than its Object applied (knative.py   *)
(* sets no readiness policy); and the license, VPA and Knative of an XR      *)
(* whose license another XR's claim withholds (Effective).                 *)
XrReadyIsComplete ==
    XrReady => \A f \in Effective :
        WantedFor(f) \ If(f = "knative" /\ ~KnativeServingReady, {"upbound-runtime-config"})
            \subseteq Present

(* What is asked for, all of it and nothing else, is up, and UXP has exactly *)
(* its capabilities.  An XR whose license is withheld by a conflict is not    *)
(* owed the license, VPA and Knative (Effective).                          *)
Converged ==
    /\ Present \ {"backup-restore"} =
          {"gke", "uxp-release", "certmanager-release"} \cup UNION {WantedFor(f) : f \in Effective}
    /\ "backup-restore" \in Present <=> {"backup", "installFrom"} \subseteq on
    /\ \A u \in Present : Up(u)
    /\ deleting = {}
    /\ "knative" \in Effective => serving
    /\ args = {f \in Flags : \/ f = "--enable-provider-vpa" /\ "vpa" \in Effective
                             \/ f = "--enable-knative-runtime" /\ "knative" \in Effective}
    /\ caps = {c \in CapabilityNames :
                   \/ c = "ProviderVPA" /\ "vpa" \in Effective
                   \/ c = "FunctionKnativeRuntime" /\ "knative" \in Effective}

(* Once the parameters and the failures come to rest, the gates do not wait *)
(* for one another and do not oscillate: neither where one opens behind      *)
(* another, nor through UXP, which each add-on that comes up upgrades, and   *)
(* whose upgrade closes the gates on UXP for as long as it takes.          *)
Converges == <>[]Converged

(* Nothing is left to do: the providers are idle, and a reconcile would     *)
(* find everything as it left it.                                          *)
AtRest ==
    /\ ~plan.running /\ deleting = {}
    /\ \A u \in Units : ~CanProvision(u)
    /\ ~CanServe
    /\ Desired = Present /\ args = ManagerArgs /\ caps = Capabilities
    /\ statusReady = StatusReady /\ xrReady = XrReady

(* No circle of gates: when nothing is left to do, nothing is missing.  A   *)
(* gate that waited, through other resources, for what it gates would leave *)
(* both undesired, hence nobody with anything to do (fn.py: every add_* is  *)
(* gated on Releases or Objects observed ready).                           *)
RestIsConverged == AtRest => Converged

(* No oscillation: what the parameters ask for, once there, is what compose  *)
(* returns.  compose forgets everything between reconciles, so a resource    *)
(* that it stops returning once it is there, or once something behind it is, *)
(* is deleted, and then created again, and so on (fn.py, compose).         *)
ConvergedIsConfirmed ==
    Converged => Desired = Present /\ ManagerArgs = args /\ Capabilities = caps

(* A control plane at rest is Ready in both conditions exactly where provider- *)
(* helm reports its deployed Releases Ready: the crossplane.io/ready           *)
(* annotations change neither of them.                                       *)
RestIsReady == AtRest => (xrReady <=> ~StaleReady) /\ (statusReady <=> ~StaleReady)

(* Once they come to rest the XR becomes, and stays, Ready, also with a       *)
(* provider-helm whose Ready is stale: the function's annotation "gets       *)
(* translated into a ReadyTrue decision", "sidestepping the bug"             *)
(* (composition.yaml).                                                     *)
XrBecomesReady == <>[]xrReady

(* The two Ready conditions of an XR, the one status.py computes from what  *)
(* is observed and the one function-auto-ready computes from what is        *)
(* desired, come to say the same and keep to it, with a license withheld or *)
(* not.                                                                    *)
ReadyConditionsAgree == <>[](statusReady <=> xrReady)

(* "Applied once at bootstrap - ignored on subsequent reconciles"          *)
(* (definition.yaml, backup.installFrom).                                  *)
RestoredOnce == restores <= 1

(* "Control plane is ready" (status.py) is reported only when everything    *)
(* the composition wants for the control plane is there and ready.         *)
ReportedReadyIsComplete ==
    (plan.running /\ plan.statusReady) => plan.desired \subseteq plan.observed
=============================================================================
