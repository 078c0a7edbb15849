------------------------- MODULE CompositionProofs -------------------------
(* Proofs about Composition: for any features, any number of edits and     *)
(* faults, and with or without the defect of provider-helm.                *)
EXTENDS Composition, TLAPS

(* A reconcile applies: wholly, or in part.                                *)
Applies == \E done \in SUBSET Units : plan.running /\ ApplyUnits(done)

LEMMA DesiredIsUnits == Desired \subseteq Units
BY DEF Desired, Units, Releases, If, ClusterDesired, UxpDesired, CertManagerDesired,
       GatewayDesired, K8gbDesired, ArgocdDesired, BackupDesired,
       WorkloadIdentityDesired, LicenseDesired, VpaDesired, KnativeDesired,
       RuntimeConfigDesired

LEMMA ApplyApplies == TypeOK /\ (Apply \/ ApplyPartly) => Applies
<1> SUFFICES ASSUME TypeOK, Apply \/ ApplyPartly PROVE Applies
    OBVIOUS
<1>1. CASE Apply
    BY <1>1 DEF Apply, Applies
<1>2. CASE ApplyPartly
    <2>1. (plan.desired \ Present) \cup (plan.observed \ plan.desired)
              \cup (plan.desired \cap {"uxp-release", "upbound-runtime-config"}) \subseteq Units
        BY DEF TypeOK, Units, Releases
    <2> QED BY <1>2, <2>1 DEF ApplyPartly, Applies
<1> QED BY <1>1, <1>2

-----------------------------------------------------------------------------
LEMMA TypeOKInit == Init => TypeOK
<1> SUFFICES ASSUME Init PROVE TypeOK
    OBVIOUS
<1>1. state \in [Units -> {"absent", "pending", "up", "failed"}]
    BY DEF Init
<1>2. plan \in [desired : SUBSET Units, observed : SUBSET Units,
                args : SUBSET Flags, caps : SUBSET CapabilityNames,
                statusReady : BOOLEAN, xrReady : BOOLEAN, running : BOOLEAN]
    BY DEF Init, NoPlan
<1>3. edits \in 0..MaxEdits /\ faults \in 0..MaxFaults /\ restores \in 0..2
    BY CompositionAssumption DEF Init
<1>4. statusReady \in BOOLEAN /\ xrReady \in BOOLEAN /\ serving \in BOOLEAN
    BY DEF Init
<1>5. /\ on \subseteq Features /\ deleting \subseteq Units
      /\ args \subseteq Flags /\ caps \subseteq CapabilityNames
      /\ deployed \subseteq Releases
    BY DEF Init, Features
<1> QED BY <1>1, <1>2, <1>3, <1>4, <1>5 DEF TypeOK

LEMMA TypeOKStep == TypeOK /\ [Next]_vars => TypeOK'
<1> SUFFICES ASSUME TypeOK, [Next]_vars PROVE TypeOK'
    OBVIOUS
<1> USE DEF TypeOK
<1>1. CASE RunFunction
    <2>1. /\ ManagerArgs \subseteq Flags /\ Capabilities \subseteq CapabilityNames
          /\ Present \subseteq Units
        BY DEF ManagerArgs, Capabilities, Present
    <2>2. StatusReady \in BOOLEAN /\ XrReady \in BOOLEAN
        BY DEF StatusReady, XrReady
    <2> QED BY <1>1, <2>1, <2>2, DesiredIsUnits DEF RunFunction
<1>2. ASSUME NEW done \in SUBSET Units, ApplyUnits(done)
      PROVE  /\ state' \in [Units -> {"absent", "pending", "up", "failed"}]
             /\ deleting' \subseteq Units
             /\ args' \subseteq Flags /\ caps' \subseteq CapabilityNames
             /\ restores' \in 0..2
             /\ plan' \in [desired : SUBSET Units, observed : SUBSET Units,
                           args : SUBSET Flags, caps : SUBSET CapabilityNames,
                           statusReady : BOOLEAN, xrReady : BOOLEAN, running : BOOLEAN]
    BY <1>2 DEF ApplyUnits, NoPlan
<1>3. CASE Apply
    BY <1>2, <1>3 DEF Apply
<1>4. CASE ApplyPartly
    <2>1. PICK done \in SUBSET ((plan.desired \ Present)
                    \cup (plan.observed \ plan.desired)
                    \cup (plan.desired \cap {"uxp-release", "upbound-runtime-config"})) :
                ApplyUnits(done)
        BY <1>4 DEF ApplyPartly
    <2>2. done \in SUBSET Units
        BY <2>1 DEF Units, Releases
    <2>3. faults' \in 0..MaxFaults
        BY <1>4, CompositionAssumption DEF ApplyPartly
    <2> QED BY <1>2, <1>4, <2>1, <2>2, <2>3 DEF ApplyPartly
<1>5. ASSUME NEW u \in Units, Provision(u) \/ Fail(u) \/ Remove(u) PROVE TypeOK'
    <2>1. faults' \in 0..MaxFaults
        BY <1>5, CompositionAssumption DEF Provision, CanProvision, Fail, Remove
    <2>2. serving' \in BOOLEAN
        <3>1. CASE serving' = (serving /\ u # "knative-serving-cr")
            BY Zenon, <3>1
        <3> QED BY <1>5, <3>1 DEF Provision, Fail, Remove
    <2>3. /\ on' \subseteq Features /\ state' \in [Units -> {"absent", "pending", "up", "failed"}]
          /\ deleting' \subseteq Units /\ args' \subseteq Flags /\ caps' \subseteq CapabilityNames
          /\ UNCHANGED <<plan, statusReady, xrReady, edits, restores>>
          /\ deployed' \subseteq Releases
        BY <1>5 DEF Provision, CanProvision, Fail, Remove
    <2> QED BY <2>1, <2>2, <2>3
<1>6. ASSUME NEW feature \in Features, Edit(feature) PROVE TypeOK'
    <2>1. edits' \in 0..MaxEdits
        BY <1>6, CompositionAssumption DEF Edit
    <2> QED BY <1>6, <2>1 DEF Edit
<1>7. CASE Serve \/ StopServing
    <2>1. faults' \in 0..MaxFaults
        BY <1>7, CompositionAssumption DEF Serve, StopServing
    <2> QED BY <1>7, <2>1 DEF Serve, StopServing
<1>8. CASE UNCHANGED vars
    BY <1>8 DEF vars
<1> QED BY <1>1, <1>3, <1>4, <1>5, <1>6, <1>7, <1>8 DEF Next

(* Every reachable state has the types TypeOK names.                       *)
THEOREM TypeCorrect == Spec => []TypeOK
<1>1. Init => TypeOK
    BY TypeOKInit
<1>2. TypeOK /\ [Next]_vars => TypeOK'
    BY TypeOKStep
<1> QED BY <1>1, <1>2, PTL DEF Spec

-----------------------------------------------------------------------------
(* The plan of a running reconcile was made on evidence: what it wants      *)
(* created rests on Releases that were deployed, and so do its arguments   *)
(* and capabilities.                                                       *)
PlanOnEvidence ==
    /\ \A u \in Gated \cap plan.desired : Needs(u) \subseteq deployed
    /\ "--enable-provider-vpa" \in plan.args => "vpa-release" \in deployed
    /\ "--enable-knative-runtime" \in plan.args =>
          {"knative-operator-release", "certmanager-release"} \subseteq deployed
    /\ "ProviderVPA" \in plan.caps => "vpa-release" \in deployed
    /\ "FunctionKnativeRuntime" \in plan.caps =>
          {"knative-operator-release", "certmanager-release"} \subseteq deployed

(* The inductive invariant: a Release that is up was deployed, the plan was  *)
(* made on evidence, and so was everything that earlier plans created.     *)
EvidenceInv ==
    /\ TypeOK
    /\ \A r \in Releases : Up(r) => r \in deployed
    /\ PlanOnEvidence
    /\ CRDsBeforeObjects
    /\ CapabilitiesBacked

LEMMA EvidenceInvInit == Init => EvidenceInv
<1> SUFFICES ASSUME Init PROVE EvidenceInv
    OBVIOUS
<1>1. Present = {}
    BY DEF Init, Present
<1> QED BY <1>1, TypeOKInit DEF Init, EvidenceInv, PlanOnEvidence, NoPlan, Up,
        CRDsBeforeObjects, CapabilitiesBacked, Units

(* What compose returns rests on the Releases it sees deployed.            *)
LEMMA ComposeOnEvidence ==
    ASSUME TypeOK, \A r \in Releases : Up(r) => r \in deployed
    PROVE  /\ \A u \in Gated \cap Desired : Needs(u) \subseteq deployed
           /\ "--enable-provider-vpa" \in ManagerArgs => "vpa-release" \in deployed
           /\ "--enable-knative-runtime" \in ManagerArgs =>
                 {"knative-operator-release", "certmanager-release"} \subseteq deployed
           /\ "ProviderVPA" \in Capabilities => "vpa-release" \in deployed
           /\ "FunctionKnativeRuntime" \in Capabilities =>
                 {"knative-operator-release", "certmanager-release"} \subseteq deployed
<1> USE DEF Releases, Deployed, KnativeDepsReady, KnativeFullyReady
<1>1. ASSUME NEW u \in Gated, u \in Desired PROVE Needs(u) \subseteq deployed
    BY <1>1 DEF Gated, Needs, GatewayReady, Desired, If, ClusterDesired, UxpDesired, CertManagerDesired,
       GatewayDesired, K8gbDesired, ArgocdDesired, BackupDesired,
       WorkloadIdentityDesired, LicenseDesired, VpaDesired, KnativeDesired,
       RuntimeConfigDesired
<1>2. "--enable-provider-vpa" \in ManagerArgs => "vpa-release" \in deployed
    BY DEF ManagerArgs
<1>3. "--enable-knative-runtime" \in ManagerArgs =>
          {"knative-operator-release", "certmanager-release"} \subseteq deployed
    BY DEF ManagerArgs
<1>4. /\ "ProviderVPA" \in Capabilities => "vpa-release" \in deployed
      /\ "FunctionKnativeRuntime" \in Capabilities =>
            {"knative-operator-release", "certmanager-release"} \subseteq deployed
    BY DEF Capabilities
<1> QED BY <1>1, <1>2, <1>3, <1>4

LEMMA EvidenceInvStep == EvidenceInv /\ [Next]_vars => EvidenceInv'
<1> SUFFICES ASSUME EvidenceInv, [Next]_vars PROVE EvidenceInv'
    OBVIOUS
<1>0. TypeOK'
    BY TypeOKStep DEF EvidenceInv
<1> USE DEF EvidenceInv, PlanOnEvidence, CRDsBeforeObjects, CapabilitiesBacked, Present
<1>1. CASE RunFunction
    BY <1>0, <1>1, ComposeOnEvidence DEF RunFunction, Up
<1>2. ASSUME NEW done \in SUBSET Units, ApplyUnits(done), UNCHANGED deployed
      PROVE  EvidenceInv'
    <2>1. Present' \subseteq Present \cup plan.desired
        BY <1>2 DEF ApplyUnits, TypeOK, Up
    <2>2. \A r \in Releases : Up(r)' => Up(r)
        BY <1>2 DEF ApplyUnits, TypeOK, Up, Units
    <2>3. PlanOnEvidence'
        BY <1>2 DEF ApplyUnits, NoPlan
    <2>4. CRDsBeforeObjects'
        BY <1>2, <2>1
    <2>5. CapabilitiesBacked'
        BY <1>2, <2>1 DEF ApplyUnits
    <2> QED BY <1>0, <1>2, <2>2, <2>3, <2>4, <2>5
<1>3. CASE Apply \/ ApplyPartly
    <2>1. UNCHANGED deployed
        BY <1>3 DEF Apply, ApplyPartly
    <2> QED BY <1>2, <1>3, <2>1, ApplyApplies DEF Applies
<1>4. ASSUME NEW u \in Units, Provision(u) PROVE EvidenceInv'
    <2>1. deployed \subseteq deployed' /\ Present' = Present /\ UNCHANGED <<plan, args, caps>>
        BY <1>4 DEF Provision, CanProvision, TypeOK
    <2>2. \A r \in Releases : Up(r)' => r \in deployed'
        BY <1>4 DEF Provision, CanProvision, TypeOK, Up, Units
    <2> QED BY <1>0, <2>1, <2>2
<1>5. ASSUME NEW u \in Units, Fail(u) \/ Remove(u) PROVE EvidenceInv'
    <2>1. UNCHANGED <<deployed, plan, args>> /\ caps' \subseteq caps /\ Present' \subseteq Present
        BY <1>5 DEF Fail, Remove, TypeOK, Up
    <2>2. \A r \in Releases : Up(r)' => Up(r)
        BY <1>5 DEF Fail, Remove, TypeOK, Up, Units
    <2> QED BY <1>0, <2>1, <2>2
<1>6. ASSUME NEW feature \in Features, Edit(feature) PROVE EvidenceInv'
    BY <1>0, <1>6 DEF Edit, Up
<1>7. CASE Serve \/ StopServing
    BY <1>0, <1>7 DEF Serve, StopServing, Up
<1>8. CASE UNCHANGED vars
    BY <1>0, <1>8 DEF vars, Up
<1> QED BY <1>1, <1>3, <1>4, <1>5, <1>6, <1>7, <1>8 DEF Next

(* Whatever fails, is edited or deleted in between: an Object that needs the *)
(* CRDs of a Release is only ever created after its deployment.            *)
THEOREM CRDsComeFirst == Spec => []CRDsBeforeObjects
<1>1. Init => EvidenceInv
    BY EvidenceInvInit
<1>2. EvidenceInv /\ [Next]_vars => EvidenceInv'
    BY EvidenceInvStep
<1>3. EvidenceInv => CRDsBeforeObjects
    BY DEF EvidenceInv
<1> QED BY <1>1, <1>2, <1>3, PTL DEF Spec

(* UXP's arguments, and the runtime configuration's list, only ever name    *)
(* capabilities whose Releases were deployed.                              *)
THEOREM CapabilitiesAreBacked == Spec => []CapabilitiesBacked
<1>1. Init => EvidenceInv
    BY EvidenceInvInit
<1>2. EvidenceInv /\ [Next]_vars => EvidenceInv'
    BY EvidenceInvStep
<1>3. EvidenceInv => CapabilitiesBacked
    BY DEF EvidenceInv
<1> QED BY <1>1, <1>2, <1>3, PTL DEF Spec

-----------------------------------------------------------------------------
(* The XR is only Ready when all its parameters ask for is there.  This     *)
(* needs no history: in any state at all, a unit that is missing is wanted  *)
(* behind a gate whose own Release cannot be missing for an XR to be Ready. *)
LEMMA ReadyMeansUp ==
    ASSUME TypeOK, XrReady, NEW u \in Desired
    PROVE  Up(u) /\ u \in Present
<1>1. u \in Units
    BY DesiredIsUnits
<1>2. ReadyCondition(u)
    BY DEF XrReady
<1> QED BY <1>1, <1>2 DEF ReadyCondition, Up, Present

(* Where all that is desired is up, the features are licensed unless the    *)
(* license is withheld.                                                    *)
LEMMA LicensedUnlessWithheld ==
    ASSUME TypeOK, \A u \in Desired : Up(u), ~LicenseWithheld
    PROVE  FeaturesLicensed
<1>1. CASE ~Enabled("license") \/ Up("uxp-license")
    BY <1>1 DEF FeaturesLicensed
<1>2. CASE Enabled("license") /\ ~Enabled("licenseConflict")
    <2>1. LicenseDesired \subseteq Desired
        BY <1>2 DEF LicenseComposed, Desired, If
    <2> QED BY <2>1 DEF FeaturesLicensed, LicenseDesired
<1> QED BY <1>1, <1>2 DEF LicenseWithheld, Enabled

(* Where all that is desired is up, all that the parameters ask for is      *)
(* there, but for the runtime configuration of a Knative that does not      *)
(* serve.                                                                  *)
LEMMA UpIsComplete ==
    ASSUME TypeOK, \A u \in Desired : Up(u), NEW f \in Effective
    PROVE  WantedFor(f) \ If(f = "knative" /\ ~KnativeServingReady, {"upbound-runtime-config"})
               \subseteq Present
<1>1. f \in on
    BY DEF Effective
<1>2. \A u \in Desired : Up(u) /\ u \in Present
    BY DesiredIsUnits DEF Up, Present
<1>3. CertManagerDesired \cup UxpDesired \subseteq Desired
    BY DEF Desired
<1>4. Deployed("certmanager-release") /\ Deployed("uxp-release")
    BY <1>2, <1>3 DEF Deployed, CertManagerDesired, UxpDesired
<1>5. CASE f \in {"k8gb", "argocd"}
    <2>1. GatewayDesired \subseteq Desired
        BY <1>1, <1>5 DEF Desired, If, Enabled
    <2>2. GatewayReady
        BY <1>2, <2>1 DEF GatewayReady, Deployed, GatewayDesired
    <2>3. {"envoy-gateway-release", "gateway-class"} \subseteq Desired
        BY <2>1, <2>2 DEF GatewayDesired, If
    <2>4. CASE f = "k8gb"
        <3>1. K8gbDesired \subseteq Desired
            BY <1>1, <2>4 DEF Desired, If, Enabled
        <3>2. Up("k8gb-address")
            BY <1>2, <3>1 DEF K8gbDesired
        <3>3. {"k8gb-address", "k8gb-coredns-observe", "k8gb-release"} \subseteq Desired
            BY <3>1, <3>2 DEF K8gbDesired, If
        <3> QED BY <1>2, <2>3, <2>4, <3>3 DEF WantedFor
    <2>5. CASE f = "argocd"
        <3>1. ArgocdDesired \subseteq Desired
            BY <1>1, <2>5 DEF Desired, If, Enabled
        <3>2. Deployed("argocd-release")
            BY <1>2, <3>1 DEF ArgocdDesired, Deployed
        <3>3. {"argocd-release", "argocd-gateway", "argocd-cert", "argocd-app"} \subseteq Desired
            BY <1>4, <2>2, <3>1, <3>2 DEF ArgocdDesired, If
        <3> QED BY <1>2, <2>3, <2>5, <3>3 DEF WantedFor
    <2> QED BY <1>5, <2>4, <2>5
<1>6. CASE f = "backup"
    <2>1. BackupDesired \cup WorkloadIdentityDesired \subseteq Desired
        BY <1>1, <1>4, <1>6 DEF Desired, If, Enabled
    <2> QED BY <1>2, <1>6, <2>1 DEF WantedFor, BackupDesired, WorkloadIdentityDesired
<1>7. CASE f = "license"
    <2>1. LicenseComposed
        BY <1>1, <1>7 DEF Effective, LicenseWithheld, LicenseComposed, Enabled, Up, Present,
                          Units, TypeOK
    <2>2. LicenseDesired \subseteq Desired
        BY <2>1 DEF Desired, If
    <2> QED BY <1>2, <1>7, <2>2 DEF WantedFor, LicenseDesired
<1>8. CASE f \in {"vpa", "knative"}
    <2>1. FeaturesLicensed
        <3>1. ~LicenseWithheld
            BY <1>8 DEF Effective
        <3> QED BY <1>2, <3>1, LicensedUnlessWithheld
    <2>2. CASE f = "vpa"
        <3>1. VpaDesired \subseteq Desired
            BY <1>1, <2>1, <2>2 DEF Desired, If, Enabled
        <3>2. Deployed("vpa-release")
            BY <1>2, <3>1 DEF VpaDesired, Deployed
        <3>3. "ProviderVPA" \in Capabilities
            BY <1>1, <2>2, <3>2 DEF Capabilities, CapabilityNames, Enabled
        <3>4. "upbound-runtime-config" \in Desired
            BY <3>3 DEF Desired, If, RuntimeConfigDesired
        <3> QED BY <1>2, <2>2, <3>1, <3>4 DEF WantedFor, VpaDesired
    <2>3. CASE f = "knative"
        <3>1. KnativeDesired \subseteq Desired
            BY <1>1, <2>1, <2>3 DEF Desired, If, Enabled
        <3>2. KnativeDepsReady
            BY <1>2, <1>4, <3>1 DEF KnativeDesired, KnativeDepsReady, Deployed
        <3>3. {"knative-operator-release", "knative-serving-cr"} \subseteq Desired
            BY <3>1, <3>2 DEF KnativeDesired, If
        <3>4. ASSUME KnativeServingReady PROVE "upbound-runtime-config" \in Desired
            <4>1. "FunctionKnativeRuntime" \in Capabilities
                BY <1>1, <2>3, <3>2, <3>4
                   DEF Capabilities, CapabilityNames, Enabled, KnativeFullyReady
            <4> QED BY <4>1 DEF Desired, If, RuntimeConfigDesired
        <3> QED BY <1>2, <2>3, <3>3, <3>4 DEF WantedFor, If
    <2> QED BY <1>8, <2>2, <2>3
<1>9. CASE f \notin {"k8gb", "argocd", "backup", "license", "vpa", "knative"}
    BY <1>9 DEF WantedFor
<1> QED BY <1>5, <1>6, <1>7, <1>8, <1>9

LEMMA ReadyIsComplete == TypeOK => XrReadyIsComplete
BY ReadyMeansUp, UpIsComplete DEF XrReadyIsComplete

(* A Ready XR is complete: no gate hides an unfinished part from            *)
(* function-auto-ready, other than the one on Knative's own readiness.     *)
THEOREM ReadyXrIsComplete == Spec => []XrReadyIsComplete
<1>1. TypeOK => XrReadyIsComplete
    BY ReadyIsComplete
<1> QED BY <1>1, TypeCorrect, PTL

-----------------------------------------------------------------------------
(* The kept units that parameters "on" can ever put in the desired set.     *)
KeptFor ==
    {"gke", "uxp-release", "certmanager-release"}
    \cup If(Enabled("k8gb") \/ Enabled("argocd"), {"envoy-gateway-release"})
    \cup If(Enabled("k8gb"), {"k8gb-address", "k8gb-release", "k8gb-coredns-observe"})
    \cup If(Enabled("argocd"), {"argocd-release"})
    \cup If(Enabled("backup"), {"backup-config"})
    \cup If(Enabled("license"), {"uxp-license"})
    \cup If(Enabled("vpa"), {"vpa-release"})
    \cup If(Enabled("knative"), {"knative-operator-release"})

(* As long as nobody edits, only what the parameters ask for is there, the  *)
(* k8gb Release stands on an address that is up, and no plan withdraws a    *)
(* kept unit.                                                              *)
NoEditInv ==
    edits = 0 =>
        /\ Kept \cap (Present \cup plan.desired) \subseteq KeptFor
        /\ "k8gb-release" \in Present \cup plan.desired => Up("k8gb-address")
        /\ Kept \cap (plan.observed \ plan.desired) = {}
        /\ Kept \cap deleting = {}

(* What compose wants of the kept units, for what it observes.             *)
LEMMA ComposeKeeps ==
    ASSUME TypeOK, Kept \cap Present \subseteq KeptFor,
           "k8gb-release" \in Present => Up("k8gb-address")
    PROVE  /\ Kept \cap Desired \subseteq KeptFor
           /\ "k8gb-release" \in Desired => Up("k8gb-address")
           /\ Kept \cap Present \subseteq Desired
<1> USE DEF Kept, KeptFor, If, Desired, ClusterDesired, UxpDesired, CertManagerDesired,
       GatewayDesired, K8gbDesired, ArgocdDesired, BackupDesired,
       WorkloadIdentityDesired, LicenseDesired, VpaDesired, KnativeDesired,
       RuntimeConfigDesired
<1>1. Kept \cap Desired \subseteq KeptFor
    BY DEF LicenseComposed
<1> USE DEF FeaturesLicensed
<1>2. "k8gb-release" \in Desired => Up("k8gb-address")
    OBVIOUS
<1>3. ASSUME NEW u \in Kept \cap Present PROVE u \in Desired
    <2>1. u \in KeptFor
        BY <1>3
    <2>2. CASE u = "uxp-license"
        BY <1>3, <2>1, <2>2 DEF LicenseComposed
    <2>3. CASE u # "uxp-license"
        BY <1>3, <2>1, <2>3
    <2> QED BY <2>2, <2>3
<1> QED BY <1>1, <1>2, <1>3

(* Without an edit the parameters, and with them the kept units, stay.      *)
LEMMA NoEditKeeps ==
    ASSUME TypeOK, [Next]_vars, edits' = 0
    PROVE  on' = on /\ Kept' = Kept /\ KeptFor' = KeptFor
<1>1. CASE Apply \/ ApplyPartly
    BY <1>1 DEF Apply, ApplyPartly, Kept, KeptFor, Enabled
<1>2. CASE RunFunction \/ Serve \/ StopServing \/ UNCHANGED vars
    BY <1>2 DEF RunFunction, Serve, StopServing, vars, Kept, KeptFor, Enabled
<1>3. ASSUME NEW u \in Units, Provision(u) \/ Fail(u) \/ Remove(u)
      PROVE  on' = on /\ Kept' = Kept /\ KeptFor' = KeptFor
    BY <1>3 DEF Provision, Fail, Remove, Kept, KeptFor, Enabled
<1>4. ASSUME NEW feature \in Features, Edit(feature) PROVE FALSE
    BY <1>4 DEF Edit, TypeOK
<1> QED BY <1>1, <1>2, <1>3, <1>4 DEF Next

LEMMA NoEditInvStep == TypeOK /\ NoEditInv /\ [Next]_vars => NoEditInv'
<1> SUFFICES ASSUME TypeOK, NoEditInv, [Next]_vars, edits' = 0
             PROVE  /\ Kept \cap (Present' \cup plan'.desired) \subseteq KeptFor'
                    /\ "k8gb-release" \in Present' \cup plan'.desired => Up("k8gb-address")'
                    /\ Kept \cap (plan'.observed \ plan'.desired) = {}
                    /\ Kept \cap deleting' = {}
    BY NoEditKeeps DEF NoEditInv
<1>1. CASE RunFunction
    <2>1. edits = 0 /\ UNCHANGED <<on, state, deleting>>
        BY <1>1 DEF RunFunction
    <2>2. plan'.desired = Desired /\ plan'.observed = Present
        BY <1>1 DEF RunFunction
    <2>3. /\ KeptFor' = KeptFor /\ Present' = Present
          /\ Up("k8gb-address")' = Up("k8gb-address")
        BY <2>1 DEF KeptFor, Present, Up, Enabled
    <2> QED BY <2>1, <2>2, <2>3, ComposeKeeps DEF NoEditInv
<1>2. CASE Apply \/ ApplyPartly
    <2>1. PICK done \in SUBSET Units : plan.running /\ ApplyUnits(done)
        BY <1>2, ApplyApplies DEF Applies
    <2>2. edits = 0 /\ on' = on
        BY <1>2 DEF Apply, ApplyPartly
    <2>3. plan'.desired = {} /\ plan'.observed = {}
        BY <2>1 DEF ApplyUnits, NoPlan
    <2>4. Present' \subseteq Present \cup plan.desired
        BY <2>1 DEF ApplyUnits, TypeOK, Present, Up
    <2>5. Up("k8gb-address") => Up("k8gb-address")'
        BY <2>1 DEF ApplyUnits, TypeOK, Up, Units
    <2>6. deleting' \subseteq deleting \cup (plan.observed \ plan.desired)
        BY <2>1 DEF ApplyUnits
    <2>7. KeptFor' = KeptFor
        BY <2>2 DEF KeptFor, Enabled
    <2> QED BY <2>2, <2>3, <2>4, <2>5, <2>6, <2>7 DEF NoEditInv
<1>3. ASSUME NEW u \in Units, Provision(u) \/ Fail(u) \/ Remove(u)
      PROVE  /\ Kept \cap (Present' \cup plan'.desired) \subseteq KeptFor'
             /\ "k8gb-release" \in Present' \cup plan'.desired => Up("k8gb-address")'
             /\ Kept \cap (plan'.observed \ plan'.desired) = {}
             /\ Kept \cap deleting' = {}
    <2>1. edits = 0 /\ on' = on /\ plan' = plan /\ deleting' \subseteq deleting
        BY <1>3 DEF Provision, CanProvision, Fail, Remove
    <2>2. Present' \subseteq Present
        BY <1>3 DEF Provision, CanProvision, Fail, Remove, TypeOK, Present, Up
    <2>3. "k8gb-address" \in Units /\ "k8gb-address" \in Kept
        BY DEF Units, Kept
    <2>4. Up("k8gb-address") => Up("k8gb-address")'
        <3>1. CASE Provision(u)
            BY <2>3, <3>1 DEF Provision, CanProvision, TypeOK, Up
        <3>2. CASE Fail(u)
            <4>1. u # "k8gb-address"
                BY <3>2 DEF Fail, Releases
            <4> QED BY <2>3, <3>2, <4>1 DEF Fail, TypeOK, Up
        <3>3. CASE Remove(u)
            <4>1. u # "k8gb-address"
                BY <2>1, <2>3, <3>3 DEF Remove, NoEditInv
            <4> QED BY <2>3, <3>3, <4>1 DEF Remove, TypeOK, Up
        <3> QED BY <1>3, <3>1, <3>2, <3>3
    <2>5. KeptFor' = KeptFor
        BY <2>1 DEF KeptFor, Enabled
    <2> QED BY <2>1, <2>2, <2>4, <2>5 DEF NoEditInv
<1>4. ASSUME NEW feature \in Features, Edit(feature) PROVE FALSE
    BY <1>4 DEF Edit, TypeOK
<1>5. CASE Serve \/ StopServing \/ UNCHANGED vars
    <2>1. /\ edits = 0 /\ UNCHANGED <<on, state, plan, deleting>>
        BY <1>5 DEF vars, Serve, StopServing
    <2>2. /\ KeptFor' = KeptFor /\ Present' = Present
          /\ Up("k8gb-address")' = Up("k8gb-address")
        BY <2>1 DEF KeptFor, Present, Up, Enabled
    <2> QED BY <2>1, <2>2 DEF NoEditInv
<1> QED BY <1>1, <1>2, <1>3, <1>4, <1>5 DEF Next

(* No sequence of failed upgrades, lapsed licenses and lost reconciles ever *)
(* uninstalls the cluster, UXP, a license or an add-on's Release; only the  *)
(* lapse of a license it asked for takes VPA and Knative from an XR.       *)
THEOREM FailuresUninstallNothing == Spec => []FailureUninstallsNothing
<1>1. Init => NoEditInv
    BY DEF Init, NoEditInv, NoPlan, Present
<1>2. TypeOK /\ NoEditInv /\ [Next]_vars => NoEditInv'
    BY NoEditInvStep
<1>3. NoEditInv => FailureUninstallsNothing
    BY DEF NoEditInv, FailureUninstallsNothing
<1> QED BY <1>1, <1>2, <1>3, TypeCorrect, PTL DEF Spec

-----------------------------------------------------------------------------
(* At rest.  Nothing is left to do, so whatever has what it needs is up;    *)
(* following Needs from the cluster upwards, everything is; and then every  *)
(* gate is open.                                                           *)
LEMMA UpAtRest ==
    ASSUME TypeOK, AtRest, NEW u \in Present, \A n \in Needs(u) : Up(n)
    PROVE  Up(u)
BY DEF AtRest, CanProvision, TypeOK, Present, Up

LEMMA AllUpAtRest ==
    ASSUME TypeOK, AtRest, NEW u \in Desired
    PROVE  Up(u) /\ u \in Present
<1> DEFINE Bases == {"gke", "uxp-release", "certmanager-release"}
<1>1. Desired = Present
    BY DEF AtRest
<1>2. Bases \subseteq Present
    BY <1>1 DEF Desired, ClusterDesired, UxpDesired, CertManagerDesired
<1>3. Up("gke")
    BY <1>2, UpAtRest DEF Needs
<1>4. ASSUME NEW r \in Releases \cap Present PROVE Up(r)
    <2>1. Needs(r) = {"gke"}
        BY DEF Needs, Releases
    <2> QED BY <1>3, <2>1, UpAtRest
<1>5. Up("uxp-release") /\ Up("certmanager-release")
    BY <1>2, <1>4 DEF Releases
<1>6. \A n \in Needs(u) : Up(n)
    <2>1. CASE u \in {"gke", "k8gb-address"}
        BY <2>1 DEF Needs
    <2>2. CASE u \in {"gateway-class", "argocd-gateway"}
        <3>1. Up("envoy-gateway-release")
            BY <2>2 DEF Desired, If, ClusterDesired, UxpDesired, CertManagerDesired,
               GatewayDesired, K8gbDesired, ArgocdDesired, BackupDesired,
               WorkloadIdentityDesired, LicenseDesired, VpaDesired, KnativeDesired,
               RuntimeConfigDesired, GatewayReady, Deployed
        <3> QED BY <2>2, <3>1 DEF Needs
    <2>3. CASE u = "k8gb-coredns-observe"
        <3>1. Enabled("k8gb")
            BY <2>3 DEF Desired, If, ClusterDesired, UxpDesired, CertManagerDesired,
               GatewayDesired, K8gbDesired, ArgocdDesired, BackupDesired,
               WorkloadIdentityDesired, LicenseDesired, VpaDesired, KnativeDesired,
               RuntimeConfigDesired
        <3>2. K8gbDesired \subseteq Desired
            BY <3>1 DEF Desired, If
        <3>3. Up("k8gb-address")
            BY <1>1, <3>2, UpAtRest DEF K8gbDesired, Needs
        <3>4. Up("k8gb-release")
            BY <1>1, <1>4, <3>2, <3>3 DEF K8gbDesired, If, Releases
        <3> QED BY <2>3, <3>4 DEF Needs
    <2>4. CASE u = "argocd-cert"
        BY <1>5, <2>4 DEF Needs
    <2>5. CASE u = "argocd-app"
        <3>1. Up("argocd-release")
            BY <2>5 DEF Desired, If, ClusterDesired, UxpDesired, CertManagerDesired,
               GatewayDesired, K8gbDesired, ArgocdDesired, BackupDesired,
               WorkloadIdentityDesired, LicenseDesired, VpaDesired, KnativeDesired,
               RuntimeConfigDesired, Deployed
        <3> QED BY <2>5, <3>1 DEF Needs
    <2>6. CASE u = "knative-serving-cr"
        <3>1. Up("knative-operator-release")
            BY <2>6 DEF Desired, If, ClusterDesired, UxpDesired, CertManagerDesired,
               GatewayDesired, K8gbDesired, ArgocdDesired, BackupDesired,
               WorkloadIdentityDesired, LicenseDesired, VpaDesired, KnativeDesired,
               RuntimeConfigDesired, KnativeDepsReady, Deployed
        <3> QED BY <1>5, <2>6, <3>1 DEF Needs
    <2>7. CASE u \in {"backup-config", "backup-identity", "backup-restore", "uxp-license",
                      "upbound-runtime-config"}
        BY <1>5, <2>7 DEF Needs
    <2>8. CASE u \in Releases
        BY <1>3, <2>8 DEF Needs, Releases
    <2>9. u \in Units
        BY DesiredIsUnits
    <2> QED BY <2>1, <2>2, <2>3, <2>4, <2>5, <2>6, <2>7, <2>8, <2>9 DEF Units
<1> QED BY <1>1, <1>6, UpAtRest

(* What is desired at rest is asked for: a part whose license is withheld   *)
(* is not, and the runtime configuration only where it has what to list.   *)
LEMMA AskedForAtRest ==
    ASSUME TypeOK, AtRest, NEW u \in Desired, u # "backup-restore"
    PROVE  \/ u \in {"gke", "uxp-release", "certmanager-release"}
           \/ \E f \in Effective : u \in WantedFor(f)
<1> DEFINE Ok == \/ u \in {"gke", "uxp-release", "certmanager-release"}
                 \/ \E f \in Effective : u \in WantedFor(f)
<1>1. \A f \in on : f \notin {"license", "vpa", "knative"} => f \in Effective
    BY DEF Effective
<1>2. FeaturesLicensed => Effective = on
    BY DEF FeaturesLicensed, Effective, LicenseWithheld, Enabled
<1>3. CASE u \in ClusterDesired \cup UxpDesired \cup CertManagerDesired
    BY <1>3 DEF ClusterDesired, UxpDesired, CertManagerDesired
<1>4. CASE (Enabled("k8gb") \/ Enabled("argocd")) /\ u \in GatewayDesired
    <2>1. u \in WantedFor("k8gb") /\ u \in WantedFor("argocd")
        BY <1>4 DEF GatewayDesired, If, WantedFor
    <2> QED BY <1>1, <1>4, <2>1 DEF Enabled
<1>5. CASE Enabled("k8gb") /\ u \in K8gbDesired
    <2>1. u \in WantedFor("k8gb")
        BY <1>5 DEF K8gbDesired, If, WantedFor
    <2> QED BY <1>1, <1>5, <2>1 DEF Enabled
<1>6. CASE Enabled("argocd") /\ u \in ArgocdDesired
    <2>1. u \in WantedFor("argocd")
        BY <1>6 DEF ArgocdDesired, If, WantedFor
    <2> QED BY <1>1, <1>6, <2>1 DEF Enabled
<1>7. CASE Enabled("backup") /\ u \in BackupDesired \cup WorkloadIdentityDesired
    <2>1. u \in WantedFor("backup")
        BY <1>7 DEF BackupDesired, WorkloadIdentityDesired, If, WantedFor
    <2> QED BY <1>1, <1>7, <2>1 DEF Enabled
<1>8. CASE Enabled("license") /\ u \in LicenseDesired
    <2>1. FeaturesLicensed
        BY <1>8, AllUpAtRest DEF LicenseDesired, FeaturesLicensed
    <2>2. u \in WantedFor("license")
        BY <1>8 DEF LicenseDesired, WantedFor
    <2> QED BY <1>2, <1>8, <2>1, <2>2 DEF Enabled
<1>9. CASE Enabled("vpa") /\ FeaturesLicensed /\ u \in VpaDesired \cup {"upbound-runtime-config"}
    <2>1. u \in WantedFor("vpa")
        BY <1>9 DEF VpaDesired, WantedFor
    <2> QED BY <1>2, <1>9, <2>1 DEF Enabled
<1>10. CASE /\ Enabled("knative") /\ FeaturesLicensed
            /\ u \in KnativeDesired \cup {"upbound-runtime-config"}
    <2>1. u \in WantedFor("knative")
        BY <1>10 DEF KnativeDesired, If, WantedFor
    <2> QED BY <1>2, <1>10, <2>1 DEF Enabled
<1>11. CASE u = "upbound-runtime-config" /\ Enabled("vpa") /\ Deployed("vpa-release")
    <2>1. "vpa-release" \in Present
        BY <1>11 DEF Deployed, Up, Present, Units, Releases
    <2>2. "vpa-release" \in Desired
        BY <2>1 DEF AtRest
    <2>3. FeaturesLicensed
        BY <2>2 DEF Desired, If, ClusterDesired, UxpDesired, CertManagerDesired,
           GatewayDesired, K8gbDesired, ArgocdDesired, BackupDesired,
           WorkloadIdentityDesired, LicenseDesired, VpaDesired, KnativeDesired,
           RuntimeConfigDesired
    <2> QED BY <1>9, <1>11, <2>3
<1>12. CASE u = "upbound-runtime-config" /\ Enabled("knative") /\ KnativeFullyReady
    <2>1. "knative-serving-cr" \in Present
        BY <1>12 DEF KnativeFullyReady, KnativeServingReady
    <2>2. "knative-serving-cr" \in Desired
        BY <2>1 DEF AtRest
    <2>3. FeaturesLicensed
        BY <2>2 DEF Desired, If, ClusterDesired, UxpDesired, CertManagerDesired,
           GatewayDesired, K8gbDesired, ArgocdDesired, BackupDesired,
           WorkloadIdentityDesired, LicenseDesired, VpaDesired, KnativeDesired,
           RuntimeConfigDesired
    <2> QED BY <1>10, <1>12, <2>3
<1>13. CASE u \in RuntimeConfigDesired
    <2>1. u = "upbound-runtime-config" /\ Capabilities # {}
        BY <1>13 DEF RuntimeConfigDesired, If
    <2> QED BY <1>11, <1>12, <2>1 DEF Capabilities
<1> HIDE DEF Ok
<1> QED BY <1>3, <1>4, <1>5, <1>6, <1>7, <1>8, <1>9, <1>10, <1>13
        DEF Desired, If, LicenseComposed, Ok

(* Knative serves at rest, and all the arguments and capabilities asked for  *)
(* are there.                                                              *)
LEMMA ArgsAtRest ==
    ASSUME TypeOK, AtRest
    PROVE  /\ "knative" \in Effective => serving
           /\ args = {f \in Flags : \/ f = "--enable-provider-vpa" /\ "vpa" \in Effective
                                    \/ f = "--enable-knative-runtime" /\ "knative" \in Effective}
           /\ caps = {c \in CapabilityNames :
                          \/ c = "ProviderVPA" /\ "vpa" \in Effective
                          \/ c = "FunctionKnativeRuntime" /\ "knative" \in Effective}
<1>1. args = ManagerArgs /\ caps = Capabilities
    BY DEF AtRest
<1>2. FeaturesLicensed => Effective = on
    BY DEF FeaturesLicensed, Effective, LicenseWithheld, Enabled
<1>3. "vpa" \in Effective \/ "knative" \in Effective => FeaturesLicensed
    BY AllUpAtRest, LicensedUnlessWithheld DEF Effective
<1>4. "vpa" \in Effective => Deployed("vpa-release")
    <2>1. "vpa" \in Effective => "vpa-release" \in Present
        BY AllUpAtRest, UpIsComplete DEF WantedFor, If
    <2> QED BY <2>1, AllUpAtRest DEF AtRest, Deployed
<1>5. "knative" \in Effective => KnativeFullyReady /\ serving
    <2>1. "knative" \in Effective =>
              {"knative-operator-release", "knative-serving-cr"} \subseteq Present
        BY AllUpAtRest, UpIsComplete DEF WantedFor, If
    <2>2. "certmanager-release" \in Desired
        BY DEF Desired, CertManagerDesired
    <2>3. Up("knative-serving-cr") => serving
        BY DEF AtRest, CanServe
    <2> QED BY <2>1, <2>2, <2>3, AllUpAtRest
            DEF AtRest, Deployed, KnativeDepsReady, KnativeFullyReady, KnativeServingReady
<1>6. \A f \in Flags : f \in ManagerArgs <=>
          \/ f = "--enable-provider-vpa" /\ "vpa" \in Effective
          \/ f = "--enable-knative-runtime" /\ "knative" \in Effective
    BY <1>2, <1>3, <1>4, <1>5 DEF ManagerArgs, Enabled, Flags
<1>7. Capabilities # {} => FeaturesLicensed
    <2>1. ASSUME Capabilities # {} PROVE {"vpa-release", "knative-serving-cr"} \cap Desired # {}
        BY <2>1 DEF AtRest, Capabilities, KnativeFullyReady, KnativeServingReady, Deployed, Up,
                    Present, Units, Releases
    <2> QED BY <2>1 DEF Desired, If, ClusterDesired, UxpDesired, CertManagerDesired,
           GatewayDesired, K8gbDesired, ArgocdDesired, BackupDesired,
           WorkloadIdentityDesired, LicenseDesired, VpaDesired, KnativeDesired,
           RuntimeConfigDesired
<1>8. \A c \in CapabilityNames : c \in Capabilities <=>
          \/ c = "ProviderVPA" /\ "vpa" \in Effective
          \/ c = "FunctionKnativeRuntime" /\ "knative" \in Effective
    BY <1>2, <1>3, <1>4, <1>5, <1>7 DEF Capabilities, Enabled, CapabilityNames
<1> QED BY <1>1, <1>5, <1>6, <1>8 DEF ManagerArgs, Capabilities

LEMMA RestConverged == TypeOK => RestIsConverged
<1> SUFFICES ASSUME TypeOK, AtRest PROVE Converged
    BY DEF RestIsConverged
<1>1. Desired = Present /\ deleting = {}
    BY DEF AtRest
<1>2. \A u \in Desired : Up(u) /\ u \in Present
    BY AllUpAtRest
<1>3. {"gke", "uxp-release", "certmanager-release"} \subseteq Desired
    BY DEF Desired, ClusterDesired, UxpDesired, CertManagerDesired
<1>4. ASSUME NEW f \in Effective
      PROVE  WantedFor(f) \subseteq Present /\ "backup-restore" \notin WantedFor(f)
    <2>1. f = "knative" => KnativeServingReady
        <3>1. f = "knative" => serving /\ "knative-serving-cr" \in Present
            BY <1>2, ArgsAtRest, UpIsComplete DEF WantedFor, If
        <3> QED BY <3>1 DEF KnativeServingReady
    <2> QED BY <1>2, <2>1, UpIsComplete DEF WantedFor, If
<1>5. Present \ {"backup-restore"} =
          {"gke", "uxp-release", "certmanager-release"} \cup UNION {WantedFor(f) : f \in Effective}
    BY <1>1, <1>3, <1>4, AskedForAtRest
<1>6. "backup-restore" \in Desired <=> {"backup", "installFrom"} \subseteq on
    BY <1>2, <1>3 DEF Desired, If, ClusterDesired, UxpDesired, CertManagerDesired,
       GatewayDesired, K8gbDesired, ArgocdDesired, BackupDesired,
       WorkloadIdentityDesired, LicenseDesired, VpaDesired, KnativeDesired,
       RuntimeConfigDesired, Deployed, Enabled
<1> QED BY <1>1, <1>2, <1>5, <1>6, ArgsAtRest DEF Converged

(* For every set of features, edited and failed in any order: whenever      *)
(* nothing is left to do, everything asked for, and nothing else, is up.    *)
(* No gate waits for what it gates.                                        *)
THEOREM NoCircleOfGates == Spec => []RestIsConverged
<1>1. TypeOK => RestIsConverged
    BY RestConverged
<1> QED BY <1>1, TypeCorrect, PTL

LEMMA RestReady == TypeOK => RestIsReady
<1> SUFFICES ASSUME TypeOK, AtRest
             PROVE  (xrReady <=> ~StaleReady) /\ (statusReady <=> ~StaleReady)
    BY DEF RestIsReady
<1>1. Desired = Present /\ statusReady = StatusReady /\ xrReady = XrReady
    BY DEF AtRest
<1>2. \A u \in Desired : Up(u) /\ u \in Present
    BY AllUpAtRest
<1>3. "uxp-release" \in Desired
    BY DEF Desired, UxpDesired
<1>4. \A u \in Desired : ~StaleReady => ReadyCondition(u)
    BY <1>2 DEF ReadyCondition
<1>5. StaleReady => ~ReadyCondition("uxp-release")
    BY DEF ReadyCondition, Releases
<1>6. XrReady <=> ~StaleReady
    BY <1>3, <1>4, <1>5 DEF XrReady
<1>7. StatusReady <=> ~StaleReady
    BY <1>1, <1>3, <1>4, <1>5 DEF StatusReady
<1> QED BY <1>1, <1>6, <1>7

(* A control plane at rest is Ready, in both conditions, if and only if      *)
(* provider-helm reports deployed Releases Ready.                          *)
THEOREM RestingXrIsReady == Spec => []RestIsReady
<1>1. TypeOK => RestIsReady
    BY RestReady
<1> QED BY <1>1, TypeCorrect, PTL

-----------------------------------------------------------------------------
(* The converse of rest: a converged control plane is what compose asks for. *)

(* What a converged control plane has for each feature, and nothing else.   *)
LEMMA ConvergedHas ==
    ASSUME TypeOK, Converged
    PROVE  /\ \A u \in Units : u \in Present <=> Up(u)
           /\ {"gke", "uxp-release", "certmanager-release"} \subseteq Present
           /\ \A f \in Effective : WantedFor(f) \subseteq Present
           /\ \A u \in Present \ {"backup-restore"} :
                 \/ u \in {"gke", "uxp-release", "certmanager-release"}
                 \/ \E f \in Effective : u \in WantedFor(f)
<1>1. \A u \in Units : u \in Present <=> Up(u)
    BY DEF Converged, Present, Up
<1>2. Present \ {"backup-restore"} =
          {"gke", "uxp-release", "certmanager-release"} \cup UNION {WantedFor(f) : f \in Effective}
    BY DEF Converged
<1> QED BY <1>1, <1>2

LEMMA ConvergedLicensed ==
    ASSUME TypeOK, Converged
    PROVE  /\ FeaturesLicensed => Effective = on
           /\ ~FeaturesLicensed => Effective = on \ {"license", "vpa", "knative"}
           /\ LicenseComposed <=> "license" \in Effective
<1>1. "uxp-license" \in Units /\ ("uxp-license" \in Present <=> Up("uxp-license"))
    BY ConvergedHas DEF Units
<1>2. "license" \in Effective => Up("uxp-license")
    BY <1>1, ConvergedHas DEF WantedFor
<1>3. FeaturesLicensed <=> ~LicenseWithheld
    BY <1>2 DEF FeaturesLicensed, LicenseWithheld, Effective, Enabled
<1>4. LicenseComposed <=> "license" \in Effective
    BY <1>1 DEF LicenseComposed, LicenseWithheld, Effective, Enabled
<1> QED BY <1>3, <1>4 DEF Effective

(* So every gate stands as the parameters want it to.                      *)
LEMMA ConvergedGates ==
    ASSUME TypeOK, Converged
    PROVE  /\ Deployed("uxp-release") /\ Deployed("certmanager-release")
           /\ {"k8gb", "argocd"} \cap on # {} => GatewayReady
           /\ "k8gb" \in on => Up("k8gb-address")
           /\ "argocd" \in on => Deployed("argocd-release")
           /\ Enabled("vpa") /\ Deployed("vpa-release") <=> "vpa" \in Effective
           /\ Enabled("knative") /\ KnativeFullyReady <=> "knative" \in Effective
           /\ "knative" \in Effective => KnativeDepsReady
<1> USE DEF Deployed
<1>0. "knative" \in Effective => serving
    BY DEF Converged
<1>1. \A f \in on : f \notin {"license", "vpa", "knative"} => f \in Effective
    BY DEF Effective
<1>2. Effective \subseteq on
    BY DEF Effective
<1>3. \A u \in Present : Up(u)
    BY ConvergedHas DEF Present
<1>4. /\ "k8gb" \in on => {"envoy-gateway-release", "k8gb-address"} \subseteq Present
      /\ "argocd" \in on => {"envoy-gateway-release", "argocd-release"} \subseteq Present
    BY <1>1, ConvergedHas DEF WantedFor
<1>5. /\ "vpa" \in Effective => "vpa-release" \in Present
      /\ "knative" \in Effective =>
            {"knative-operator-release", "knative-serving-cr"} \subseteq Present
    BY ConvergedHas DEF WantedFor
<1>6. ASSUME NEW f \in Effective PROVE /\ "vpa-release" \in WantedFor(f) => f = "vpa"
                                       /\ "knative-serving-cr" \in WantedFor(f) => f = "knative"
    BY DEF WantedFor
<1>7. /\ Up("vpa-release") => "vpa" \in Effective
      /\ "knative-serving-cr" \in Present => "knative" \in Effective
    BY <1>6, ConvergedHas DEF Units, Releases
<1>8. Up("uxp-release") /\ Up("certmanager-release")
    BY <1>3, ConvergedHas
<1> QED BY <1>0, <1>2, <1>3, <1>4, <1>5, <1>7, <1>8
        DEF Enabled, GatewayReady, KnativeDepsReady, KnativeFullyReady, KnativeServingReady

LEMMA ConvergedConfirmed == TypeOK => ConvergedIsConfirmed
<1> SUFFICES ASSUME TypeOK, Converged
             PROVE  Desired = Present /\ ManagerArgs = args /\ Capabilities = caps
    BY DEF ConvergedIsConfirmed
<1>1. \A f \in on : f \notin {"license", "vpa", "knative"} => f \in Effective
    BY DEF Effective
<1>2. \A f \in {"license", "vpa", "knative"} : f \in Effective => f \in on
    BY DEF Effective
<1>3. \A f \in {"vpa", "knative"} : Enabled(f) /\ FeaturesLicensed <=> f \in Effective
    BY ConvergedLicensed DEF Enabled
<1>4. "backup-restore" \in Present <=> {"backup", "installFrom"} \subseteq on
    BY DEF Converged
<1>5. \A c \in CapabilityNames : c \in Capabilities <=>
           \/ c = "ProviderVPA" /\ "vpa" \in Effective
           \/ c = "FunctionKnativeRuntime" /\ "knative" \in Effective
    BY ConvergedGates DEF Capabilities, CapabilityNames
<1>6. Capabilities = caps
    BY <1>5 DEF Converged, Capabilities
<1>7. Capabilities # {} <=> {"vpa", "knative"} \cap Effective # {}
    BY <1>5 DEF Capabilities, CapabilityNames
<1>8. Desired \subseteq Present
    <2>1. ClusterDesired \cup UxpDesired \cup CertManagerDesired \subseteq Present
        BY ConvergedHas DEF ClusterDesired, UxpDesired, CertManagerDesired
    <2>2. Enabled("k8gb") \/ Enabled("argocd") => GatewayDesired \subseteq Present
        BY <1>1, ConvergedHas DEF GatewayDesired, If, WantedFor, Enabled
    <2>3. Enabled("k8gb") => K8gbDesired \subseteq Present
        BY <1>1, ConvergedHas DEF K8gbDesired, If, WantedFor, Enabled
    <2>4. Enabled("argocd") => ArgocdDesired \subseteq Present
        BY <1>1, ConvergedHas DEF ArgocdDesired, If, WantedFor, Enabled
    <2>5. Enabled("backup") => BackupDesired \cup WorkloadIdentityDesired \subseteq Present
        BY <1>1, <1>4, ConvergedHas
           DEF BackupDesired, WorkloadIdentityDesired, If, WantedFor, Enabled
    <2>6. LicenseComposed => LicenseDesired \subseteq Present
        BY ConvergedHas, ConvergedLicensed DEF LicenseDesired, WantedFor
    <2>7. "vpa" \in Effective => VpaDesired \subseteq Present
        BY ConvergedHas DEF VpaDesired, WantedFor
    <2>8. "knative" \in Effective => KnativeDesired \subseteq Present
        BY ConvergedHas DEF KnativeDesired, If, WantedFor
    <2>9. RuntimeConfigDesired \subseteq Present
        BY <1>7, ConvergedHas DEF RuntimeConfigDesired, If, WantedFor
    <2> QED BY <1>3, <2>1, <2>2, <2>3, <2>4, <2>5, <2>6, <2>7, <2>8, <2>9, ConvergedGates
            DEF Desired, If
<1>9. ASSUME NEW f \in Effective PROVE WantedFor(f) \subseteq Desired
    <2>1. CASE f \in {"k8gb", "argocd"}
        <3>1. f \in on
            BY DEF Effective
        <3> QED BY <2>1, <3>1, ConvergedGates
                DEF WantedFor, Desired, GatewayDesired, K8gbDesired, ArgocdDesired, If, Enabled
    <2>2. CASE f = "backup"
        <3>1. f \in on
            BY DEF Effective
        <3> QED BY <2>2, <3>1, ConvergedGates
                DEF WantedFor, Desired, BackupDesired, WorkloadIdentityDesired, If, Enabled
    <2>3. CASE f = "license"
        BY <2>3, ConvergedLicensed DEF WantedFor, Desired, LicenseDesired, If
    <2>4. CASE f = "vpa"
        BY <1>3, <1>7, <2>4, ConvergedGates
           DEF WantedFor, Desired, VpaDesired, RuntimeConfigDesired, If
    <2>5. CASE f = "knative"
        BY <1>3, <1>7, <2>5, ConvergedGates
           DEF WantedFor, Desired, KnativeDesired, RuntimeConfigDesired, If
    <2>6. CASE f \notin {"k8gb", "argocd", "backup", "license", "vpa", "knative"}
        BY <2>6 DEF WantedFor
    <2> QED BY <2>1, <2>2, <2>3, <2>4, <2>5, <2>6
<1>10. {"gke", "uxp-release", "certmanager-release"} \subseteq Desired
    BY DEF Desired, ClusterDesired, UxpDesired, CertManagerDesired
<1>11. "backup-restore" \in Present => "backup-restore" \in Desired
    BY <1>4, ConvergedGates DEF Desired, WorkloadIdentityDesired, If, Enabled
<1>12. Desired = Present
    BY <1>8, <1>9, <1>10, <1>11, ConvergedHas
<1>13. \A f \in Flags : f \in ManagerArgs <=>
           \/ f = "--enable-provider-vpa" /\ "vpa" \in Effective
           \/ f = "--enable-knative-runtime" /\ "knative" \in Effective
    BY <1>3, ConvergedGates DEF ManagerArgs, Flags
<1>14. ManagerArgs = args
    BY <1>13 DEF Converged, ManagerArgs
<1> QED BY <1>12, <1>6, <1>14

(* For every set of features: a reconcile of a converged control plane       *)
(* changes nothing.  With NoCircleOfGates, what compose is at rest with and *)
(* what the parameters ask for are one and the same.                       *)
THEOREM ConvergedStays == Spec => []ConvergedIsConfirmed
<1>1. TypeOK => ConvergedIsConfirmed
    BY ConvergedConfirmed
<1> QED BY <1>1, TypeCorrect, PTL

=============================================================================
