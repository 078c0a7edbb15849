------------------------- MODULE LicenseGuardProofs -------------------------
(* Proofs about LicenseGuard, for any number of ControlPlanes and Secrets,  *)
(* any clock, and any number of edits and faults.                          *)
EXTENDS LicenseGuard, FiniteSetTheorems, WellFoundedInduction, TLAPS

-----------------------------------------------------------------------------
(* The order of claims (claim_order of check_license_conflict) never puts   *)
(* two XRs ahead of each other: the guard cannot make two XRs that agree on *)
(* who holds what wait for each other over one Secret.                     *)
LEMMA ClaimBeforeAsymmetric ==
    ASSUME TypeOK, NEW x \in ControlPlane, NEW c \in ControlPlane, NEW d \in ControlPlane,
           ClaimBefore(x, c, d)
    PROVE  ~ClaimBefore(x, d, c)
<1>1. created[c] \in Int /\ created[d] \in Int /\ c \in Int /\ d \in Int
    BY ConstantsAssumption DEF TypeOK
<1> QED BY <1>1 DEF ClaimBefore

(* Of any two XRs one is first, so the owner named by the condition and the *)
(* XR that gets the Secret are unique.                                     *)
LEMMA ClaimBeforeTotal ==
    ASSUME TypeOK, NEW x \in ControlPlane, NEW c \in ControlPlane, NEW d \in ControlPlane,
           c # d
    PROVE  ClaimBefore(x, c, d) \/ ClaimBefore(x, d, c)
<1>1. created[c] \in Int /\ created[d] \in Int /\ c \in Int /\ d \in Int
    BY ConstantsAssumption DEF TypeOK
<1> QED BY <1>1 DEF ClaimBefore

(* claim_order compares tuples, so what is ahead of an XR ahead is ahead.   *)
LEMMA ClaimBeforeTransitive ==
    ASSUME TypeOK, NEW x \in ControlPlane,
           NEW c \in ControlPlane, NEW d \in ControlPlane, NEW e \in ControlPlane,
           ClaimBefore(x, c, d), ClaimBefore(x, d, e)
    PROVE  ClaimBefore(x, c, e)
<1>1. /\ created[c] \in Int /\ created[d] \in Int /\ created[e] \in Int
      /\ c \in Int /\ d \in Int /\ e \in Int
    BY ConstantsAssumption DEF TypeOK
<1> QED BY <1>1 DEF ClaimBefore

LEMMA NatSetHasLeast ==
    ASSUME NEW T, T \subseteq Nat, T # {}
    PROVE  \E m \in T : \A n \in T : m <= n
<1>1. IsWellFoundedOn(OpToRel(<, Nat), Nat)
    BY NatLessThanWellFounded
<1>2. PICK m \in T : \A n \in T : ~(<<n, m>> \in OpToRel(<, Nat))
    BY <1>1, WFMin
<1>3. ASSUME NEW n \in T PROVE m <= n
    <2>1. ~(<<n, m>> \in OpToRel(<, Nat))
        BY <1>2
    <2>2. <<n, m>> \in Nat \X Nat
        OBVIOUS
    <2> QED BY <2>1, <2>2 DEF OpToRel
<1> QED BY <1>3

(* Among the XRs ahead of x there is one ahead of all the others: the       *)
(* minimum that check_license_conflict returns.                            *)
LEMMA AheadHasFirst ==
    ASSUME TypeOK, NEW x \in ControlPlane, Ahead(x) # {}
    PROVE  \E c \in Ahead(x) : \A d \in Ahead(x) \ {c} : ClaimBefore(x, c, d)
<1> DEFINE Holders == {c \in Ahead(x) : Holds(x, c)}
           First == IF Holders # {} THEN Holders ELSE Ahead(x)
           Times == {created[c] : c \in First}
<1>1. First # {} /\ First \subseteq Ahead(x) /\ Ahead(x) \subseteq ControlPlane
    BY DEF Ahead, Others
<1>2. \A c \in ControlPlane : created[c] \in Nat
    BY ConstantsAssumption DEF TypeOK
<1>3. PICK t \in Times : \A u \in Times : t <= u
    <2>1. Times \subseteq Nat /\ Times # {}
        BY <1>1, <1>2
    <2> HIDE DEF Times
    <2> QED BY <2>1, NatSetHasLeast
<1> DEFINE Oldest == {c \in First : created[c] = t}
<1>4. PICK c \in Oldest : \A d \in Oldest : c <= d
    <2>1. Oldest \subseteq Nat
        BY <1>1, ConstantsAssumption
    <2>2. Oldest # {}
        <3>1. PICK e \in First : created[e] = t
            BY <1>3
        <3> QED BY <3>1
    <2> HIDE DEF Oldest
    <2> QED BY <2>1, <2>2, NatSetHasLeast
<1>5. c \in Ahead(x)
    BY <1>1, <1>4
<1>6. ASSUME NEW d \in Ahead(x) \ {c} PROVE ClaimBefore(x, c, d)
    <2>0. c \in ControlPlane /\ d \in ControlPlane
        BY <1>1, <1>5, <1>6
    <2>1. c \in Int /\ d \in Int
        BY <2>0, ConstantsAssumption
    <2>2. created[c] \in Int /\ created[d] \in Int /\ created[c] = t
        BY <1>2, <1>4, <2>0
    <2>3. CASE d \in First
        <3>1. Holds(x, c) <=> Holds(x, d)
            BY <1>4, <2>3
        <3>2. t <= created[d]
            BY <1>3, <2>3
        <3>3. created[d] = t => c <= d
            BY <1>4, <2>3
        <3> QED BY <2>1, <2>2, <3>1, <3>2, <3>3 DEF ClaimBefore
    <2>4. CASE d \notin First
        BY <1>4, <2>4 DEF ClaimBefore
    <2> QED BY <2>3, <2>4
<1> QED BY <1>5, <1>6

(* The condition is raised exactly when somebody is ahead, and names an XR  *)
(* that is.                                                                *)
LEMMA ConflictNamesAhead ==
    ASSUME TypeOK, NEW x \in ControlPlane
    PROVE  /\ LicenseConflict(x) \in OwnerOrNone
           /\ LicenseConflict(x) = None <=> (seen[x].spec = None \/ Ahead(x) = {})
<1>1. CASE seen[x].spec = None \/ Ahead(x) = {}
    BY <1>1 DEF LicenseConflict, OwnerOrNone
<1>2. CASE ~(seen[x].spec = None \/ Ahead(x) = {})
    <2>1. LicenseConflict(x) \in Ahead(x)
        BY <1>2, AheadHasFirst DEF LicenseConflict
    <2>2. Ahead(x) \subseteq ControlPlane
        BY DEF Ahead, Others
    <2> QED BY <1>2, <2>1, <2>2, ConstantsAssumption DEF OwnerOrNone
<1> QED BY <1>1, <1>2

-----------------------------------------------------------------------------
(* Type correctness, for every instance of the license guard.              *)
LEMMA TypeOKInit == Init => TypeOK
<1> SUFFICES ASSUME Init PROVE TypeOK
    OBVIOUS
<1>1. phase \in [ControlPlane -> {"absent", "live", "terminating"}]
    BY DEF Init
<1>2. created \in [ControlPlane -> 0..MaxTime]
    <2>1. InitialTimes \cup {0} \subseteq 0..MaxTime
        BY ConstantsAssumption
    <2> QED BY <2>1 DEF Init
<1>3. /\ claim \in [ControlPlane -> SecretOrNone]
      /\ conflict \in [ControlPlane -> OwnerOrNone]
      /\ deleting \in [ControlPlane -> BOOLEAN]
    BY DEF Init, SecretOrNone, OwnerOrNone
<1>4. seen \in [ControlPlane -> Views] /\ plan \in [ControlPlane -> Plans]
    BY DEF Init, NoView, NoPlan, Views, Plans, SecretOrNone, OwnerOrNone
<1>5. now \in 0..MaxTime
    BY ConstantsAssumption DEF Init
<1>6. edits \in 0..MaxEdits /\ faults \in 0..MaxFaults
    BY ConstantsAssumption DEF Init
<1>7. /\ spec \in [ControlPlane -> SecretOrNone]
      /\ installed \in [ControlPlane -> SecretOrNone]
      /\ raced \subseteq Secret
    BY DEF Init
<1>8. pc \in [ControlPlane -> {"idle", "observed", "composed", "applied", "recorded"}]
    BY DEF Init
<1> QED BY <1>1, <1>2, <1>3, <1>4, <1>5, <1>6, <1>7, <1>8 DEF TypeOK

LEMMA TypeOKStep == TypeOK /\ [Next]_vars => TypeOK'
<1> SUFFICES ASSUME TypeOK, [Next]_vars PROVE TypeOK'
    OBVIOUS
<1> USE DEF TypeOK, xrVars, statusVars, composedVars, reconcileVars
<1>1. ASSUME NEW x \in ControlPlane, Observe(x) PROVE TypeOK'
    BY <1>1 DEF Observe, Views
<1>2. ASSUME NEW x \in ControlPlane, RunFunction(x) PROVE TypeOK'
    <2>1. ComposeLicense(x) \in Plans
        BY ConflictNamesAhead DEF ComposeLicense, Plans, Views
    <2>2. raced' \subseteq Secret
        BY <1>2 DEF RunFunction
    <2> QED BY <1>2, <2>1, <2>2 DEF RunFunction
<1>3. ASSUME NEW x \in ControlPlane, Apply(x) PROVE TypeOK'
    <2>1. plan[x].license \in SecretOrNone
        BY DEF Plans
    <2>2. NoView \in Views /\ NoPlan \in Plans
        BY DEF NoView, NoPlan, Views, Plans, SecretOrNone, OwnerOrNone
    <2> QED BY <1>3, <2>1, <2>2 DEF Apply, Finish
<1>4. ASSUME NEW x \in ControlPlane, Record(x) PROVE TypeOK'
    <2>1. plan[x].license \in SecretOrNone /\ plan[x].conflict \in OwnerOrNone
        BY DEF Plans
    <2>2. NoView \in Views /\ NoPlan \in Plans
        BY DEF NoView, NoPlan, Views, Plans, SecretOrNone, OwnerOrNone
    <2> QED BY <1>4, <2>1, <2>2 DEF Record, Finish
<1>5. ASSUME NEW x \in ControlPlane, Abort(x) PROVE TypeOK'
    <2>1. NoView \in Views /\ NoPlan \in Plans
        BY DEF NoView, NoPlan, Views, Plans, SecretOrNone, OwnerOrNone
    <2>2. faults' \in 0..MaxFaults
        BY <1>5, ConstantsAssumption DEF Abort
    <2> QED BY <1>5, <2>1, <2>2 DEF Abort, Finish
<1>6. ASSUME NEW x \in ControlPlane, Uninstall(x) PROVE TypeOK'
    BY <1>6 DEF Uninstall, SecretOrNone
<1>7. ASSUME NEW x \in ControlPlane, Gone(x) PROVE TypeOK'
    BY <1>7, ConstantsAssumption DEF Gone, SecretOrNone, OwnerOrNone
<1>8. ASSUME NEW x \in ControlPlane, Environment(x) PROVE TypeOK'
    <2>1. edits' \in 0..MaxEdits
        BY <1>8, ConstantsAssumption
           DEF Environment, Create, Repoint, Delete, RestoreWithoutStatus, Edit
    <2>0. ASSUME Stamp(x)
          PROVE  now' \in 0..MaxTime /\ created' \in [ControlPlane -> 0..MaxTime]
        BY <2>0, ConstantsAssumption DEF Stamp
    <2>2. CASE Create(x)
        BY <2>0, <2>1, <2>2 DEF Create
    <2>3. CASE Repoint(x)
        BY <2>1, <2>3 DEF Repoint
    <2>4. CASE Delete(x)
        BY <2>1, <2>4 DEF Delete
    <2>5. CASE RestoreWithoutStatus(x)
        BY <2>0, <2>1, <2>5 DEF RestoreWithoutStatus, SecretOrNone, OwnerOrNone
    <2> QED BY <1>8, <2>2, <2>3, <2>4, <2>5 DEF Environment
<1>9. CASE UNCHANGED vars
    BY <1>9 DEF vars
<1> QED
    BY <1>1, <1>2, <1>3, <1>4, <1>5, <1>6, <1>7, <1>8, <1>9 DEF Next, Reconcile

(* Every reachable state has the types TypeOK names, whatever the instance. *)
THEOREM TypeCorrect == Spec => []TypeOK
<1>1. Init => TypeOK
    BY TypeOKInit
<1>2. TypeOK /\ [Next]_vars => TypeOK'
    BY TypeOKStep
<1> QED BY <1>1, <1>2, PTL DEF Spec

-----------------------------------------------------------------------------
(* The function gives an XR a Secret that another live XR holds on the      *)
(* record only if the XR claimed it or had it installed before.            *)
LEMMA GrantedMeansUnclaimed ==
    ASSUME TypeOK, NEW x \in ControlPlane, NEW y \in ControlPlane, y # x, Live(y),
           pc[x] = "observed", NEW s \in Secret, claim[y] = s,
           ComposeLicense(x).license = s
    PROVE  s \in {seen[x].claim, seen[x].installed}
<1>1. CASE LicenseConflict(x) # None
    BY <1>1 DEF ComposeLicense
<1>2. CASE LicenseConflict(x) = None
    <2>1. seen[x].spec = s /\ s # None
        BY <1>2, ConstantsAssumption DEF ComposeLicense
    <2>2. Ahead(x) = {}
        BY <1>2, <2>1, ConflictNamesAhead
    <2>3. ~ClaimBefore(x, y, x)
        BY <2>1, <2>2 DEF Ahead, Others
    <2>4. Holds(x, y)
        BY <2>1 DEF Holds
    <2>5. seen[x].claim = s
        BY <2>1, <2>3, <2>4 DEF ClaimBefore, Holds
    <2> QED BY <2>5
<1> QED BY <1>1, <1>2

(* Only a decision of the function gives a live XR a Secret it did not hold *)
(* before.                                                                 *)
LEMMA HoldingGrows ==
    ASSUME TypeOK, [Next]_vars, NEW x \in ControlPlane, NEW s \in Secret,
           Live(x)', Holding(x, s)', ~(Live(x) /\ Holding(x, s))
    PROVE  RunFunction(x) \/ Create(x)
<1> SUFFICES ASSUME ~RunFunction(x), ~Create(x) PROVE FALSE
    OBVIOUS
<1> USE ConstantsAssumption DEF TypeOK, xrVars, statusVars, composedVars, reconcileVars,
        Holding, Live
<1>1. ASSUME NEW z \in ControlPlane, Observe(z) PROVE FALSE
    BY <1>1 DEF Observe
<1>2. ASSUME NEW z \in ControlPlane, RunFunction(z) PROVE FALSE
    <2>1. z # x
        BY <1>2
    <2> QED BY <1>2, <2>1 DEF RunFunction
<1>3. ASSUME NEW z \in ControlPlane, Apply(z) PROVE FALSE
    BY <1>3 DEF Apply, Finish
<1>4. ASSUME NEW z \in ControlPlane, Record(z) PROVE FALSE
    BY <1>4 DEF Record, Finish
<1>5. ASSUME NEW z \in ControlPlane, Abort(z) PROVE FALSE
    BY <1>5 DEF Abort, Finish
<1>6. ASSUME NEW z \in ControlPlane, Uninstall(z) PROVE FALSE
    BY <1>6 DEF Uninstall
<1>7. ASSUME NEW z \in ControlPlane, Gone(z) PROVE FALSE
    BY <1>7 DEF Gone
<1>8. ASSUME NEW z \in ControlPlane, Environment(z) PROVE FALSE
    <2>1. CASE Create(z)
        <3>1. z # x
            BY <2>1
        <3> QED BY <2>1, <3>1 DEF Create
    <2>2. CASE Repoint(z)
        BY <2>2 DEF Repoint
    <2>3. CASE Delete(z)
        BY <2>3 DEF Delete
    <2>4. CASE RestoreWithoutStatus(z)
        BY <2>4 DEF RestoreWithoutStatus
    <2> QED BY <1>8, <2>1, <2>2, <2>3, <2>4 DEF Environment
<1>9. CASE UNCHANGED vars
    BY <1>9 DEF vars
<1> QED
    BY <1>1, <1>2, <1>3, <1>4, <1>5, <1>6, <1>7, <1>8, <1>9 DEF Next, Reconcile

-----------------------------------------------------------------------------
(* An XR that does not exist has left nothing behind: what NoUnrecordedSharing *)
(* needs to survive the creation of an XR under a name used before.        *)
AbsentIsClean ==
    \A x \in ControlPlane : phase[x] = "absent" =>
        claim[x] = None /\ installed[x] = None /\ pc[x] = "idle"

(* The inductive invariant of sharing.                                     *)
SharingInv == TypeOK /\ AbsentIsClean /\ NoUnrecordedSharing

LEMMA SharingInvInit == Init => SharingInv
<1> SUFFICES ASSUME Init PROVE AbsentIsClean /\ NoUnrecordedSharing
    BY TypeOKInit DEF SharingInv
<1>1. AbsentIsClean
    BY DEF Init, AbsentIsClean, Live
<1>2. \A x \in ControlPlane, s \in Secret : Holding(x, s) => installed[x] = s
    BY ConstantsAssumption DEF Init, Holding
<1>3. NoUnrecordedSharing
    BY <1>2 DEF Init, NoUnrecordedSharing
<1> QED BY <1>1, <1>3

LEMMA AbsentIsCleanStep == TypeOK /\ AbsentIsClean /\ [Next]_vars => AbsentIsClean'
<1> SUFFICES ASSUME TypeOK, AbsentIsClean, [Next]_vars,
                    NEW x \in ControlPlane, phase'[x] = "absent"
             PROVE  claim'[x] = None /\ installed'[x] = None /\ pc'[x] = "idle"
    BY DEF AbsentIsClean
<1> USE DEF TypeOK, AbsentIsClean, xrVars, statusVars, composedVars, reconcileVars
<1>1. ASSUME NEW z \in ControlPlane, Reconcile(z) \/ Abort(z) \/ Uninstall(z)
      PROVE  claim'[x] = None /\ installed'[x] = None /\ pc'[x] = "idle"
    <2>1. phase'[x] = phase[x]
        BY <1>1 DEF Reconcile, Observe, RunFunction, Apply, Record, Abort, Uninstall
    <2>2. CASE z = x
        BY <1>1, <2>1, <2>2
           DEF Reconcile, Observe, RunFunction, Apply, Record, Abort, Uninstall, Live
    <2>3. CASE z # x
        BY <1>1, <2>1, <2>3
           DEF Reconcile, Observe, RunFunction, Apply, Record, Abort, Uninstall
    <2> QED BY <2>2, <2>3
<1>2. ASSUME NEW z \in ControlPlane, Gone(z)
      PROVE  claim'[x] = None /\ installed'[x] = None /\ pc'[x] = "idle"
    BY <1>2 DEF Gone
<1>3. ASSUME NEW z \in ControlPlane, Environment(z)
      PROVE  claim'[x] = None /\ installed'[x] = None /\ pc'[x] = "idle"
    BY <1>3 DEF Environment, Create, Repoint, Delete, RestoreWithoutStatus, Live
<1>4. CASE UNCHANGED vars
    BY <1>4 DEF vars
<1> QED BY <1>1, <1>2, <1>3, <1>4 DEF Next

LEMMA SharingInvStep == SharingInv /\ [Next]_vars => SharingInv'
<1> SUFFICES ASSUME SharingInv, [Next]_vars PROVE NoUnrecordedSharing'
    BY TypeOKStep, AbsentIsCleanStep DEF SharingInv
<1>1. raced \subseteq raced'
    BY DEF Next, Reconcile, Observe, RunFunction, Apply, Record, Abort, Uninstall, Gone,
           Environment, Create, Repoint, Delete, RestoreWithoutStatus, vars
(* A live XR that comes to hold s was already holding it, or was just       *)
(* granted it by the function.                                             *)
<1>2. ASSUME NEW x \in ControlPlane, NEW s \in Secret, Live(x)', Holding(x, s)'
      PROVE  (Live(x) /\ Holding(x, s)) \/ RunFunction(x)
    <2>1. CASE Create(x)
        <3>1. ~Holding(x, s)'
            BY <2>1, ConstantsAssumption
               DEF SharingInv, AbsentIsClean, Create, Holding,
                   statusVars, composedVars, reconcileVars
        <3> QED BY <1>2, <3>1
    <2> QED BY <1>2, <2>1, HoldingGrows DEF SharingInv
(* When x is granted s, everybody else who has it has it on the record, and *)
(* then x had it before; or s is raced.                                    *)
<1>3. ASSUME NEW x \in ControlPlane, NEW y \in ControlPlane, x # y, NEW s \in Secret,
             RunFunction(x), Live(x)', Holding(x, s)', Live(y)', Holding(y, s)'
      PROVE  s \in raced'
    <2>1. /\ phase' = phase /\ claim' = claim /\ installed' = installed /\ seen' = seen
          /\ pc[x] = "observed" /\ plan'[x] = ComposeLicense(x)
          /\ plan'[y] = plan[y] /\ pc'[y] = pc[y] /\ pc'[x] = "composed"
        BY <1>3 DEF RunFunction, xrVars, statusVars, composedVars, SharingInv, TypeOK
    <2>2. Live(x) /\ Live(y) /\ Holding(y, s)
        BY <1>3, <2>1 DEF Live, Holding
    <2>3. CASE Holding(x, s)
        BY <1>1, <1>3, <2>2, <2>3 DEF SharingInv, NoUnrecordedSharing
    <2>4. CASE ~Holding(x, s)
        <3>1. ComposeLicense(x).license = s
            BY <1>3, <2>1, <2>4 DEF Holding
        <3>2. s \notin {seen[x].claim, seen[x].installed}
            BY <2>1, <2>4 DEF Holding
        <3>3. OffTheRecord(y, s)
            BY <1>3, <2>1, <2>2, <3>1, <3>2, GrantedMeansUnclaimed
               DEF OffTheRecord, SharingInv
        <3>4. LicenseConflict(x) = None /\ seen[x].spec = s
            BY <3>1, <3>2 DEF ComposeLicense
        <3> QED BY <1>3, <2>2, <3>3, <3>4 DEF RunFunction, Others
    <2> QED BY <2>3, <2>4
<1>4. ASSUME NEW x \in ControlPlane, NEW y \in ControlPlane, x # y, NEW s \in Secret,
             Live(x)', Holding(x, s)', Live(y)', Holding(y, s)'
      PROVE  s \in raced'
    <2>1. CASE RunFunction(x) \/ RunFunction(y)
        BY <1>3, <1>4, <2>1
    <2>2. CASE ~(RunFunction(x) \/ RunFunction(y))
        <3>1. Live(x) /\ Holding(x, s) /\ Live(y) /\ Holding(y, s)
            BY <1>2, <1>4, <2>2
        <3> QED BY <1>1, <1>4, <3>1 DEF SharingInv, NoUnrecordedSharing
    <2> QED BY <2>1, <2>2
<1> QED BY <1>4 DEF NoUnrecordedSharing

(* Two live ControlPlanes come to have the same license only through a      *)
(* grant made while another XR had it in hand and not in its status.       *)
THEOREM SharingIsRecordedRace == Spec => []NoUnrecordedSharing
<1>1. Init => SharingInv
    BY SharingInvInit
<1>2. SharingInv /\ [Next]_vars => SharingInv'
    BY SharingInvStep
<1>3. SharingInv => NoUnrecordedSharing
    BY DEF SharingInv
<1> QED BY <1>1, <1>2, <1>3, PTL DEF Spec

-----------------------------------------------------------------------------
(* A license another live XR holds on the record is never granted, for any  *)
(* number of XRs and whatever happened before.                             *)
THEOREM HeldIsNeverHandedOver == Spec => NeverHandsOverHeld
<1>1. TypeOK /\ [Next]_vars => NeverHandsOverHeldStep
    <2> SUFFICES ASSUME TypeOK, [Next]_vars,
                        NEW x \in ControlPlane, pc[x] = "observed", pc'[x] = "composed",
                        NEW s \in Secret, plan'[x].license = s,
                        s \notin {seen[x].claim, seen[x].installed},
                        NEW y \in Others(x), Live(y)
                 PROVE  claim[y] # s
        BY DEF NeverHandsOverHeldStep
    <2> USE DEF TypeOK, xrVars, statusVars, composedVars, reconcileVars
    <2>1. RunFunction(x)
        BY DEF Next, Reconcile, Observe, RunFunction, Apply, Record, Abort, Uninstall,
               Gone, Environment, Create, Repoint, Delete, RestoreWithoutStatus, vars
    <2>2. ComposeLicense(x).license = s
        BY <2>1 DEF RunFunction
    <2> QED BY <2>2, GrantedMeansUnclaimed DEF Others
<1>2. Spec => []TypeOK
    BY TypeCorrect
<1> QED BY <1>1, <1>2, PTL DEF Spec, NeverHandsOverHeld

(* What a running reconcile knows: nobody but itself installs anything, and *)
(* it decided either for the Secret asked for, or for the one it saw       *)
(* installed.                                                              *)
PlanFollowsView ==
    \A x \in ControlPlane :
        /\ pc[x] \in {"observed", "composed", "recorded"} =>
              installed[x] \in {None, seen[x].installed}
        /\ pc[x] \in {"composed", "applied", "recorded"} =>
              \/ plan[x].license = seen[x].installed
              \/ plan[x].license = seen[x].spec /\ plan[x].conflict = None

LEMMA PlanFollowsViewStep == TypeOK /\ PlanFollowsView /\ [Next]_vars => PlanFollowsView'
<1> SUFFICES ASSUME TypeOK, PlanFollowsView, [Next]_vars PROVE PlanFollowsView'
    OBVIOUS
<1> USE DEF TypeOK, PlanFollowsView, xrVars, statusVars, composedVars, reconcileVars
<1>1. ASSUME NEW z \in ControlPlane, Observe(z) PROVE PlanFollowsView'
    BY <1>1 DEF Observe
<1>2. ASSUME NEW z \in ControlPlane, RunFunction(z) PROVE PlanFollowsView'
    <2>1. \/ ComposeLicense(z).license = seen[z].installed
          \/ ComposeLicense(z).license = seen[z].spec /\ ComposeLicense(z).conflict = None
        BY DEF ComposeLicense
    <2> QED BY <1>2, <2>1 DEF RunFunction
<1>3. ASSUME NEW z \in ControlPlane, Apply(z) PROVE PlanFollowsView'
    BY <1>3 DEF Apply, Finish
<1>4. ASSUME NEW z \in ControlPlane, Record(z) PROVE PlanFollowsView'
    BY <1>4 DEF Record, Finish
<1>5. ASSUME NEW z \in ControlPlane, Abort(z) \/ Gone(z) PROVE PlanFollowsView'
    BY <1>5 DEF Abort, Gone, Finish
<1>6. ASSUME NEW z \in ControlPlane, Uninstall(z) PROVE PlanFollowsView'
    BY <1>6 DEF Uninstall
<1>7. ASSUME NEW z \in ControlPlane, Environment(z) PROVE PlanFollowsView'
    BY <1>7 DEF Environment, Create, Repoint, Delete, RestoreWithoutStatus
<1>8. CASE UNCHANGED vars
    BY <1>8 DEF vars
<1> QED BY <1>1, <1>2, <1>3, <1>4, <1>5, <1>6, <1>7, <1>8 DEF Next, Reconcile

(* An installed license starts to go only when its XR was read to ask for   *)
(* none, goes only with such a deletion or with the XR, and is replaced     *)
(* only by the one the XR was read to ask for, without a conflict.         *)
THEOREM LiveLicenseIsKept == Spec => LicenseKept
<1>1. Init => PlanFollowsView
    BY DEF Init, PlanFollowsView
<1>2. TypeOK /\ PlanFollowsView /\ [Next]_vars => LicenseKeptStep
    <2> SUFFICES ASSUME TypeOK, PlanFollowsView, [Next]_vars, NEW x \in ControlPlane
                 PROVE  /\ (deleting'[x] /\ ~deleting[x]) => seen[x].spec = None
                        /\ (installed[x] # None /\ installed'[x] \notin {None, installed[x]})
                              => installed'[x] = seen[x].spec /\ plan[x].conflict = None
                        /\ (installed[x] # None /\ installed'[x] = None)
                              => deleting[x] \/ phase[x] = "terminating"
        BY DEF LicenseKeptStep
    <2> USE DEF TypeOK, xrVars, statusVars, composedVars, reconcileVars
    <2>1. CASE Apply(x)
        <3>1. /\ installed[x] \in {None, seen[x].installed}
              /\ \/ plan[x].license = seen[x].installed
                 \/ plan[x].license = seen[x].spec /\ plan[x].conflict = None
            BY <2>1 DEF Apply, PlanFollowsView
        <3>2. CASE plan[x].license # None
            BY <2>1, <3>1, <3>2 DEF Apply
        <3>3. CASE plan[x].license = None
            <4>1. installed' = installed
                BY <2>1, <3>3 DEF Apply
            <4>2. deleting'[x] => installed[x] # None
                BY <2>1, <3>3 DEF Apply
            <4> QED BY <3>1, <3>3, <4>1, <4>2
        <3> QED BY <3>2, <3>3
    <2>2. CASE ~Apply(x)
        <3>1. deleting'[x] => deleting[x]
            BY <2>2 DEF Next, Reconcile, Observe, RunFunction, Apply, Record, Abort, Uninstall,
                Gone, Environment, Create, Repoint, Delete, RestoreWithoutStatus, vars
        <3>2. \/ installed'[x] = installed[x]
              \/ installed'[x] = None /\ (deleting[x] \/ phase[x] = "terminating")
            BY <2>2 DEF Next, Reconcile, Observe, RunFunction, Apply, Record, Abort, Uninstall,
                Gone, Environment, Create, Repoint, Delete, RestoreWithoutStatus, vars
        <3> QED BY <3>1, <3>2
    <2> QED BY <2>1, <2>2
<1>3. Spec => []TypeOK
    BY TypeCorrect
<1>4. TypeOK /\ PlanFollowsView /\ [Next]_vars => PlanFollowsView'
    BY PlanFollowsViewStep
<1> QED BY <1>1, <1>2, <1>3, <1>4, PTL DEF Spec, LicenseKept

-----------------------------------------------------------------------------
(* The owner the condition names is ahead of every other XR ahead.         *)
LEMMA ConflictNamesFirst ==
    ASSUME TypeOK, NEW x \in ControlPlane, LicenseConflict(x) # None
    PROVE  /\ seen[x].spec # None
           /\ LicenseConflict(x) \in Ahead(x)
           /\ \A d \in Ahead(x) \ {LicenseConflict(x)} :
                  ClaimBefore(x, LicenseConflict(x), d)
<1>1. seen[x].spec # None /\ Ahead(x) # {}
    BY ConflictNamesAhead
<1> QED BY <1>1, AheadHasFirst DEF LicenseConflict

(* What a live XR at rest has: a fresh view, and a decision already made.   *)
LEMMA RestingXR ==
    ASSUME AtRest, NEW x \in ControlPlane, Live(x)
    PROVE  /\ ~deleting[x] /\ claim[x] = installed[x]
           /\ seen[x].spec = spec[x] /\ seen[x].claim = claim[x]
           /\ seen[x].installed = installed[x]
           /\ ComposeLicense(x).license = claim[x]
           /\ LicenseConflict(x) = conflict[x]
<1>1. seen[x] = [spec |-> spec[x], claim |-> claim[x], installed |-> installed[x]]
    BY Zenon DEF AtRest
<1>2. ComposeLicense(x) = [license |-> claim[x], conflict |-> conflict[x]]
    BY Zenon DEF AtRest
<1>3. ~deleting[x] /\ claim[x] = installed[x]
    BY Zenon DEF AtRest
<1>4. ComposeLicense(x).conflict = LicenseConflict(x)
    BY DEF ComposeLicense
<1> QED BY <1>1, <1>2, <1>3, <1>4

(* Two XRs at rest that ask for the same Secret order all XRs the same way: *)
(* what each remembers of its own claim is what the other reads of it.     *)
LEMMA SameOrderAtRest ==
    ASSUME AtRest, NEW x \in ControlPlane, NEW y \in ControlPlane,
           Live(x), Live(y), spec[x] = spec[y],
           NEW c \in ControlPlane, NEW d \in ControlPlane, ClaimBefore(x, c, d)
    PROVE  ClaimBefore(y, c, d)
<1>1. /\ seen[x].spec = spec[x] /\ seen[x].claim = claim[x]
      /\ seen[y].spec = spec[y] /\ seen[y].claim = claim[y]
    BY RestingXR
<1>2. \A e \in ControlPlane : Holds(x, e) <=> Holds(y, e)
    BY <1>1 DEF Holds
<1> QED BY <1>2 DEF ClaimBefore

(* At rest, the owner an XR is told of holds the Secret.  An owner that only *)
(* asks for it would itself be in conflict, with an XR ahead of both.      *)
LEMMA OwnerHoldsAtRest ==
    ASSUME TypeOK, AtRest, NEW x \in ControlPlane, Live(x), conflict[x] # None
    PROVE  /\ conflict[x] \in ControlPlane /\ Live(conflict[x])
           /\ claim[conflict[x]] = spec[x]
<1> DEFINE c == conflict[x]
<1>1. seen[x].spec = spec[x] /\ LicenseConflict(x) = c
    BY RestingXR
<1>2. /\ spec[x] # None /\ c \in Ahead(x)
      /\ \A d \in Ahead(x) \ {c} : ClaimBefore(x, c, d)
    BY <1>1, ConflictNamesFirst
<1>3. /\ c \in ControlPlane /\ Live(c)
      /\ spec[x] \in {spec[c], claim[c]} /\ ClaimBefore(x, c, x)
    BY <1>1, <1>2 DEF Ahead, Others
<1>4. claim[c] = spec[x]
    <2> SUFFICES ASSUME claim[c] # spec[x] PROVE FALSE
        OBVIOUS
    <2>1. /\ spec[c] = spec[x] /\ seen[c].spec = spec[x]
          /\ ComposeLicense(c).license = claim[c]
        BY <1>3, RestingXR
    <2> DEFINE d == LicenseConflict(c)
    <2>2. d # None
        BY <2>1 DEF ComposeLicense
    <2>3. d \in Ahead(c)
        BY <1>3, <2>2, ConflictNamesFirst
    <2>4. /\ d \in ControlPlane /\ d # c /\ Live(d)
          /\ spec[x] \in {spec[d], claim[d]} /\ ClaimBefore(c, d, c)
        BY <2>1, <2>3 DEF Ahead, Others
    <2>5. ClaimBefore(x, d, c)
        BY <1>3, <2>1, <2>4, SameOrderAtRest
    <2>6. d # x
        BY <1>3, <2>5, ClaimBeforeAsymmetric
    <2>7. ClaimBefore(x, d, x)
        BY <1>3, <2>4, <2>5, ClaimBeforeTransitive
    <2>8. d \in Ahead(x) \ {c}
        BY <1>1, <2>4, <2>6, <2>7 DEF Ahead, Others
    <2> QED BY <1>2, <1>3, <2>4, <2>5, <2>8, ClaimBeforeAsymmetric
<1> QED BY <1>3, <1>4

(* At rest, an XR without the condition has the Secret it asked for.       *)
LEMMA NoConflictIsInstalled ==
    ASSUME AtRest, NEW x \in ControlPlane, Live(x), conflict[x] = None
    PROVE  installed[x] = spec[x] /\ claim[x] = spec[x] /\ LicenseConflict(x) = None
BY RestingXR DEF ComposeLicense

(* At rest, at most one of the XRs that ask for a Secret has no condition:  *)
(* of any two, the one behind sees the other ahead.                        *)
LEMMA OneWithoutConflict ==
    ASSUME TypeOK, AtRest, NEW s \in Secret,
           NEW x \in Requesters(s), NEW y \in Requesters(s),
           conflict[x] = None, conflict[y] = None
    PROVE  x = y
<1>1. /\ x \in ControlPlane /\ Live(x) /\ spec[x] = s
      /\ y \in ControlPlane /\ Live(y) /\ spec[y] = s /\ s # None
    BY ConstantsAssumption DEF Requesters
<1>2. /\ LicenseConflict(x) = None /\ LicenseConflict(y) = None
      /\ seen[x].spec = s /\ seen[y].spec = s
    BY <1>1, NoConflictIsInstalled, RestingXR
<1>3. Ahead(x) = {} /\ Ahead(y) = {}
    BY <1>1, <1>2, ConflictNamesAhead
<1>4. ASSUME x # y PROVE FALSE
    <2>1. ~ClaimBefore(x, y, x) /\ ~ClaimBefore(y, x, y)
        BY <1>1, <1>2, <1>3, <1>4 DEF Ahead, Others
    <2> QED BY <1>1, <1>4, <2>1, ClaimBeforeTotal, SameOrderAtRest
<1> QED BY <1>4

LEMMA AtMostOne ==
    ASSUME NEW T, \A a, b \in T : a = b
    PROVE  Cardinality(T) <= 1
<1>1. CASE T = {}
    BY <1>1, FS_EmptySet
<1>2. CASE T # {}
    <2>1. PICK a \in T : TRUE
        BY <1>2
    <2>2. T = {a}
        BY <2>1
    <2> QED BY <2>2, FS_Singleton
<1> QED BY <1>1, <1>2

LEMMA RestSettles == TypeOK => RestIsSettled
<1> SUFFICES ASSUME TypeOK, AtRest PROVE Settled
    BY DEF RestIsSettled
<1>1. ASSUME NEW x \in ControlPlane, Live(x)
      PROVE  /\ ~deleting[x] /\ claim[x] = installed[x]
             /\ conflict[x] = None => installed[x] = spec[x]
             /\ conflict[x] # None => Live(conflict[x]) /\ claim[conflict[x]] = spec[x]
    <2>1. ~deleting[x] /\ claim[x] = installed[x]
        BY <1>1, RestingXR
    <2> QED BY <1>1, <2>1, NoConflictIsInstalled, OwnerHoldsAtRest
<1>2. ASSUME NEW s \in Secret
      PROVE  Cardinality({x \in Requesters(s) : conflict[x] = None}) <= 1
    <2> DEFINE T == {x \in Requesters(s) : conflict[x] = None}
    <2>1. \A a, b \in T : a = b
        BY OneWithoutConflict
    <2>2. Cardinality(T) <= 1
        <3> HIDE DEF T
        <3> QED BY <2>1, AtMostOne
    <2> QED BY <2>2
<1>3. ASSUME NEW s \in Secret, Requesters(s) # {}
      PROVE  \E y \in ControlPlane : Live(y) /\ claim[y] = s
    <2>1. PICK x \in ControlPlane : Live(x) /\ spec[x] = s
        BY <1>3 DEF Requesters
    <2>2. CASE conflict[x] = None
        BY <2>1, <2>2, NoConflictIsInstalled
    <2>3. CASE conflict[x] # None
        BY <2>1, <2>3, OwnerHoldsAtRest
    <2> QED BY <2>2, <2>3
<1> QED BY <1>1, <1>2, <1>3 DEF Settled

(* For any number of ControlPlanes, Secrets, edits and faults: when no      *)
(* reconcile would change anything, every Secret asked for is held by one   *)
(* XR, and each XR that waits for it is told which.                        *)
THEOREM RestingLicensesAreSettled == Spec => []RestIsSettled
BY TypeCorrect, RestSettles, PTL

=============================================================================
