----------------------- MODULE LicenseRefinementProofs -----------------------
(* Proof that the license guard implements the registry: initial states map *)
(* to initial states, and steps to steps of the registry or to stutters.   *)
EXTENDS LicenseRefinement, LicenseGuardProofs

(* What a step may do, in the registry's terms, to the one XR it is about.   *)
OnlyAbout(x) ==
    \A y \in ControlPlane \ {x} : UsedBy(y)' = UsedBy(y) /\ RecordOf(y)' = RecordOf(y)

LEMMA RecordIsUsed ==
    ASSUME TypeOK, NEW x \in ControlPlane
    PROVE  RecordOf(x) \in UsedBy(x) \cup {None} /\ UsedBy(x) \subseteq Secret
BY DEF TypeOK, SecretOrNone, RecordOf, UsedBy, Holding

(* Letting go, and changing the record, is Settle.                         *)
LEMMA SettleIsAllowed ==
    ASSUME TypeOK, TypeOK', NEW x \in ControlPlane, OnlyAbout(x), raced' = raced,
           UsedBy(x)' \subseteq UsedBy(x)
    PROVE  Registry!Settle(x)
<1> DEFINE usesNow == [y \in ControlPlane |-> UsedBy(y)]
           recordNow == [y \in ControlPlane |-> RecordOf(y)]
<1>1. /\ usesNow' = [usesNow EXCEPT ![x] = UsedBy(x)']
      /\ recordNow' = [recordNow EXCEPT ![x] = RecordOf(x)']
    BY DEF OnlyAbout
<1>2. /\ RecordOf(x)' \in UsedBy(x)' \cup {None} /\ UsedBy(x)' \subseteq Secret
    BY DEF TypeOK, SecretOrNone, RecordOf, UsedBy, Holding
<1>3. UsedBy(x)' \in SUBSET usesNow[x] /\ RecordOf(x)' \in Secret \cup {None}
    BY <1>2
<1> QED BY <1>1, <1>2, <1>3 DEF Registry!Settle

-----------------------------------------------------------------------------
LEMMA InitRefines == Init => Registry!Init
<1> SUFFICES ASSUME Init PROVE Registry!Init
    OBVIOUS
<1>1. TypeOK
    BY TypeOKInit
<1>2. \A x \in ControlPlane : RecordOf(x) = None /\ UsedBy(x) \in SUBSET Secret
    BY <1>1, RecordIsUsed DEF Init, RecordOf
<1>3. \A x \in ControlPlane, s \in Secret : s \in UsedBy(x) <=> installed[x] = s
    BY ConstantsAssumption DEF Init, UsedBy, Holding, Live
<1>4. \A s \in Secret : Registry!Users(s) = {x \in ControlPlane : installed[x] = s}
    BY <1>3 DEF Registry!Users
<1>5. raced = {s \in Secret : \E x, y \in Registry!Users(s) : x # y}
    BY <1>4 DEF Init
<1> QED BY <1>2, <1>5 DEF Registry!Init

(* The function's decision takes one license that no live XR has on record, *)
(* or takes nothing.                                                       *)
LEMMA RunFunctionRefines ==
    ASSUME SharingInv, SharingInv', NEW x \in ControlPlane, RunFunction(x)
    PROVE  Registry!Next
<1> USE DEF SharingInv
<1>1. /\ UNCHANGED <<phase, claim, installed, seen>> /\ pc[x] = "observed"
      /\ pc' = [pc EXCEPT ![x] = "composed"]
      /\ plan' = [plan EXCEPT ![x] = ComposeLicense(x)]
    BY DEF RunFunction, xrVars, statusVars, composedVars
<1>2. OnlyAbout(x) /\ RecordOf(x)' = RecordOf(x)
    BY <1>1 DEF OnlyAbout, UsedBy, RecordOf, Holding, Live, TypeOK
<1>3. \A s \in Secret : s \in UsedBy(x)' =>
            s \in UsedBy(x) \/ (Live(x) /\ ComposeLicense(x).license = s)
    BY <1>1 DEF UsedBy, Holding, Live, TypeOK
<1>4. CASE UsedBy(x)' \subseteq UsedBy(x)
    <2>1. raced' = raced
        <3>1. SUFFICES ASSUME NEW s \in Secret, s = seen[x].spec, Live(x),
                              LicenseConflict(x) = None,
                              NEW y \in Others(x), Live(y), OffTheRecord(y, s)
                       PROVE  s \in raced
            BY DEF RunFunction
        <3>2. ComposeLicense(x).license = s
            BY <3>1 DEF ComposeLicense
        <3>3. s \in UsedBy(x)'
            BY <1>1, <3>1, <3>2 DEF UsedBy, Holding, Live, TypeOK
        <3>4. Holding(x, s) /\ Holding(y, s)
            BY <1>4, <3>1, <3>3 DEF UsedBy, OffTheRecord
        <3> QED BY <3>1, <3>4 DEF NoUnrecordedSharing, Others
    <2>2. Registry!Settle(x)
        BY <1>2, <1>4, <2>1, SettleIsAllowed
    <2> QED BY <2>2 DEF Registry!Next
<1>5. CASE ~(UsedBy(x)' \subseteq UsedBy(x))
    <2>1. PICK s \in Secret : s \in UsedBy(x)' /\ s \notin UsedBy(x)
        BY <1>5 DEF UsedBy
    <2>2. /\ Live(x) /\ ComposeLicense(x).license = s
          /\ s \notin {seen[x].claim, seen[x].installed}
        BY <1>1, <1>3, <2>1 DEF UsedBy, Holding
    <2>3. LicenseConflict(x) = None /\ seen[x].spec = s
        BY <2>2 DEF ComposeLicense
    <2>4. \A y \in Others(x) : Live(y) => claim[y] # s
        BY <1>1, <2>2, GrantedMeansUnclaimed DEF Others
    <2>5. \A y \in Others(x) : RecordOf(y) # s
        BY <2>4, ConstantsAssumption DEF RecordOf
    <2>6. UsedBy(x)' \subseteq UsedBy(x) \cup {s}
        BY <1>3, <2>2 DEF UsedBy
    <2>7. \A y \in Others(x) : s \in UsedBy(y) <=> Live(y) /\ OffTheRecord(y, s)
        BY <2>4 DEF UsedBy, OffTheRecord
    <2>8. raced' = raced \cup {t \in {s} : \E y \in Others(x) : t \in UsedBy(y)}
        BY <2>2, <2>3, <2>7 DEF RunFunction
    <2> DEFINE usesNow == [y \in ControlPlane |-> UsedBy(y)]
    <2>9. /\ usesNow' = [usesNow EXCEPT ![x] = (UsedBy(x)' \ {s}) \cup {s}]
          /\ UsedBy(x)' \ {s} \in SUBSET usesNow[x]
        <3>1. (UsedBy(x)' \ {s}) \cup {s} = UsedBy(x)'
            BY <2>1
        <3>2. usesNow' = [usesNow EXCEPT ![x] = UsedBy(x)']
            BY <1>2 DEF OnlyAbout
        <3>3. UsedBy(x)' \ {s} \subseteq UsedBy(x)
            BY <2>6
        <3> HIDE DEF usesNow
        <3>4. usesNow[x] = UsedBy(x)
            BY DEF usesNow
        <3> QED BY <3>1, <3>2, <3>3, <3>4
    <2>10. RecordOf(x) \in UsedBy(x)' \cup {None}
        <3>1. RecordOf(x)' \in UsedBy(x)' \cup {None}
            BY DEF TypeOK, SecretOrNone, RecordOf, UsedBy, Holding
        <3> QED BY <1>2, <3>1
    <2>11. [y \in ControlPlane |-> RecordOf(y)]' = [y \in ControlPlane |-> RecordOf(y)]
        BY <1>2 DEF OnlyAbout
    <2>12. Registry!Take(x, s)
        BY <2>5, <2>8, <2>9, <2>10, <2>11
           DEF Registry!Take, Registry!Users, Registry!Others, Others
    <2> QED BY <2>12 DEF Registry!Next
<1> QED BY <1>4, <1>5

(* Every other step of an XR lets go, or writes the record, or is a stutter. *)
LEMMA OtherStepsRefine ==
    ASSUME SharingInv, SharingInv', NEW x \in ControlPlane,
           \/ Observe(x) \/ Apply(x) \/ Record(x) \/ Abort(x) \/ Uninstall(x)
           \/ Gone(x) \/ Environment(x)
    PROVE  Registry!Settle(x)
<1> USE DEF SharingInv
<1>1. raced' = raced
    BY DEF Observe, Apply, Record, Abort, Uninstall, Gone, Environment, Create, Repoint,
           Delete, RestoreWithoutStatus
<1>2. OnlyAbout(x)
    <2> SUFFICES ASSUME NEW y \in ControlPlane \ {x}
                 PROVE  /\ phase'[y] = phase[y] /\ claim'[y] = claim[y]
                        /\ installed'[y] = installed[y] /\ pc'[y] = pc[y]
                        /\ seen'[y] = seen[y] /\ plan'[y] = plan[y]
        BY DEF OnlyAbout, UsedBy, RecordOf, Holding, Live
    <2> USE DEF TypeOK, xrVars, statusVars, composedVars, reconcileVars, Finish
    <2>1. CASE Observe(x) \/ Abort(x) \/ Uninstall(x) \/ Gone(x)
        BY <2>1 DEF Observe, Abort, Uninstall, Gone
    <2>2. CASE Apply(x) \/ Record(x)
        BY <2>2 DEF Apply, Record
    <2>3. CASE Environment(x)
        BY <2>3 DEF Environment, Create, Repoint, Delete, RestoreWithoutStatus
    <2> QED BY <2>1, <2>2, <2>3
<1>3. UsedBy(x)' \subseteq UsedBy(x)
    <2> SUFFICES ASSUME NEW s \in Secret, Live(x)', Holding(x, s)'
                 PROVE  Live(x) /\ Holding(x, s)
        BY DEF UsedBy
    <2>1. CASE Create(x)
        <3>1. ~Holding(x, s)'
            BY <2>1, ConstantsAssumption
               DEF AbsentIsClean, Create, Holding, statusVars, composedVars, reconcileVars
        <3> QED BY <3>1
    <2>2. ~RunFunction(x)
        BY DEF RunFunction, Observe, Apply, Record, Abort, Uninstall, Gone, Environment,
               Create, Repoint, Delete, RestoreWithoutStatus, TypeOK, reconcileVars
    <2>3. [Next]_vars
        BY DEF Next, Reconcile
    <2> QED BY <2>1, <2>2, <2>3, HoldingGrows
<1> QED BY <1>1, <1>2, <1>3, SettleIsAllowed

LEMMA StepRefines ==
    ASSUME SharingInv, SharingInv', [Next]_vars
    PROVE  [Registry!Next]_(Registry!vars)
<1>1. ASSUME NEW x \in ControlPlane, RunFunction(x) PROVE Registry!Next
    BY <1>1, RunFunctionRefines
<1>2. ASSUME NEW x \in ControlPlane,
             \/ Observe(x) \/ Apply(x) \/ Record(x) \/ Abort(x) \/ Uninstall(x)
             \/ Gone(x) \/ Environment(x)
      PROVE  Registry!Next
    BY <1>2, OtherStepsRefine DEF Registry!Next
<1>3. CASE UNCHANGED vars
    BY <1>3 DEF vars, xrVars, statusVars, composedVars, reconcileVars,
                Registry!vars, UsedBy, RecordOf, Holding, Live
<1> QED BY <1>1, <1>2, <1>3 DEF Next, Reconcile

(* The license guard, with all its reconciles, races, crashes and restores,  *)
(* implements the registry.                                                *)
THEOREM GuardImplementsRegistry == Spec => ImplementsRegistry
<1>1. Init => SharingInv
    BY SharingInvInit
<1>2. SharingInv /\ [Next]_vars => SharingInv'
    BY SharingInvStep
<1>3. SharingInv /\ SharingInv' /\ [Next]_vars => [Registry!Next]_(Registry!vars)
    BY StepRefines
<1> QED BY <1>1, <1>2, <1>3, InitRefines, PTL DEF Spec, ImplementsRegistry, Registry!Spec
=============================================================================
