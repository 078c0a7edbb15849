---------------------------- MODULE LicenseGuard ----------------------------
(***************************************************************************)
(* The license guard of the ControlPlane composition function.  Every      *)
(* ControlPlane XR is reconciled on its own, by a pure function that sees  *)
(* the XR, its composed resources, and a list of every other ControlPlane. *)
(* The function decides which license Secret the XR's new control plane    *)
(* gets; Crossplane then writes the decision back in two separate writes,  *)
(* the composed resources and the XR's status, and any other XR may be     *)
(* reconciled between them.                                                *)
(***************************************************************************)
EXTENDS Integers, FiniteSets

CONSTANTS
    ControlPlane,   \* the XRs, numbered in the order of (namespace, name)
    Secret,         \* the license Secrets of the management cluster
    None,           \* no Secret, no ControlPlane
    InitialTimes,   \* creation times of the XRs that exist at the start
    MaxTime,        \* BOUND on the clock, in units of the timestamp
    MaxEdits,       \* BOUND on what users do: create, repoint, delete, restore
    MaxFaults       \* BOUND on reconciles that die half-way

ASSUME ConstantsAssumption ==
    /\ ControlPlane \subseteq Nat
    /\ None \notin Secret /\ None \notin ControlPlane
    /\ MaxTime \in Nat /\ InitialTimes \subseteq 0..MaxTime
    /\ MaxEdits \in Nat /\ MaxFaults \in Nat

VARIABLES
    phase,      \* of each XR: absent, live, or terminating
    spec,       \* spec.parameters.license, as the Secret it names
    created,    \* metadata.creationTimestamp
    claim,      \* status.controlplane.license: the Secret it says it holds
    conflict,   \* owner named by the LicenseConflict condition, None if not set
    installed,  \* Secret the composed uxp-license-secret copies from
    deleting,   \* uxp-license-secret is being deleted by its provider
    pc,         \* how far the XR's running reconcile has come
    seen,       \* what that reconcile read of the XR and its own resources
    plan,       \* what the function returned to it
    now,        \* the clock of the API server, at its last timestamp
    edits,      \* user actions so far
    faults,     \* reconciles lost so far
    raced       \* HISTORY: Secrets granted while another XR had them off the record

vars == <<phase, spec, created, claim, conflict, installed, deleting,
          pc, seen, plan, now, edits, faults, raced>>

xrVars == <<phase, spec, created>>
statusVars == <<claim, conflict>>
composedVars == <<installed, deleting>>
reconcileVars == <<pc, seen, plan>>

SecretOrNone == Secret \cup {None}
OwnerOrNone == ControlPlane \cup {None}
Views == [spec : SecretOrNone, claim : SecretOrNone, installed : SecretOrNone]
Plans == [license : SecretOrNone, conflict : OwnerOrNone]
NoView == [spec |-> None, claim |-> None, installed |-> None]
NoPlan == [license |-> None, conflict |-> None]

(* The type invariant. *)
TypeOK ==
    /\ phase \in [ControlPlane -> {"absent", "live", "terminating"}]
    /\ spec \in [ControlPlane -> SecretOrNone]
    /\ created \in [ControlPlane -> 0..MaxTime]
    /\ claim \in [ControlPlane -> SecretOrNone]
    /\ conflict \in [ControlPlane -> OwnerOrNone]
    /\ installed \in [ControlPlane -> SecretOrNone]
    /\ deleting \in [ControlPlane -> BOOLEAN]
    /\ pc \in [ControlPlane -> {"idle", "observed", "composed", "applied", "recorded"}]
    /\ seen \in [ControlPlane -> Views]
    /\ plan \in [ControlPlane -> Plans]
    /\ now \in 0..MaxTime
    /\ edits \in 0..MaxEdits
    /\ faults \in 0..MaxFaults
    /\ raced \subseteq Secret

Live(x) == phase[x] = "live"
Others(x) == ControlPlane \ {x}

(* XR x has s, or is about to: nothing but a later decision of x itself     *)
(* stops its new control plane from running on s.                          *)
Holding(x, s) ==
    \/ claim[x] = s
    \/ installed[x] = s
    \/ pc[x] = "observed" /\ s \in {seen[x].claim, seen[x].installed}
    \/ pc[x] \in {"composed", "applied", "recorded"} /\ plan[x].license = s

(* ... without its status saying so: the other XRs cannot know.            *)
OffTheRecord(x, s) == Holding(x, s) /\ claim[x] # s

-----------------------------------------------------------------------------
(* The start: XRs left by a release that had no guard, with or without     *)
(* their license installed and with no claim in their status.              *)
Init ==
    /\ phase \in [ControlPlane -> {"absent", "live"}]
    /\ spec \in [ControlPlane -> SecretOrNone]
    /\ installed \in [ControlPlane -> SecretOrNone]
    /\ created \in [ControlPlane -> InitialTimes \cup {0}]
    /\ \A x \in ControlPlane :
        /\ installed[x] \in {None, spec[x]}
        /\ ~Live(x) => spec[x] = None /\ created[x] = 0
        /\ Live(x) => created[x] \in InitialTimes
    /\ claim = [x \in ControlPlane |-> None]
    /\ conflict = [x \in ControlPlane |-> None]
    /\ deleting = [x \in ControlPlane |-> FALSE]
    /\ pc = [x \in ControlPlane |-> "idle"]
    /\ seen = [x \in ControlPlane |-> NoView]
    /\ plan = [x \in ControlPlane |-> NoPlan]
    /\ now = MaxTime \div 2
    /\ edits = 0 /\ faults = 0
    /\ raced = {s \in Secret : \E x, y \in ControlPlane :
                                  x # y /\ installed[x] = s /\ installed[y] = s}

-----------------------------------------------------------------------------
(* check_license_conflict                                                  *)

(* holds: c's status claims the Secret x asks for.  The XR itself is the    *)
(* one the reconcile observed, the others are as they are now.             *)
Holds(x, c) == seen[x].spec = (IF c = x THEN seen[x].claim ELSE claim[c])

(* MUTANT of ClaimBefore: age alone decides, holding does not count.        *)
ClaimBefore_AgeOnly(x, c, d) ==
    created[c] < created[d] \/ (created[c] = created[d] /\ c < d)

(* MUTANT of ClaimBefore: XRs created in the same second are left unordered. *)
ClaimBefore_NoTieBreak(x, c, d) ==
    \/ Holds(x, c) /\ ~Holds(x, d)
    \/ (Holds(x, c) <=> Holds(x, d)) /\ created[c] < created[d]

(* claim_order: holders first, then the oldest, (namespace, name) breaking  *)
(* ties.  Every stored object has a creationTimestamp.                     *)
ClaimBefore(x, c, d) ==
    \/ Holds(x, c) /\ ~Holds(x, d)
    \/ /\ Holds(x, c) <=> Holds(x, d)
       /\ created[c] < created[d] \/ (created[c] = created[d] /\ c < d)

(* MUTANT of Ahead: an XR that holds the Secret and now asks for another is  *)
(* overlooked.                                                             *)
Ahead_RequestersOnly(x) ==
    {c \in Others(x) : Live(c) /\ seen[x].spec = spec[c] /\ ClaimBefore(x, c, x)}

(* The live XRs that ask for x's Secret, or hold it, ahead of x.           *)
Ahead(x) ==
    {c \in Others(x) : /\ Live(c)
                       /\ seen[x].spec \in {spec[c], claim[c]}
                       /\ ClaimBefore(x, c, x)}

LicenseConflict(x) ==
    IF seen[x].spec = None \/ Ahead(x) = {}
    THEN None
    ELSE CHOOSE c \in Ahead(x) : \A d \in Ahead(x) \ {c} : ClaimBefore(x, c, d)

(* MUTANT of ComposeLicense: whoever has a license installed may swap it for *)
(* the one asked for, conflict or not.                                     *)
ComposeLicense_Swaps(x) ==
    [license  |-> IF LicenseConflict(x) = None \/ seen[x].installed # None
                  THEN seen[x].spec ELSE None,
     conflict |-> LicenseConflict(x)]

(* MUTANT of ComposeLicense: the owner's name ends up where a Secret goes.   *)
ComposeLicense_OwnerAsSecret(x) ==
    [license  |-> IF LicenseConflict(x) = None THEN seen[x].spec ELSE LicenseConflict(x),
     conflict |-> LicenseConflict(x)]

(* The license part of compose: an XR in conflict keeps what it already     *)
(* has installed, from the Secret it was installed from; only a new claim   *)
(* is withheld.                                                            *)
ComposeLicense(x) ==
    [license  |-> IF LicenseConflict(x) = None THEN seen[x].spec ELSE seen[x].installed,
     conflict |-> LicenseConflict(x)]

-----------------------------------------------------------------------------
(* One reconcile of XR x                                                   *)

Finish(x) ==
    /\ seen' = [seen EXCEPT ![x] = NoView]
    /\ plan' = [plan EXCEPT ![x] = NoPlan]

(* Crossplane reads the XR and its composed resources.                     *)
Observe(x) ==
    /\ Live(x) /\ pc[x] = "idle"
    /\ pc' = [pc EXCEPT ![x] = "observed"]
    /\ seen' = [seen EXCEPT ![x] = [spec |-> spec[x], claim |-> claim[x],
                                    installed |-> installed[x]]]
    /\ UNCHANGED <<xrVars, statusVars, composedVars, plan, now, edits, faults, raced>>

(* It fetches every ControlPlane, and runs the function.                   *)
RunFunction(x) ==
    /\ pc[x] = "observed"
    /\ pc' = [pc EXCEPT ![x] = "composed"]
    /\ plan' = [plan EXCEPT ![x] = ComposeLicense(x)]
    /\ raced' = raced \cup {s \in Secret \cap {seen[x].spec} :
                                /\ Live(x) /\ LicenseConflict(x) = None
                                /\ \E y \in Others(x) : Live(y) /\ OffTheRecord(y, s)}
    /\ UNCHANGED <<xrVars, statusVars, composedVars, seen, now, edits, faults>>

(* It applies the composed resources: uxp-license-secret with the Secret to *)
(* copy, or, when it is observed and no longer desired, its deletion.  The  *)
(* provider finishes a deletion in its own time, and writing to an object   *)
(* being deleted does not bring it back.                                   *)
Apply(x) ==
    /\ pc[x] \in {"composed", "recorded"}
    /\ IF plan[x].license # None
       THEN /\ installed' = [installed EXCEPT ![x] = plan[x].license]
            /\ UNCHANGED deleting
       ELSE /\ deleting' = [deleting EXCEPT ![x] = installed[x] # None]
            /\ UNCHANGED installed
    /\ IF pc[x] = "composed"
       THEN pc' = [pc EXCEPT ![x] = "applied"] /\ UNCHANGED <<seen, plan>>
       ELSE pc' = [pc EXCEPT ![x] = "idle"] /\ Finish(x)
    /\ UNCHANGED <<xrVars, statusVars, now, edits, faults, raced>>

(* MUTANT of Record: the Secret asked for is claimed, not the one composed.  *)
Record_ClaimsRequested(x) ==
    /\ pc[x] \in {"composed", "applied"}
    /\ claim' = [claim EXCEPT ![x] = seen[x].spec]
    /\ conflict' = [conflict EXCEPT ![x] = plan[x].conflict]
    /\ IF pc[x] = "composed"
       THEN pc' = [pc EXCEPT ![x] = "recorded"] /\ UNCHANGED <<seen, plan>>
       ELSE pc' = [pc EXCEPT ![x] = "idle"] /\ Finish(x)
    /\ UNCHANGED <<xrVars, composedVars, now, edits, faults, raced>>

(* It writes the status: the composed license as the XR's claim, and the    *)
(* LicenseConflict condition.  Fields the function left out are removed.    *)
Record(x) ==
    /\ pc[x] \in {"composed", "applied"}
    /\ claim' = [claim EXCEPT ![x] = plan[x].license]
    /\ conflict' = [conflict EXCEPT ![x] = plan[x].conflict]
    /\ IF pc[x] = "composed"
       THEN pc' = [pc EXCEPT ![x] = "recorded"] /\ UNCHANGED <<seen, plan>>
       ELSE pc' = [pc EXCEPT ![x] = "idle"] /\ Finish(x)
    /\ UNCHANGED <<xrVars, composedVars, now, edits, faults, raced>>

(* The reconcile dies: an error, a timeout, a restart of Crossplane.       *)
Abort(x) ==
    /\ pc[x] # "idle" /\ faults < MaxFaults
    /\ faults' = faults + 1
    /\ pc' = [pc EXCEPT ![x] = "idle"]
    /\ Finish(x)
    /\ UNCHANGED <<xrVars, statusVars, composedVars, now, edits, raced>>

(* provider-kubernetes finishes the deletion of uxp-license-secret.        *)
Uninstall(x) ==
    /\ deleting[x]
    /\ installed' = [installed EXCEPT ![x] = None]
    /\ deleting' = [deleting EXCEPT ![x] = FALSE]
    /\ UNCHANGED <<xrVars, statusVars, reconcileVars, now, edits, faults, raced>>

-----------------------------------------------------------------------------
(* What users and the API server do to XR x                                *)

Edit == edits < MaxEdits /\ edits' = edits + 1

(* The API server stamps x with its clock, which only matters when it does:  *)
(* all the time since the last timestamp passes in this step.              *)
Stamp(x) ==
    \E t \in now..MaxTime : now' = t /\ created' = [created EXCEPT ![x] = t]

Create(x) ==
    /\ phase[x] = "absent" /\ Edit
    /\ phase' = [phase EXCEPT ![x] = "live"]
    /\ \E s \in SecretOrNone : spec' = [spec EXCEPT ![x] = s]
    /\ Stamp(x)
    /\ UNCHANGED <<statusVars, composedVars, reconcileVars, faults, raced>>

(* The user changes spec.parameters.license, also under a running reconcile. *)
Repoint(x) ==
    /\ Live(x) /\ Edit
    /\ \E s \in SecretOrNone \ {spec[x]} : spec' = [spec EXCEPT ![x] = s]
    /\ UNCHANGED <<phase, created, statusVars, composedVars, reconcileVars,
                   now, faults, raced>>

Delete(x) ==
    /\ Live(x) /\ Edit
    /\ phase' = [phase EXCEPT ![x] = "terminating"]
    /\ UNCHANGED <<spec, created, statusVars, composedVars, reconcileVars,
                   now, faults, raced>>

(* The teardown of a terminating XR ends, with its composed resources.     *)
Gone(x) ==
    /\ phase[x] = "terminating" /\ pc[x] = "idle"
    /\ phase' = [phase EXCEPT ![x] = "absent"]
    /\ spec' = [spec EXCEPT ![x] = None]
    /\ created' = [created EXCEPT ![x] = 0]
    /\ claim' = [claim EXCEPT ![x] = None]
    /\ conflict' = [conflict EXCEPT ![x] = None]
    /\ installed' = [installed EXCEPT ![x] = None]
    /\ deleting' = [deleting EXCEPT ![x] = FALSE]
    /\ UNCHANGED <<reconcileVars, now, edits, faults, raced>>

(* A restore recreates the XR without its status; its composed resources    *)
(* are restored with it.                                                   *)
RestoreWithoutStatus(x) ==
    /\ Live(x) /\ pc[x] = "idle" /\ Edit
    /\ Stamp(x)
    /\ claim' = [claim EXCEPT ![x] = None]
    /\ conflict' = [conflict EXCEPT ![x] = None]
    /\ UNCHANGED <<phase, spec, composedVars, reconcileVars, faults, raced>>

-----------------------------------------------------------------------------
Reconcile(x) == Observe(x) \/ RunFunction(x) \/ Apply(x) \/ Record(x)
Environment(x) == Create(x) \/ Repoint(x) \/ Delete(x) \/ RestoreWithoutStatus(x)

Next ==
    \E x \in ControlPlane :
        Reconcile(x) \/ Abort(x) \/ Uninstall(x) \/ Gone(x) \/ Environment(x)

Spec == Init /\ [][Next]_vars

(* Crossplane reconciles every live XR again and again (watches and its poll *)
(* interval), and providers finish what they started.                      *)
Fairness ==
    \A x \in ControlPlane :
        WF_vars(Reconcile(x)) /\ WF_vars(Uninstall(x)) /\ WF_vars(Gone(x))

FairSpec == Spec /\ Fairness

-----------------------------------------------------------------------------
(* Properties                                                              *)

(* Two live ControlPlanes never have the same license Secret, unless one of *)
(* them was given it while another had it in hand with nothing in its       *)
(* status: created or re-pointed at the same moment, restored without       *)
(* status, upgraded from a release without the guard, or still uninstalling *)
(* what it gave up (check_license_conflict, README "UXP license").          *)
NoUnrecordedSharing ==
    \A x, y \in ControlPlane : \A s \in Secret :
        (x # y /\ Live(x) /\ Live(y) /\ Holding(x, s) /\ Holding(y, s)) => s \in raced

(* The function never gives an XR a Secret it did not hold while another    *)
(* live XR's status claims it, whatever the two timestamps say: "a reset    *)
(* creationTimestamp never hands a held license to a second XR".           *)
NeverHandsOverHeldStep ==
    \A x \in ControlPlane :
        (pc[x] = "observed" /\ pc'[x] = "composed") =>
            \A s \in Secret :
                (plan'[x].license = s /\ s \notin {seen[x].claim, seen[x].installed}) =>
                    \A y \in Others(x) : Live(y) => claim[y] # s
NeverHandsOverHeld == [][NeverHandsOverHeldStep]_vars

(* The guard never strips a live license.  Its deletion starts only when    *)
(* the XR was read to ask for none; it is replaced only by the one the XR   *)
(* was read to ask for, in a reconcile that found no conflict; and it goes  *)
(* only with such a deletion, which nothing stops, not even asking for it   *)
(* again, or with the whole XR (fn.py "keep a license already installed,   *)
(* from the Secret it was installed from; only a new claim is withheld").  *)
LicenseKeptStep ==
    \A x \in ControlPlane :
        /\ (deleting'[x] /\ ~deleting[x]) => seen[x].spec = None
        /\ (installed[x] # None /\ installed'[x] \notin {None, installed[x]}) =>
              installed'[x] = seen[x].spec /\ plan[x].conflict = None
        /\ (installed[x] # None /\ installed'[x] = None) =>
              deleting[x] \/ phase[x] = "terminating"
LicenseKept == [][LicenseKeptStep]_vars

(* What every reconcile ends with when users and faults are quiet: what an  *)
(* XR claims is what it has installed; the condition names the XR that      *)
(* really is ahead; without a condition it has what it asked for; one XR,   *)
(* and no more, of those asking for a Secret has no condition ... or the    *)
(* Secret is held by an XR that waits for another.                         *)
Requesters(s) == {x \in ControlPlane : Live(x) /\ spec[x] = s}
Settled ==
    /\ \A x \in ControlPlane :
        Live(x) =>
            /\ ~deleting[x] /\ claim[x] = installed[x]
            /\ conflict[x] = None => installed[x] = spec[x]
            /\ conflict[x] # None => Live(conflict[x]) /\ claim[conflict[x]] = spec[x]
    /\ \A s \in Secret :
        /\ Cardinality({x \in Requesters(s) : conflict[x] = None}) <= 1
        /\ Requesters(s) # {} => \E y \in ControlPlane : Live(y) /\ claim[y] = s

(* Nothing is left to do: every live XR has just read its state, running    *)
(* the function on it would decide what is already there, and no provider  *)
(* has a deletion to finish.                                               *)
AtRest ==
    \A x \in ControlPlane :
        Live(x) =>
            /\ pc[x] = "observed" /\ ~deleting[x]
            /\ seen[x] = [spec |-> spec[x], claim |-> claim[x], installed |-> installed[x]]
            /\ claim[x] = installed[x]
            /\ ComposeLicense(x) = [license |-> claim[x], conflict |-> conflict[x]]

(* The guard cannot come to rest in a wrong answer, through decisions that  *)
(* each are right for the XR that made them: when no reconcile would change *)
(* anything, one XR has each Secret asked for, and every other XR that asks *)
(* for it names the one that holds it.                                     *)
RestIsSettled == AtRest => Settled

(* Once nobody edits and nothing fails any more, the licenses settle: no    *)
(* Secret that is asked for stays unused, and no two XRs trade it back and  *)
(* forth.                                                                  *)
Settles == <>[]Settled
=============================================================================
