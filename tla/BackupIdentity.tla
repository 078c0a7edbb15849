--------------------------- MODULE BackupIdentity ---------------------------
(***************************************************************************)
(* The Google service account of a control plane's backups.  Its name is   *)
(* derived from the id of the ControlPlane, made to fit what GCP accepts,   *)
(* and nothing else says whose it is: two ControlPlanes with one account    *)
(* id share the account, and the one that leaves takes it along.           *)
(***************************************************************************)
EXTENDS Integers, Sequences

CONSTANTS
    ControlPlane,   \* the XRs, all of one GCP project
    Ids,            \* spec.parameters.id: sequences of characters
    Letter, Digit,  \* a-z and 0-9
    Dash,           \* "-"
    G,              \* the letter put before an id that does not start with one
    Lower,          \* str.lower on the characters of ids
    Suffix,         \* "-backup"
    Room,           \* the length an id is cut to (23)
    MinLen, MaxLen, \* what GCP accepts (6 and 30)
    MaxEdits,       \* BOUND on turning backup on and off
    MaxFaults       \* BOUND on failed upgrades of UXP

Legal == Letter \cup Digit \cup {Dash}

ASSUME BackupAssumption ==
    /\ Ids \subseteq Seq(DOMAIN Lower)
    /\ G \in Letter /\ Dash \notin Letter \cup Digit
    /\ Suffix \in Seq(Legal) /\ Room \in Nat \ {0}
    /\ MinLen \in Nat /\ MaxLen \in Nat
    /\ MinLen <= 1 + Len(Suffix) /\ Room + Len(Suffix) = MaxLen
    /\ MaxEdits \in Nat /\ MaxFaults \in Nat

VARIABLES
    id,         \* of each XR: spec.parameters.id
    account,    \* external-name of its backup-identity: derived by every
                \* reconcile anew, and always the same
    enabled,    \* backup.enabled is "yes"
    uxp,        \* the UXP Release is deployed
    identity,   \* the composed backup-identity
    cloud,      \* the account ids that exist in the GCP project
    edits, faults

vars == <<id, account, enabled, uxp, identity, cloud, edits, faults>>

-----------------------------------------------------------------------------
(* backup_sa_account_id                                                    *)

Sanitize(s) == [n \in 1..Len(s) |-> IF Lower[s[n]] \in Legal THEN Lower[s[n]] ELSE Dash]

(* str.strip and str.rstrip of dashes.                                     *)
RStrip(s) ==
    SubSeq(s, 1, CHOOSE n \in 0..Len(s) :
                    /\ \A m \in (n + 1)..Len(s) : s[m] = Dash
                    /\ n = 0 \/ s[n] # Dash)
LStrip(s) ==
    SubSeq(s, CHOOSE n \in 1..(Len(s) + 1) :
                    /\ \A m \in 1..(n - 1) : s[m] = Dash
                    /\ n = Len(s) + 1 \/ s[n] # Dash, Len(s))

LetterFirst(s) == IF s = <<>> \/ s[1] \notin Letter THEN <<G>> \o s ELSE s

Cut(s, n) == SubSeq(s, 1, IF Len(s) < n THEN Len(s) ELSE n)

(* MUTANT of AccountId: the cut forgets one character of the suffix.        *)
AccountId_CutLate(i) ==
    RStrip(Cut(LetterFirst(LStrip(RStrip(Sanitize(i)))), Room + 1)) \o Suffix

(* MUTANT of AccountId: the cut takes a character too many.                 *)
AccountId_CutEarly(i) ==
    RStrip(Cut(LetterFirst(LStrip(RStrip(Sanitize(i)))), Room - 1)) \o Suffix

AccountId(i) ==
    RStrip(Cut(LetterFirst(LStrip(RStrip(Sanitize(i)))), Room)) \o Suffix

-----------------------------------------------------------------------------
Init ==
    /\ id \in [ControlPlane -> Ids]
    /\ account = [x \in ControlPlane |-> AccountId(id[x])]
    /\ enabled \in [ControlPlane -> BOOLEAN]
    /\ uxp = [x \in ControlPlane |-> FALSE]
    /\ identity = [x \in ControlPlane |-> "none"]
    /\ cloud = {}
    /\ edits = 0 /\ faults = 0

(* backup-identity is desired with backup on and UXP deployed.              *)
Wanted(x) == enabled[x] /\ uxp[x]

Compose(x) ==
    /\ Wanted(x) /\ identity[x] = "none"
    /\ identity' = [identity EXCEPT ![x] = "composed"]
    /\ UNCHANGED <<id, account, enabled, uxp, cloud, edits, faults>>

(* MUTANT of Withdraw: the object goes, the account stays.                  *)
Withdraw_Orphans(x) ==
    /\ ~Wanted(x) /\ identity[x] \in {"composed", "ready"}
    /\ identity' = [identity EXCEPT ![x] = "none"]
    /\ UNCHANGED <<id, account, enabled, uxp, cloud, edits, faults>>

(* Crossplane deletes a backup-identity that is no longer desired.          *)
Withdraw(x) ==
    /\ ~Wanted(x) /\ identity[x] \in {"composed", "ready"}
    /\ identity' = [identity EXCEPT ![x] = "deleting"]
    /\ UNCHANGED <<id, account, enabled, uxp, cloud, edits, faults>>

(* MUTANT of CanProvision: an account that vanished is not created again.   *)
CanProvision_Once(x) == identity[x] = "composed"

(* The provider looks at what it made, too, and finds it gone.             *)
CanProvision(x) ==
    \/ identity[x] = "composed"
    \/ identity[x] = "ready" /\ account[x] \notin cloud

(* provider-gcp creates the account, or finds it there and takes it over    *)
(* (its name is the external name), also when it vanished later.            *)
Provision(x) ==
    /\ CanProvision(x)
    /\ identity' = [identity EXCEPT ![x] = "ready"]
    /\ cloud' = cloud \cup {account[x]}
    /\ UNCHANGED <<id, account, enabled, uxp, edits, faults>>

(* It deletes the account of that name, whoever else uses it.               *)
FinishDelete(x) ==
    /\ identity[x] = "deleting"
    /\ identity' = [identity EXCEPT ![x] = "none"]
    /\ cloud' = cloud \ {account[x]}
    /\ UNCHANGED <<id, account, enabled, uxp, edits, faults>>

Toggle(x) ==
    /\ edits < MaxEdits /\ edits' = edits + 1
    /\ enabled' = [enabled EXCEPT ![x] = ~@]
    /\ UNCHANGED <<id, account, uxp, identity, cloud, faults>>

UxpComesUp(x) ==
    /\ ~uxp[x]
    /\ uxp' = [uxp EXCEPT ![x] = TRUE]
    /\ UNCHANGED <<id, account, enabled, identity, cloud, edits, faults>>

(* An upgrade of UXP fails.                                                *)
UxpFails(x) ==
    /\ uxp[x] /\ faults < MaxFaults /\ faults' = faults + 1
    /\ uxp' = [uxp EXCEPT ![x] = FALSE]
    /\ UNCHANGED <<id, account, enabled, identity, cloud, edits>>

Reconcile(x) == Compose(x) \/ Withdraw(x)
Provider(x) == Provision(x) \/ FinishDelete(x)

Next == \E x \in ControlPlane :
            Reconcile(x) \/ Provider(x) \/ Toggle(x) \/ UxpComesUp(x) \/ UxpFails(x)

Spec == Init /\ [][Next]_vars

(* Crossplane and the providers retry for ever, and look again and again at *)
(* what they have made.                                                    *)
Fairness == \A x \in ControlPlane :
    WF_vars(Reconcile(x)) /\ WF_vars(UxpComesUp(x)) /\ WF_vars(Provider(x))

FairSpec == Spec /\ Fairness

-----------------------------------------------------------------------------
(* Properties                                                              *)

(* The type invariant; an account exists only with an XR that answers for   *)
(* it, so none is left behind in the project.                              *)
TypeOK ==
    /\ id \in [ControlPlane -> Ids]
    /\ account = [x \in ControlPlane |-> AccountId(id[x])]
    /\ enabled \in [ControlPlane -> BOOLEAN]
    /\ uxp \in [ControlPlane -> BOOLEAN]
    /\ identity \in [ControlPlane -> {"none", "composed", "ready", "deleting"}]
    /\ \A a \in cloud : \E x \in ControlPlane :
            identity[x] \in {"ready", "deleting"} /\ account[x] = a
    /\ edits \in 0..MaxEdits /\ faults \in 0..MaxFaults

(* Whatever the id, GCP accepts the account id: its length, its characters, *)
(* a letter first and no dash last before the suffix ("GCP requires         *)
(* accountId to be 6-30 chars, lowercase letters/digits/hyphens, starting   *)
(* with a letter", prelude.py).                                            *)
ValidAccount(a) ==
    /\ a \in Seq(Legal) /\ Len(a) \in MinLen..MaxLen
    /\ a[1] \in Letter
    /\ a[Len(a) - Len(Suffix)] # Dash
AccountValid == \A x \in ControlPlane : ValidAccount(account[x])

(* An id that is an account name already, and short enough.                 *)
Clean(i) ==
    /\ i # <<>> /\ Len(i) <= Room
    /\ \A n \in 1..Len(i) : i[n] \in Legal /\ Lower[i[n]] = i[n]
    /\ i[1] \in Letter /\ i[Len(i)] # Dash

(* The account of a control plane is there for as long as its               *)
(* backup-identity is, through toggles, failed upgrades and deletions of    *)
(* every other XR, provided ids are clean and no two are the same.  With    *)
(* other ids it is not: two that agree in their first characters share it.  *)
IdentityKept ==
    \A x \in ControlPlane :
        /\ identity[x] = "ready" /\ Clean(id[x])
        /\ \A y \in ControlPlane \ {x} : Clean(id[y]) /\ id[y] # id[x]
        => account[x] \in cloud

(* The accounts in the project are those of the XRs that want one.          *)
Exact == cloud = {account[x] : x \in {y \in ControlPlane : Wanted(y)}}

(* Every UXP is up, and neither a reconcile nor a provider has work to do.  *)
AtRest ==
    \A x \in ControlPlane :
        /\ uxp[x] /\ ~CanProvision(x)
        /\ Wanted(x) <=> identity[x] # "none"
        /\ identity[x] # "deleting"

(* When nothing is left to do, no account is missing and none is left over, *)
(* for any ids: what sharing XRs took from one another was given back.      *)
RestIsExact == AtRest => Exact

(* Once users and UXP are quiet, the accounts in the project are those of   *)
(* the XRs that want one.  This holds with shared accounts too: one that    *)
(* was deleted under a second XR is created again.                         *)
IdentitiesSettle == <>[]Exact
=============================================================================
