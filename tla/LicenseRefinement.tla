-------------------------- MODULE LicenseRefinement --------------------------
(* The license guard implements the registry: a live XR uses what it is     *)
(* Holding, its record is the claim in its status, and a license is         *)
(* contested once it was granted in a race.  An XR that is being deleted    *)
(* counts no more (check_license_conflict skips it).                       *)
EXTENDS LicenseGuard

UsedBy(x) == IF Live(x) THEN {s \in Secret : Holding(x, s)} ELSE {}
RecordOf(x) == IF Live(x) THEN claim[x] ELSE None

Registry == INSTANCE LicenseRegistry WITH
    uses <- [x \in ControlPlane |-> UsedBy(x)],
    record <- [x \in ControlPlane |-> RecordOf(x)],
    contested <- raced

(* Every step of a reconcile, of a user or of a provider is a step of the   *)
(* registry, or changes nothing there.                                     *)
ImplementsRegistry == Registry!Spec
=============================================================================
