--------------------------- MODULE LicenseRegistry ---------------------------
(***************************************************************************)
(* What the license guard promises, without reconciles, timestamps or      *)
(* Crossplane: a registry of who uses which license.  Every control plane  *)
(* keeps a record of one license it uses.  One that nobody else has on     *)
(* record may be taken; records are written after the fact, so somebody    *)
(* else may use it by then, and that license is contested for good.        *)
(***************************************************************************)
CONSTANTS ControlPlane, Secret, None

VARIABLES
    uses,       \* of each control plane: the licenses it runs on, or is to
    record,     \* of each: the one it is known to use, None if not known
    contested   \* the licenses taken while somebody else used them

vars == <<uses, record, contested>>

Others(x) == ControlPlane \ {x}
Users(s) == {x \in ControlPlane : s \in uses[x]}

(* The type invariant: nobody is on record for what it does not use.       *)
TypeOK ==
    /\ uses \in [ControlPlane -> SUBSET Secret]
    /\ record \in [ControlPlane -> Secret \cup {None}]
    /\ \A x \in ControlPlane : record[x] \in uses[x] \cup {None}
    /\ contested \subseteq Secret

(* Control planes older than the guard use licenses without a record.      *)
Init ==
    /\ uses \in [ControlPlane -> SUBSET Secret]
    /\ record = [x \in ControlPlane |-> None]
    /\ contested = {s \in Secret : \E x, y \in Users(s) : x # y}

(* x starts to use s, which nobody else has on record.  It may let go of    *)
(* others.                                                                 *)
Take(x, s) ==
    /\ \A y \in Others(x) : record[y] # s
    /\ \E kept \in SUBSET uses[x] : uses' = [uses EXCEPT ![x] = kept \cup {s}]
    /\ contested' = contested \cup {t \in {s} : Users(t) \cap Others(x) # {}}
    /\ record[x] \in uses'[x] \cup {None} /\ UNCHANGED record

(* x lets go of licenses, and changes its record to another it uses.       *)
Settle(x) ==
    /\ \E kept \in SUBSET uses[x], r \in Secret \cup {None} :
        /\ r \in kept \cup {None}
        /\ uses' = [uses EXCEPT ![x] = kept]
        /\ record' = [record EXCEPT ![x] = r]
    /\ UNCHANGED contested

Next == \E x \in ControlPlane : Settle(x) \/ \E s \in Secret : Take(x, s)

Spec == Init /\ [][Next]_vars

(* A license has one user, unless it was contested: what customers are told *)
(* of the guard ("Each ControlPlane must use a unique license secret",      *)
(* status.py), and the whole of what a registry without a lock can give.    *)
OneUser == \A s \in Secret \ contested : \A x, y \in Users(s) : x = y
=============================================================================
