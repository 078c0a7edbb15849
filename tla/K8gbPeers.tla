------------------------------ MODULE K8gbPeers ------------------------------
(***************************************************************************)
(* How k8gb instances learn of each other.  Every control plane with k8gb  *)
(* enabled runs a k8gb whose Helm values hold its own geo tag and the tags *)
(* of the others on its DNS zone, and publishes in its status the name     *)
(* server the parent zone is to delegate to.  Nobody writes the list down: *)
(* each reconcile derives it again from the ControlPlanes it fetched.      *)
(*                                                                         *)
(* Tags, ids, locations and DNS names are sequences of words: a tag or an   *)
(* id is its words between dashes, a DNS name its labels between dots.     *)
(***************************************************************************)
EXTENDS Integers, SequencesExt

CONSTANTS
    ControlPlane,   \* the XRs, of all namespaces
    Word,           \* the words tags, ids and DNS names are made of
    Id,             \* spec.parameters.id of each XR
    Location,       \* spec.parameters.location of each XR
    Offer,          \* of each XR: the k8gb settings its users choose from
    Off,            \* k8gb.enabled is "no"
    None,           \* no Release, no name, nothing read, nothing planned
    MaxEdits,       \* BOUND on what users do: create, change, delete
    MaxFaults       \* BOUND on reconciles that die half-way

Settings == UNION {Offer[x] : x \in ControlPlane}

Words == Seq(Word)

(* A setting is [zone, parent, tag]; an omitted clusterGeoTag is <<>>.      *)
ASSUME PeersAssumption ==
    /\ MaxEdits \in Nat /\ MaxFaults \in Nat
    /\ Off \notin Settings /\ None \notin Settings /\ None # Off
    /\ {"gcp", "gslb", "ns"} \subseteq Word
    /\ Id \in [ControlPlane -> Words] /\ Location \in [ControlPlane -> Words]
    /\ Offer \in [ControlPlane -> SUBSET [zone : Words, parent : Words, tag : Words]]

VARIABLES
    phase,      \* of each XR: absent, live, or terminating
    k8gb,       \* spec.parameters.k8gb: Off or a setting
    address,    \* the composed Address: none, asked for, or reserved
    release,    \* the values of the k8gb Release, None if there is none
    leaving,    \* which of the two, "address" and "release", are being deleted
    nsName,     \* status.controlplane.k8gb.nsName, None if not set
    todo,       \* what the XR's reconcile still has to do, {} if none runs
    seen,       \* what that reconcile read of the XR and its Address
    plan,       \* what the function returned to it
    edits,      \* user actions so far
    faults,     \* reconciles lost so far
    informed,   \* HISTORY: XRs whose reconcile began after the last change
    current     \* HISTORY: XRs whose Release is from such a reconcile

vars == <<phase, k8gb, address, release, leaving, nsName, todo, seen, plan,
          edits, faults, informed, current>>

xrVars == <<phase, k8gb>>
composedVars == <<address, release, leaving>>
reconcileVars == <<todo, seen, plan>>
historyVars == <<informed, current>>

-----------------------------------------------------------------------------
(* Geo tags and name servers                                               *)

(* MUTANT of Tag: the default is the bare gcp-<location>.                   *)
Tag_BareLocation(x, s) == IF s.tag # <<>> THEN s.tag ELSE <<"gcp">> \o Location[x]

Tag(x, s) == IF s.tag # <<>> THEN s.tag ELSE <<"gcp">> \o Location[x] \o Id[x]

(* MUTANT of NsName: the parent zone stays in the label.                    *)
NsName_Unstripped(tag, zone, parent) ==
    [host |-> <<"gslb", "ns">> \o tag \o zone, domain |-> parent]

(* gslb-ns-<tag>-<zone label>.<parent zone>, where the label is the zone    *)
(* without its parent, dots made dashes.                                    *)
NsName(tag, zone, parent) ==
    LET kept == IF IsStrictSuffix(parent, zone) THEN Len(zone) - Len(parent) ELSE Len(zone)
    IN [host |-> <<"gslb", "ns">> \o tag \o SubSeq(zone, 1, kept), domain |-> parent]

(* The name k8gb itself looks up for the instance of a tag, its own or a     *)
(* peer's: TrimSuffix of the zones in its values.                           *)
K8gbNsName(values, tag) ==
    LET labels == {n \in 1..Len(values.zone) :
                      SubSeq(values.zone, 1, n) \o values.parent = values.zone}
    IN [host   |-> <<"gslb", "ns">> \o tag \o
                       (IF labels = {} THEN values.zone
                        ELSE SubSeq(values.zone, 1, CHOOSE n \in labels : TRUE)),
        domain |-> values.parent]

Present(x) == phase[x] # "absent"
Live(x) == phase[x] = "live"

(* MUTANT of PeersOf: the zone of the peer is not compared.                 *)
PeersOf_AnyZone(x) ==
    {y \in ControlPlane : Present(y) /\ Id[y] # Id[x] /\ k8gb[y] # Off}

(* MUTANT of PeersOf: only a peer whose name server is published counts.    *)
PeersOf_Published(x) ==
    {y \in ControlPlane : /\ Present(y) /\ Id[y] # Id[x] /\ nsName[y] # None
                          /\ k8gb[y] # Off /\ k8gb[y].zone = seen[x].setting.zone}

(* The XRs a reconcile of x counts as its peers: k8gb on x's zone, and      *)
(* another id.  An XR that is being deleted counts until it is gone.        *)
PeersOf(x) ==
    {y \in ControlPlane : /\ Present(y) /\ Id[y] # Id[x]
                          /\ k8gb[y] # Off /\ k8gb[y].zone = seen[x].setting.zone}

(* The tags of the peers, but never x's own.                               *)
ExtTags(x) == {Tag(y, k8gb[y]) : y \in PeersOf(x)} \ {Tag(x, seen[x].setting)}

(* The k8gb part of compose.  The Release waits for the Address.            *)
ComposeK8gb(x) ==
    LET s == seen[x].setting IN
    IF s = Off THEN [release |-> None, nsName |-> None, enabled |-> FALSE]
    ELSE [enabled |-> TRUE,
          release |-> IF seen[x].address = "reserved"
                      THEN [tag |-> Tag(x, s), zone |-> s.zone, parent |-> s.parent,
                            ext |-> ExtTags(x)]
                      ELSE None,
          nsName  |-> NsName(Tag(x, s), s.zone, s.parent)]

-----------------------------------------------------------------------------
(* The start: k8gb is wanted here and there, and nothing is composed yet.   *)
Init ==
    /\ phase \in [ControlPlane -> {"absent", "live"}]
    /\ k8gb \in [ControlPlane -> Settings \cup {Off}]
    /\ \A x \in ControlPlane : k8gb[x] \in (IF Live(x) THEN Offer[x] ELSE {}) \cup {Off}
    /\ address = [x \in ControlPlane |-> "none"]
    /\ release = [x \in ControlPlane |-> None]
    /\ leaving = [x \in ControlPlane |-> {}]
    /\ nsName = [x \in ControlPlane |-> None]
    /\ todo = [x \in ControlPlane |-> {}]
    /\ seen = [x \in ControlPlane |-> None]
    /\ plan = [x \in ControlPlane |-> None]
    /\ edits = 0 /\ faults = 0
    /\ informed = {} /\ current = {}

(* One reconcile of XR x                                                   *)

(* Crossplane reads the XR and its composed Address.                       *)
Observe(x) ==
    /\ Live(x) /\ todo[x] = {}
    /\ todo' = [todo EXCEPT ![x] = {"run"}]
    /\ seen' = [seen EXCEPT ![x] = [setting |-> k8gb[x], address |-> address[x]]]
    /\ informed' = informed \cup {x}
    /\ UNCHANGED <<xrVars, composedVars, nsName, plan, edits, faults, current>>

(* It fetches every ControlPlane, and runs the function.                   *)
RunFunction(x) ==
    /\ todo[x] = {"run"}
    /\ todo' = [todo EXCEPT ![x] = {"apply", "record"}]
    /\ plan' = [plan EXCEPT ![x] = ComposeK8gb(x)]
    /\ seen' = [seen EXCEPT ![x] = None]
    /\ UNCHANGED <<xrVars, composedVars, nsName, edits, faults, historyVars>>

(* MUTANT of Done: the plan is lost with the first of the two writes.       *)
Done_DropsPlan(x, write) ==
    /\ write \in todo[x]
    /\ todo' = [todo EXCEPT ![x] = @ \ {write}]
    /\ plan' = [plan EXCEPT ![x] = None]
    /\ UNCHANGED seen

(* Each of the two writes is made once, in any order.                      *)
Done(x, write) ==
    /\ write \in todo[x]
    /\ todo' = [todo EXCEPT ![x] = @ \ {write}]
    /\ plan' = [plan EXCEPT ![x] = IF todo[x] = {write} THEN None ELSE @]
    /\ UNCHANGED seen

(* It applies the composed resources.  What was observed and is not desired  *)
(* starts to be deleted: both objects with k8gb off, and the Release alone  *)
(* when k8gb is on and no reserved Address was observed.  Writing to an     *)
(* object that is being deleted changes nothing.                           *)
Apply(x) ==
    /\ Done(x, "apply")
    /\ LET written == plan[x].release # None /\ "release" \notin leaving[x]
           dropped == (IF plan[x].release = None /\ release[x] # None THEN {"release"} ELSE {})
                      \cup (IF ~plan[x].enabled /\ address[x] # "none" THEN {"address"} ELSE {})
       IN  /\ address' = [address EXCEPT ![x] =
                             IF plan[x].enabled /\ @ = "none" THEN "asked" ELSE @]
           /\ release' = [release EXCEPT ![x] = IF written THEN plan[x].release ELSE @]
           /\ leaving' = [leaving EXCEPT ![x] = @ \cup dropped]
           /\ current' = IF written /\ x \in informed THEN current \cup {x} ELSE current \ {x}
    /\ UNCHANGED <<xrVars, nsName, edits, faults, informed>>

(* It writes the status.                                                   *)
Record(x) ==
    /\ Done(x, "record")
    /\ nsName' = [nsName EXCEPT ![x] = plan[x].nsName]
    /\ UNCHANGED <<xrVars, composedVars, edits, faults, historyVars>>

(* The reconcile dies: an error, a timeout, a restart of Crossplane.       *)
Abort(x) ==
    /\ todo[x] # {} /\ faults < MaxFaults
    /\ faults' = faults + 1
    /\ todo' = [todo EXCEPT ![x] = {}]
    /\ seen' = [seen EXCEPT ![x] = None]
    /\ plan' = [plan EXCEPT ![x] = None]
    /\ UNCHANGED <<xrVars, composedVars, nsName, edits, historyVars>>

(* GCP reserves the Address.                                               *)
Reserve(x) ==
    /\ address[x] = "asked" /\ "address" \notin leaving[x]
    /\ address' = [address EXCEPT ![x] = "reserved"]
    /\ UNCHANGED <<xrVars, release, leaving, nsName, reconcileVars, edits, faults, historyVars>>

(* The Release is uninstalled.                                             *)
ReleaseGone(x) ==
    /\ "release" \in leaving[x]
    /\ release' = [release EXCEPT ![x] = None]
    /\ leaving' = [leaving EXCEPT ![x] = @ \ {"release"}]
    /\ current' = current \ {x}
    /\ UNCHANGED <<xrVars, address, nsName, reconcileVars, edits, faults, informed>>

(* The Address is released: after the Release it was deleted with, and      *)
(* whether or not there is a new one on it by then.                        *)
AddressGone(x) ==
    /\ "address" \in leaving[x] /\ "release" \notin leaving[x]
    /\ address' = [address EXCEPT ![x] = "none"]
    /\ leaving' = [leaving EXCEPT ![x] = {}]
    /\ UNCHANGED <<xrVars, release, nsName, reconcileVars, edits, faults, historyVars>>

-----------------------------------------------------------------------------
(* What users do to XR x.  Whatever a reconcile has read before is old.     *)

Changed == informed' = {} /\ current' = {}
Edit == edits < MaxEdits /\ edits' = edits + 1

Create(x) ==
    /\ ~Present(x) /\ Edit
    /\ phase' = [phase EXCEPT ![x] = "live"]
    /\ \E s \in Offer[x] \cup {Off} : k8gb' = [k8gb EXCEPT ![x] = s]
    /\ Changed
    /\ UNCHANGED <<composedVars, nsName, reconcileVars, faults>>

Change(x) ==
    /\ Live(x) /\ Edit
    /\ \E s \in (Offer[x] \cup {Off}) \ {k8gb[x]} : k8gb' = [k8gb EXCEPT ![x] = s]
    /\ Changed
    /\ UNCHANGED <<phase, composedVars, nsName, reconcileVars, faults>>

Delete(x) ==
    /\ Live(x) /\ Edit
    /\ phase' = [phase EXCEPT ![x] = "terminating"]
    /\ UNCHANGED <<k8gb, composedVars, nsName, reconcileVars, faults, historyVars>>

(* The teardown of a terminating XR ends, with its composed resources.     *)
Gone(x) ==
    /\ phase[x] = "terminating" /\ todo[x] = {}
    /\ phase' = [phase EXCEPT ![x] = "absent"]
    /\ k8gb' = [k8gb EXCEPT ![x] = Off]
    /\ address' = [address EXCEPT ![x] = "none"]
    /\ release' = [release EXCEPT ![x] = None]
    /\ leaving' = [leaving EXCEPT ![x] = {}]
    /\ nsName' = [nsName EXCEPT ![x] = None]
    /\ Changed
    /\ UNCHANGED <<reconcileVars, edits, faults>>

-----------------------------------------------------------------------------
Reconcile(x) == Observe(x) \/ RunFunction(x) \/ Apply(x) \/ Record(x)
Provider(x) == Reserve(x) \/ ReleaseGone(x) \/ AddressGone(x)
User(x) == Create(x) \/ Change(x) \/ Delete(x)

Next == \E x \in ControlPlane :
            Reconcile(x) \/ Abort(x) \/ Provider(x) \/ Gone(x) \/ User(x)

Spec == Init /\ [][Next]_vars

(* Crossplane reconciles every live XR again and again (its poll interval:  *)
(* nothing tells it that another XR changed), providers finish what they    *)
(* started, and a deletion ends.                                           *)
Fairness == \A x \in ControlPlane :
    WF_vars(Reconcile(x)) /\ WF_vars(Provider(x)) /\ WF_vars(Gone(x))

FairSpec == Spec /\ Fairness

-----------------------------------------------------------------------------
(* Properties                                                              *)

Tags == {Tag(x, s) : x \in ControlPlane, s \in Settings}
Zones == {s.zone : s \in Settings}
Parents == {s.parent : s \in Settings}
Values == [tag : Tags, zone : Zones, parent : Parents, ext : SUBSET Tags]
Names == {NsName(t, z, p) : t \in Tags, z \in Zones, p \in Parents}
Views == [setting : Settings \cup {Off}, address : {"none", "asked", "reserved"}]
Plans == {p \in [enabled : BOOLEAN, release : Values \cup {None}, nsName : Names \cup {None}] :
             ~p.enabled => p.release = None /\ p.nsName = None}

ASSUME ValuesAssumption == None \notin Values

(* The type invariant: a running reconcile has read or planned what its     *)
(* next step needs.                                                        *)
TypeOK ==
    /\ phase \in [ControlPlane -> {"absent", "live", "terminating"}]
    /\ k8gb \in [ControlPlane -> Settings \cup {Off}]
    /\ address \in [ControlPlane -> {"none", "asked", "reserved"}]
    /\ release \in [ControlPlane -> Values \cup {None}]
    /\ leaving \in [ControlPlane -> SUBSET {"address", "release"}]
    /\ nsName \in [ControlPlane -> Names \cup {None}]
    /\ todo \in [ControlPlane -> {{}, {"run"}} \cup SUBSET {"apply", "record"}]
    /\ seen \in [ControlPlane -> Views \cup {None}]
    /\ plan \in [ControlPlane -> Plans \cup {None}]
    /\ \A x \in ControlPlane : "run" \in todo[x] => seen[x] \in Views
    /\ \A x \in ControlPlane : todo[x] \cap {"apply", "record"} # {} => plan[x] \in Plans
    /\ edits \in 0..MaxEdits /\ faults \in 0..MaxFaults
    /\ informed \subseteq ControlPlane /\ current \subseteq ControlPlane

(* Two instances on one zone, both reconciled since anything last changed,  *)
(* have each other's tag: in whatever order the two lists were fetched and  *)
(* applied, neither is left with a list from before (README "k8gb peers on  *)
(* the same dnsZone get each other's geo tags across namespaces").          *)
PeersKnown ==
    \A x, y \in current :
        (x # y /\ release[x].zone = release[y].zone) => release[y].tag \in release[x].ext

(* ... and no tag that is not the tag of another ControlPlane on that zone:  *)
(* k8gb waits for the name servers of every tag it is given.                *)
PeersReal ==
    \A x \in current : \A t \in release[x].ext :
        \E y \in ControlPlane \ {x} :
            /\ Present(y) /\ k8gb[y] # Off
            /\ k8gb[y].zone = release[x].zone /\ Tag(y, k8gb[y]) = t

(* No two control planes publish one name server: the parent zone could not *)
(* delegate to both, and each would take the other's tag for its own.  That *)
(* rests on tags being "unique per control plane" (prelude.py,              *)
(* definition.yaml), also while a change of one is under way.               *)
NamesApart ==
    \A x, y \in ControlPlane : (x # y /\ nsName[x] # None) => nsName[x] # nsName[y]

(* What every reconcile ends with when users and faults are quiet: k8gb is   *)
(* installed where it is on and gone where it is off, every instance lists   *)
(* its peers, and looks each up under the very name that one publishes      *)
(* ("the contract FleetGslb consumes", status.py), if their parent zones     *)
(* are the same.                                                           *)
Producers == {x \in ControlPlane : Live(x) /\ k8gb[x] # Off}
Delegated ==
    /\ \A x \in ControlPlane \ Producers : release[x] = None /\ nsName[x] = None
    /\ \A x \in Producers : release[x] # None
    /\ \A x \in Producers :
        /\ nsName[x] = K8gbNsName(release[x], release[x].tag)
        /\ release[x].ext = {Tag(y, k8gb[y]) : y \in {z \in Producers \ {x} :
                                                      k8gb[z].zone = k8gb[x].zone}}
        /\ \A y \in Producers :
            (k8gb[y].zone = k8gb[x].zone /\ k8gb[y].parent = k8gb[x].parent) =>
                nsName[y] = K8gbNsName(release[x], release[y].tag)

(* Nothing is left to do: no deletion and no Address is under way, and every *)
(* live XR has just read its state, and would write what is already there.  *)
AtRest ==
    \A x \in ControlPlane :
        /\ phase[x] # "terminating" /\ leaving[x] = {} /\ address[x] # "asked"
        /\ Live(x) =>
            /\ todo[x] = {"run"}
            /\ seen[x] = [setting |-> k8gb[x], address |-> address[x]]
            /\ ComposeK8gb(x).nsName = nsName[x]
            /\ ComposeK8gb(x).enabled <=> address[x] # "none"
            /\ ComposeK8gb(x).release = release[x]

(* The fleet cannot come to rest on a list that is out of date: reconciles   *)
(* that none of them changes anything leave every peer listed, and every    *)
(* name server published under the name its peers look up.                  *)
RestIsDelegated == AtRest => Delegated

(* Once nobody edits and nothing fails any more, the k8gb instances find    *)
(* each other for good, though no reconcile is ever told of a change in      *)
(* another XR.                                                             *)
PeersSettle == <>[]Delegated
=============================================================================
