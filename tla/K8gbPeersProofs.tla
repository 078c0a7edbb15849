--------------------------- MODULE K8gbPeersProofs ---------------------------
(* Proofs about K8gbPeers, for any number of ControlPlanes, any settings    *)
(* their users choose from, and any number of edits and faults.            *)
EXTENDS K8gbPeers, SequenceTheorems, TLAPS

-----------------------------------------------------------------------------
(* Type correctness                                                        *)

(* The function returns a plan: tags, zones and names come from settings.  *)
LEMMA PlanType ==
    ASSUME TypeOK, NEW x \in ControlPlane, seen[x] \in Views
    PROVE  ComposeK8gb(x) \in Plans
<1> DEFINE s == seen[x].setting
<1>1. CASE s = Off
    BY <1>1 DEF ComposeK8gb, Plans
<1>2. CASE s # Off
    <2>1. s \in Settings
        BY <1>2 DEF Views
    <2>2. s.zone \in Zones /\ s.parent \in Parents /\ Tag(x, s) \in Tags
        BY <2>1 DEF Zones, Parents, Tags
    <2>3. \A y \in PeersOf(x) : Tag(y, k8gb[y]) \in Tags
        BY DEF PeersOf, TypeOK, Tags
    <2>4. ExtTags(x) \in SUBSET Tags
        BY <2>3 DEF ExtTags
    <2>5. NsName(Tag(x, s), s.zone, s.parent) \in Names
        BY <2>2 DEF Names
    <2>6. [tag |-> Tag(x, s), zone |-> s.zone, parent |-> s.parent, ext |-> ExtTags(x)] \in Values
        BY <2>2, <2>4 DEF Values
    <2> HIDE DEF s
    <2>7. ComposeK8gb(x) =
            [enabled |-> TRUE,
             release |-> IF seen[x].address = "reserved"
                         THEN [tag |-> Tag(x, s), zone |-> s.zone, parent |-> s.parent,
                               ext |-> ExtTags(x)]
                         ELSE None,
             nsName  |-> NsName(Tag(x, s), s.zone, s.parent)]
        BY <1>2 DEF ComposeK8gb, s
    <2> QED BY <2>5, <2>6, <2>7 DEF Plans
<1> QED BY <1>1, <1>2

LEMMA InitType == Init => TypeOK
    BY PeersAssumption DEF Init, TypeOK

LEMMA ReconcileType ==
    ASSUME TypeOK, NEW x \in ControlPlane, Reconcile(x)
    PROVE  TypeOK'
<1>1. CASE Observe(x)
    <2>1. [setting |-> k8gb[x], address |-> address[x]] \in Views
        BY DEF TypeOK, Views
    <2> QED BY <1>1, <2>1 DEF Observe, TypeOK, xrVars, composedVars
<1>2. CASE RunFunction(x)
    <2>1. ComposeK8gb(x) \in Plans
        BY <1>2, PlanType DEF RunFunction, TypeOK
    <2> QED BY <1>2, <2>1 DEF RunFunction, TypeOK, xrVars, composedVars, historyVars
<1>3. CASE Apply(x)
    <2> USE <1>3 DEF Apply, Done
    <2>1. plan[x] \in Plans
        BY DEF TypeOK
    <2>2. release' \in [ControlPlane -> Values \cup {None}]
        BY <2>1 DEF TypeOK, Plans
    <2>3. /\ address' \in [ControlPlane -> {"none", "asked", "reserved"}]
          /\ leaving' \in [ControlPlane -> SUBSET {"address", "release"}]
        BY DEF TypeOK
    <2>4. todo' \in [ControlPlane -> {{}, {"run"}} \cup SUBSET {"apply", "record"}]
        BY DEF TypeOK
    <2>5. plan' \in [ControlPlane -> Plans \cup {None}]
        BY DEF TypeOK
    <2>6. \A y \in ControlPlane : "run" \in todo'[y] => seen'[y] \in Views
        BY DEF TypeOK
    <2>7. \A y \in ControlPlane : todo'[y] \cap {"apply", "record"} # {} => plan'[y] \in Plans
        BY <2>1 DEF TypeOK
    <2>8. current' \subseteq ControlPlane
        BY DEF TypeOK
    <2> QED BY <2>2, <2>3, <2>4, <2>5, <2>6, <2>7, <2>8 DEF TypeOK, xrVars
<1>4. CASE Record(x)
    <2> USE <1>4 DEF Record, Done
    <2>1. plan[x] \in Plans
        BY DEF TypeOK
    <2>2. nsName' \in [ControlPlane -> Names \cup {None}]
        BY <2>1 DEF TypeOK, Plans
    <2>3. todo' \in [ControlPlane -> {{}, {"run"}} \cup SUBSET {"apply", "record"}]
        BY DEF TypeOK
    <2>4. plan' \in [ControlPlane -> Plans \cup {None}]
        BY DEF TypeOK
    <2>5. \A y \in ControlPlane : "run" \in todo'[y] => seen'[y] \in Views
        BY DEF TypeOK
    <2>6. \A y \in ControlPlane : todo'[y] \cap {"apply", "record"} # {} => plan'[y] \in Plans
        BY <2>1 DEF TypeOK
    <2> QED BY <2>2, <2>3, <2>4, <2>5, <2>6 DEF TypeOK, xrVars, composedVars, historyVars
<1> QED BY <1>1, <1>2, <1>3, <1>4 DEF Reconcile

LEMMA EnvironmentType ==
    ASSUME TypeOK, NEW x \in ControlPlane,
           Abort(x) \/ Provider(x) \/ Gone(x) \/ User(x)
    PROVE  TypeOK'
<1>1. CASE Abort(x)
    BY <1>1, PeersAssumption DEF Abort, TypeOK, xrVars, composedVars, historyVars
<1>2. CASE Provider(x)
    BY <1>2 DEF Provider, Reserve, ReleaseGone, AddressGone, TypeOK, xrVars, reconcileVars, historyVars
<1>3. CASE Gone(x)
    BY <1>3 DEF Gone, Changed, TypeOK, reconcileVars
<1>4. CASE Create(x) \/ Change(x)
    <2>1. k8gb' \in [ControlPlane -> Settings \cup {Off}]
        BY <1>4 DEF Create, Change, TypeOK, Settings
    <2>2. edits' \in 0..MaxEdits
        BY <1>4, PeersAssumption DEF Create, Change, Edit, TypeOK
    <2> QED BY <1>4, <2>1, <2>2 DEF Create, Change, Changed, TypeOK, composedVars, reconcileVars
<1>5. CASE Delete(x)
    <2>1. edits' \in 0..MaxEdits
        BY <1>5, PeersAssumption DEF Delete, Edit, TypeOK
    <2> QED BY <1>5, <2>1 DEF Delete, TypeOK, composedVars, reconcileVars, historyVars
<1> QED BY <1>1, <1>2, <1>3, <1>4, <1>5 DEF User

(* Every reachable state has the types of TypeOK, and no reconcile reaches   *)
(* a step with nothing read or planned for it.                             *)
THEOREM TypeCorrect == Spec => []TypeOK
<1>1. TypeOK /\ [Next]_vars => TypeOK'
    <2> SUFFICES ASSUME TypeOK, [Next]_vars PROVE TypeOK'
        OBVIOUS
    <2>1. CASE UNCHANGED vars
        BY <2>1 DEF vars, TypeOK
    <2>2. CASE Next
        BY <2>2, ReconcileType, EnvironmentType DEF Next
    <2> QED BY <2>1, <2>2
<1> QED BY InitType, <1>1, PTL DEF Spec

-----------------------------------------------------------------------------
(* What an up-to-date Release lists                                        *)

(* The values a reconcile of x gives its Release if it reads what is there  *)
(* now, in x and in all the others.                                        *)
Expected(x) ==
    [tag    |-> Tag(x, k8gb[x]),
     zone   |-> k8gb[x].zone,
     parent |-> k8gb[x].parent,
     ext    |-> {Tag(y, k8gb[y]) : y \in {z \in ControlPlane :
                    /\ Present(z) /\ Id[z] # Id[x]
                    /\ k8gb[z] # Off /\ k8gb[z].zone = k8gb[x].zone}}
                \ {Tag(x, k8gb[x])}]

(* The inductive invariant.  Nothing a running, informed reconcile has read  *)
(* or planned is out of date, so neither is the Release it leaves.  It is    *)
(* about XRs that still exist: one with a reconcile running cannot vanish.  *)
UpToDate ==
    /\ \A x \in ControlPlane : todo[x] # {} => Present(x)
    /\ \A x \in informed : "run" \in todo[x] => seen[x].setting = k8gb[x]
    /\ \A x \in informed : ("apply" \in todo[x] /\ plan[x].release # None) =>
          k8gb[x] # Off /\ plan[x].release = Expected(x)
    /\ \A x \in current : Present(x) /\ k8gb[x] # Off /\ release[x] = Expected(x)

LEMMA InitUpToDate == Init => UpToDate
    BY DEF Init, UpToDate

LEMMA ReconcileUpToDate ==
    ASSUME TypeOK, UpToDate, NEW x \in ControlPlane, Reconcile(x)
    PROVE  UpToDate'
<1>0. k8gb' = k8gb /\ phase' = phase
    BY DEF Reconcile, Observe, RunFunction, Apply, Record, xrVars
<1>1. \A y \in ControlPlane : Expected(y)' = Expected(y) /\ (Present(y)' <=> Present(y))
    BY <1>0 DEF Expected, Present
<1> HIDE DEF Expected
<1>2. CASE Observe(x)
    <2> USE <1>2 DEF Observe, composedVars, xrVars
    <2>1. \A y \in ControlPlane : todo'[y] # {} => Present(y)'
        BY <1>1 DEF UpToDate, TypeOK, Live, Present
    <2>2. \A y \in informed' : "run" \in todo'[y] => seen'[y].setting = k8gb'[y]
        BY DEF UpToDate, TypeOK
    <2>3. \A y \in informed' : ("apply" \in todo'[y] /\ plan'[y].release # None) =>
              k8gb'[y] # Off /\ plan'[y].release = Expected(y)'
        BY <1>1 DEF UpToDate, TypeOK
    <2>4. \A y \in current' : Present(y)' /\ k8gb'[y] # Off /\ release'[y] = Expected(y)'
        BY <1>1 DEF UpToDate, TypeOK
    <2> QED BY <2>1, <2>2, <2>3, <2>4 DEF UpToDate
<1>3. CASE RunFunction(x)
    <2> USE <1>3 DEF RunFunction, composedVars, xrVars, historyVars
    <2>1. \A y \in ControlPlane : todo'[y] # {} => Present(y)'
        BY <1>1 DEF UpToDate, TypeOK
    <2>2. \A y \in informed' : "run" \in todo'[y] => seen'[y].setting = k8gb'[y]
        BY DEF UpToDate, TypeOK
    <2>3. ASSUME x \in informed, ComposeK8gb(x).release # None
          PROVE  k8gb[x] # Off /\ ComposeK8gb(x).release = Expected(x)
        <3>1. seen[x].setting = k8gb[x]
            BY <2>3 DEF UpToDate
        <3>2. k8gb[x] # Off /\ seen[x].address = "reserved"
            BY <2>3, <3>1 DEF ComposeK8gb
        <3>3. ComposeK8gb(x).release =
                [tag |-> Tag(x, k8gb[x]), zone |-> k8gb[x].zone,
                 parent |-> k8gb[x].parent, ext |-> ExtTags(x)]
            BY <3>1, <3>2 DEF ComposeK8gb
        <3> QED BY <3>1, <3>2, <3>3 DEF Expected, ExtTags, PeersOf
    <2>4. \A y \in informed' : ("apply" \in todo'[y] /\ plan'[y].release # None) =>
              k8gb'[y] # Off /\ plan'[y].release = Expected(y)'
        BY <1>1, <2>3 DEF UpToDate, TypeOK
    <2>5. \A y \in current' : Present(y)' /\ k8gb'[y] # Off /\ release'[y] = Expected(y)'
        BY <1>1 DEF UpToDate, TypeOK
    <2> QED BY <2>1, <2>2, <2>4, <2>5 DEF UpToDate
<1>4. CASE Apply(x)
    <2> USE <1>4 DEF Apply, Done, xrVars
    <2>1. \A y \in ControlPlane : todo'[y] # {} => Present(y)'
        BY <1>1 DEF UpToDate, TypeOK
    <2>2. \A y \in informed' : "run" \in todo'[y] => seen'[y].setting = k8gb'[y]
        BY DEF UpToDate, TypeOK
    <2>3. \A y \in informed' : ("apply" \in todo'[y] /\ plan'[y].release # None) =>
              k8gb'[y] # Off /\ plan'[y].release = Expected(y)'
        BY <1>1 DEF UpToDate, TypeOK
    <2>4. ASSUME NEW y \in current'
          PROVE  Present(y)' /\ k8gb'[y] # Off /\ release'[y] = Expected(y)'
        <3>1. CASE y # x
            <4>1. y \in current /\ release'[y] = release[y] /\ y \in ControlPlane
                BY <2>4, <3>1 DEF TypeOK
            <4> QED BY <1>1, <4>1 DEF UpToDate
        <3>2. CASE y = x
            <4>1. /\ "release" \notin leaving[x] /\ plan[x].release # None
                  /\ x \in informed /\ release'[x] = plan[x].release
                BY <2>4, <3>2 DEF TypeOK
            <4>2. k8gb[x] # Off /\ plan[x].release = Expected(x) /\ Present(x)
                BY <4>1 DEF UpToDate
            <4> QED BY <1>1, <3>2, <4>1, <4>2
        <3> QED BY <3>1, <3>2
    <2> QED BY <2>1, <2>2, <2>3, <2>4 DEF UpToDate
<1>5. CASE Record(x)
    <2> USE <1>5 DEF Record, Done, xrVars, composedVars, historyVars
    <2>1. \A y \in ControlPlane : todo'[y] # {} => Present(y)'
        BY <1>1 DEF UpToDate, TypeOK
    <2>2. \A y \in informed' : "run" \in todo'[y] => seen'[y].setting = k8gb'[y]
        BY DEF UpToDate, TypeOK
    <2>3. \A y \in informed' : ("apply" \in todo'[y] /\ plan'[y].release # None) =>
              k8gb'[y] # Off /\ plan'[y].release = Expected(y)'
        BY <1>1 DEF UpToDate, TypeOK
    <2>4. \A y \in current' : Present(y)' /\ k8gb'[y] # Off /\ release'[y] = Expected(y)'
        BY <1>1 DEF UpToDate, TypeOK
    <2> QED BY <2>1, <2>2, <2>3, <2>4 DEF UpToDate
<1> QED BY <1>2, <1>3, <1>4, <1>5 DEF Reconcile

LEMMA EnvironmentUpToDate ==
    ASSUME TypeOK, UpToDate, NEW x \in ControlPlane,
           Abort(x) \/ Provider(x) \/ Gone(x) \/ User(x)
    PROVE  UpToDate'
<1>1. ASSUME Changed, todo' = todo,
             \A y \in ControlPlane : todo[y] # {} => Present(y)'
      PROVE  UpToDate'
    BY <1>1 DEF Changed, UpToDate
<1>2. CASE Gone(x)
    <2>1. \A y \in ControlPlane : todo[y] # {} => Present(y)'
        BY <1>2 DEF Gone, UpToDate, Present, TypeOK
    <2> QED BY <1>1, <1>2, <2>1 DEF Gone, reconcileVars
<1>3. CASE Create(x) \/ Change(x)
    <2>1. \A y \in ControlPlane : todo[y] # {} => Present(y)'
        BY <1>3 DEF Create, Change, UpToDate, Present, TypeOK
    <2> QED BY <1>1, <1>3, <2>1 DEF Create, Change, reconcileVars
<1>4. CASE Abort(x) \/ Provider(x) \/ Delete(x)
    <2>1. k8gb' = k8gb /\ \A y \in ControlPlane : Present(y)' <=> Present(y)
        BY <1>4 DEF Abort, Provider, Reserve, ReleaseGone, AddressGone, Delete, xrVars, Present, Live, TypeOK
    <2>2. \A y \in ControlPlane : Expected(y)' = Expected(y)
        BY <2>1 DEF Expected
    <2> HIDE DEF Expected
    <2>3. CASE Abort(x)
        BY <2>1, <2>2, <2>3 DEF Abort, UpToDate, TypeOK, xrVars, composedVars, historyVars
    <2>4. CASE Provider(x)
        BY <2>1, <2>2, <2>4 DEF Provider, Reserve, ReleaseGone, AddressGone, UpToDate, TypeOK,
                                xrVars, reconcileVars, historyVars
    <2>5. CASE Delete(x)
        BY <2>1, <2>2, <2>5 DEF Delete, UpToDate, TypeOK, composedVars, reconcileVars, historyVars
    <2> QED BY <1>4, <2>3, <2>4, <2>5
<1> QED BY <1>2, <1>3, <1>4 DEF User

LEMMA AlwaysUpToDate == Spec => [](TypeOK /\ UpToDate)
<1>1. TypeOK /\ UpToDate /\ [Next]_vars => UpToDate'
    <2> SUFFICES ASSUME TypeOK, UpToDate, [Next]_vars PROVE UpToDate'
        OBVIOUS
    <2>1. CASE UNCHANGED vars
        BY <2>1 DEF vars, UpToDate, Expected, Present
    <2>2. CASE Next
        BY <2>2, ReconcileUpToDate, EnvironmentUpToDate DEF Next
    <2> QED BY <2>1, <2>2
<1> QED BY InitUpToDate, TypeCorrect, <1>1, PTL DEF Spec

-----------------------------------------------------------------------------
(* The results                                                             *)

(* Every tag in an up-to-date list is the tag of another ControlPlane with   *)
(* k8gb on that zone, whatever the ids and tags are.                        *)
THEOREM PeersAreReal == Spec => []PeersReal
<1>1. TypeOK /\ UpToDate => PeersReal
    <2> SUFFICES ASSUME TypeOK, UpToDate, NEW x \in current, NEW t \in release[x].ext
                 PROVE  \E y \in ControlPlane \ {x} :
                            /\ Present(y) /\ k8gb[y] # Off
                            /\ k8gb[y].zone = release[x].zone /\ Tag(y, k8gb[y]) = t
        BY DEF PeersReal
    <2>0. x \in ControlPlane /\ release[x] = Expected(x)
        BY DEF UpToDate, TypeOK
    <2>1. release[x].zone = k8gb[x].zone /\ t \in Expected(x).ext /\ x \in ControlPlane
        BY <2>0 DEF Expected
    <2>2. PICK y \in ControlPlane :
            /\ Present(y) /\ Id[y] # Id[x]
            /\ k8gb[y] # Off /\ k8gb[y].zone = k8gb[x].zone /\ Tag(y, k8gb[y]) = t
        BY <2>1 DEF Expected
    <2>3. y # x
        BY <2>2
    <2> QED BY <2>1, <2>2, <2>3
<1> QED BY <1>1, AlwaysUpToDate, PTL

-----------------------------------------------------------------------------
(* Names                                                                   *)

(* The zone without its parent: what NsName puts after the tag.            *)
Label(s) == SubSeq(s.zone, 1, IF IsStrictSuffix(s.parent, s.zone)
                              THEN Len(s.zone) - Len(s.parent) ELSE Len(s.zone))

LEMMA SettingType ==
    ASSUME NEW s \in Settings
    PROVE  s.zone \in Words /\ s.parent \in Words /\ s.tag \in Words
BY PeersAssumption DEF Settings

LEMMA TagType ==
    ASSUME NEW x \in ControlPlane, NEW s \in Settings
    PROVE  Tag(x, s) \in Words
<1>1. Location[x] \in Words /\ Id[x] \in Words /\ s.tag \in Words
    BY PeersAssumption, SettingType
<1>2. <<"gcp">> \in Words
    BY PeersAssumption DEF Words
<1>3. <<"gcp">> \o Location[x] \in Words
    BY <1>1, <1>2, ConcatProperties DEF Words
<1>4. <<"gcp">> \o Location[x] \o Id[x] \in Words
    BY <1>1, <1>3, ConcatProperties DEF Words
<1> QED BY <1>1, <1>4 DEF Tag

LEMMA ReverseAt ==
    ASSUME NEW S, NEW s \in Seq(S)
    PROVE  /\ Reverse(s) \in Seq(S) /\ Len(Reverse(s)) = Len(s)
           /\ \A i \in 1..Len(s) : Reverse(s)[i] = s[(Len(s) - i) + 1]
<1>1. Len(s) \in Nat /\ \A i \in 1..Len(s) : s[i] \in S
    OBVIOUS
<1>2. \A i \in 1..Len(s) : s[(Len(s) - i) + 1] \in S
    BY <1>1
<1>3. Reverse(s) \in [1..Len(s) -> S]
    BY <1>2 DEF Reverse
<1>4. Reverse(s) \in Seq(S) /\ Len(Reverse(s)) = Len(s)
    BY <1>1, <1>3
<1> QED BY <1>4 DEF Reverse

(* A suffix, said of positions.                                            *)
LEMMA SuffixPositions ==
    ASSUME NEW S, NEW p \in Seq(S), NEW z \in Seq(S)
    PROVE  IsSuffix(p, z) <=>
               /\ Len(p) <= Len(z)
               /\ \A j \in 1..Len(p) : p[j] = z[(Len(z) - Len(p)) + j]
<1> DEFINE rp == Reverse(p)
           rz == Reverse(z)
<1>1. /\ rp \in Seq(S) /\ Len(rp) = Len(p)
      /\ \A i \in 1..Len(p) : rp[i] = p[(Len(p) - i) + 1]
    BY ReverseAt
<1>2. /\ rz \in Seq(S) /\ Len(rz) = Len(z)
      /\ \A i \in 1..Len(z) : rz[i] = z[(Len(z) - i) + 1]
    BY ReverseAt
<1>3. IsSuffix(p, z) <=> Len(rp) <= Len(rz) /\ SubSeq(rp, 1, Len(rp)) = SubSeq(rz, 1, Len(rp))
    BY DEF IsSuffix, IsPrefix
<1>4. Len(p) \in Nat /\ Len(z) \in Nat
    OBVIOUS
<1> HIDE DEF rp, rz
<1>5. SubSeq(rp, 1, Len(rp)) = rp
    BY <1>1, SubSeqFull
<1>6. ASSUME Len(p) <= Len(z)
      PROVE  rp = SubSeq(rz, 1, Len(p)) <=> \A i \in 1..Len(p) : rp[i] = rz[i]
    <2>1. \A i \in 1..Len(p) : rz[i] \in S
        BY <1>2, <1>4, <1>6, ElementOfSeq
    <2>2. /\ SubSeq(rz, 1, Len(p)) \in Seq(S)
          /\ Len(SubSeq(rz, 1, Len(p))) = Len(p)
          /\ \A i \in 1..Len(p) : SubSeq(rz, 1, Len(p))[i] = rz[i]
        BY <1>2, <1>4, <1>6, <2>1, SubSeqProperties
    <2> QED BY <1>1, <2>2, SeqEqual
<1>7. ASSUME Len(p) <= Len(z)
      PROVE  (\A i \in 1..Len(p) : rp[i] = rz[i]) <=>
                 \A j \in 1..Len(p) : p[j] = z[(Len(z) - Len(p)) + j]
    <2>1. \A i \in 1..Len(p) : rp[i] = p[(Len(p) - i) + 1] /\ rz[i] = z[(Len(z) - i) + 1]
        BY <1>1, <1>2, <1>4, <1>7
    <2>2. ASSUME \A i \in 1..Len(p) : rp[i] = rz[i], NEW j \in 1..Len(p)
          PROVE  p[j] = z[(Len(z) - Len(p)) + j]
        <3>0. (Len(p) - j) + 1 \in 1..Len(p)
            BY <1>4
        <3>1. PICK i \in 1..Len(p) : i = (Len(p) - j) + 1
            BY <3>0
        <3>2. (Len(p) - i) + 1 = j /\ (Len(z) - i) + 1 = (Len(z) - Len(p)) + j
            BY <1>4, <3>1
        <3> QED BY <2>1, <2>2, <3>2
    <2>3. ASSUME \A j \in 1..Len(p) : p[j] = z[(Len(z) - Len(p)) + j], NEW i \in 1..Len(p)
          PROVE  rp[i] = rz[i]
        <3>0. (Len(p) - i) + 1 \in 1..Len(p)
            BY <1>4
        <3>1. PICK j \in 1..Len(p) : j = (Len(p) - i) + 1
            BY <3>0
        <3>2. (Len(p) - i) + 1 = j /\ (Len(z) - i) + 1 = (Len(z) - Len(p)) + j
            BY <1>4, <3>1
        <3> QED BY <2>1, <2>3, <3>2
    <2> QED BY <2>2, <2>3
<1> QED BY <1>1, <1>2, <1>3, <1>5, <1>6, <1>7

(* ... and said with a concatenation.                                      *)
LEMMA SuffixIsConcat ==
    ASSUME NEW S, NEW p \in Seq(S), NEW z \in Seq(S), NEW n \in 1..Len(z)
    PROVE  SubSeq(z, 1, n) \o p = z <=> IsStrictSuffix(p, z) /\ n = Len(z) - Len(p)
<1> DEFINE h == SubSeq(z, 1, n)
<1>1. Len(z) \in Nat /\ Len(p) \in Nat
    OBVIOUS
<1>2. h \in Seq(S) /\ Len(h) = n /\ \A i \in 1..n : h[i] = z[i]
    <2>1. \A i \in 1..n : z[i] \in S
        BY <1>1, ElementOfSeq
    <2> QED BY <1>1, <2>1, SubSeqProperties
<1> HIDE DEF h
<1>3. /\ h \o p \in Seq(S) /\ Len(h \o p) = n + Len(p)
      /\ \A i \in 1..(n + Len(p)) : (h \o p)[i] = IF i <= n THEN h[i] ELSE p[i - n]
    BY <1>2, ConcatProperties
<1>4. ASSUME h \o p = z PROVE IsStrictSuffix(p, z) /\ n = Len(z) - Len(p)
    <2>1. Len(z) = n + Len(p)
        BY <1>3, <1>4
    <2>2. ASSUME NEW j \in 1..Len(p) PROVE p[j] = z[(Len(z) - Len(p)) + j]
        <3>1. PICK i \in 1..(n + Len(p)) : i = n + j
            BY <1>1
        <3>2. ~(i <= n) /\ i - n = j /\ (Len(z) - Len(p)) + j = i
            BY <1>1, <2>1, <3>1
        <3> QED BY <1>3, <1>4, <3>2
    <2>3. Len(p) <= Len(z) /\ Len(p) # Len(z)
        BY <1>1, <2>1
    <2>4. IsSuffix(p, z)
        BY <2>2, <2>3, SuffixPositions
    <2> QED BY <1>1, <2>1, <2>3, <2>4 DEF IsStrictSuffix
<1>5. ASSUME IsStrictSuffix(p, z), n = Len(z) - Len(p) PROVE h \o p = z
    <2>1. \A j \in 1..Len(p) : p[j] = z[(Len(z) - Len(p)) + j]
        BY <1>5, SuffixPositions DEF IsStrictSuffix
    <2>2. n + Len(p) = Len(z)
        BY <1>1, <1>5
    <2>3. ASSUME NEW i \in 1..Len(z) PROVE (h \o p)[i] = z[i]
        <3>1. CASE i <= n
            BY <1>2, <1>3, <2>2, <3>1
        <3>2. CASE ~(i <= n)
            <4>1. PICK j \in 1..Len(p) : j = i - n
                BY <1>1, <2>2, <3>2
            <4>2. (Len(z) - Len(p)) + j = i
                BY <1>1, <2>2, <4>1
            <4>3. p[j] = z[i]
                BY <2>1, <4>2
            <4> QED BY <1>3, <2>2, <3>2, <4>1, <4>3
        <3> QED BY <3>1, <3>2
    <2> QED BY <1>3, <2>2, <2>3, SeqEqual
<1> QED BY <1>4, <1>5 DEF h

LEMMA StrictSuffixIsShorter ==
    ASSUME NEW S, NEW p \in Seq(S), NEW z \in Seq(S), IsStrictSuffix(p, z)
    PROVE  Len(z) - Len(p) \in 1..Len(z)
<1>1. Len(z) \in Nat /\ Len(p) \in Nat /\ Len(p) <= Len(z)
    BY SuffixPositions DEF IsStrictSuffix
<1>2. ASSUME Len(p) = Len(z) PROVE FALSE
    <2>1. \A j \in 1..Len(p) : p[j] = z[(Len(z) - Len(p)) + j]
        BY SuffixPositions DEF IsStrictSuffix
    <2>2. \A j \in 1..Len(p) : (Len(z) - Len(p)) + j = j
        BY <1>1, <1>2
    <2>3. p = z
        BY <1>2, <2>1, <2>2, SeqEqual
    <2> QED BY <2>3 DEF IsStrictSuffix
<1> QED BY <1>1, <1>2

(* The function and k8gb strip the parent zone in different ways, and agree *)
(* on every zone and parent, also when one is not under the other.         *)
LEMMA NamesAgree ==
    ASSUME NEW v, v.zone \in Words, v.parent \in Words, NEW tag
    PROVE  K8gbNsName(v, tag) = NsName(tag, v.zone, v.parent)
<1> DEFINE z == v.zone
           p == v.parent
           labels == {n \in 1..Len(z) : SubSeq(z, 1, n) \o p = z}
<1>1. \A n \in 1..Len(z) : n \in labels <=> IsStrictSuffix(p, z) /\ n = Len(z) - Len(p)
    BY SuffixIsConcat DEF Words
<1>2. CASE IsStrictSuffix(p, z)
    <2>1. labels = {Len(z) - Len(p)}
        BY <1>1, <1>2, StrictSuffixIsShorter DEF Words
    <2>2. labels # {} /\ (CHOOSE n \in labels : TRUE) = Len(z) - Len(p)
        BY <2>1
    <2> QED BY <1>2, <2>2 DEF K8gbNsName, NsName
<1>3. CASE ~IsStrictSuffix(p, z)
    <2>1. labels = {}
        BY <1>1, <1>3
    <2>2. SubSeq(z, 1, Len(z)) = z
        BY SubSeqFull DEF Words
    <2> QED BY <1>3, <2>1, <2>2 DEF K8gbNsName, NsName
<1> QED BY <1>2, <1>3

LEMMA PrefixType ==
    ASSUME NEW S, NEW z \in Seq(S), NEW n \in 0..Len(z)
    PROVE  SubSeq(z, 1, n) \in Seq(S)
<1>1. n \in Int /\ \A i \in 1..n : z[i] \in S
    BY ElementOfSeq
<1> QED BY <1>1, SubSeqProperties

LEMMA LabelType ==
    ASSUME NEW s \in Settings
    PROVE  Label(s) \in Words
<1>1. s.zone \in Seq(Word) /\ s.parent \in Seq(Word)
    BY SettingType DEF Words
<1>2. CASE IsStrictSuffix(s.parent, s.zone)
    <2>1. PICK n \in 1..Len(s.zone) : n = Len(s.zone) - Len(s.parent)
        BY <1>1, <1>2, StrictSuffixIsShorter
    <2>2. SubSeq(s.zone, 1, n) \in Seq(Word)
        BY <1>1, PrefixType
    <2> QED BY <1>2, <2>1, <2>2 DEF Label, Words
<1>3. CASE ~IsStrictSuffix(s.parent, s.zone)
    <2>1. SubSeq(s.zone, 1, Len(s.zone)) = s.zone
        BY <1>1, SubSeqFull
    <2> QED BY <1>1, <1>3, <2>1 DEF Label, Words
<1> QED BY <1>2, <1>3

(* What follows two words and two sequences of words of known length can be  *)
(* told apart again.                                                       *)
LEMMA ConcatSplits ==
    ASSUME NEW S, NEW s1 \in Seq(S), NEW s2 \in Seq(S), NEW t1 \in Seq(S), NEW t2 \in Seq(S),
           Len(t1) = Len(t2), s1 \o t1 = s2 \o t2
    PROVE  s1 = s2
<1>1. /\ Len(s1) \in Nat /\ Len(s2) \in Nat /\ Len(t1) \in Nat /\ Len(t2) \in Nat
      /\ Len(s1 \o t1) = Len(s1) + Len(t1) /\ Len(s2 \o t2) = Len(s2) + Len(t2)
    BY ConcatProperties
<1>2. Len(s1) = Len(s2)
    BY <1>1
<1>3. ASSUME NEW i \in 1..Len(s1) PROVE s1[i] = s2[i]
    <2>1. i \in 1..(Len(s1) + Len(t1)) /\ i \in 1..(Len(s2) + Len(t2)) /\ i <= Len(s2)
        BY <1>1, <1>2
    <2>2. (s1 \o t1)[i] = s1[i]
        BY <2>1, ConcatProperties
    <2>3. (s2 \o t2)[i] = s2[i]
        BY <2>1, ConcatProperties
    <2> QED BY <2>2, <2>3
<1> QED BY <1>2, <1>3, SeqEqual

LEMMA NameHasTag ==
    ASSUME NEW x \in ControlPlane, NEW y \in ControlPlane,
           NEW s \in Settings, NEW t \in Settings, Len(Label(s)) = Len(Label(t)),
           NsName(Tag(x, s), s.zone, s.parent) = NsName(Tag(y, t), t.zone, t.parent)
    PROVE  Tag(x, s) = Tag(y, t)
<1> DEFINE pre == <<"gslb", "ns">>
<1>1. /\ Tag(x, s) \in Words /\ Tag(y, t) \in Words
      /\ Label(s) \in Words /\ Label(t) \in Words
    BY TagType, LabelType
<1>2. pre \in Words
    BY PeersAssumption DEF Words
<1>3. (pre \o Tag(x, s)) \o Label(s) = (pre \o Tag(y, t)) \o Label(t)
    BY DEF NsName, Label
<1> HIDE DEF pre
<1>4. pre \o Tag(x, s) \in Words /\ pre \o Tag(y, t) \in Words
    BY <1>1, <1>2, ConcatProperties DEF Words
<1>5. pre \o Tag(x, s) = pre \o Tag(y, t)
    BY <1>1, <1>3, <1>4, ConcatSplits DEF Words
<1>6. \A u, v, w \in Seq(Word) : u \o v = u \o w => v = w
    BY ConcatSimplifications
<1> QED BY <1>1, <1>2, <1>5, <1>6 DEF Words

-----------------------------------------------------------------------------
(* What an XR can be found with                                            *)

(* The names x can publish: one for each setting its users choose from.     *)
NamesOf(x) == {NsName(Tag(x, s), s.zone, s.parent) : s \in Offer[x]}

(* The inductive invariant.  What a reconcile of x has read, planned and     *)
(* written is about a setting of x, and an XR that does not exist has left   *)
(* nothing behind.                                                         *)
OwnSettings ==
    \A x \in ControlPlane :
        /\ k8gb[x] \in Offer[x] \cup {Off}
        /\ "run" \in todo[x] => seen[x].setting \in Offer[x] \cup {Off}
        /\ "record" \in todo[x] => plan[x].nsName \in NamesOf(x) \cup {None}
        /\ nsName[x] \in NamesOf(x) \cup {None}
        /\ ~Present(x) => k8gb[x] = Off /\ release[x] = None /\ nsName[x] = None

LEMMA InitOwnSettings == Init => OwnSettings
<1> SUFFICES ASSUME Init, NEW x \in ControlPlane
             PROVE  /\ k8gb[x] \in Offer[x] \cup {Off}
                    /\ todo[x] = {} /\ nsName[x] = None /\ release[x] = None
                    /\ ~Present(x) => k8gb[x] = Off
    BY DEF OwnSettings
<1>1. todo[x] = {} /\ nsName[x] = None /\ release[x] = None
    BY DEF Init
<1>2. k8gb[x] \in (IF Live(x) THEN Offer[x] ELSE {}) \cup {Off}
    BY DEF Init
<1>3. Live(x) => Present(x)
    BY DEF Live, Present
<1> QED BY <1>1, <1>2, <1>3

LEMMA ReconcileOwnSettings ==
    ASSUME TypeOK, UpToDate, OwnSettings, NEW x \in ControlPlane, Reconcile(x)
    PROVE  OwnSettings'
<1>0. k8gb' = k8gb /\ phase' = phase /\ \A y \in ControlPlane : Present(y)' <=> Present(y)
    BY DEF Reconcile, Observe, RunFunction, Apply, Record, xrVars, Present
<1>1. Present(x)
    BY DEF Reconcile, Observe, RunFunction, Apply, Record, Done, UpToDate, Live, Present
<1>2. CASE Observe(x)
    BY <1>0, <1>2 DEF Observe, OwnSettings, TypeOK, composedVars
<1>3. CASE RunFunction(x)
    <2>1. seen[x].setting \in Offer[x] \cup {Off}
        BY <1>3 DEF RunFunction, OwnSettings
    <2>2. ComposeK8gb(x).nsName \in NamesOf(x) \cup {None}
        <3>1. CASE seen[x].setting = Off
            BY <3>1 DEF ComposeK8gb
        <3>2. CASE seen[x].setting # Off
            BY <2>1, <3>2 DEF ComposeK8gb, NamesOf
        <3> QED BY <3>1, <3>2
    <2> QED BY <1>0, <1>3, <2>2 DEF RunFunction, OwnSettings, TypeOK, composedVars
<1>4. CASE Apply(x)
    <2> USE <1>4 DEF Apply, Done
    <2>1. \A y \in ControlPlane :
              /\ "run" \in todo'[y] => "run" \in todo[y] /\ seen'[y] = seen[y]
              /\ "record" \in todo'[y] => "record" \in todo[y] /\ plan'[y] = plan[y]
        BY DEF TypeOK
    <2>3. \A y \in ControlPlane : y # x => release'[y] = release[y]
        BY DEF TypeOK
    <2> QED BY <1>0, <1>1, <2>1, <2>3 DEF OwnSettings, NamesOf
<1>5. CASE Record(x)
    <2> USE <1>5 DEF Record, Done
    <2>1. \A y \in ControlPlane :
              /\ "run" \in todo'[y] => "run" \in todo[y] /\ seen'[y] = seen[y]
              /\ "record" \in todo'[y] => "record" \in todo[y] /\ plan'[y] = plan[y]
        BY DEF TypeOK
    <2>2. plan[x].nsName \in NamesOf(x) \cup {None}
        BY DEF OwnSettings
    <2>3. \A y \in ControlPlane : nsName'[y] \in NamesOf(y) \cup {None}
        BY <2>2 DEF OwnSettings, TypeOK
    <2>4. \A y \in ControlPlane : y # x => nsName'[y] = nsName[y]
        BY DEF TypeOK
    <2> QED BY <1>0, <1>1, <2>1, <2>3, <2>4 DEF OwnSettings, NamesOf, composedVars
<1> QED BY <1>2, <1>3, <1>4, <1>5 DEF Reconcile

LEMMA EnvironmentOwnSettings ==
    ASSUME TypeOK, OwnSettings, NEW x \in ControlPlane,
           Abort(x) \/ Provider(x) \/ Gone(x) \/ User(x)
    PROVE  OwnSettings'
<1> USE DEF OwnSettings, TypeOK, NamesOf, Present
<1>1. CASE Abort(x)
    BY <1>1 DEF Abort, xrVars, composedVars
<1>2. CASE Reserve(x)
    BY <1>2 DEF Reserve, xrVars, reconcileVars
<1>3. CASE ReleaseGone(x) \/ AddressGone(x)
    BY <1>3 DEF ReleaseGone, AddressGone, xrVars, reconcileVars
<1>4. CASE Gone(x)
    BY <1>4 DEF Gone, reconcileVars
<1>5. CASE Create(x) \/ Change(x)
    BY <1>5 DEF Create, Change, Live, composedVars, reconcileVars
<1>6. CASE Delete(x)
    BY <1>6 DEF Delete, Live, composedVars, reconcileVars
<1> QED BY <1>1, <1>2, <1>3, <1>4, <1>5, <1>6 DEF Provider, User

LEMMA AlwaysOwnSettings == Spec => []OwnSettings
<1>1. TypeOK /\ UpToDate /\ OwnSettings /\ [Next]_vars => OwnSettings'
    <2> SUFFICES ASSUME TypeOK, UpToDate, OwnSettings, [Next]_vars PROVE OwnSettings'
        OBVIOUS
    <2>1. CASE UNCHANGED vars
        BY <2>1 DEF vars, OwnSettings, NamesOf, Present
    <2>2. CASE Next
        BY <2>2, ReconcileOwnSettings, EnvironmentOwnSettings DEF Next
    <2> QED BY <2>1, <2>2
<1> QED BY InitOwnSettings, AlwaysUpToDate, <1>1, PTL DEF Spec

-----------------------------------------------------------------------------
(* What unique tags are worth                                              *)

(* What the doc of derive_k8gb_geo_tag takes for granted, and neither the   *)
(* XRD nor the default tag ensures: ids are unique, and so are the tags the  *)
(* users of different XRs choose from, on one zone or everywhere.          *)
IdsApart == \A x, y \in ControlPlane : x # y => Id[x] # Id[y]
TagsApartOnZone ==
    \A x, y \in ControlPlane : x # y =>
        \A s \in Offer[x], t \in Offer[y] : s.zone = t.zone => Tag(x, s) # Tag(y, t)
TagsApart ==
    \A x, y \in ControlPlane : x # y =>
        \A s \in Offer[x], t \in Offer[y] : Tag(x, s) # Tag(y, t)

(* Zones under one parent are equally deep, as gslb.example.com and         *)
(* eu.example.com are: else tag "eu" on west.gslb.example.com and tag       *)
(* "eu-west" on gslb.example.com make one name.                            *)
ZonesAlike == \A s, t \in Settings : s.parent = t.parent => Len(Label(s)) = Len(Label(t))

LEMMA OfferedIsSetting ==
    ASSUME NEW x \in ControlPlane, NEW s \in Offer[x]
    PROVE  s \in Settings
BY DEF Settings

(* Up-to-date peers know each other, if ids are unique and so are the tags   *)
(* on each zone.                                                           *)
THEOREM PeersKnowEachOther ==
    ASSUME IdsApart, TagsApartOnZone
    PROVE  Spec => []PeersKnown
<1>1. TypeOK /\ UpToDate /\ OwnSettings => PeersKnown
    <2> SUFFICES ASSUME TypeOK, UpToDate, OwnSettings, NEW x \in current, NEW y \in current,
                        x # y, release[x].zone = release[y].zone
                 PROVE  release[y].tag \in release[x].ext
        BY DEF PeersKnown
    <2>1. /\ x \in ControlPlane /\ y \in ControlPlane
          /\ k8gb[x] # Off /\ k8gb[y] # Off /\ Present(y)
          /\ release[x] = Expected(x) /\ release[y] = Expected(y)
        BY DEF UpToDate, TypeOK
    <2>2. k8gb[x].zone = k8gb[y].zone /\ release[y].tag = Tag(y, k8gb[y])
        BY <2>1 DEF Expected
    <2>3. k8gb[x] \in Offer[x] /\ k8gb[y] \in Offer[y]
        BY <2>1 DEF OwnSettings
    <2>4. Id[y] # Id[x] /\ Tag(y, k8gb[y]) # Tag(x, k8gb[x])
        BY <2>1, <2>2, <2>3 DEF IdsApart, TagsApartOnZone
    <2>5. Tag(y, k8gb[y]) \in Expected(x).ext
        BY <2>1, <2>2, <2>4 DEF Expected
    <2> QED BY <2>1, <2>2, <2>5
<1> QED BY <1>1, AlwaysUpToDate, AlwaysOwnSettings, PTL

(* No two control planes ever publish one name server, if tags are unique   *)
(* and zones equally deep: a change of tag under way, a plan that is old    *)
(* when written, a name left by an XR that is going, all keep to the tags    *)
(* of their own XR.                                                        *)
THEOREM NamesStayApart ==
    ASSUME TagsApart, ZonesAlike
    PROVE  Spec => []NamesApart
<1>1. OwnSettings => NamesApart
    <2> SUFFICES ASSUME OwnSettings, NEW x \in ControlPlane, NEW y \in ControlPlane,
                        x # y, nsName[x] # None, nsName[x] = nsName[y]
                 PROVE  FALSE
        BY DEF NamesApart
    <2>1. nsName[x] \in NamesOf(x) /\ nsName[y] \in NamesOf(y)
        BY DEF OwnSettings
    <2>2. PICK s \in Offer[x] : nsName[x] = NsName(Tag(x, s), s.zone, s.parent)
        BY <2>1 DEF NamesOf
    <2>3. PICK t \in Offer[y] : nsName[y] = NsName(Tag(y, t), t.zone, t.parent)
        BY <2>1 DEF NamesOf
    <2>4. s \in Settings /\ t \in Settings
        BY OfferedIsSetting
    <2>5. NsName(Tag(x, s), s.zone, s.parent) = NsName(Tag(y, t), t.zone, t.parent)
        BY <2>2, <2>3
    <2>6. s.parent = t.parent
        BY <2>5 DEF NsName
    <2>7. Tag(x, s) = Tag(y, t)
        BY <2>4, <2>5, <2>6, NameHasTag DEF ZonesAlike
    <2> QED BY <2>7 DEF TagsApart
<1> QED BY <1>1, AlwaysOwnSettings, PTL

(* What a producer at rest has: its Release is up to date, whatever other   *)
(* XRs have been through since it was written.                             *)
LEMMA ProducerAtRest ==
    ASSUME TypeOK, AtRest, NEW x \in Producers
    PROVE  /\ x \in ControlPlane /\ k8gb[x] \in Settings
           /\ release[x].tag = Tag(x, k8gb[x]) /\ release[x].zone = k8gb[x].zone
           /\ release[x].parent = k8gb[x].parent /\ release[x].ext = ExtTags(x)
           /\ release[x] # None
           /\ nsName[x] = NsName(Tag(x, k8gb[x]), k8gb[x].zone, k8gb[x].parent)
           /\ seen[x].setting = k8gb[x]
<1>1. x \in ControlPlane /\ Live(x) /\ k8gb[x] # Off /\ k8gb[x] \in Settings
    BY DEF Producers, TypeOK
<1>2. /\ seen[x] = [setting |-> k8gb[x], address |-> address[x]]
      /\ address[x] # "asked" /\ todo[x] = {"run"}
    BY <1>1 DEF AtRest
<1>3. /\ ComposeK8gb(x).nsName = nsName[x]
      /\ ComposeK8gb(x).enabled <=> address[x] # "none"
      /\ ComposeK8gb(x).release = release[x]
    BY <1>1 DEF AtRest
<1> DEFINE r == [tag |-> Tag(x, k8gb[x]), zone |-> k8gb[x].zone,
                 parent |-> k8gb[x].parent, ext |-> ExtTags(x)]
<1>4. /\ ComposeK8gb(x).enabled
      /\ ComposeK8gb(x).nsName = NsName(Tag(x, k8gb[x]), k8gb[x].zone, k8gb[x].parent)
      /\ ComposeK8gb(x).release = IF address[x] = "reserved" THEN r ELSE None
    BY <1>1, <1>2 DEF ComposeK8gb
<1>5. address[x] = "reserved"
    BY <1>1, <1>2, <1>3, <1>4 DEF TypeOK
<1>6. release[x] = r
    BY <1>3, <1>4, <1>5
<1>7. seen[x] \in Views
    BY <1>1, <1>2 DEF TypeOK
<1>8. r \in Values
    <2>1. ComposeK8gb(x) \in Plans
        BY <1>1, <1>7, PlanType
    <2>2. r \in Values \cup {None}
        BY <1>4, <1>5, <2>1 DEF Plans
    <2>3. k8gb[x].zone \in Zones /\ k8gb[x].parent \in Parents /\ Tag(x, k8gb[x]) \in Tags
        BY <1>1 DEF Zones, Parents, Tags
    <2>4. ExtTags(x) \in SUBSET Tags
        BY <1>1 DEF ExtTags, PeersOf, TypeOK, Tags
    <2> QED BY <2>3, <2>4 DEF Values
<1>9. r # None
    BY <1>8, ValuesAssumption
<1>10. nsName[x] = NsName(Tag(x, k8gb[x]), k8gb[x].zone, k8gb[x].parent)
    BY <1>3, <1>4
<1>11. seen[x].setting = k8gb[x]
    BY <1>2
<1> QED BY <1>1, <1>6, <1>9, <1>10, <1>11

(* At rest the list is exactly the other producers on the zone.            *)
LEMMA ListAtRest ==
    ASSUME IdsApart, TagsApartOnZone, TypeOK, OwnSettings, AtRest, NEW x \in Producers
    PROVE  ExtTags(x) = {Tag(y, k8gb[y]) : y \in {z \in Producers \ {x} :
                                                   k8gb[z].zone = k8gb[x].zone}}
<1>1. /\ x \in ControlPlane /\ Live(x) /\ k8gb[x] # Off /\ k8gb[x] \in Offer[x]
      /\ seen[x].setting = k8gb[x]
    BY ProducerAtRest DEF Producers, OwnSettings
<1>2. \A y \in ControlPlane : Present(y) <=> Live(y)
    BY DEF AtRest, Present, Live, TypeOK
<1>3. PeersOf(x) = {z \in Producers \ {x} : k8gb[z].zone = k8gb[x].zone}
    BY <1>1, <1>2 DEF PeersOf, Producers, IdsApart
<1>4. \A y \in PeersOf(x) : Tag(y, k8gb[y]) # Tag(x, k8gb[x])
    BY <1>1, <1>3 DEF Producers, OwnSettings, TagsApartOnZone
<1>5. ExtTags(x) = {Tag(y, k8gb[y]) : y \in PeersOf(x)}
    BY <1>1, <1>4 DEF ExtTags
<1> QED BY <1>3, <1>5

(* When no reconcile would change anything, the fleet is delegated and      *)
(* connected, if ids are unique and so are the tags on each zone: for any   *)
(* number of control planes, whatever order they were reconciled in.       *)
THEOREM RestingPeersAreDelegated ==
    ASSUME IdsApart, TagsApartOnZone
    PROVE  Spec => []RestIsDelegated
<1>1. TypeOK /\ OwnSettings => RestIsDelegated
    <2> SUFFICES ASSUME TypeOK, OwnSettings, AtRest PROVE Delegated
        BY DEF RestIsDelegated
    <2>1. ASSUME NEW x \in ControlPlane \ Producers
          PROVE  release[x] = None /\ nsName[x] = None
        <3>1. CASE Live(x)
            <4>1. /\ k8gb[x] = Off /\ ComposeK8gb(x).nsName = nsName[x]
                  /\ ComposeK8gb(x).release = release[x]
                  /\ seen[x] = [setting |-> k8gb[x], address |-> address[x]]
                BY <3>1 DEF AtRest, Producers
            <4> QED BY <4>1 DEF ComposeK8gb
        <3>2. CASE ~Live(x)
            BY <3>2 DEF AtRest, OwnSettings, TypeOK, Present, Live
        <3> QED BY <3>1, <3>2
    <2>2. \A x \in Producers : release[x] # None
        BY ProducerAtRest
    <2>3. ASSUME NEW x \in Producers, NEW y \in Producers,
                 k8gb[y].zone = k8gb[x].zone, k8gb[y].parent = k8gb[x].parent
          PROVE  nsName[y] = K8gbNsName(release[x], release[y].tag)
        <3>1. /\ release[x].zone = k8gb[x].zone /\ release[x].parent = k8gb[x].parent
              /\ k8gb[x] \in Settings
            BY ProducerAtRest
        <3>2. release[x].zone \in Words /\ release[x].parent \in Words
            BY <3>1, SettingType
        <3>3. K8gbNsName(release[x], release[y].tag)
                = NsName(release[y].tag, release[x].zone, release[x].parent)
            BY <3>2, NamesAgree
        <3>4. /\ release[y].tag = Tag(y, k8gb[y])
              /\ nsName[y] = NsName(Tag(y, k8gb[y]), k8gb[y].zone, k8gb[y].parent)
            BY ProducerAtRest
        <3> QED BY <2>3, <3>1, <3>3, <3>4
    <2>4. ASSUME NEW x \in Producers
          PROVE  /\ nsName[x] = K8gbNsName(release[x], release[x].tag)
                 /\ release[x].ext = {Tag(y, k8gb[y]) : y \in {z \in Producers \ {x} :
                                                         k8gb[z].zone = k8gb[x].zone}}
        <3>1. nsName[x] = K8gbNsName(release[x], release[x].tag)
            BY <2>3
        <3>2. release[x].ext = ExtTags(x)
            BY ProducerAtRest
        <3> QED BY <3>1, <3>2, ListAtRest
    <2> QED BY <2>1, <2>2, <2>3, <2>4 DEF Delegated
<1> QED BY <1>1, TypeCorrect, AlwaysOwnSettings, PTL
=============================================================================
