------------------------ MODULE BackupIdentityProofs ------------------------
(* Proofs about BackupIdentity, for any characters and ids, any suffix and  *)
(* lengths that fit together, and any number of ControlPlanes.             *)
EXTENDS BackupIdentity, WellFoundedInduction, TLAPS

-----------------------------------------------------------------------------
(* Stripping                                                               *)

LEMMA LeastNatural ==
    ASSUME NEW T, T \subseteq Nat, T # {}
    PROVE  \E m \in T : \A n \in T : m <= n
<1>1. PICK m \in T : \A n \in T : ~(<<n, m>> \in OpToRel(<, Nat))
    BY NatLessThanWellFounded, WFMin
<1>2. ASSUME NEW n \in T PROVE m <= n
    <2>1. <<n, m>> \in Nat \X Nat /\ ~(<<n, m>> \in OpToRel(<, Nat))
        BY <1>1
    <2> QED BY <2>1 DEF OpToRel
<1> QED BY <1>2

(* RStrip cuts off trailing dashes and nothing else.                       *)
LEMMA RStripCuts ==
    ASSUME NEW S, NEW s \in Seq(S)
    PROVE  \E n \in 0..Len(s) : /\ RStrip(s) = SubSeq(s, 1, n)
                                /\ \A m \in (n + 1)..Len(s) : s[m] = Dash
                                /\ n = 0 \/ s[n] # Dash
<1> DEFINE T == {n \in 0..Len(s) : \A m \in (n + 1)..Len(s) : s[m] = Dash}
<1>1. Len(s) \in T /\ T \subseteq Nat
    OBVIOUS
<1>2. PICK n \in T : \A k \in T : n <= k
    BY <1>1, LeastNatural
<1>3. n = 0 \/ s[n] # Dash
    <2> SUFFICES ASSUME n # 0, s[n] = Dash PROVE FALSE
        OBVIOUS
    <2>0. n \in 0..Len(s) /\ Len(s) \in Nat /\ \A m \in (n + 1)..Len(s) : s[m] = Dash
        BY <1>2
    <2> HIDE DEF T
    <2>1. n - 1 \in 0..Len(s) /\ \A m \in ((n - 1) + 1)..Len(s) : s[m] = Dash
        <3>1. \A m \in n..Len(s) : m = n \/ m \in (n + 1)..Len(s)
            BY <2>0
        <3> QED BY <2>0, <3>1
    <2>2. n - 1 \in T
        BY <2>1 DEF T
    <2> QED BY <1>2, <2>0, <2>2
<1>4. \E k \in 0..Len(s) : (\A m \in (k + 1)..Len(s) : s[m] = Dash) /\ (k = 0 \/ s[k] # Dash)
    BY <1>2, <1>3
<1> QED BY <1>4 DEF RStrip

(* LStrip cuts off leading dashes and nothing else.                        *)
LEMMA LStripCuts ==
    ASSUME NEW S, NEW s \in Seq(S)
    PROVE  \E n \in 1..(Len(s) + 1) : /\ LStrip(s) = SubSeq(s, n, Len(s))
                                      /\ \A m \in 1..(n - 1) : s[m] = Dash
                                      /\ n = Len(s) + 1 \/ s[n] # Dash
<1> DEFINE T == {n \in 1..(Len(s) + 1) : n = Len(s) + 1 \/ s[n] # Dash}
<1>1. Len(s) + 1 \in T /\ T \subseteq Nat
    OBVIOUS
<1>2. PICK n \in T : \A k \in T : n <= k
    BY <1>1, LeastNatural
<1>3. ASSUME NEW m \in 1..(n - 1) PROVE s[m] = Dash
    <2>1. m \in 1..(Len(s) + 1) /\ m # Len(s) + 1 /\ ~(n <= m)
        BY <1>2
    <2> QED BY <1>2, <2>1
<1>4. \E k \in 1..(Len(s) + 1) :
        (\A m \in 1..(k - 1) : s[m] = Dash) /\ (k = Len(s) + 1 \/ s[k] # Dash)
    BY <1>2, <1>3
<1> QED BY <1>4 DEF LStrip

LEMMA StripsAreLegal ==
    ASSUME NEW s \in Seq(Legal)
    PROVE  RStrip(s) \in Seq(Legal) /\ LStrip(s) \in Seq(Legal)
<1>1. RStrip(s) \in Seq(Legal)
    <2>1. PICK n \in 0..Len(s) : RStrip(s) = SubSeq(s, 1, n)
        BY RStripCuts
    <2> QED BY <2>1
<1>2. LStrip(s) \in Seq(Legal)
    <2>1. PICK n \in 1..(Len(s) + 1) : LStrip(s) = SubSeq(s, n, Len(s))
        BY LStripCuts
    <2> QED BY <2>1
<1> QED BY <1>1, <1>2

-----------------------------------------------------------------------------
(* backup_sa_account_id                                                    *)

LEMMA SanitizedIsLegal ==
    ASSUME NEW i \in Ids
    PROVE  Sanitize(i) \in Seq(Legal)
<1>1. Len(i) \in Nat
    BY BackupAssumption
<1> QED BY <1>1 DEF Sanitize, Legal

LEMMA StartsWithLetter ==
    ASSUME NEW s \in Seq(Legal)
    PROVE  /\ LetterFirst(s) \in Seq(Legal)
           /\ Len(LetterFirst(s)) >= 1 /\ LetterFirst(s)[1] \in Letter
<1>1. CASE s = <<>> \/ s[1] \notin Letter
    <2>1. G \in Legal /\ LetterFirst(s) = <<G>> \o s
        BY <1>1, BackupAssumption DEF LetterFirst, Legal
    <2> QED BY <2>1, BackupAssumption
<1>2. CASE s # <<>> /\ s[1] \in Letter
    BY <1>2 DEF LetterFirst
<1> QED BY <1>1, <1>2

(* Whatever the id, what precedes the suffix has 1 to Room characters, a     *)
(* letter first and no dash last.                                          *)
LEMMA BaseIsValid ==
    ASSUME NEW i \in Ids
    PROVE  \E b \in Seq(Legal) :
                /\ AccountId(i) = b \o Suffix
                /\ Len(b) >= 1 /\ Len(b) <= Room
                /\ b[1] \in Letter /\ b[Len(b)] # Dash
<1> DEFINE g == LetterFirst(LStrip(RStrip(Sanitize(i))))
           c == Cut(g, Room)
<1>1. LStrip(RStrip(Sanitize(i))) \in Seq(Legal)
    BY SanitizedIsLegal, StripsAreLegal
<1>2. g \in Seq(Legal) /\ Len(g) >= 1 /\ g[1] \in Letter
    BY <1>1, StartsWithLetter
<1> HIDE DEF g
<1>3. c \in Seq(Legal) /\ Len(c) >= 1 /\ Len(c) <= Room /\ c[1] \in Letter
    <2>1. PICK k \in 1..Len(g) : k <= Room /\ c = SubSeq(g, 1, k)
        <3>1. Room \in Nat \ {0} /\ Len(g) \in Nat
            BY <1>2, BackupAssumption
        <3>2. CASE Len(g) < Room
            BY <1>2, <3>1, <3>2 DEF Cut
        <3>3. CASE ~(Len(g) < Room)
            BY <1>2, <3>1, <3>3 DEF Cut
        <3> QED BY <3>2, <3>3
    <2>2. SubSeq(g, 1, k) \in Seq(Legal) /\ Len(SubSeq(g, 1, k)) = k /\ SubSeq(g, 1, k)[1] = g[1]
        BY <1>2
    <2> QED BY <1>2, <2>1, <2>2
<1> HIDE DEF c
<1>4. PICK n \in 0..Len(c) : /\ RStrip(c) = SubSeq(c, 1, n)
                             /\ \A m \in (n + 1)..Len(c) : c[m] = Dash
                             /\ n = 0 \/ c[n] # Dash
    BY <1>3, RStripCuts
<1>5. n >= 1
    <2> SUFFICES ASSUME n = 0 PROVE FALSE
        OBVIOUS
    <2>1. c[1] = Dash
        BY <1>3, <1>4
    <2> QED BY <1>3, <2>1, BackupAssumption
<1>6. /\ RStrip(c) \in Seq(Legal) /\ Len(RStrip(c)) = n
      /\ RStrip(c)[1] = c[1] /\ RStrip(c)[n] = c[n]
    BY <1>3, <1>4, <1>5
<1>7. AccountId(i) = RStrip(c) \o Suffix
    BY DEF AccountId, c, g
<1>8. Len(RStrip(c)) <= Room
    BY <1>3, <1>4, <1>6, BackupAssumption
<1>9. RStrip(c)[Len(RStrip(c))] # Dash /\ RStrip(c)[1] \in Letter /\ Len(RStrip(c)) >= 1
    BY <1>3, <1>4, <1>5, <1>6
<1> QED BY <1>6, <1>7, <1>8, <1>9

LEMMA EveryAccountIsValid ==
    ASSUME NEW i \in Ids
    PROVE  ValidAccount(AccountId(i))
<1>1. PICK b \in Seq(Legal) : /\ AccountId(i) = b \o Suffix
                              /\ Len(b) >= 1 /\ Len(b) <= Room
                              /\ b[1] \in Letter /\ b[Len(b)] # Dash
    BY BaseIsValid
<1>2. Suffix \in Seq(Legal) /\ Room \in Nat /\ MinLen \in Nat /\ MaxLen \in Nat
    BY BackupAssumption
<1>3. /\ AccountId(i) \in Seq(Legal) /\ Len(AccountId(i)) = Len(b) + Len(Suffix)
      /\ AccountId(i)[1] = b[1]
      /\ AccountId(i)[Len(b)] = b[Len(b)]
    BY <1>1, <1>2
<1>4. Len(AccountId(i)) \in MinLen..MaxLen
    BY <1>1, <1>2, <1>3, BackupAssumption
<1>5. Len(AccountId(i)) - Len(Suffix) = Len(b)
    BY <1>1, <1>2, <1>3
<1> QED BY <1>1, <1>3, <1>4, <1>5 DEF ValidAccount

-----------------------------------------------------------------------------
(* Clean ids                                                               *)

(* Nothing is changed in a clean id, so clean ids keep apart.               *)
LEMMA CleanIsUnchanged ==
    ASSUME NEW i \in Ids, Clean(i)
    PROVE  AccountId(i) = i \o Suffix
<1>1. /\ i \in Seq(Legal) /\ Len(i) >= 1 /\ Len(i) <= Room
      /\ i[1] \in Letter /\ i[1] # Dash /\ i[Len(i)] # Dash
    <2>1. i \in Seq(DOMAIN Lower) /\ Dash \notin Letter
        BY BackupAssumption
    <2> QED BY <2>1 DEF Clean
<1>2. Sanitize(i) = i
    BY <1>1 DEF Sanitize, Clean
<1>3. RStrip(i) = i
    <2>1. PICK n \in 0..Len(i) : /\ RStrip(i) = SubSeq(i, 1, n)
                                 /\ \A m \in (n + 1)..Len(i) : i[m] = Dash
        BY <1>1, RStripCuts
    <2>2. n = Len(i)
        BY <1>1, <2>1
    <2> QED BY <1>1, <2>1, <2>2
<1>4. LStrip(i) = i
    <2>1. PICK n \in 1..(Len(i) + 1) : /\ LStrip(i) = SubSeq(i, n, Len(i))
                                       /\ \A m \in 1..(n - 1) : i[m] = Dash
        BY <1>1, LStripCuts
    <2>2. n = 1
        BY <1>1, <2>1
    <2> QED BY <1>1, <2>1, <2>2
<1>5. LetterFirst(i) = i
    BY <1>1 DEF LetterFirst
<1>6. Cut(i, Room) = i
    BY <1>1, BackupAssumption DEF Cut
<1> QED BY <1>2, <1>3, <1>4, <1>5, <1>6 DEF AccountId

LEMMA CleanIdsKeepApart ==
    ASSUME NEW i \in Ids, NEW j \in Ids, Clean(i), Clean(j), AccountId(i) = AccountId(j)
    PROVE  i = j
<1>1. i \in Seq(DOMAIN Lower) /\ j \in Seq(DOMAIN Lower) /\ Suffix \in Seq(Legal)
    BY BackupAssumption
<1>2. i \o Suffix = j \o Suffix
    BY CleanIsUnchanged
<1>3. Len(i) = Len(j)
    BY <1>1, <1>2
<1>4. \A n \in 1..Len(i) : i[n] = (i \o Suffix)[n] /\ j[n] = (j \o Suffix)[n]
    BY <1>1, <1>3
<1> QED BY <1>1, <1>2, <1>3, <1>4

-----------------------------------------------------------------------------
(* The results                                                             *)

LEMMA InitType == Init => TypeOK
    BY BackupAssumption DEF Init, TypeOK

LEMMA NextType ==
    ASSUME TypeOK, [Next]_vars
    PROVE  TypeOK'
<1>1. CASE UNCHANGED vars
    BY <1>1 DEF vars, TypeOK
<1>2. ASSUME NEW x \in ControlPlane, Reconcile(x) PROVE TypeOK'
    BY <1>2 DEF Reconcile, Compose, Withdraw, TypeOK
<1>3. ASSUME NEW x \in ControlPlane, Provider(x) PROVE TypeOK'
    BY <1>3 DEF Provider, Provision, CanProvision, FinishDelete, TypeOK
<1>4. ASSUME NEW x \in ControlPlane, Toggle(x) \/ UxpComesUp(x) \/ UxpFails(x) PROVE TypeOK'
    <2>1. edits' \in 0..MaxEdits /\ faults' \in 0..MaxFaults
        BY <1>4, BackupAssumption DEF Toggle, UxpComesUp, UxpFails, TypeOK
    <2>2. id' = id /\ account' = account /\ identity' = identity /\ cloud' = cloud
        BY <1>4 DEF Toggle, UxpComesUp, UxpFails
    <2>3. enabled' \in [ControlPlane -> BOOLEAN] /\ uxp' \in [ControlPlane -> BOOLEAN]
        BY <1>4 DEF Toggle, UxpComesUp, UxpFails, TypeOK
    <2> QED BY <2>1, <2>2, <2>3 DEF TypeOK
<1> QED BY <1>1, <1>2, <1>3, <1>4 DEF Next

(* Every reachable state has the types of TypeOK, and no account is left     *)
(* behind by an XR that no longer answers for it.                          *)
THEOREM TypeCorrect == Spec => []TypeOK
    BY InitType, NextType, PTL DEF Spec

(* GCP accepts the account id of every control plane, for every id.         *)
THEOREM AccountsAreValid == Spec => []AccountValid
<1>1. TypeOK => AccountValid
    <2> SUFFICES ASSUME TypeOK, NEW x \in ControlPlane PROVE ValidAccount(account[x])
        BY DEF AccountValid
    <2>1. id[x] \in Ids /\ account[x] = AccountId(id[x])
        BY DEF TypeOK
    <2> QED BY <2>1, EveryAccountIsValid
<1> QED BY <1>1, TypeCorrect, PTL

(* The inductive invariant: an account that is not shared is there.         *)
KeptInv ==
    \A x \in ControlPlane :
        /\ identity[x] = "ready"
        /\ \A y \in ControlPlane \ {x} : account[y] # account[x]
        => account[x] \in cloud

(* A control plane keeps its account, if ids are clean and differ.          *)
THEOREM IdentitiesAreKept == Spec => []IdentityKept
<1>1. Init => KeptInv
    BY DEF Init, KeptInv
<1>2. TypeOK /\ KeptInv /\ [Next]_vars => KeptInv'
    <2> SUFFICES ASSUME TypeOK, KeptInv, [Next]_vars PROVE KeptInv'
        OBVIOUS
    <2>1. CASE UNCHANGED vars
        BY <2>1 DEF vars, KeptInv
    <2>2. ASSUME NEW x \in ControlPlane, Reconcile(x) PROVE KeptInv'
        BY <2>2 DEF Reconcile, Compose, Withdraw, TypeOK, KeptInv
    <2>3. ASSUME NEW x \in ControlPlane, Provision(x) PROVE KeptInv'
        BY <2>3 DEF Provision, CanProvision, TypeOK, KeptInv
    <2>4. ASSUME NEW x \in ControlPlane, FinishDelete(x) PROVE KeptInv'
        BY <2>4 DEF FinishDelete, TypeOK, KeptInv
    <2>5. ASSUME NEW x \in ControlPlane, Toggle(x) \/ UxpComesUp(x) \/ UxpFails(x) PROVE KeptInv'
        BY <2>5 DEF Toggle, UxpComesUp, UxpFails, KeptInv
    <2> QED BY <2>1, <2>2, <2>3, <2>4, <2>5 DEF Next, Provider
<1>3. TypeOK /\ KeptInv => IdentityKept
    <2> SUFFICES ASSUME TypeOK, KeptInv, NEW x \in ControlPlane,
                        identity[x] = "ready", Clean(id[x]),
                        \A y \in ControlPlane \ {x} : Clean(id[y]) /\ id[y] # id[x]
                 PROVE  account[x] \in cloud
        BY DEF IdentityKept
    <2>1. \A y \in ControlPlane \ {x} : account[y] # account[x]
        BY CleanIdsKeepApart DEF TypeOK
    <2> QED BY <2>1 DEF KeptInv
<1> QED BY <1>1, <1>2, <1>3, TypeCorrect, PTL DEF Spec

(* For any ids, shared accounts included: where nothing is left to do the    *)
(* accounts in the project are those of the XRs that want one.             *)
THEOREM RestingAccountsAreExact == Spec => []RestIsExact
<1>1. TypeOK => RestIsExact
    <2> SUFFICES ASSUME TypeOK, AtRest
                 PROVE  cloud = {account[x] : x \in {y \in ControlPlane : Wanted(y)}}
        BY DEF RestIsExact, Exact
    <2>1. ASSUME NEW x \in ControlPlane PROVE identity[x] = "ready" <=> Wanted(x)
        BY <2>1 DEF AtRest, CanProvision, TypeOK
    <2>2. ASSUME NEW x \in ControlPlane, Wanted(x) PROVE account[x] \in cloud
        BY <2>1, <2>2 DEF AtRest, CanProvision
    <2>3. ASSUME NEW a \in cloud PROVE \E x \in ControlPlane : Wanted(x) /\ account[x] = a
        <3>1. PICK x \in ControlPlane : identity[x] \in {"ready", "deleting"} /\ account[x] = a
            BY DEF TypeOK
        <3>2. identity[x] = "ready"
            BY <3>1 DEF AtRest
        <3> QED BY <2>1, <3>1, <3>2
    <2> QED BY <2>2, <2>3
<1> QED BY <1>1, TypeCorrect, PTL
=============================================================================
