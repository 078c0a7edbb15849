------------------------ MODULE LicenseRegistryProofs ------------------------
(* Proofs about the registry: for any control planes and licenses.         *)
EXTENDS LicenseRegistry, TLAPS

LEMMA RegistryInit == Init => TypeOK /\ OneUser
<1> SUFFICES ASSUME Init PROVE TypeOK /\ OneUser
    OBVIOUS
<1>1. TypeOK
    BY DEF Init, TypeOK
<1>2. OneUser
    BY DEF Init, OneUser, Users
<1> QED BY <1>1, <1>2

LEMMA RegistryStep == TypeOK /\ OneUser /\ [Next]_vars => (TypeOK /\ OneUser)'
<1> SUFFICES ASSUME TypeOK, OneUser, [Next]_vars PROVE (TypeOK /\ OneUser)'
    OBVIOUS
<1> USE DEF TypeOK, OneUser, Users
<1>1. ASSUME NEW x \in ControlPlane, Settle(x) PROVE (TypeOK /\ OneUser)'
    <2>1. PICK kept \in SUBSET uses[x], r \in Secret \cup {None} :
            /\ r \in kept \cup {None}
            /\ uses' = [uses EXCEPT ![x] = kept]
            /\ record' = [record EXCEPT ![x] = r]
        BY <1>1 DEF Settle
    <2>2. contested' = contested
        BY <1>1 DEF Settle
    <2>3. TypeOK'
        BY <2>1, <2>2
    <2>4. \A y \in ControlPlane : uses'[y] \subseteq uses[y]
        BY <2>1
    <2>5. OneUser'
        BY <2>2, <2>4
    <2> QED BY <2>3, <2>5
<1>2. ASSUME NEW x \in ControlPlane, NEW s \in Secret, Take(x, s)
      PROVE  (TypeOK /\ OneUser)'
    <2>1. PICK kept \in SUBSET uses[x] : uses' = [uses EXCEPT ![x] = kept \cup {s}]
        BY <1>2 DEF Take
    <2>2. /\ contested' = contested \cup {t \in {s} : Users(t) \cap Others(x) # {}}
          /\ record' = record /\ record[x] \in uses'[x] \cup {None}
        BY <1>2 DEF Take
    <2>3. TypeOK'
        BY <2>1, <2>2
    <2>4. ASSUME NEW t \in Secret \ contested', NEW y \in Users(t)', NEW z \in Users(t)'
          PROVE  y = z
        <3>1. t \notin contested /\ (t = s => \A w \in Others(x) : s \notin uses[w])
            BY <2>2, <2>4 DEF Others
        <3>2. \A w \in Others(x) : uses'[w] = uses[w]
            BY <2>1 DEF Others
        <3>3. CASE t = s
            BY <2>4, <3>1, <3>2, <3>3 DEF Others
        <3>4. CASE t # s
            BY <2>1, <2>4, <3>1, <3>4
        <3> QED BY <3>3, <3>4
    <2> QED BY <2>3, <2>4
<1>3. CASE UNCHANGED vars
    BY <1>3 DEF vars
<1> QED BY <1>1, <1>2, <1>3 DEF Next

(* A license that was never contested has one user.                        *)
THEOREM RegistryIsExclusive == Spec => [](TypeOK /\ OneUser)
<1> QED BY RegistryInit, RegistryStep, PTL DEF Spec
=============================================================================
