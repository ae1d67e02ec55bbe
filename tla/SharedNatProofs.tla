-------------------------- MODULE SharedNatProofs --------------------------
(***************************************************************************)
(* Proofs about SharedNat for any finite number of launchers, any of which *)
(* may fail or be killed: additions and deletions of the rules balance.    *)
(***************************************************************************)
EXTENDS SharedNat, FiniteSetTheorems, TLAPS

-----------------------------------------------------------------------------
(* The variables have their types, and nat_applied is only set when the    *)
(* rules have been gone through.                                           *)
TypeInv ==
  /\ pc \in [Launchers -> Labels] /\ at \in [Launchers -> Rules]
  /\ applied \subseteq Launchers /\ alone \subseteq Launchers
  /\ copies \in [Rules -> Nat] /\ kept \subseteq Launchers \X Rules

AppliedInv == \A l \in applied : pc[l] \notin {"start", "check", "add"}

(* A deletion can only have failed when the rules have been gone through.  *)
KeptInv ==
  \A l \in Launchers, r \in Rules :
    <<l, r>> \in kept => pc[l] \in {"delete", "returned", "killed"}

(* A launcher that has met no other still meets none; beyond the first     *)
(* rule it has seen that rule present.                                     *)
AloneInv ==
  \A l \in alone :
    /\ \A m \in Launchers \ {l} : Idle(m)
    /\ pc[l] \in {"check", "add"} /\ at[l] # Masquerade => copies[Masquerade] > 0

Owers(r) == {l \in Launchers : Owes(l, r)}

-----------------------------------------------------------------------------
(* What one member more or less does to the size of a set.                 *)
LEMMA OneMember ==
  ASSUME NEW A, NEW B, IsFiniteSet(A), IsFiniteSet(B), NEW l, A \ {l} \subseteq B
  PROVE  /\ Cardinality(A) \in Nat /\ Cardinality(B) \in Nat
         /\ Cardinality(A) <= Cardinality(B) + 1
         /\ (l \in A => l \in B) => Cardinality(A) <= Cardinality(B)
         /\ l \notin A /\ l \in B => Cardinality(A) + 1 <= Cardinality(B)
<1>1. Cardinality(A) \in Nat /\ Cardinality(B) \in Nat
  BY FS_CardinalityType
<1>2. (l \in A => l \in B) => Cardinality(A) <= Cardinality(B)
  <2>1. SUFFICES ASSUME l \in A => l \in B PROVE A \in SUBSET B
    BY FS_Subset
  <2> QED BY <2>1
<1>3. l \notin A /\ l \in B => Cardinality(A) + 1 <= Cardinality(B)
  <2> SUFFICES ASSUME l \notin A, l \in B
               PROVE  Cardinality(A) + 1 <= Cardinality(B)
    OBVIOUS
  <2>1. A \cup {l} \in SUBSET B
    OBVIOUS
  <2>2. Cardinality(A \cup {l}) <= Cardinality(B)
    BY <2>1, FS_Subset
  <2> QED BY <2>2, FS_AddElement
<1>4. Cardinality(A) <= Cardinality(B) + 1
  <2>1. A \in SUBSET (B \cup {l})
    OBVIOUS
  <2>2. IsFiniteSet(B \cup {l})
    BY FS_AddElement
  <2>3. Cardinality(A) <= Cardinality(B \cup {l})
    BY <2>1, <2>2, FS_Subset
  <2>4. Cardinality(B \cup {l}) = IF l \in B THEN Cardinality(B)
                                             ELSE Cardinality(B) + 1
    BY FS_AddElement
  <2> QED BY <1>1, <2>3, <2>4
<1> QED BY <1>1, <1>2, <1>3, <1>4

-----------------------------------------------------------------------------
LEMMA InitTypes == Init => TypeInv /\ AppliedInv /\ KeptInv /\ AloneInv
BY DEF Init, TypeInv, AppliedInv, KeptInv, AloneInv, Labels, Rules, Masquerade,
       ForwardSrc, ForwardEstablished

LEMMA NextTypes ==
  TypeInv /\ AppliedInv /\ KeptInv /\ [Next]_vars
    => TypeInv' /\ AppliedInv' /\ KeptInv'
<1> SUFFICES ASSUME TypeInv, AppliedInv, KeptInv, [Next]_vars
             PROVE  TypeInv' /\ AppliedInv' /\ KeptInv'
  OBVIOUS
<1> USE DEF TypeInv, AppliedInv, KeptInv, Labels, Rules, Masquerade, ForwardSrc,
            ForwardEstablished, Goto
<1>1. ASSUME NEW l \in Launchers, Start(l)
      PROVE  TypeInv' /\ AppliedInv' /\ KeptInv'
  BY <1>1 DEF Start
<1>2. ASSUME NEW l \in Launchers, Check(l)
      PROVE  TypeInv' /\ AppliedInv' /\ KeptInv'
  BY <1>2 DEF Check, AfterRule
<1>3. ASSUME NEW l \in Launchers, Add(l)
      PROVE  TypeInv' /\ AppliedInv' /\ KeptInv'
  BY <1>3 DEF Add, AfterRule
<1>4. ASSUME NEW l \in Launchers, AddFails(l)
      PROVE  TypeInv' /\ AppliedInv' /\ KeptInv'
  BY <1>4 DEF AddFails, AfterRule
<1>5. ASSUME NEW l \in Launchers, End(l)
      PROVE  TypeInv' /\ AppliedInv' /\ KeptInv'
  BY <1>5 DEF End
<1>6. ASSUME NEW l \in Launchers, Delete(l)
      PROVE  TypeInv' /\ AppliedInv' /\ KeptInv'
  BY <1>6 DEF Delete, AfterDeletion, OneFewer
<1>7. ASSUME NEW l \in Launchers, DeleteFails(l)
      PROVE  TypeInv' /\ AppliedInv' /\ KeptInv'
  BY <1>7 DEF DeleteFails, AfterDeletion
<1>8. ASSUME NEW l \in Launchers, LauncherKilled(l)
      PROVE  TypeInv' /\ AppliedInv' /\ KeptInv'
  BY <1>8 DEF LauncherKilled
<1>9. ASSUME UNCHANGED vars PROVE TypeInv' /\ AppliedInv' /\ KeptInv'
  BY <1>9 DEF vars
<1> QED
  BY <1>1, <1>2, <1>3, <1>4, <1>5, <1>6, <1>7, <1>8, <1>9 DEF Next, Step, Over

(* Alone: a launcher leaves its idle state only by starting, which makes   *)
(* it the one that is alone, or nobody.                                    *)
LEMMA NextAlone ==
  TypeInv /\ AppliedInv /\ AloneInv /\ AloneIsTranslated /\ [Next]_vars
    => AloneInv' /\ AloneIsTranslated'
<1> SUFFICES ASSUME TypeInv, AppliedInv, AloneInv, AloneIsTranslated, [Next]_vars
             PROVE  AloneInv' /\ AloneIsTranslated'
  OBVIOUS
<1> USE DEF TypeInv, AppliedInv, AloneInv, AloneIsTranslated, Idle, Labels, Rules,
            Masquerade, ForwardSrc, ForwardEstablished, Goto
<1>1. ASSUME NEW l \in Launchers, Start(l) PROVE AloneInv' /\ AloneIsTranslated'
  BY <1>1 DEF Start
<1>2. ASSUME NEW l \in Launchers, Check(l) PROVE AloneInv' /\ AloneIsTranslated'
  BY <1>2 DEF Check, AfterRule, Present
<1>3. ASSUME NEW l \in Launchers, Add(l) PROVE AloneInv' /\ AloneIsTranslated'
  BY <1>3 DEF Add, AfterRule
<1>4. ASSUME NEW l \in Launchers, AddFails(l) PROVE AloneInv' /\ AloneIsTranslated'
  BY <1>4 DEF AddFails, AfterRule
<1>5. ASSUME NEW l \in Launchers, End(l) PROVE AloneInv' /\ AloneIsTranslated'
  BY <1>5 DEF End
<1>6. ASSUME NEW l \in Launchers, Delete(l) PROVE AloneInv' /\ AloneIsTranslated'
  BY <1>6 DEF Delete, AfterDeletion, OneFewer
<1>7. ASSUME NEW l \in Launchers, DeleteFails(l)
      PROVE  AloneInv' /\ AloneIsTranslated'
  BY <1>7 DEF DeleteFails, AfterDeletion
<1>8. ASSUME NEW l \in Launchers, LauncherKilled(l)
      PROVE  AloneInv' /\ AloneIsTranslated'
  BY <1>8 DEF LauncherKilled
<1>9. ASSUME UNCHANGED vars PROVE AloneInv' /\ AloneIsTranslated'
  BY <1>9 DEF vars
<1> QED
  BY <1>1, <1>2, <1>3, <1>4, <1>5, <1>6, <1>7, <1>8, <1>9 DEF Next, Step, Over

-----------------------------------------------------------------------------
(* A step of launcher l: nobody else comes to owe more or less.            *)
OnlyOf(l) ==
  \A m \in Launchers \ {l} :
    /\ pc'[m] = pc[m] /\ at'[m] = at[m] /\ (m \in applied' <=> m \in applied)
    /\ \A r \in Rules : <<m, r>> \in kept' <=> <<m, r>> \in kept

LEMMA OneOwer ==
  ASSUME NEW l \in Launchers, OnlyOf(l), NEW r \in Rules
  PROVE  /\ Cardinality(Owers(r)) \in Nat /\ Cardinality(Owers(r)') \in Nat
         /\ Cardinality(Owers(r)) <= Cardinality(Owers(r)') + 1
         /\ (Owes(l, r) => Owes(l, r)')
              => Cardinality(Owers(r)) <= Cardinality(Owers(r)')
         /\ ~Owes(l, r) /\ Owes(l, r)'
              => Cardinality(Owers(r)) + 1 <= Cardinality(Owers(r)')
<1>1. IsFiniteSet(Owers(r)) /\ IsFiniteSet(Owers(r)')
  BY NatAssumption, FS_Subset DEF Owers
<1>2. Owers(r) \ {l} \subseteq Owers(r)'
  BY DEF Owers, Owes, OnlyOf
<1>3. (l \in Owers(r) <=> Owes(l, r)) /\ (l \in Owers(r)' <=> Owes(l, r)')
  BY DEF Owers
<1> QED BY <1>1, <1>2, <1>3, OneMember

(* The balance of one rule over one step, by what the step does to the     *)
(* copies of the rule and to the debt of its launcher.                     *)
Balanced(r) == copies[r] <= Cardinality(Owers(r))

LEMMA KeepsBalance ==
  ASSUME TypeInv, TypeInv', NEW l \in Launchers, OnlyOf(l), NEW r \in Rules,
         Balanced(r),
         \/ copies'[r] = copies[r] /\ (Owes(l, r) => Owes(l, r)')
         \/ copies'[r] = copies[r] + 1 /\ ~Owes(l, r) /\ Owes(l, r)'
         \/ copies'[r] = OneFewer(copies[r])
  PROVE  Balanced(r)'
<1>1. copies[r] \in Nat /\ copies'[r] \in Nat
  BY DEF TypeInv
<1> QED BY <1>1, OneOwer DEF Balanced, OneFewer

LEMMA NextBalance ==
  ASSUME TypeInv, TypeInv', AppliedInv, KeptInv, [Next]_vars, NEW r \in Rules,
         Balanced(r)
  PROVE  Balanced(r)'
<1> USE DEF Labels, Rules, Masquerade, ForwardSrc, ForwardEstablished, Goto, Owes
<1>a. ASSUME NEW l \in Launchers, Step(l) \/ LauncherKilled(l) PROVE OnlyOf(l)
  BY <1>a DEF OnlyOf, Step, Start, Check, Add, AddFails, End, Delete,
              DeleteFails, AfterDeletion, AfterRule, LauncherKilled, TypeInv
<1>b. \A l \in Launchers : l \in applied => pc[l] \notin {"start", "check", "add"}
  BY DEF AppliedInv, TypeInv
<1>1. ASSUME NEW l \in Launchers, Start(l) PROVE Balanced(r)'
  <2>1. copies'[r] = copies[r] /\ (Owes(l, r) => Owes(l, r)')
    BY <1>1 DEF Start, TypeInv
  <2> QED BY <1>1, <1>a, <2>1, KeepsBalance DEF Step
<1>2. ASSUME NEW l \in Launchers, Check(l) PROVE Balanced(r)'
  <2>1. copies'[r] = copies[r] /\ (Owes(l, r) => Owes(l, r)')
    BY <1>2 DEF Check, AfterRule, TypeInv
  <2> QED BY <1>2, <1>a, <2>1, KeepsBalance DEF Step
<1>3. ASSUME NEW l \in Launchers, Add(l) PROVE Balanced(r)'
  <2>1. CASE at[l] = r
    <3>1. <<l, r>> \notin kept
      BY <1>3 DEF Add, KeptInv
    <3>2. copies'[r] = copies[r] + 1 /\ ~Owes(l, r) /\ Owes(l, r)'
      BY <1>3, <1>b, <2>1, <3>1 DEF Add, AfterRule, TypeInv
    <3> QED BY <1>3, <1>a, <3>2, KeepsBalance DEF Step
  <2>2. CASE at[l] # r
    <3>1. copies'[r] = copies[r] /\ (Owes(l, r) => Owes(l, r)')
      BY <1>3, <2>2 DEF Add, AfterRule, TypeInv
    <3> QED BY <1>3, <1>a, <3>1, KeepsBalance DEF Step
  <2> QED BY <2>1, <2>2
<1>4. ASSUME NEW l \in Launchers, AddFails(l) PROVE Balanced(r)'
  <2>1. copies'[r] = copies[r] /\ (Owes(l, r) => Owes(l, r)')
    BY <1>4 DEF AddFails, AfterRule, TypeInv
  <2> QED BY <1>4, <1>a, <2>1, KeepsBalance DEF Step
<1>5. ASSUME NEW l \in Launchers, End(l) PROVE Balanced(r)'
  <2>1. copies'[r] = copies[r] /\ (Owes(l, r) => Owes(l, r)')
    BY <1>5 DEF End, TypeInv
  <2> QED BY <1>5, <1>a, <2>1, KeepsBalance DEF Step
<1>6. ASSUME NEW l \in Launchers, Delete(l) PROVE Balanced(r)'
  <2>1. CASE at[l] = r
    <3>1. copies'[r] = OneFewer(copies[r])
      BY <1>6, <2>1 DEF Delete, AfterDeletion, TypeInv
    <3> QED BY <1>6, <1>a, <3>1, KeepsBalance DEF Step
  <2>2. CASE at[l] # r
    <3>1. copies'[r] = copies[r] /\ (Owes(l, r) => Owes(l, r)')
      BY <1>6, <2>2 DEF Delete, AfterDeletion, TypeInv
    <3> QED BY <1>6, <1>a, <3>1, KeepsBalance DEF Step
  <2> QED BY <2>1, <2>2
<1>7. ASSUME NEW l \in Launchers, DeleteFails(l) PROVE Balanced(r)'
  <2>1. copies'[r] = copies[r] /\ (Owes(l, r) => Owes(l, r)')
    BY <1>7 DEF DeleteFails, AfterDeletion, TypeInv
  <2> QED BY <1>7, <1>a, <2>1, KeepsBalance DEF Step
<1>8. ASSUME NEW l \in Launchers, LauncherKilled(l) PROVE Balanced(r)'
  <2>1. copies'[r] = copies[r] /\ (Owes(l, r) => Owes(l, r)')
    BY <1>8 DEF LauncherKilled, TypeInv
  <2> QED BY <1>8, <1>a, <2>1, KeepsBalance
<1>9. ASSUME UNCHANGED vars PROVE Balanced(r)'
  BY <1>9 DEF vars, Balanced, Owers
<1> QED
  BY <1>1, <1>2, <1>3, <1>4, <1>5, <1>6, <1>7, <1>8, <1>9 DEF Next, Step, Over

-----------------------------------------------------------------------------
IInv ==
  /\ TypeInv /\ AppliedInv /\ KeptInv /\ AloneInv /\ AloneIsTranslated
  /\ \A r \in Rules : Balanced(r)

LEMMA Invariance == Spec => []IInv
<1>1. Init => IInv
  <2> SUFFICES ASSUME Init PROVE IInv
    OBVIOUS
  <2>1. TypeInv /\ AppliedInv /\ KeptInv /\ AloneInv
    BY InitTypes
  <2>2. AloneIsTranslated
    BY DEF Init, AloneIsTranslated
  <2>3. ASSUME NEW r \in Rules PROVE Balanced(r)
    <3>1. Cardinality(Owers(r)) \in Nat
      BY NatAssumption, FS_Subset, FS_CardinalityType DEF Owers
    <3> QED BY <3>1 DEF Init, Balanced
  <2> QED BY <2>1, <2>2, <2>3 DEF IInv
<1>2. IInv /\ [Next]_vars => IInv'
  <2> SUFFICES ASSUME IInv, [Next]_vars PROVE IInv'
    OBVIOUS
  <2>1. TypeInv' /\ AppliedInv' /\ KeptInv'
    BY NextTypes DEF IInv
  <2>2. AloneInv' /\ AloneIsTranslated'
    BY NextAlone DEF IInv
  <2>3. ASSUME NEW r \in Rules PROVE Balanced(r)'
    BY <2>1, NextBalance DEF IInv
  <2> QED BY <2>1, <2>2, <2>3 DEF IInv
<1> QED BY <1>1, <1>2, PTL DEF Spec

(* setup_nat() and cleanup_nat() balance for any number of launchers and   *)
(* any failing commands: no rule has more copies than launchers that will  *)
(* still delete one, were killed, or whose own deletion of it failed       *)
(* (barco.c:88-150).                                                       *)
THEOREM RulesBalance == Spec => []NoLeak
<1>1. IInv => NoLeak
  BY DEF IInv, Balanced, Owers, NoLeak
<1> QED BY <1>1, Invariance, PTL

(* A container that overlaps no other has its masquerade rule, among any   *)
(* number of launchers that come before and after it (barco.c:94-103).     *)
THEOREM LonersAreTranslated == Spec => []AloneIsTranslated
<1>1. IInv => AloneIsTranslated
  BY DEF IInv
<1> QED BY <1>1, Invariance, PTL
=============================================================================
