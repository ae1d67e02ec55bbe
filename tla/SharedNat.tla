------------------------------ MODULE SharedNat ------------------------------
(***************************************************************************)
(* setup_nat() and cleanup_nat() of src/barco.c, run by several launchers  *)
(* at once whose containers are on one subnet: iptables normalises         *)
(* "-s 10.0.0.2/24" to 10.0.0.0/24, so that they all name the same rules.  *)
(* "iptables -C R || iptables -A R" is two processes, and two steps.       *)
(***************************************************************************)
EXTENDS Integers, FiniteSets

CONSTANTS
  Launchers,   \* the runs of barco with --nat on this host
  Failing,     \* launchers whose iptables commands may fail
  MayCrash     \* launchers that may be killed

ASSUME NatAssumption ==
  IsFiniteSet(Launchers) /\ Failing \cup MayCrash \subseteq Launchers

VARIABLES
  pc,          \* what each launcher does next
  at,          \* the rule it is at
  applied,     \* the launchers with nat_applied = 1
  copies,      \* how many copies of each rule the tables hold
  alone,       \* history: a launcher that no other has overlapped
  kept         \* history: <<l, r>> where l's own deletion of rule r failed

vars == <<pc, at, applied, copies, alone, kept>>

Masquerade == 1
ForwardSrc == 2
ForwardEstablished == 3
Rules == {Masquerade, ForwardSrc, ForwardEstablished}

Labels == {"start", "check", "add", "run", "delete", "returned", "killed"}

-----------------------------------------------------------------------------
Goto(l, next, r) == pc' = [pc EXCEPT ![l] = next] /\ at' = [at EXCEPT ![l] = r]

(* setup_nat() is done with rule r: a result of 0 sets nat_applied. *)
AfterRule(l, r) ==
  IF r = ForwardEstablished
    THEN Goto(l, "run", Masquerade) /\ applied' = applied \cup {l}
    ELSE Goto(l, "check", r + 1) /\ UNCHANGED applied

Idle(l) == pc[l] \in {"start", "returned", "killed"}

Start(l) ==
  /\ pc[l] = "start" /\ Goto(l, "check", Masquerade)
  /\ alone' = IF \A m \in Launchers \ {l} : Idle(m) THEN {l} ELSE {}
  /\ UNCHANGED <<applied, copies, kept>>

(* iptables -C: any failure, not only a missing rule, leads to -A. *)
Present(r) == copies[r] > 0

Check(l) ==
  /\ pc[l] = "check"
  /\ \/ Present(at[l]) /\ AfterRule(l, at[l])
     \/ /\ ~Present(at[l]) \/ l \in Failing
        /\ Goto(l, "add", at[l]) /\ UNCHANGED applied
  /\ UNCHANGED <<copies, alone, kept>>

(* iptables -A *)
Add(l) ==
  /\ pc[l] = "add" /\ AfterRule(l, at[l])
  /\ copies' = [copies EXCEPT ![at[l]] = @ + 1]
  /\ UNCHANGED <<alone, kept>>

(* Without its masquerade rule setup_nat() fails, which main() survives;   *)
(* a forward rule that cannot be added is only logged.                     *)
M_AddFails(l) ==                        \* mutant: every failure returns -1
  /\ pc[l] = "add" /\ l \in Failing
  /\ Goto(l, "run", Masquerade) /\ UNCHANGED <<applied, copies, alone, kept>>

M_OnlyLogged(l) ==                      \* mutant: no failure returns -1
  /\ pc[l] = "add" /\ l \in Failing
  /\ AfterRule(l, at[l]) /\ UNCHANGED <<copies, alone, kept>>

AddFails(l) ==
  /\ pc[l] = "add" /\ l \in Failing
  /\ IF at[l] = Masquerade
       THEN Goto(l, "run", Masquerade) /\ UNCHANGED applied
       ELSE AfterRule(l, at[l])
  /\ UNCHANGED <<copies, alone, kept>>

(* The container has ended, or a later step of main() has failed. *)
End(l) ==
  /\ pc[l] = "run"
  /\ Goto(l, IF l \in applied THEN "delete" ELSE "returned", Masquerade)
  /\ UNCHANGED <<applied, copies, alone, kept>>

(* iptables -D removes one copy, or fails when there is none. cleanup_nat() *)
(* goes on with its next rule whatever the command has answered.            *)
OneFewer(n) == IF n = 0 THEN 0 ELSE n - 1

AfterDeletion(l) ==
  IF at[l] = ForwardEstablished THEN Goto(l, "returned", at[l])
                                ELSE Goto(l, "delete", at[l] + 1)

Delete(l) ==
  /\ pc[l] = "delete" /\ AfterDeletion(l)
  /\ copies' = [copies EXCEPT ![at[l]] = OneFewer(@)]
  /\ UNCHANGED <<applied, alone, kept>>

(* iptables does not wait for the lock of the tables (no -w): it may fail  *)
(* with the rule present, and nobody looks at the result.                  *)
DeleteFails(l) ==
  /\ pc[l] = "delete" /\ l \in Failing /\ Present(at[l])
  /\ AfterDeletion(l)
  /\ kept' = kept \cup {<<l, at[l]>>}
  /\ UNCHANGED <<applied, copies, alone>>

LauncherKilled(l) ==
  /\ l \in MayCrash /\ pc[l] \notin {"returned", "killed"}
  /\ Goto(l, "killed", at[l])
  /\ UNCHANGED <<applied, copies, alone, kept>>

Step(l) ==
  \/ Start(l) \/ Check(l) \/ Add(l) \/ AddFails(l) \/ End(l) \/ Delete(l)
  \/ DeleteFails(l)

Over ==
  /\ \A l \in Launchers : pc[l] \in {"returned", "killed"}
  /\ UNCHANGED vars

Next == (\E l \in Launchers : Step(l) \/ LauncherKilled(l)) \/ Over

Init ==
  /\ pc = [l \in Launchers |-> "start"]
  /\ at = [l \in Launchers |-> Masquerade]
  /\ applied = {} /\ copies = [r \in Rules |-> 0] /\ alone = {} /\ kept = {}

Spec == Init /\ [][Next]_vars

-----------------------------------------------------------------------------
(* Launcher l may have added a copy of r and has not deleted it: it still  *)
(* will, it was killed, or its own iptables -D of r has failed.            *)
Owes(l, r) ==
  \/ pc[l] = "killed" \/ <<l, r>> \in kept
  \/ pc[l] \in {"check", "add"} /\ at[l] > r
  \/ pc[l] = "run" /\ l \in applied
  \/ pc[l] = "delete" /\ at[l] <= r

(* setup_nat() and cleanup_nat() balance: however launchers race, and      *)
(* whichever checks and additions fail, the tables never hold more copies  *)
(* of a rule than there are launchers that will still delete one, were     *)
(* killed, or whose own deletion of it failed. When all have returned, a   *)
(* rule is left only by launchers that were killed or could not delete it. *)
NoLeak ==
  \A r \in Rules : copies[r] <= Cardinality({l \in Launchers : Owes(l, r)})

(* A container that overlaps no other has its masquerade rule, whatever a  *)
(* killed launcher has left in the tables.                                 *)
AloneIsTranslated ==
  \A l \in alone \cap applied : pc[l] = "run" => copies[Masquerade] > 0
=============================================================================
