------------------------------ MODULE Lifecycle ------------------------------
(***************************************************************************)
(* What one run of barco promises to its user, without saying how: one     *)
(* container at most is made, the host's resources for it are acquired     *)
(* before its command starts and released only when it is over, and the    *)
(* exit code speaks of this container.                                     *)
(***************************************************************************)
EXTENDS Integers

VARIABLES
  needed,     \* the request: without these the command may not start
  phase,      \* of the container: "idle", "preparing", "running", "ended"
  held,       \* the host's resources that exist for it
  boss,       \* the launcher: "up", "returned", "killed"
  status,     \* how the container ended
  answer      \* the launcher's exit code, once it has returned

vars == <<needed, phase, held, boss, status, answer>>

Resources == {"link", "limits", "nat"}

Init ==
  /\ needed \subseteq Resources
  /\ phase = "idle" /\ held = {} /\ boss = "up" /\ status = 0 /\ answer = 0

Acquire(r) ==
  /\ boss = "up" /\ phase # "running"
  /\ held' = held \cup {r}
  /\ UNCHANGED <<needed, phase, boss, status, answer>>

Release(r) ==
  /\ phase \in {"idle", "ended"}
  /\ held' = held \ {r}
  /\ UNCHANGED <<needed, phase, boss, status, answer>>

Enter ==
  /\ boss = "up" /\ phase = "idle" /\ phase' = "preparing"
  /\ UNCHANGED <<needed, held, boss, status, answer>>

Start ==
  /\ phase = "preparing" /\ needed \subseteq held
  /\ phase' = "running"
  /\ UNCHANGED <<needed, held, boss, status, answer>>

(* Without its command a container never ends with success. *)
End(s) ==
  /\ phase \in {"preparing", "running"}
  /\ phase = "preparing" => s # 0
  /\ phase' = "ended" /\ status' = s
  /\ UNCHANGED <<needed, held, boss, answer>>

Return(a) ==
  /\ boss = "up" /\ phase \in {"idle", "ended"}
  /\ phase = "ended" => a \in {1, status}
  /\ boss' = "returned" /\ answer' = a
  /\ UNCHANGED <<needed, phase, held, status>>

Die ==
  /\ boss = "up" /\ boss' = "killed"
  /\ UNCHANGED <<needed, phase, held, status, answer>>

Next ==
  \/ \E r \in Resources : Acquire(r) \/ Release(r)
  \/ \E n \in 0..255 : End(n) \/ Return(n)
  \/ Enter \/ Start \/ Die

Spec == Init /\ [][Next]_vars
=============================================================================
