--------------------------- MODULE CgroupsProofs ---------------------------
(***************************************************************************)
(* Proofs about Cgroups for any number of launchers, any of which may fail *)
(* or be killed: the shared directory goes away, and a container on its    *)
(* own has its limits.                                                     *)
(***************************************************************************)
EXTENDS Cgroups, TLAPS

-----------------------------------------------------------------------------
(* A container lives from the start of its launcher until cleanup; only    *)
(* one that has been attached is in the directory.                         *)
LiveInv ==
  /\ \A l \in live : pc[l] \notin {"start", "free", "returned", "left"}
  /\ \A l \in procs : pc[l] \in {"wait", "killed"}

(* The directory is never there when nobody is left to free it. *)
OwnedInv == dir => \E l \in Launchers : pc[l] \notin {"start", "returned"}

(* What a launcher that has met no other finds at each of its steps, and   *)
(* what it leaves in the directory.                                        *)
Before(f) == {g \in LimitFiles :
                CASE f = "memory.max" -> FALSE
                  [] f = "cpu.weight" -> g = "memory.max"
                  [] f = "pids.max" -> g # "pids.max"}

AloneInv ==
  \A l \in alone :
    /\ \A m \in Launchers \ {l} : Idle(m)
    /\ l \notin faulted =>
         /\ pc[l] = "mkdir_again" => ~dir
         /\ \A f \in LimitFiles : pc[l] = f => dir /\ Before(f) \subseteq limits
         /\ pc[l] = "attach" => dir /\ limits = LimitFiles

IInv == TypeOK /\ LiveInv /\ OwnedInv /\ AloneInv /\ AloneIsLimited

-----------------------------------------------------------------------------
LEMMA StepTypes == TypeOK /\ LiveInv /\ [Next]_vars => TypeOK' /\ LiveInv'
<1> SUFFICES ASSUME TypeOK, LiveInv, [Next]_vars PROVE TypeOK' /\ LiveInv'
  OBVIOUS
<1> USE DEF TypeOK, LiveInv, Labels, Goto, SameDir, NewDir, NoDir, Returns
<1>1. ASSUME NEW l \in Launchers, Start(l) PROVE TypeOK' /\ LiveInv'
  BY <1>1 DEF Start
<1>2. ASSUME NEW l \in Launchers, GiveUp(l) PROVE TypeOK' /\ LiveInv'
  BY <1>2 DEF GiveUp
<1>3. ASSUME NEW l \in Launchers, Mkdir(l) PROVE TypeOK' /\ LiveInv'
  BY <1>3 DEF Mkdir, CallFails, Breaks
<1>4. ASSUME NEW l \in Launchers, RmdirExisting(l) PROVE TypeOK' /\ LiveInv'
  BY <1>4 DEF RmdirExisting, CallFails, Breaks
<1>5. ASSUME NEW l \in Launchers, MkdirAgain(l) PROVE TypeOK' /\ LiveInv'
  BY <1>5 DEF MkdirAgain, CallFails, Breaks
<1>6. ASSUME NEW l \in Launchers, NEW f \in LimitFiles, WriteLimit(l, f)
      PROVE  TypeOK' /\ LiveInv'
  BY <1>6 DEF WriteLimit, CallFails, Breaks, LimitFiles, NextFile
<1>7. ASSUME NEW l \in Launchers, Attach(l) PROVE TypeOK' /\ LiveInv'
  BY <1>7 DEF Attach, CallFails, Breaks, Moved
<1>8. ASSUME NEW l \in Launchers, Wait(l) PROVE TypeOK' /\ LiveInv'
  BY <1>8 DEF Wait
<1>9. ASSUME NEW l \in Launchers, Free(l) PROVE TypeOK' /\ LiveInv'
  BY <1>9 DEF Free, Breaks
<1>10. ASSUME NEW l \in Launchers, ContainerEnds(l) PROVE TypeOK' /\ LiveInv'
  BY <1>10 DEF ContainerEnds
<1>11. ASSUME NEW l \in Launchers, LauncherKilled(l) PROVE TypeOK' /\ LiveInv'
  BY <1>11 DEF LauncherKilled
<1>12. ASSUME UNCHANGED vars PROVE TypeOK' /\ LiveInv'
  BY <1>12 DEF vars
<1> QED
  BY <1>1, <1>2, <1>3, <1>4, <1>5, <1>6, <1>7, <1>8, <1>9, <1>10, <1>11, <1>12
  DEF Next, Step, Over

-----------------------------------------------------------------------------
(* Only Mkdir and MkdirAgain make the directory, and only Free makes a     *)
(* launcher idle; what Free then leaves has a process inside, whose        *)
(* launcher is still to return.                                            *)
LEMMA StepOwned ==
  TypeOK /\ LiveInv /\ OwnedInv /\ [Next]_vars => OwnedInv'
<1> SUFFICES ASSUME TypeOK, LiveInv, OwnedInv, [Next]_vars PROVE OwnedInv'
  OBVIOUS
<1> USE DEF TypeOK, LiveInv, OwnedInv, Goto, SameDir, NewDir, NoDir, Returns
<1>1. ASSUME NEW l \in Launchers, Step(l), ~Free(l) PROVE OwnedInv'
  <2>1. pc'[l] \notin {"start", "returned"}
    BY <1>1 DEF Step, Start, GiveUp, Mkdir, RmdirExisting, MkdirAgain, WriteLimit,
                CallFails, Breaks, LimitFiles, NextFile, Attach, Wait
  <2> QED BY <2>1
<1>2. ASSUME NEW l \in Launchers, Free(l) PROVE OwnedInv'
  <2>1. CASE dir /\ procs # {}
    <3>1. PICK m \in procs : TRUE
      BY <2>1
    <3>2. m # l /\ pc'[m] \notin {"start", "returned"}
      BY <1>2 DEF Free, Breaks
    <3> QED BY <3>2
  <2>2. CASE ~(dir /\ procs # {})
    BY <1>2, <2>2 DEF Free, Frees, Breaks
  <2> QED BY <2>1, <2>2
<1>3. ASSUME NEW l \in Launchers, ContainerEnds(l) PROVE OwnedInv'
  BY <1>3 DEF ContainerEnds
<1>4. ASSUME NEW l \in Launchers, LauncherKilled(l) PROVE OwnedInv'
  BY <1>4 DEF LauncherKilled
<1>5. ASSUME UNCHANGED vars PROVE OwnedInv'
  BY <1>5 DEF vars
<1> QED BY <1>1, <1>2, <1>3, <1>4, <1>5 DEF Next, Over

-----------------------------------------------------------------------------
(* The others are idle while a launcher is alone: they change nothing, and *)
(* whoever starts is alone in its place, or nobody is.                     *)
LEMMA StepIdle ==
  ASSUME TypeOK, LiveInv, AloneInv, [Next]_vars
  PROVE  \A l \in alone' : \A m \in Launchers \ {l} : Idle(m)'
<1> USE DEF TypeOK, LiveInv, AloneInv, Idle, Goto, SameDir, NewDir, NoDir, Returns
<1>1. ASSUME NEW l \in Launchers, Start(l)
      PROVE  \A k \in alone' : \A m \in Launchers \ {k} : Idle(m)'
  BY <1>1 DEF Start
<1>2. ASSUME NEW l \in Launchers, Step(l), ~Start(l)
      PROVE  \A k \in alone' : \A m \in Launchers \ {k} : Idle(m)'
  <2>1. alone' = alone /\ pc[l] \notin {"start", "returned", "left", "killed"}
    BY <1>2 DEF Step, GiveUp, Mkdir, RmdirExisting, MkdirAgain, WriteLimit,
                CallFails, Breaks, LimitFiles, Attach, Wait, Free
  <2>2. \A m \in Launchers \ {l} : pc'[m] = pc[m] /\ (m \in live' => m \in live)
    BY <1>2 DEF Step, GiveUp, Mkdir, RmdirExisting, MkdirAgain, WriteLimit,
                CallFails, Breaks, LimitFiles, Attach, Wait, Free
  <2> QED BY <2>1, <2>2
<1>3. ASSUME NEW l \in Launchers, ContainerEnds(l) \/ LauncherKilled(l)
      PROVE  \A k \in alone' : \A m \in Launchers \ {k} : Idle(m)'
  BY <1>3 DEF ContainerEnds, LauncherKilled
<1>4. ASSUME UNCHANGED vars
      PROVE  \A k \in alone' : \A m \in Launchers \ {k} : Idle(m)'
  BY <1>4 DEF vars
<1> QED BY <1>1, <1>2, <1>3, <1>4 DEF Next, Over

(* The parts of AloneInv and AloneIsLimited for one launcher. *)
Prepared(l) ==
  l \notin faulted =>
    /\ pc[l] = "mkdir_again" => ~dir
    /\ \A f \in LimitFiles : pc[l] = f => dir /\ Before(f) \subseteq limits
    /\ pc[l] = "attach" => dir /\ limits = LimitFiles
    /\ pc[l] = "wait" => result[l] = "ok" /\ (l \in live => Limited(l))

LEMMA PreparedParts ==
  AloneInv /\ AloneIsLimited
    <=> \A l \in alone : Prepared(l) /\ \A m \in Launchers \ {l} : Idle(m)
BY DEF AloneInv, AloneIsLimited, Prepared

LEMMA StepPrepared ==
  ASSUME TypeOK, LiveInv, [Next]_vars, NEW l \in alone', TypeOK',
         l \in alone => Prepared(l) /\ \A m \in Launchers \ {l} : Idle(m)
  PROVE  Prepared(l)'
<1> USE DEF TypeOK, LiveInv, Prepared, Idle, Goto, SameDir, NewDir, NoDir, Returns,
            Limited
<1>1. ASSUME NEW m \in Launchers, Start(m) PROVE Prepared(l)'
  BY <1>1 DEF Start, LimitFiles
<1>2. CASE l \in alone /\ GiveUp(l)
  BY <1>2 DEF GiveUp, LimitFiles
<1>3. CASE l \in alone /\ Mkdir(l)
  BY <1>3 DEF Mkdir, CallFails, Breaks, LimitFiles, Before
<1>4. CASE l \in alone /\ RmdirExisting(l)
  <2>1. procs = {}
    BY <1>4 DEF RmdirExisting, CallFails, Breaks
  <2> QED BY <1>4, <2>1 DEF RmdirExisting, CallFails, Breaks, LimitFiles
<1>5. CASE l \in alone /\ MkdirAgain(l)
  BY <1>5 DEF MkdirAgain, CallFails, Breaks, LimitFiles, Before
<1>6. ASSUME NEW f \in LimitFiles, l \in alone, WriteLimit(l, f) PROVE Prepared(l)'
  <2>1. CASE f = "memory.max"
    BY <1>6, <2>1 DEF WriteLimit, CallFails, Breaks, LimitFiles, NextFile, Before
  <2>2. CASE f = "cpu.weight"
    BY <1>6, <2>2 DEF WriteLimit, CallFails, Breaks, LimitFiles, NextFile, Before
  <2>3. CASE f = "pids.max"
    BY <1>6, <2>3 DEF WriteLimit, CallFails, Breaks, LimitFiles, NextFile, Before
  <2> QED BY <2>1, <2>2, <2>3 DEF LimitFiles
<1>7. CASE l \in alone /\ Attach(l)
  BY <1>7 DEF Attach, CallFails, Breaks, Moved, LimitFiles
<1>8. CASE l \in alone /\ (Wait(l) \/ Free(l))
  BY <1>8 DEF Wait, Free, Breaks, LimitFiles
<1>9. ASSUME NEW m \in Launchers \ {l}, l \in alone, Step(m) PROVE Prepared(l)'
  <2>1. Start(m)
    BY <1>9 DEF Step, GiveUp, Mkdir, RmdirExisting, MkdirAgain, WriteLimit,
                LimitFiles, Attach, Wait, Free
  <2> QED BY <2>1, <1>1
<1>10. ASSUME NEW m \in Launchers, l \in alone, ContainerEnds(m) PROVE Prepared(l)'
  BY <1>10 DEF ContainerEnds
<1>11. ASSUME NEW m \in Launchers, l \in alone, LauncherKilled(m) PROVE Prepared(l)'
  BY <1>11 DEF LauncherKilled, LimitFiles
<1>12. CASE UNCHANGED vars
  BY <1>12 DEF vars
<1>13. l \in alone \/ \E m \in Launchers : Start(m)
  BY DEF Next, vars, Over, Step, GiveUp, Mkdir, RmdirExisting, MkdirAgain,
         WriteLimit, Attach, Wait, Free, ContainerEnds, LauncherKilled
<1> QED
  BY <1>1, <1>2, <1>3, <1>4, <1>5, <1>6, <1>7, <1>8, <1>9, <1>10, <1>11, <1>12,
     <1>13
  DEF Next, Step, Over

-----------------------------------------------------------------------------
LEMMA Invariance == Spec => []IInv
<1>1. Init => IInv
  BY DEF Init, IInv, TypeOK, LiveInv, OwnedInv, AloneInv, AloneIsLimited, Labels
<1>2. IInv /\ [Next]_vars => IInv'
  <2> SUFFICES ASSUME IInv, [Next]_vars PROVE IInv'
    OBVIOUS
  <2>1. TypeOK' /\ LiveInv'
    BY StepTypes DEF IInv
  <2>2. OwnedInv'
    BY StepOwned DEF IInv
  <2>3. \A l \in alone : Prepared(l) /\ \A m \in Launchers \ {l} : Idle(m)
    BY PreparedParts DEF IInv
  <2>4. \A l \in alone' : Prepared(l)'
    BY <2>1, <2>3, StepPrepared DEF IInv
  <2>5. \A l \in alone' : \A m \in Launchers \ {l} : Idle(m)'
    BY StepIdle DEF IInv
  <2>6. AloneInv' /\ AloneIsLimited'
    BY <2>4, <2>5 DEF AloneInv, AloneIsLimited, Prepared
  <2> QED BY <2>1, <2>2, <2>6 DEF IInv
<1> QED BY <1>1, <1>2, PTL DEF Spec

(* The types of the variables; a process in the directory is alive.        *)
THEOREM Typed == Spec => []TypeOK
<1>1. IInv => TypeOK
  BY DEF IInv
<1> QED BY <1>1, Invariance, PTL

(* However many launchers share the directory, and whichever of them made, *)
(* replaced or tried to free it: when all have returned it is gone         *)
(* (cgroups.c:119-137).                                                    *)
THEOREM DirectoryGone == Spec => []NothingLeft
<1>1. IInv => NothingLeft
  BY DEF IInv, OwnedInv, NothingLeft
<1> QED BY <1>1, Invariance, PTL

(* A container that overlaps no other is limited, whatever directory it    *)
(* found (cgroups.c:95-110), for any number of launchers before it.        *)
THEOREM LonersAreLimited == Spec => []AloneIsLimited
<1>1. IInv => AloneIsLimited
  BY DEF IInv
<1> QED BY <1>1, Invariance, PTL
=============================================================================
