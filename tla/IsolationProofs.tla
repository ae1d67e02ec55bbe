-------------------------- MODULE IsolationProofs --------------------------
(***************************************************************************)
(* Proofs about Isolation for any number of containers, any root file      *)
(* systems, any list of capabilities and any set of failing calls.         *)
(***************************************************************************)
EXTENDS Isolation, TLAPS

-----------------------------------------------------------------------------
(* The calls in their order, from one of them on. *)
FromRunning == {"running"}
FromExec == FromRunning \cup {"exec"}
FromDrop == FromExec \cup {"drop", "inherit", "seccomp"}
FromPing == FromDrop \cup {"ping", "unshare"}
FromDns == FromPing \cup {"dns_open", "dns_write"}
FromRmdir == FromDns \cup {"rmdir", "proc"}
FromUmount == FromRmdir \cup {"umount"}
FromChdir == FromUmount \cup {"chdir"}
FromBind == FromChdir \cup {"bind", "inner", "pivot"}
FromOuter == FromBind \cup {"outer"}
Labels == FromOuter \cup {"start", "private", "dead"}

CapSets ==
  [bounding : SUBSET AllCaps, inheritable : SUBSET AllCaps,
   permitted : SUBSET AllCaps]

TypeInv ==
  /\ mnt \in [Containers -> Dirs] /\ pc \in [Containers -> Labels]
  /\ root \in [Containers -> {"host", "new"}]
  /\ cwd \in [Containers -> {"host", "new"}]
  /\ DOMAIN resolv = Dirs
  /\ caps \in [Containers -> CapSets] /\ step \in [Containers -> Nat]
  /\ DOMAIN broken = Containers
  /\ private \cup old \cup outer \cup inner \cup filtered \subseteq Containers

(* mount_set(): what has been done at each call. *)
MountInv(c) ==
  /\ pc[c] \in FromOuter => c \in private
  /\ pc[c] \in FromBind => c \in outer
  /\ pc[c] \in FromChdir => root[c] = "new"
  /\ pc[c] \in FromUmount => cwd[c] = "new"
  /\ c \in old => pc[c] \in {"chdir", "umount", "dead"}
  /\ c \in inner =>
       \/ pc[c] \in {"pivot", "chdir", "umount", "rmdir"}
       \/ pc[c] = "dead"
            /\ broken[c] \cap {"pivot", "chdir", "umount", "rmdir"} # {}

(* sec_set_caps() and sec_set_seccomp(): the bounding set has lost what is *)
(* behind the index, nothing is inherited, and all is permitted until      *)
(* execve().                                                               *)
CapsInv(c) ==
  /\ step[c] <= Len(DropCaps)
  /\ pc[c] \notin FromDrop /\ pc[c] # "dead" => step[c] = 0
  /\ pc[c] \in FromDrop =>
       /\ caps[c].inheritable = {}
       /\ \A i \in 1..step[c] : DropCaps[i] \notin caps[c].bounding
       /\ caps[c].permitted = IF pc[c] = "running" THEN caps[c].bounding ELSE AllCaps
  /\ pc[c] = "inherit" => step[c] = Len(DropCaps)
  /\ pc[c] \in {"seccomp", "exec", "running"}
       /\ broken[c] \cap {"drop", "inherit"} = {} => step[c] = Len(DropCaps)
  /\ pc[c] \in FromExec /\ c \notin filtered => "seccomp" \in broken[c]

(* setup_dns(): a container that has written its file finds it so until    *)
(* another one of the same root file system comes; and whose file is empty *)
(* is still to write it, or has failed to.                                 *)
Alone(c) == \A o \in Containers \ {c} : mnt[o] # mnt[c]

ResolvInv ==
  /\ \A c \in Containers :
       pc[c] \in FromPing /\ broken[c] \cap {"dns_open", "dns_write"} = {} /\ Alone(c)
         => resolv[mnt[c]] = c
  /\ \A d \in Dirs :
       resolv[d] = "empty" =>
         \E c \in Containers :
           mnt[c] = d /\ (pc[c] = "dns_write" \/ "dns_write" \in broken[c])

IInv ==
  /\ TypeInv /\ HostKept /\ ResolvInv
  /\ \A c \in Containers : MountInv(c) /\ CapsInv(c)

-----------------------------------------------------------------------------
MountStep(c) ==
  \/ Start(c) \/ MakePrivate(c) \/ MakeOuter(c) \/ BindMount(c) \/ MakeInner(c)
  \/ PivotRoot(c) \/ Chdir(c) \/ UmountOld(c) \/ RmdirInner(c) \/ MountProc(c)
EtcStep(c) == DnsOpen(c) \/ DnsWrite(c) \/ EnablePing(c)
CapsStep(c) ==
  \/ NewUserNamespace(c) \/ DropBounding(c) \/ ClearInheritable(c)
  \/ LoadFilter(c) \/ Execve(c)

LEMMA StepParts ==
  ASSUME NEW c, Step(c)
  PROVE  MountStep(c) \/ EtcStep(c) \/ CapsStep(c) \/ Fail(c) \/ Killed(c)
BY DEF Step, MountStep, EtcStep, CapsStep

(* A step of one container leaves what belongs to another alone. *)
Same(d) ==
  /\ pc'[d] = pc[d] /\ root'[d] = root[d] /\ cwd'[d] = cwd[d]
  /\ caps'[d] = caps[d] /\ step'[d] = step[d] /\ broken'[d] = broken[d]
  /\ d \in private => d \in private'
  /\ d \in outer => d \in outer'
  /\ d \in old' => d \in old
  /\ d \in inner' => d \in inner
  /\ d \in filtered => d \in filtered'

LEMMA StepFrame ==
  ASSUME TypeInv, NEW c \in Containers, Step(c), NEW d \in Containers \ {c}
  PROVE  Same(d)
<1> USE DEF Same, TypeInv, Goto, Works, Note, OnlyMounts, OnlyCaps, mounts, security
<1>1. CASE MountStep(c)
  BY <1>1 DEF MountStep, Start, MakePrivate, MakeOuter, BindMount, MakeInner,
              PivotRoot, Chdir, UmountOld, RmdirInner, MountProc
<1>2. CASE EtcStep(c)
  BY <1>2 DEF EtcStep, DnsOpen, DnsWrite, EnablePing
<1>3. CASE CapsStep(c)
  BY <1>3 DEF CapsStep, NewUserNamespace, DropBounding, ClearInheritable, LoadFilter,
              Execve
<1>4. CASE Fail(c) \/ Killed(c)
  BY <1>4 DEF Fail, Killed
<1> QED BY <1>1, <1>2, <1>3, <1>4, StepParts

LEMMA FrameKeeps ==
  ASSUME NEW d \in Containers, Same(d), MountInv(d), CapsInv(d)
  PROVE  MountInv(d)' /\ CapsInv(d)'
BY DEF Same, MountInv, CapsInv

-----------------------------------------------------------------------------
LEMMA StepTypes ==
  ASSUME TypeInv, NEW c \in Containers, Step(c)
  PROVE  TypeInv'
<1> USE DEF TypeInv, Goto, Works, Note, OnlyMounts, OnlyCaps, mounts, security,
            Labels, FromOuter, FromBind, FromChdir, FromUmount, FromRmdir, FromDns,
            FromPing, FromDrop, FromExec, FromRunning
<1>1. CASE MountStep(c)
  BY <1>1 DEF MountStep, Start, AfterHostname, MakePrivate, MakeOuter, BindMount,
              MakeInner, PivotRoot, Chdir, UmountOld, RmdirInner, MountProc
<1>2. CASE EtcStep(c)
  BY <1>2 DEF EtcStep, DnsOpen, DnsWrite, EnablePing
<1>3. CASE CapsStep(c)
  <2>1. caps' \in [Containers -> CapSets]
    <3>1. CASE NewUserNamespace(c)
      BY <3>1 DEF NewUserNamespace, CapSets
    <3>2. CASE DropBounding(c)
      BY <3>2 DEF DropBounding, CapSets
    <3>3. CASE ClearInheritable(c)
      BY <3>3 DEF ClearInheritable, CapSets, Cleared
    <3>4. CASE LoadFilter(c)
      BY <3>4 DEF LoadFilter
    <3>5. CASE Execve(c)
      BY <3>5 DEF Execve, CapSets
    <3> QED BY <1>3, <3>1, <3>2, <3>3, <3>4, <3>5 DEF CapsStep
  <2> QED BY <1>3, <2>1 DEF CapsStep, NewUserNamespace, DropBounding,
                            ClearInheritable, LoadFilter, Execve
<1>4. CASE Fail(c) \/ Killed(c)
  BY <1>4 DEF Fail, Killed
<1> QED BY <1>1, <1>2, <1>3, <1>4, StepParts

(* mount_set() for the container that takes the step.                      *)
LEMMA StepMount ==
  ASSUME TypeInv, NEW c \in Containers, MountInv(c), Step(c)
  PROVE  MountInv(c)'
<1> USE DEF TypeInv, MountInv, Goto, Works, Note, OnlyMounts, OnlyCaps, mounts,
            security, Labels, FromOuter, FromBind, FromChdir, FromUmount, FromRmdir,
            FromDns, FromPing, FromDrop, FromExec, FromRunning
<1>1. CASE MountStep(c)
  BY <1>1 DEF MountStep, Start, AfterHostname, MakePrivate, MakeOuter, BindMount,
              MakeInner, PivotRoot, Chdir, UmountOld, RmdirInner, MountProc
<1>2. CASE EtcStep(c)
  BY <1>2 DEF EtcStep, DnsOpen, DnsWrite, EnablePing
<1>3. CASE CapsStep(c)
  BY <1>3 DEF CapsStep, NewUserNamespace, DropBounding, ClearInheritable, LoadFilter,
              Execve
<1>4. CASE Fail(c) \/ Killed(c)
  BY <1>4 DEF Fail, Killed
<1> QED BY <1>1, <1>2, <1>3, <1>4, StepParts

(* The host: nothing is mounted before the mounts are private, and         *)
(* setup_dns() comes after pivot_root().                                   *)
LEMMA StepHost ==
  ASSUME TypeInv, NEW c \in Containers, MountInv(c), HostKept, Step(c)
  PROVE  HostKept'
<1> USE DEF TypeInv, MountInv, HostKept, Goto, Works, OnlyMounts, OnlyCaps, mounts,
            security, FromOuter, FromBind, FromChdir, FromUmount, FromRmdir, FromDns,
            FromPing, FromDrop, FromExec, FromRunning
<1>1. CASE MountStep(c)
  BY <1>1 DEF MountStep, Start, MakePrivate, MakeOuter, BindMount, MakeInner,
              PivotRoot, Chdir, UmountOld, RmdirInner, MountProc
<1>2. CASE EtcStep(c)
  <2>1. root[c] = "new" /\ mnt' = mnt /\ seen' = seen
    BY <1>2 DEF EtcStep, DnsOpen, DnsWrite, EnablePing
  <2>2. resolv'[Slash] = resolv[Slash] \/ mnt[c] = Slash
    BY <1>2, <2>1, IsolationAssumption DEF EtcStep, DnsOpen, DnsWrite, EnablePing, Etc
  <2> QED BY <2>1, <2>2
<1>3. CASE CapsStep(c)
  BY <1>3 DEF CapsStep, NewUserNamespace, DropBounding, ClearInheritable, LoadFilter,
              Execve
<1>4. CASE Fail(c) \/ Killed(c)
  BY <1>4 DEF Fail, Killed
<1> QED BY <1>1, <1>2, <1>3, <1>4, StepParts

LEMMA StepCaps ==
  ASSUME TypeInv, TypeInv', NEW c \in Containers, CapsInv(c), Step(c)
  PROVE  CapsInv(c)'
<1> USE DEF TypeInv, CapsInv, Goto, Works, Note, OnlyMounts, OnlyCaps, mounts,
            security, Labels, FromOuter, FromBind, FromChdir, FromUmount, FromRmdir,
            FromDns, FromPing, FromDrop, FromExec, FromRunning
<1>1. CASE MountStep(c)
  BY <1>1 DEF MountStep, Start, AfterHostname, MakePrivate, MakeOuter, BindMount,
              MakeInner, PivotRoot, Chdir, UmountOld, RmdirInner, MountProc
<1>2. CASE EtcStep(c)
  BY <1>2 DEF EtcStep, DnsOpen, DnsWrite, EnablePing
<1>3. Len(DropCaps) \in Nat
  BY IsolationAssumption
<1>4. CASE NewUserNamespace(c)
  BY <1>3, <1>4 DEF NewUserNamespace
<1>5. CASE DropBounding(c)
  <2>1. CASE AllDropped(c)
    BY <1>3, <1>5, <2>1 DEF DropBounding, AllDropped
  <2>2. CASE ~AllDropped(c) /\ pc' = [pc EXCEPT ![c] = "drop"]
    <3>1. /\ step' = [step EXCEPT ![c] = @ + 1]
          /\ caps' = [caps EXCEPT ![c].bounding = @ \ {drop_caps(step[c] + 1)}]
      BY <1>5, <2>2 DEF DropBounding
    <3>2. /\ step'[c] = step[c] + 1 /\ step[c] + 1 <= Len(DropCaps)
          /\ drop_caps(step[c] + 1) = DropCaps[step[c] + 1]
      BY <1>3, <2>2, <3>1, IsolationAssumption DEF AllDropped, drop_caps
    <3>3. /\ caps'[c].bounding = caps[c].bounding \ {DropCaps[step[c] + 1]}
          /\ caps'[c].inheritable = caps[c].inheritable
          /\ caps'[c].permitted = caps[c].permitted
      BY <3>1, <3>2 DEF CapSets
    <3>4. pc[c] = "drop" /\ broken' = broken /\ filtered' = filtered
      BY <1>5, <2>2 DEF DropBounding
    <3>5. \A i \in 1..step'[c] : DropCaps[i] \notin caps'[c].bounding
      <4> TAKE i \in 1..step'[c]
      <4>1. i \in 1..step[c] \/ i = step[c] + 1
        BY <3>2
      <4> QED BY <4>1, <3>3, <3>4
    <3>6. pc'[c] = "drop"
      BY <2>2
    <3> QED BY <3>2, <3>3, <3>4, <3>5, <3>6
  <2>3. CASE ~AllDropped(c) /\ pc' = [pc EXCEPT ![c] = "seccomp"]
    <3>1. pc[c] = "drop" /\ "drop" \in broken'[c] /\ UNCHANGED security
      BY <1>5, <2>3 DEF DropBounding
    <3> QED BY <2>3, <3>1
  <2> QED BY <1>5, <2>1, <2>2, <2>3 DEF DropBounding
<1>6. CASE ClearInheritable(c)
  <2>1. CASE caps' = [caps EXCEPT ![c] = Cleared(@)]
    <3>1. /\ caps'[c].bounding = caps[c].bounding
          /\ caps'[c].inheritable \subseteq caps[c].inheritable
          /\ caps'[c].permitted = caps[c].permitted
      BY <2>1 DEF Cleared, CapSets
    <3>2. /\ pc[c] = "inherit" /\ pc'[c] = "seccomp" /\ broken[c] \subseteq broken'[c]
          /\ step' = step /\ filtered' = filtered
      BY <1>6 DEF ClearInheritable
    <3> QED BY <1>3, <3>1, <3>2
  <2>2. CASE UNCHANGED caps
    BY <1>3, <1>6, <2>2 DEF ClearInheritable
  <2> QED BY <1>6, <2>1, <2>2 DEF ClearInheritable
<1>7. CASE LoadFilter(c)
  BY <1>3, <1>7, IsolationAssumption DEF LoadFilter
<1>8. CASE Execve(c)
  BY <1>3, <1>8 DEF Execve, CapSets
<1>9. CASE Fail(c) \/ Killed(c)
  BY <1>9 DEF Fail, Killed
<1> QED BY <1>1, <1>2, <1>4, <1>5, <1>6, <1>7, <1>8, <1>9, StepParts DEF CapsStep

(* The file of setup_dns(). *)
LEMMA StepResolv ==
  ASSUME TypeInv, ResolvInv, NEW c \in Containers, MountInv(c), Step(c)
  PROVE  ResolvInv'
<1> USE DEF TypeInv, Goto, Works, Note, OnlyMounts, OnlyCaps, mounts, security
<1>1. mnt' = mnt
  BY StepParts DEF MountStep, Start, MakePrivate, MakeOuter, BindMount, MakeInner,
     PivotRoot, Chdir, UmountOld, RmdirInner, MountProc, EtcStep, DnsOpen, DnsWrite,
     EnablePing, CapsStep, NewUserNamespace, DropBounding, ClearInheritable, LoadFilter,
     Execve, Fail, Killed
<1>2. \A d \in Containers \ {c} : pc'[d] = pc[d] /\ broken'[d] = broken[d]
  BY StepFrame DEF Same
<1>3. /\ broken[c] \subseteq broken'[c]
      /\ pc[c] = "dns_write" => DnsWrite(c) \/ "dns_write" \in broken'[c]
  BY StepParts DEF MountStep, Start, MakePrivate, MakeOuter, BindMount, MakeInner,
     PivotRoot, Chdir, UmountOld, RmdirInner, MountProc, EtcStep, DnsOpen, DnsWrite,
     EnablePing, CapsStep, NewUserNamespace, DropBounding, ClearInheritable, LoadFilter,
     Execve, Fail, Killed
<1>4. CASE DnsOpen(c) \/ DnsWrite(c)
  <2>1. Etc(c) = mnt[c] /\ mnt[c] \in Dirs
    BY <1>4 DEF DnsOpen, DnsWrite, Etc, MountInv, FromChdir, FromUmount, FromRmdir, FromDns
  <2>2. /\ \A d \in Dirs \ {mnt[c]} : resolv'[d] = resolv[d]
        /\ \/ resolv'[mnt[c]] = resolv[mnt[c]] /\ broken'[c] \cap {"dns_open", "dns_write"} # {}
           \/ resolv'[mnt[c]] = c /\ DnsWrite(c)
           \/ resolv'[mnt[c]] = "empty" /\ pc'[c] = "dns_write"
    BY <1>4, <2>1 DEF DnsOpen, DnsWrite
  <2>3. ASSUME NEW e \in Containers, pc'[e] \in FromPing, Alone(e),
               broken'[e] \cap {"dns_open", "dns_write"} = {}
        PROVE  resolv'[mnt[e]] = e
    <3>1. CASE e = c
      <4>1. pc'[c] # "dns_write"
        BY <2>3, <3>1 DEF FromPing, FromDrop, FromExec, FromRunning
      <4> QED BY <2>2, <2>3, <3>1, <4>1
    <3>2. CASE e # c
      <4>1. mnt[e] \in Dirs \ {mnt[c]}
        BY <2>3, <3>2 DEF Alone
      <4>2. resolv[mnt[e]] = e
        BY <1>2, <2>3, <3>2 DEF ResolvInv
      <4> QED BY <2>2, <4>1, <4>2
    <3> QED BY <3>1, <3>2
  <2>4. ASSUME NEW d \in Dirs, resolv'[d] = "empty"
        PROVE  \E e \in Containers :
                 mnt[e] = d /\ (pc'[e] = "dns_write" \/ "dns_write" \in broken'[e])
    <3>1. CASE resolv'[mnt[c]] = "empty" /\ pc'[c] = "dns_write" /\ d = mnt[c]
      BY <3>1
    <3>2. CASE resolv[d] = "empty" /\ ~ (resolv'[d] = c /\ d = mnt[c])
      <4>1. PICK e \in Containers :
              mnt[e] = d /\ (pc[e] = "dns_write" \/ "dns_write" \in broken[e])
        BY <3>2 DEF ResolvInv
      <4>2. CASE e # c
        BY <1>2, <4>1, <4>2
      <4>3. CASE e = c /\ "dns_write" \in broken[e]
        BY <1>3, <4>1, <4>3
      <4>4. CASE e = c /\ pc[c] = "dns_write"
        BY <1>4, <2>4, <3>2, <4>1, <4>4, <2>1, <2>2 DEF DnsWrite, DnsOpen
      <4> QED BY <4>1, <4>2, <4>3, <4>4
    <3>3. c # "empty"
      BY IsolationAssumption
    <3> QED BY <2>2, <2>4, <3>1, <3>2, <3>3
  <2> QED BY <1>1, <2>3, <2>4 DEF ResolvInv, Alone
<1>5. CASE ~ DnsOpen(c) /\ ~ DnsWrite(c)
  <2>1. resolv' = resolv
    BY <1>5, StepParts DEF MountStep, Start, MakePrivate, MakeOuter, BindMount, MakeInner,
       PivotRoot, Chdir, UmountOld, RmdirInner, MountProc, EtcStep, EnablePing, CapsStep,
       NewUserNamespace, DropBounding, ClearInheritable, LoadFilter, Execve, Fail, Killed
  <2>2. pc'[c] \in FromPing => pc[c] \in FromPing
    BY <1>5, StepParts DEF FromPing, FromDrop, FromExec, FromRunning, MountStep, Start,
       AfterHostname, MakePrivate, MakeOuter, BindMount, MakeInner,
       PivotRoot, Chdir, UmountOld, RmdirInner, MountProc, EtcStep, EnablePing, CapsStep,
       NewUserNamespace, DropBounding, ClearInheritable, LoadFilter, Execve, Fail, Killed
  <2>3. ASSUME NEW e \in Containers, pc'[e] \in FromPing, Alone(e),
               broken'[e] \cap {"dns_open", "dns_write"} = {}
        PROVE  resolv'[mnt[e]] = e
    BY <1>2, <1>3, <2>1, <2>2, <2>3 DEF ResolvInv
  <2>4. ASSUME NEW d \in Dirs, resolv'[d] = "empty"
        PROVE  \E e \in Containers :
                 mnt[e] = d /\ (pc'[e] = "dns_write" \/ "dns_write" \in broken'[e])
    <3>1. PICK e \in Containers :
            mnt[e] = d /\ (pc[e] = "dns_write" \/ "dns_write" \in broken[e])
      BY <2>1, <2>4 DEF ResolvInv
    <3> QED BY <1>2, <1>3, <1>5, <3>1
  <2> QED BY <1>1, <2>3, <2>4 DEF ResolvInv, Alone
<1> QED BY <1>4, <1>5

-----------------------------------------------------------------------------
LEMMA InitInv == Init => IInv
<1> SUFFICES ASSUME Init PROVE IInv
  OBVIOUS
<1>1. TypeInv
  <2>1. [bounding |-> AllCaps, inheritable |-> {}, permitted |-> AllCaps] \in CapSets
    BY DEF CapSets
  <2> QED BY <2>1 DEF Init, TypeInv, Labels
<1>2. HostKept
  BY IsolationAssumption DEF Init, HostKept
<1>3. ResolvInv
  BY DEF Init, ResolvInv, FromPing, FromDrop, FromExec, FromRunning
<1>4. ASSUME NEW c \in Containers PROVE MountInv(c) /\ CapsInv(c)
  <2>1. Len(DropCaps) \in Nat
    BY IsolationAssumption
  <2> QED BY <2>1 DEF Init, MountInv, CapsInv, FromOuter, FromBind, FromChdir,
                      FromUmount, FromRmdir, FromDns, FromPing, FromDrop, FromExec, FromRunning
<1> QED BY <1>1, <1>2, <1>3, <1>4 DEF IInv

LEMMA NextInv == IInv /\ [Next]_vars => IInv'
<1> SUFFICES ASSUME IInv, [Next]_vars PROVE IInv'
  OBVIOUS
<1>1. ASSUME NEW c \in Containers, Step(c) PROVE IInv'
  <2>1. TypeInv' /\ HostKept' /\ ResolvInv'
    BY <1>1, StepTypes, StepHost, StepResolv DEF IInv
  <2>2. MountInv(c)' /\ CapsInv(c)'
    BY <1>1, <2>1, StepMount, StepCaps DEF IInv
  <2>3. ASSUME NEW d \in Containers \ {c} PROVE MountInv(d)' /\ CapsInv(d)'
    BY <1>1, StepFrame, FrameKeeps DEF IInv
  <2> QED BY <2>1, <2>2, <2>3 DEF IInv
<1>2. CASE UNCHANGED vars
  BY <1>2 DEF vars, mounts, security, IInv, TypeInv, HostKept, MountInv, CapsInv,
              ResolvInv, Alone
<1> QED BY <1>1, <1>2 DEF Next, Over

LEMMA Invariance == Spec => []IInv
BY InitInv, NextInv, PTL DEF Spec

(* When the user's command runs, nothing of it is left in the old root     *)
(* (mount.c:70-105).                                                       *)
THEOREM NoWayBack == Spec => []OldRootGone
<1>1. IInv => OldRootGone
  BY DEF IInv, MountInv, OldRootGone, Running, FromOuter, FromBind, FromChdir,
         FromUmount, FromRmdir, FromDns, FromPing, FromDrop, FromExec, FromRunning
<1> QED BY <1>1, Invariance, PTL

(* No container mounts anything on the host or writes its resolv.conf, but *)
(* one that is given the host's root, at whatever call it fails or ends    *)
(* (mount.c:20, container.c:55).                                           *)
THEOREM HostStaysAsItIs == Spec => []HostKept
<1>1. IInv => HostKept
  BY DEF IInv
<1> QED BY <1>1, Invariance, PTL

(* The directory in the user's root file system is left only by a run that *)
(* fails or is cut short between two calls, and a run that starts its      *)
(* command leaves the one in /tmp (mount.c:48-105).                        *)
THEOREM OneDirectoryLeft == Spec => []LeftOvers
<1>1. IInv => LeftOvers
  BY DEF IInv, MountInv, LeftOvers, Running, FromOuter, FromBind, FromChdir,
         FromUmount, FromRmdir, FromDns, FromPing, FromDrop, FromExec, FromRunning
<1> QED BY <1>1, Invariance, PTL

(* For every list of capabilities: those that were dropped are not given   *)
(* back by execve(), also when the dropping ended early (sec.c:95-117).    *)
THEOREM CapabilitiesStayDropped == Spec => []DroppedStay
<1>1. IInv => DroppedStay
  <2> SUFFICES ASSUME IInv, NEW c \in Containers, Running(c)
               PROVE  /\ broken[c] \cap {"drop", "inherit"} = {} =>
                           caps[c].permitted \cap Range(DropCaps) = {}
                      /\ \A i \in 1..step[c] : DropCaps[i] \notin caps[c].permitted
    BY DEF DroppedStay
  <2>1. /\ \A i \in 1..step[c] : DropCaps[i] \notin caps[c].permitted
        /\ broken[c] \cap {"drop", "inherit"} = {} => step[c] = Len(DropCaps)
    BY DEF IInv, CapsInv, Running, FromDrop, FromExec, FromRunning
  <2>2. DOMAIN DropCaps = 1..Len(DropCaps)
    BY IsolationAssumption
  <2> QED BY <2>1, <2>2 DEF Range
<1> QED BY <1>1, Invariance, PTL

(* The filter can always be loaded after the capabilities have been        *)
(* dropped, and is in force unless loading it failed (sec.c:108-272).      *)
THEOREM FilterHolds == Spec => []FilterInForce
<1>1. IInv => FilterInForce
  BY IsolationAssumption DEF IInv, CapsInv, FilterInForce, Running, FromDrop,
                             FromExec, FromRunning
<1> QED BY <1>1, Invariance, PTL

(* setup_dns() empties /etc/resolv.conf when it opens it: a container with *)
(* a root file system of its own has its name server in it, and no root    *)
(* file system's stays empty but where a container of that root file       *)
(* system has failed to write it (container.c:55-80).                      *)
THEOREM ResolverIsOwn == Spec => []OwnResolver
<1>1. IInv => OwnResolver
  BY DEF IInv, ResolvInv, OwnResolver, Alone, Running, FromPing, FromDrop, FromExec,
         FromRunning
<1> QED BY <1>1, Invariance, PTL
=============================================================================
