------------------------------ MODULE Isolation ------------------------------
(***************************************************************************)
(* What container_start() of src/container.c does to the files, mounts and *)
(* capabilities of several containers on one host: mount_set() of          *)
(* src/mount.c, setup_dns(), enable_ping_dgram(), and sec_set_caps() and   *)
(* sec_set_seccomp() of src/sec.c, call by call. The network and the       *)
(* handshake with the launcher between them are in ContainerStart.         *)
(***************************************************************************)
EXTENDS Integers, Sequences, FiniteSets

CONSTANTS
  Containers,  \* the containers
  Dirs,        \* directories that may be given as --mnt
  Slash,       \* the host's own root, one of them
  AllCaps,     \* capabilities, with "setpcap" and "sys_admin" among them
  DropCaps,    \* drop_caps: a sequence of capabilities (20 in the code)
  Faults       \* names of the calls that may fail

ASSUME IsolationAssumption ==
  /\ Slash \in Dirs /\ {"user's", "empty"} \cap Containers = {}
  /\ DropCaps \in Seq(AllCaps) /\ {"setpcap", "sys_admin"} \subseteq AllCaps
  /\ \A i \in DOMAIN DropCaps : DropCaps[i] # "setpcap"

VARIABLES
  mnt,         \* --mnt of each container
  pc,          \* the next call of each container, "running" or "dead"
  private,     \* containers whose mounts do not propagate
  root,        \* what "/" is in each, "host" or "new"
  cwd,         \* where its working directory is
  old,         \* containers in which the old root is still attached
  seen,        \* containers whose bind mount the host sees
  outer,       \* the directories /tmp/barco.XXXXXX, by their container
  inner,       \* the directories oldroot.XXXXXX in --mnt, likewise
  resolv,      \* who has written /etc/resolv.conf in each directory
  ping,        \* containers with a ping_group_range for everybody
  caps,        \* [bounding, inheritable, permitted]; permitted is effective
  step,        \* the index i of sec_set_caps()
  filtered,    \* containers with the system call filter
  broken       \* the calls that have failed or been cut short, by container

mounts == <<private, root, cwd, old, seen, outer, inner>>
security == <<caps, step, filtered>>
vars == <<mnt, pc, mounts, resolv, ping, security, broken>>

Range(s) == {s[i] : i \in DOMAIN s}

-----------------------------------------------------------------------------
Goto(c, next) == pc' = [pc EXCEPT ![c] = next] /\ UNCHANGED mnt
Works(c, next) == Goto(c, next) /\ UNCHANGED broken
Note(c) == broken' = [broken EXCEPT ![c] = @ \cup {pc[c]}]
CanFail(c) == pc[c] \in Faults

OnlyMounts == UNCHANGED <<resolv, ping, security>>
OnlyCaps == UNCHANGED <<mounts, resolv, ping>>

(* The functions return an error, and container_start() ends.              *)
Fail(c) ==
  /\ pc[c] \in {"private", "outer", "bind", "inner", "pivot", "chdir", "umount",
                "rmdir", "proc", "unshare", "exec"}
  /\ CanFail(c) /\ Note(c) /\ Goto(c, "dead")
  /\ UNCHANGED <<mounts, resolv, ping, security>>

-----------------------------------------------------------------------------
(* mount_set() *)
M_NotPrivate(c) ==                        \* mutant: the remount is left out
  pc[c] = "private" /\ Works(c, "outer") /\ UNCHANGED mounts /\ OnlyMounts

MakePrivate(c) ==
  /\ pc[c] = "private" /\ Works(c, "outer")
  /\ private' = private \cup {c}
  /\ UNCHANGED <<root, cwd, old, seen, outer, inner>> /\ OnlyMounts

MakeOuter(c) ==
  /\ pc[c] = "outer" /\ Works(c, "bind")
  /\ outer' = outer \cup {c}
  /\ UNCHANGED <<private, root, cwd, old, seen, inner>> /\ OnlyMounts

(* A mount in a namespace that is not private also appears on the host.    *)
BindMount(c) ==
  /\ pc[c] = "bind" /\ Works(c, "inner")
  /\ seen' = IF c \in private THEN seen ELSE seen \cup {c}
  /\ UNCHANGED <<private, root, cwd, old, outer, inner>> /\ OnlyMounts

(* Through the bind mount the second directory is made in --mnt itself.    *)
MakeInner(c) ==
  /\ pc[c] = "inner" /\ Works(c, "pivot")
  /\ inner' = inner \cup {c}
  /\ UNCHANGED <<private, root, cwd, old, seen, outer>> /\ OnlyMounts

(* The kernel refuses to pivot under a parent that propagates. The working *)
(* directory stays where it was, in the old root.                          *)
PivotRoot(c) ==
  /\ pc[c] = "pivot"
  /\ IF c \in private
       THEN /\ Works(c, "chdir")
            /\ root' = [root EXCEPT ![c] = "new"] /\ old' = old \cup {c}
       ELSE Note(c) /\ Goto(c, "dead") /\ UNCHANGED <<root, old>>
  /\ UNCHANGED <<private, cwd, seen, outer, inner>> /\ OnlyMounts

M_NoChdir(c) ==                           \* mutant: chdir("/") is left out
  pc[c] = "chdir" /\ Works(c, "umount") /\ UNCHANGED mounts /\ OnlyMounts

Chdir(c) ==
  /\ pc[c] = "chdir" /\ Works(c, "umount")
  /\ cwd' = [cwd EXCEPT ![c] = root[c]]
  /\ UNCHANGED <<private, root, old, seen, outer, inner>> /\ OnlyMounts

UmountOld(c) ==
  /\ pc[c] = "umount" /\ Works(c, "rmdir")
  /\ old' = old \ {c}
  /\ UNCHANGED <<private, root, cwd, seen, outer, inner>> /\ OnlyMounts

M_NoRmdir(c) ==                           \* mutant: rmdir() is left out
  pc[c] = "rmdir" /\ Works(c, "proc") /\ UNCHANGED mounts /\ OnlyMounts

(* Of the two directories only this one can be reached any more.           *)
RmdirInner(c) ==
  /\ pc[c] = "rmdir" /\ Works(c, "proc")
  /\ inner' = inner \ {c}
  /\ UNCHANGED <<private, root, cwd, old, seen, outer>> /\ OnlyMounts

MountProc(c) ==
  /\ pc[c] = "proc" /\ Works(c, "dns_open") /\ UNCHANGED mounts /\ OnlyMounts

-----------------------------------------------------------------------------
(* setup_dns(): O_TRUNC empties the file before it is written; what is     *)
(* written has its buffer's length here, and is not looked into. Its       *)
(* result and that of enable_ping_dgram() are ignored.                     *)
Etc(c) == IF root[c] = "new" THEN mnt[c] ELSE Slash

DnsOpen(c) ==
  /\ pc[c] = "dns_open"
  /\ \/ Works(c, "dns_write") /\ resolv' = [resolv EXCEPT ![Etc(c)] = "empty"]
     \/ CanFail(c) /\ Note(c) /\ Goto(c, "ping") /\ UNCHANGED resolv
  /\ UNCHANGED <<mounts, ping, security>>

M_WritesAtOnce(c) ==                      \* mutant: nothing is written
  pc[c] = "dns_write" /\ Works(c, "ping") /\ UNCHANGED <<resolv, mounts, ping, security>>

DnsWrite(c) ==
  /\ pc[c] = "dns_write"
  /\ \/ Works(c, "ping") /\ resolv' = [resolv EXCEPT ![Etc(c)] = c]
     \/ CanFail(c) /\ Note(c) /\ Goto(c, "ping") /\ UNCHANGED resolv
  /\ UNCHANGED <<mounts, ping, security>>

EnablePing(c) ==
  /\ pc[c] = "ping"
  /\ \/ Works(c, "unshare") /\ ping' = ping \cup {c}
     \/ CanFail(c) /\ Note(c) /\ Goto(c, "unshare") /\ UNCHANGED ping
  /\ UNCHANGED <<mounts, resolv, security>>

(* user_namespace_init(): a new user namespace gives every capability and  *)
(* leaves none to be inherited; the uid is 0 in it.                        *)
NewUserNamespace(c) ==
  /\ pc[c] = "unshare" /\ Works(c, "drop")
  /\ caps' = [caps EXCEPT ![c] = [bounding |-> AllCaps, inheritable |-> {},
                                  permitted |-> AllCaps]]
  /\ UNCHANGED <<step, filtered>> /\ OnlyCaps

-----------------------------------------------------------------------------
(* sec_set_caps(): one prctl(PR_CAPBSET_DROP) for each, which takes        *)
(* CAP_SETPCAP, and then the inheritable set. Returns 1 on failure, with   *)
(* what it has done left done, and container_start() goes on.              *)
M_StopsEarly(c) == step[c] >= Len(DropCaps) - 1   \* mutant: i < num_caps - 1
AllDropped(c) == step[c] >= Len(DropCaps)

(* Behind the end of the array there is something else. *)
drop_caps(i) == IF i \in DOMAIN DropCaps THEN DropCaps[i] ELSE "other"

DropBounding(c) ==
  /\ pc[c] = "drop"
  /\ \/ /\ AllDropped(c) /\ Works(c, "inherit") /\ UNCHANGED <<caps, step>>
     \/ /\ ~AllDropped(c) /\ "setpcap" \in caps[c].permitted
        /\ caps' = [caps EXCEPT ![c].bounding = @ \ {drop_caps(step[c] + 1)}]
        /\ step' = [step EXCEPT ![c] = @ + 1] /\ Works(c, "drop")
     \/ /\ ~AllDropped(c) /\ (CanFail(c) \/ "setpcap" \notin caps[c].permitted)
        /\ Note(c) /\ Goto(c, "seccomp") /\ UNCHANGED <<caps, step>>
  /\ UNCHANGED filtered /\ OnlyCaps

M_ClearAll(s) == [bounding |-> s.bounding, inheritable |-> {}, permitted |-> {}]
Cleared(s) == [s EXCEPT !.inheritable = @ \ Range(DropCaps)]

ClearInheritable(c) ==
  /\ pc[c] = "inherit"
  /\ \/ Works(c, "seccomp") /\ caps' = [caps EXCEPT ![c] = Cleared(@)]
     \/ CanFail(c) /\ Note(c) /\ Goto(c, "seccomp") /\ UNCHANGED caps
  /\ UNCHANGED <<step, filtered>> /\ OnlyCaps

(* sec_set_seccomp(): the rules are collected first and loaded together.   *)
(* With SCMP_FLTATR_CTL_NNP at 0 the kernel takes them from a process with *)
(* CAP_SYS_ADMIN only. Returns 1 on failure, which is ignored.             *)
LoadFilter(c) ==
  /\ pc[c] = "seccomp"
  /\ \/ /\ "sys_admin" \in caps[c].permitted
        /\ Works(c, "exec") /\ filtered' = filtered \cup {c}
     \/ /\ CanFail(c) \/ "sys_admin" \notin caps[c].permitted
        /\ Note(c) /\ Goto(c, "exec") /\ UNCHANGED filtered
  /\ UNCHANGED <<caps, step>> /\ OnlyCaps

(* execve() by uid 0: what is permitted comes from the two other sets.     *)
Execve(c) ==
  /\ pc[c] = "exec" /\ Works(c, "running")
  /\ caps' = [caps EXCEPT ![c].permitted = caps[c].bounding \cup caps[c].inheritable]
  /\ UNCHANGED <<step, filtered>> /\ OnlyCaps

(* The container may be killed at any point.                               *)
Killed(c) ==
  /\ pc[c] # "dead" /\ "kill" \in Faults /\ Note(c) /\ Goto(c, "dead")
  /\ UNCHANGED <<mounts, resolv, ping, security>>

(* sethostname(), which touches nothing here, and then mount_set().        *)
AfterHostname == "private"

Start(c) ==
  /\ pc[c] = "start" /\ Works(c, AfterHostname)
  /\ UNCHANGED <<mounts, resolv, ping, security>>

Step(c) ==
  \/ Start(c) \/ MakePrivate(c) \/ MakeOuter(c) \/ BindMount(c) \/ MakeInner(c)
  \/ PivotRoot(c) \/ Chdir(c) \/ UmountOld(c) \/ RmdirInner(c) \/ MountProc(c)
  \/ DnsOpen(c) \/ DnsWrite(c) \/ EnablePing(c) \/ NewUserNamespace(c)
  \/ DropBounding(c) \/ ClearInheritable(c) \/ LoadFilter(c) \/ Execve(c)
  \/ Fail(c) \/ Killed(c)

Over == (\A c \in Containers : pc[c] \in {"running", "dead"}) /\ UNCHANGED vars

Next == (\E c \in Containers : Step(c)) \/ Over

Init ==
  /\ mnt \in [Containers -> Dirs]
  /\ pc = [c \in Containers |-> "start"] /\ private = {} /\ old = {}
  /\ root = [c \in Containers |-> "host"] /\ cwd = [c \in Containers |-> "host"]
  /\ seen = {} /\ outer = {} /\ inner = {} /\ ping = {} /\ filtered = {}
  /\ resolv = [d \in Dirs |-> "user's"]
  /\ caps = [c \in Containers |-> [bounding |-> AllCaps, inheritable |-> {},
                                    permitted |-> AllCaps]]
  /\ step = [c \in Containers |-> 0] /\ broken = [c \in Containers |-> {}]

Spec == Init /\ [][Next]_vars

-----------------------------------------------------------------------------
Running(c) == pc[c] = "running"

(* The user's command has no way back: neither its root nor its working    *)
(* directory is in the old root, which is detached.                        *)
OldRootGone ==
  \A c \in Containers :
    Running(c) => root[c] = "new" /\ cwd[c] = "new" /\ c \notin old

(* The host's own mounts and files, at whatever call container_start()     *)
(* fails or is cut short: nothing a container mounts is seen there, and no *)
(* container writes the host's resolv.conf, but one that has been given    *)
(* the host's root as --mnt.                                               *)
HostKept ==
  /\ seen = {}
  /\ resolv[Slash] = "user's" \/ \E c \in Containers : mnt[c] = Slash

(* A run whose command starts has left one directory, in /tmp. One in the  *)
(* user's root file system stays only if the run failed or was cut short   *)
(* between its creation and its removal, and never while the command runs. *)
LeftOvers ==
  \A c \in Containers :
    /\ c \in inner /\ pc[c] = "dead" =>
         broken[c] \cap {"pivot", "chdir", "umount", "rmdir"} # {}
    /\ Running(c) => c \notin inner /\ c \in outer

(* A container that is alone in its root file system has its own name      *)
(* server. Where several share it, the file of that root file system is    *)
(* empty only while one of them writes it, or after such a write failed or *)
(* was cut short.                                                          *)
OwnResolver ==
  /\ \A c \in Containers :
       (Running(c) /\ broken[c] \cap {"dns_open", "dns_write"} = {}
          /\ \A o \in Containers \ {c} : mnt[o] # mnt[c])
         => resolv[mnt[c]] = c
  /\ \A d \in Dirs :
       resolv[d] = "empty" =>
         \E c \in Containers :
           mnt[c] = d /\ (pc[c] = "dns_write" \/ "dns_write" \in broken[c])

(* A capability that sec_set_caps() has dropped without an error does not  *)
(* come back with execve(), and after an error those before it stay        *)
(* dropped.                                                                *)
DroppedStay ==
  \A c \in Containers :
    Running(c) =>
      /\ broken[c] \cap {"drop", "inherit"} = {} =>
           caps[c].permitted \cap Range(DropCaps) = {}
      /\ \A i \in 1..step[c] : DropCaps[i] \notin caps[c].permitted

(* Dropping capabilities does not take away the one that loading the       *)
(* filter needs, and an error of sec_set_caps() does not prevent the       *)
(* filter: it is missing only if its own set-up failed.                    *)
FilterInForce ==
  \A c \in Containers :
    /\ pc[c] = "seccomp" => "sys_admin" \in caps[c].permitted
    /\ Running(c) /\ c \notin filtered => "seccomp" \in broken[c]
=============================================================================
