------------------------------- MODULE Kernel -------------------------------
(***************************************************************************)
(* The operating-system objects that one run of barco shares between its   *)
(* two processes: the launcher (main() in src/barco.c) and the container's *)
(* first process ("init" below, container_start() in src/container.c).     *)
(* Apart from config, nothing here is code of the repository: each         *)
(* definition says what the system calls used by src/ do to these objects. *)
(***************************************************************************)
EXTENDS Integers, FiniteSets

CONSTANTS
  Uids,        \* values of --uid that are tried
  Faults,      \* names of the calls the environment may make fail
  MaxFaults    \* bound: how many different calls fail in one behaviour

ASSUME FaultAssumption == Uids \subseteq Nat /\ MaxFaults \in Nat

VARIABLES
  config,      \* the command line, as container_config keeps it
  launcher,    \* the process that runs main(): "up", "returned" or "killed"
  init,        \* the cloned process: "unborn", "alive", "zombie" or "reaped"
  status,      \* wait status of init, as the launcher computes it
  main0,       \* what is open in the launcher at descriptor sockets[0]
  main1,       \* and at the number that sockets[1] holds
  initFd,      \* the socket ends open in init
  cloexec,     \* FD_CLOEXEC is set on end 0
  toMain,      \* the packet that can be read at end 0
  toInit,      \* the packet that can be read at end 1
  maps,        \* files of /proc/<init>/ written: the user namespace mapping
  veth,        \* container end of the veth pair, see VethStates
  hostNet,     \* host-side network settings made for the container
  cgdir,       \* /sys/fs/cgroup/<hostname>, see CgroupStates
  cgset,       \* number of control files written in cgdir
  failed       \* calls that have failed

procVars == <<launcher, init, status>>
sockVars == <<main0, main1, initFd, cloexec, toMain, toInit>>
hostVars == <<maps, veth, hostNet, cgdir, cgset>>
kernelVars == <<config, procVars, sockVars, hostVars, failed>>

Ends == {0, 1}
Byte == 0..255

(* A run writes at most one packet in each direction, an int: "ok" is 0,   *)
(* "error" is -1, "empty" is a queue without a packet.                     *)
Packets == {"ok", "error"}
SIGKILLed == 128 + 9
MapFiles == {"setgroups", "uid_map", "gid_map"}
NatRules == {"masquerade", "forward_src", "forward_established"}
PeerSettings == {"peer_addr", "peer_up"}

(* "stale": a pair with the same peer name is left from an earlier run;    *)
(* "host": created, both ends on the host; "ns": the container end is in   *)
(* the container's network namespace, still with its temporary name;       *)
(* "named": there, renamed to the name the user asked for.                 *)
VethStates == {"none", "stale", "host", "ns", "named"}

(* "stale": an empty directory left from an earlier run; "busy": the       *)
(* directory of another container that is still running; "own": created by *)
(* this run.                                                               *)
CgroupStates == {"absent", "stale", "busy", "own"}

(* net: --veth and --container-ip were both given; hostip: --host-ip was;  *)
(* nat: --nat was. Without net the other two are ignored.                  *)
Configs == {c \in [net: BOOLEAN, hostip: BOOLEAN, nat: BOOLEAN, uid: Uids] :
              (c.hostip \/ c.nat) => c.net}

-----------------------------------------------------------------------------
(* A call either works or, within the budget, fails. *)
Works == UNCHANGED failed

Fault(call) ==
  /\ call \in Faults
  /\ Cardinality(failed) < MaxFaults
  /\ failed' = failed \cup {call}

(* A call that also fails when cond holds. *)
FailsIf(cond, call) == (cond /\ Works) \/ Fault(call)

(* An end of the socket pair is open while some process holds a descriptor *)
(* for it; a read of an empty queue returns 0 bytes once the other end is  *)
(* closed everywhere, and blocks before.                                   *)
End0Open == main0 = "sock" \/ 0 \in initFd
End1Open == main1 = "sock" \/ 1 \in initFd
ReadableAt0 == toMain # "empty" \/ ~End1Open
ReadableAt1 == toInit # "empty" \/ ~End0Open

(* Exit of init: its descriptors are closed, and it stays a zombie until   *)
(* its parent waits for it. An orphan is reaped by the host.               *)
InitExits(code) ==
  /\ init' = IF launcher = "up" THEN "zombie" ELSE "reaped"
  /\ status' = code
  /\ initFd' = {}

(* The network namespace lives while init does or a descriptor names it.   *)
NetnsAlive == init = "alive" \/ main1 = "ns"

(* A dead network namespace takes the device in it along, and with it the  *)
(* peer on the host. The kernel does this asynchronously.                  *)
NetnsDestroyed ==
  /\ init # "unborn" /\ ~NetnsAlive
  /\ veth \in {"ns", "named"}
  /\ veth' = "none"
  /\ hostNet' = hostNet \ PeerSettings
  /\ UNCHANGED <<config, procVars, sockVars, maps, cgdir, cgset, failed>>

(* SIGKILL to init from outside barco (an operator, the OOM killer). *)
InitKilled ==
  /\ init = "alive"
  /\ InitExits(SIGKILLed)
  /\ UNCHANGED <<config, launcher, main0, main1, cloexec, toMain, toInit,
                 hostVars, failed>>

(* Death of the launcher outside its own control: main() installs no       *)
(* signal handler, so SIGINT, SIGTERM or SIGKILL ends it anywhere.         *)
LauncherKilled ==
  /\ launcher = "up"
  /\ launcher' = "killed"
  /\ init' = IF init = "zombie" THEN "reaped" ELSE init
  /\ main0' = "free" /\ main1' = "free"
  /\ UNCHANGED <<config, status, initFd, cloexec, toMain, toInit, hostVars,
                 failed>>

KernelInit ==
  /\ config \in Configs
  /\ launcher = "up" /\ init = "unborn" /\ status = 0
  /\ main0 = "free" /\ main1 = "free" /\ initFd = {} /\ cloexec = FALSE
  /\ toMain = "empty" /\ toInit = "empty"
  /\ maps = {} /\ hostNet = {} /\ cgset = 0 /\ failed = {}
  /\ veth \in {"none", "stale"}
  /\ cgdir \in {"absent", "stale", "busy"}

ProcTypeOK ==
  /\ launcher \in {"up", "returned", "killed"}
  /\ init \in {"unborn", "alive", "zombie", "reaped"}
  /\ status \in Byte

SockTypeOK ==
  /\ main0 \in {"free", "sock"} /\ main1 \in {"free", "sock", "ns"}
  /\ initFd \subseteq Ends
  /\ cloexec \in BOOLEAN
  /\ toMain \in {"empty", "ok"} /\ toInit \in {"empty"} \cup Packets

HostTypeOK ==
  /\ maps \subseteq MapFiles
  /\ veth \in VethStates
  /\ hostNet \subseteq NatRules \cup PeerSettings \cup {"ip_forward"}
  /\ cgdir \in CgroupStates /\ cgset \in 0..4

KernelTypeOK ==
  /\ config \in Configs /\ failed \subseteq Faults
  /\ ProcTypeOK /\ SockTypeOK /\ HostTypeOK
=============================================================================
