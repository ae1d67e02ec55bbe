----------------------------- MODULE BarcoMain ------------------------------
(***************************************************************************)
(* The launcher: main() in src/barco.c, with container_init() and          *)
(* container_stop() of src/container.c, cgroups_init() and cgroups_free()  *)
(* of src/cgroups.c and user_namespace_prepare_mappings() of src/user.c.   *)
(* mpc names the next call; "undo_nat" is the label cleanup, "leave" the   *)
(* label exit.                                                             *)
(***************************************************************************)
EXTENDS Kernel

VARIABLES
  mpc,         \* the next call of main()
  exitcode,    \* the variable of that name
  created,     \* veth_created
  natApplied   \* nat_applied

mainVars == <<mpc, exitcode, created, natApplied>>

MainLabels ==
  {"parse", "config", "socketpair", "cloexec", "stack", "scrub", "veth",
   "peer_addr", "peer_up", "ip_forward", "masquerade", "forward_src",
   "forward_established", "clone", "settle", "open_ns", "move", "cg_mkdir",
   "cg_write", "map_read", "setgroups", "uid_map", "gid_map", "map_ok",
   "map_fail", "stop", "reap", "wait", "undo_nat", "undo_veth", "close0",
   "close1", "cg_free", "leave"}

-----------------------------------------------------------------------------
MainAt(call) == launcher = "up" /\ mpc = call

Goto(next) == mpc' = next /\ UNCHANGED <<exitcode, created, natApplied>>
M_JustBail ==
  mpc' = "undo_nat" /\ exitcode' = 1 /\ UNCHANGED <<created, natApplied>>
(* container_stop(container_pid); exitcode = 1; goto cleanup *)
StopAndBail ==
  mpc' = "stop" /\ exitcode' = 1 /\ UNCHANGED <<created, natApplied>>
(* exitcode = 1; goto cleanup *)
Bail == mpc' = "undo_nat" /\ exitcode' = 1 /\ UNCHANGED <<created, natApplied>>

MustMain(call, next) == (Works /\ Goto(next)) \/ (Fault(call) /\ Bail)

OnlyMain == UNCHANGED <<config, procVars, sockVars, hostVars>>
OnlySock == UNCHANGED <<config, procVars, initFd, toMain, toInit, hostVars>>
OnlyHost == UNCHANGED <<config, procVars, sockVars>>
OnlyNet == OnlyHost /\ UNCHANGED <<maps, cgdir, cgset>>

-----------------------------------------------------------------------------
(* --help leaves with 0, a wrong command line (and no memory for config)   *)
(* with 1, both without any cleanup.                                       *)
ParseArgs ==
  /\ MainAt("parse") /\ Works
  /\ \/ Goto("config")
     \/ Goto("leave")
     \/ mpc' = "leave" /\ exitcode' = 1 /\ UNCHANGED <<created, natApplied>>
  /\ OnlyMain

(* The names of the two interfaces are allocated only with --veth. *)
FillConfig ==
  /\ MainAt("config")
  /\ \/ Works /\ Goto("socketpair")
     \/ config.net /\ Fault("config") /\ Bail
  /\ OnlyMain

Socketpair ==
  /\ MainAt("socketpair")
  /\ \/ Works /\ Goto("cloexec") /\ main0' = "sock" /\ main1' = "sock"
     \/ Fault("socketpair") /\ Bail /\ UNCHANGED <<main0, main1>>
  /\ OnlySock /\ UNCHANGED cloexec

(* Mutants of this module's definitions are each placed before the one     *)
(* they change. Here: the flag is not set, although fcntl() succeeded.     *)
M_NoCloexec == UNCHANGED cloexec
MarkCloexec == cloexec' = TRUE

SetCloexec ==
  /\ MainAt("cloexec")
  /\ \/ Works /\ Goto("stack") /\ MarkCloexec
     \/ Fault("cloexec") /\ Bail /\ UNCHANGED cloexec
  /\ OnlySock /\ UNCHANGED <<main0, main1>>

AllocStack ==
  /\ MainAt("stack")
  /\ MustMain("stack", IF config.net THEN "scrub" ELSE "clone")
  /\ OnlyMain

-----------------------------------------------------------------------------
(* nl_del_link() of both names, results ignored. *)
ScrubLinks ==
  /\ MainAt("scrub") /\ Goto("veth")
  /\ \/ Works /\ veth' = IF veth = "stale" THEN "none" ELSE veth
     \/ Fault("scrub") /\ UNCHANGED veth
  /\ OnlyNet /\ UNCHANGED hostNet

(* A name that exists is refused. When the kernel's answer is lost,        *)
(* nl_create_veth() reports a failure although the pair was created.       *)
CreateVeth ==
  /\ MainAt("veth")
  /\ \/ /\ veth = "none" /\ Works /\ veth' = "host"
        /\ mpc' = IF config.hostip THEN "peer_addr" ELSE "peer_up"
        /\ created' = TRUE /\ UNCHANGED <<exitcode, natApplied>>
     \/ FailsIf(veth # "none", "veth") /\ Bail /\ UNCHANGED veth
     \/ veth = "none" /\ Fault("veth") /\ Bail /\ veth' = "host"
  /\ OnlyNet /\ UNCHANGED hostNet

(* A setting of the host's network whose failure is only logged. *)
Setting(call, next) ==
  /\ MainAt(call) /\ Goto(next)
  /\ \/ Works /\ hostNet' = hostNet \cup {call}
     \/ Fault(call) /\ UNCHANGED hostNet
  /\ OnlyNet /\ UNCHANGED veth

AddPeerAddr == Setting("peer_addr", "peer_up")
PeerUp == Setting("peer_up", IF config.hostip THEN "ip_forward" ELSE "clone")
IpForward ==
  Setting("ip_forward", IF config.nat THEN "masquerade" ELSE "clone")

(* setup_nat(): only the first rule decides its result. *)
Masquerade ==
  /\ MainAt("masquerade")
  /\ \/ Works /\ hostNet' = hostNet \cup {"masquerade"} /\ Goto("forward_src")
     \/ Fault("masquerade") /\ Goto("clone") /\ UNCHANGED hostNet
  /\ OnlyNet /\ UNCHANGED veth

ForwardSrc == Setting("forward_src", "forward_established")

ForwardEstablished ==
  /\ MainAt("forward_established")
  /\ \/ Works /\ hostNet' = hostNet \cup {"forward_established"}
     \/ Fault("forward_established") /\ UNCHANGED hostNet
  /\ mpc' = "clone" /\ natApplied' = TRUE /\ UNCHANGED <<exitcode, created>>
  /\ OnlyNet /\ UNCHANGED veth

-----------------------------------------------------------------------------
(* container_init(): the new process gets a copy of both ends, and the     *)
(* launcher closes the one it handed over. sockets[1] keeps its number.    *)
M_KeepOwnCopy == UNCHANGED main1    \* mutant: no close in the parent
HandOver == main1' = "free"

Clone ==
  /\ MainAt("clone")
  /\ \/ /\ Works /\ Goto("settle") /\ init' = "alive"
        /\ initFd' = Ends
        /\ HandOver
     \/ Fault("clone") /\ Bail /\ UNCHANGED <<init, initFd, main1>>
  /\ UNCHANGED <<config, launcher, status, main0, cloexec, toMain, toInit,
                 hostVars>>

(* kill(container_pid, 0) finds a zombie as well as a live process. *)
SignalReaches == init # "reaped"

Settle ==
  /\ MainAt("settle") /\ Works
  /\ IF SignalReaches THEN Goto(IF created THEN "open_ns" ELSE "cg_mkdir")
                      ELSE Bail
  /\ OnlyMain

(* A zombie has no namespaces any more. open() returns the lowest free     *)
(* descriptor, which is the number that sockets[1] still names.            *)
OpenNetns ==
  /\ MainAt("open_ns")
  /\ \/ /\ init = "alive" /\ Works /\ Goto("move")
        /\ main1' = "ns"
     \/ FailsIf(init # "alive", "open_ns") /\ StopAndBail /\ UNCHANGED main1
  /\ OnlySock /\ UNCHANGED <<main0, cloexec>>

(* Both branches close ns_fd. The move may have happened although its      *)
(* answer was lost.                                                        *)
M_KeepNsFd == UNCHANGED main1      \* mutant: no close(ns_fd)
CloseNsFd == main1' = "free"

MoveVeth ==
  /\ MainAt("move")
  /\ \/ veth = "host" /\ Works /\ Goto("cg_mkdir") /\ veth' = "ns"
     \/ FailsIf(veth # "host", "move") /\ StopAndBail /\ UNCHANGED veth
     \/ veth = "host" /\ Fault("move") /\ StopAndBail /\ veth' = "ns"
  /\ CloseNsFd
  /\ UNCHANGED <<config, procVars, main0, initFd, cloexec, toMain, toInit,
                 maps, hostNet, cgdir, cgset>>

-----------------------------------------------------------------------------
(* cgroups_init(): any failure is non-fatal. A directory that exists is    *)
(* removed and made again; one with a process in it cannot be removed.     *)
CgroupMkdir ==
  /\ MainAt("cg_mkdir")
  /\ \/ cgdir # "busy" /\ Works /\ cgdir' = "own" /\ Goto("cg_write")
     \/ /\ FailsIf(cgdir = "busy", "cg_mkdir")
        /\ UNCHANGED cgdir /\ Goto("map_read")
     \/ /\ cgdir = "stale" /\ Fault("cg_mkdir")
        /\ cgdir' = "absent" /\ Goto("map_read")
  /\ OnlyHost /\ UNCHANGED <<maps, veth, hostNet, cgset>>

(* memory.max, cpu.weight, pids.max, then cgroup.procs. *)
CgroupFiles == 4
M_OneMore(n) == n > CgroupFiles           \* mutant: runs past the list
M_OneLess(n) == n = CgroupFiles - 1       \* mutant: cgroup.procs forgotten
Written(n) == n = CgroupFiles

CgroupWrite ==
  /\ MainAt("cg_write")
  /\ \/ /\ Works /\ cgset' = cgset + 1
        /\ Goto(IF Written(cgset + 1) THEN "map_read" ELSE "cg_write")
     \/ Fault("cg_write") /\ Goto("map_read") /\ UNCHANGED cgset
  /\ OnlyHost /\ UNCHANGED <<maps, veth, hostNet, cgdir>>

-----------------------------------------------------------------------------
(* user_namespace_prepare_mappings(): a short read returns without telling *)
(* the child, a nonzero report would go to fail.                           *)
ReadUnshared ==
  /\ MainAt("map_read")
  /\ ReadableAt0
  /\ toMain' = "empty"
  /\ IF toMain = "empty" THEN StopAndBail
     ELSE Goto(IF toMain = "ok" THEN "setgroups" ELSE "map_fail")
  /\ Works
  /\ UNCHANGED <<config, procVars, main0, main1, initFd, cloexec, toInit,
                 hostVars>>

(* The files can be written for a zombie too. *)
WriteMap(file, next) ==
  /\ MainAt(file)
  /\ \/ Works /\ maps' = maps \cup {file} /\ Goto(next)
     \/ Fault(file) /\ UNCHANGED maps /\ Goto("map_fail")
  /\ OnlyHost /\ UNCHANGED <<veth, hostNet, cgdir, cgset>>

DenySetgroups == WriteMap("setgroups", "uid_map")
WriteUidMap == WriteMap("uid_map", "gid_map")
WriteGidMap == WriteMap("gid_map", "map_ok")

(* With no reader left the packet is refused (EPIPE; a SOCK_SEQPACKET      *)
(* socket raises no SIGPIPE).                                              *)
Send(answer) == toInit' = IF End1Open THEN answer ELSE toInit

OnlyAnswer ==
  UNCHANGED <<config, procVars, main0, main1, initFd, cloexec, toMain,
              hostVars>>

M_NoAnswer ==                             \* mutant: returns 0 at once
  MainAt("map_ok") /\ Works /\ Goto("wait") /\ UNCHANGED toInit /\ OnlyAnswer

AnswerOk ==
  /\ MainAt("map_ok") /\ Works
  /\ Send("ok")
  /\ IF End1Open THEN Goto("wait") ELSE StopAndBail
  /\ OnlyAnswer

Refusal == "error"
AnswerFail ==
  /\ MainAt("map_fail") /\ Works
  /\ Send(Refusal) /\ StopAndBail
  /\ OnlyAnswer

-----------------------------------------------------------------------------
(* container_stop(): a zombie takes the signal without effect. *)
M_NoWait == "undo_nat"                    \* mutant: no waitpid()
AfterKill == IF SignalReaches THEN "reap" ELSE "undo_nat"

SendSigkill ==
  /\ MainAt("stop") /\ Works
  /\ IF init = "alive" THEN InitExits(SIGKILLed)
                       ELSE UNCHANGED <<init, status, initFd>>
  /\ Goto(AfterKill)
  /\ UNCHANGED <<config, launcher, main0, main1, cloexec, toMain, toInit,
                 hostVars>>

Reap ==
  /\ MainAt("reap") /\ Works
  /\ init = "zombie" /\ init' = "reaped"
  /\ Goto("undo_nat")
  /\ UNCHANGED <<config, launcher, status, sockVars, hostVars>>

(* main() itself waits, and takes over the container's status. *)
M_SignalLost == IF status > 128 THEN 0 ELSE status  \* mutant: WIFEXITED only
ExitStatus == status

(* waitpid() can only fail with ECHILD, when barco was started with SIGCHLD *)
(* ignored: it still returns after the container's end only, and the       *)
(* kernel has reaped the container without a status for anybody.           *)
WaitContainer ==
  /\ MainAt("wait")
  /\ init = "zombie" /\ init' = "reaped"
  /\ \/ /\ Works /\ mpc' = "undo_nat"
        /\ exitcode' = IF exitcode = 0 THEN ExitStatus ELSE exitcode
        /\ UNCHANGED <<created, natApplied>>
     \/ Fault("wait") /\ Bail
  /\ UNCHANGED <<config, launcher, status, sockVars, hostVars>>

-----------------------------------------------------------------------------
(* cleanup_nat(): three deletions, results ignored. *)
UndoNat ==
  /\ MainAt("undo_nat") /\ Goto("undo_veth")
  /\ IF natApplied
       THEN \/ Works /\ hostNet' = hostNet \ NatRules
            \/ /\ Fault("nat_del")
               /\ \E kept \in SUBSET (hostNet \cap NatRules) :
                    hostNet' = (hostNet \ NatRules) \cup kept
       ELSE Works /\ UNCHANGED hostNet
  /\ OnlyNet /\ UNCHANGED veth

M_OnSuccess == created /\ exitcode = 0    \* mutant: skipped on errors
MustUnlink == created

UndoVeth ==
  /\ MainAt("undo_veth") /\ Goto("close0")
  /\ \/ /\ MustUnlink /\ Works
        /\ veth' = "none" /\ hostNet' = hostNet \ PeerSettings
     \/ MustUnlink /\ Fault("peer_del") /\ UNCHANGED <<veth, hostNet>>
     \/ ~MustUnlink /\ Works /\ UNCHANGED <<veth, hostNet>>
  /\ OnlyNet

CloseEnd0 ==
  /\ MainAt("close0") /\ Works /\ Goto("close1")
  /\ main0' = "free"
  /\ OnlySock /\ UNCHANGED <<main1, cloexec>>

(* close(sockets[1]): whatever is open under that number now. *)
CloseEnd1 ==
  /\ MainAt("close1") /\ Works /\ Goto("cg_free")
  /\ main1' = "free"
  /\ OnlySock /\ UNCHANGED <<main0, cloexec>>

(* cgroups_free(): rmdir() is refused while a process is in the directory. *)
Populated == cgdir = "busy" \/ (cgset = CgroupFiles /\ init = "alive")

CgroupsFree ==
  /\ MainAt("cg_free") /\ Goto("leave")
  /\ \/ ~Populated /\ Works /\ cgdir' = "absent"
     \/ FailsIf(Populated, "cg_free") /\ UNCHANGED cgdir
  /\ OnlyHost /\ UNCHANGED <<maps, veth, hostNet, cgset>>

Return ==
  /\ MainAt("leave") /\ Works
  /\ launcher' = "returned"
  /\ UNCHANGED <<mainVars, config, init, status, sockVars, hostVars>>

MainNext ==
  \/ ParseArgs \/ FillConfig \/ Socketpair \/ SetCloexec \/ AllocStack
  \/ ScrubLinks \/ CreateVeth \/ AddPeerAddr \/ PeerUp \/ IpForward
  \/ Masquerade \/ ForwardSrc \/ ForwardEstablished
  \/ Clone \/ Settle \/ OpenNetns \/ MoveVeth
  \/ CgroupMkdir \/ CgroupWrite
  \/ ReadUnshared \/ DenySetgroups \/ WriteUidMap \/ WriteGidMap
  \/ AnswerOk \/ AnswerFail
  \/ SendSigkill \/ Reap \/ WaitContainer
  \/ UndoNat \/ UndoVeth \/ CloseEnd0 \/ CloseEnd1 \/ CgroupsFree \/ Return

MainInit ==
  /\ mpc = "parse" /\ exitcode = 0 /\ created = FALSE /\ natApplied = FALSE

MainTypeOK ==
  /\ mpc \in MainLabels
  /\ exitcode \in Byte
  /\ created \in BOOLEAN
  /\ natApplied \in BOOLEAN
=============================================================================
