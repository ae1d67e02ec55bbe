------------------------------- MODULE Barco --------------------------------
(***************************************************************************)
(* One run of barco: the launcher and the container's first process, the   *)
(* kernel objects between them, and what the host may do to both.          *)
(***************************************************************************)
EXTENDS BarcoMain, ContainerStart

CONSTANT Events   \* of {"kill", "crash"}: what may happen from outside

vars == <<kernelVars, mainVars, childVars>>

Init == KernelInit /\ MainInit /\ ContainerInit

Main == MainNext /\ UNCHANGED childVars
Setup == ContainerSetup /\ UNCHANGED mainVars
Command == UserExit /\ UNCHANGED mainVars
Reclaim == NetnsDestroyed /\ UNCHANGED <<mainVars, childVars>>
Kill == "kill" \in Events /\ InitKilled /\ UNCHANGED <<mainVars, childVars>>
Crash ==
  "crash" \in Events /\ LauncherKilled /\ UNCHANGED <<mainVars, childVars>>

(* Both processes are gone: nothing is left to do. *)
Over ==
  /\ launcher # "up" /\ init \in {"unborn", "reaped"}
  /\ UNCHANGED vars

Next == Main \/ Setup \/ Command \/ Reclaim \/ Kill \/ Crash \/ Over

(* The scheduler runs a process that can take a step, and the kernel       *)
(* destroys a namespace nobody uses. Nothing makes the user's command end. *)
Fairness == WF_vars(Main) /\ WF_vars(Setup) /\ WF_vars(Reclaim)

Spec == Init /\ [][Next]_vars
FairSpec == Spec /\ Fairness

-----------------------------------------------------------------------------
(* Type correctness of the state of both processes and of the kernel       *)
(* objects; cgset in 0..4 is the bound of the loop over                    *)
(* cgroups_setting_list, waited that of the wait for the interface.        *)
TypeOK == KernelTypeOK /\ MainTypeOK /\ ContainerTypeOK

Running == At("running")

(* The user's command only ever runs isolated: host name and root file     *)
(* system replaced, in a user namespace whose mapping the launcher has     *)
(* written completely, under the requested identity, and with none of the  *)
(* descriptors of the handshake. Whatever fails, and whoever dies, between *)
(* clone() and execve(), the handshake must not let it through.            *)
Confined ==
  Running =>
    /\ {"hostname", "mount", "unshare", "hs_read", "setid"} \subseteq done
    /\ maps = MapFiles
    /\ initFd = {}

(* Resources are there before the command starts and stay while it runs,   *)
(* although another process makes them: the answer that lets the container *)
(* go on is sent after cgroups_init(), and cleanup starts after the        *)
(* container's end. Limits are missing only when cgroups_init() failed     *)
(* (non-fatal), the network never.                                         *)
HeldWhileRunning ==
  Running =>
    /\ \/ cgdir = "own" /\ cgset = CgroupFiles
       \/ cgdir = "busy"
       \/ {"cg_mkdir", "cg_write"} \cap failed # {}
    /\ config.net => veth = "named" /\ {"rename", "addr", "up"} \subseteq done
    /\ natApplied => "masquerade" \in hostNet

(* A launcher that returns leaves no process, no descriptor, no interface, *)
(* no NAT rule and no cgroup directory of its own, unless the very call    *)
(* that deletes it has failed, or nl_create_veth() reported a failure for  *)
(* a pair that it had created (veth_created stays 0).                      *)
CleanReturn ==
  launcher = "returned" =>
    /\ init \in {"unborn", "reaped"}
    /\ main0 = "free" /\ main1 = "free" /\ initFd = {}
    /\ veth \notin {"none", "stale"} => {"veth", "peer_del"} \cap failed # {}
    /\ hostNet \cap NatRules # {} => "nat_del" \in failed
    /\ cgdir = "own" => "cg_free" \in failed

(* cgroups_free() must only be called once every process of the container  *)
(* is gone (cgroups.h:59), which no caller checks: cleanup is reached from *)
(* a dozen places.                                                         *)
FreeAfterExit == MainAt("cg_free") => init \in {"unborn", "reaped"}

(* Whenever the launcher names the container by its process id (kill(),    *)
(* /proc/<pid>/..., cgroup.procs), that id has not been given back to the  *)
(* kernel, which could have handed it to a stranger.                       *)
PidStillOurs ==
  (launcher = "up" /\ mpc \in {"settle", "open_ns", "cg_mkdir", "cg_write",
                               "setgroups", "uid_map", "gid_map", "stop"})
    => init \in {"alive", "zombie"}

(* sockets[1] keeps the number that container_init() closed; the second    *)
(* close of it in cleanup must not hit a descriptor opened since.          *)
StaleCloseSafe == MainAt("close1") => main1 # "ns"

(* Exit code 0 means that the command ran and returned 0 (or that no       *)
(* container was asked for, and nothing failed); any other code is the     *)
(* container's own status or 1. A container killed by a signal is never    *)
(* reported as a success.                                                  *)
ExitCodeHonest ==
  launcher = "returned" =>
    IF init = "unborn"
      THEN failed # {} => exitcode = 1
      ELSE /\ exitcode \in {1, status}
           /\ exitcode = 0 => "exec" \in done

-----------------------------------------------------------------------------
(* No deadlock of the handshake: whatever fails, and if the container is   *)
(* killed, barco ends up waiting for a command that runs, or returns.      *)
Settles == <>(launcher # "up" \/ (MainAt("wait") /\ Running))

(* Once the container has ended, the launcher comes to its end, wherever   *)
(* it was in its own sequence: no read and no wait blocks for ever.        *)
LauncherReturns == (init = "zombie") ~> (launcher # "up")

(* A container whose launcher is gone comes to its end, runs its command,  *)
(* or waits for an answer that will not come: having inherited end 0 it    *)
(* keeps its own socket from reporting end of file.                        *)
OrphanSettles ==
  (launcher = "killed" /\ init = "alive")
    ~> (init = "reaped" \/ Running \/ At("hs_read"))
-----------------------------------------------------------------------------
(* What comments of the source say and the code does not do. *)

(* sec.h:27 and sec.h:42: sec_set_caps() and sec_set_seccomp() return -1   *)
(* when they fail, so that container_start() stops before execve(). They   *)
(* return 1, which its test for a negative result lets pass.               *)
HardenedExec == Running => {"caps", "seccomp"} \subseteq done
=============================================================================
