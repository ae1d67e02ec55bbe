--------------------------- MODULE ContainerStart ---------------------------
(***************************************************************************)
(* The container's first process: container_start() in src/container.c,    *)
(* with user_namespace_init() of src/user.c, one action per call that can  *)
(* fail or that the launcher can observe. A "Must" call ends the process   *)
(* with exit code 255 when it fails (goto fail, return -1 from clone's     *)
(* function); a "Try" call is only logged.                                 *)
(***************************************************************************)
EXTENDS Kernel

CONSTANTS
  ExitCodes,   \* exit codes the user's command may end with
  PollMax      \* rounds of the wait for the interface (5000 ms / 100 ms)

ASSUME ContainerAssumption == ExitCodes \subseteq Byte /\ PollMax \in Nat

VARIABLES
  cpc,         \* the next call of container_start(), or "running", "dead"
  waited,      \* rounds waited for the interface
  done         \* calls that have succeeded

childVars == <<cpc, waited, done>>

ChildLabels ==
  {"hostname", "mount", "lo", "poll", "rename", "addr", "up", "route", "dns",
   "ping", "unshare", "hs_write", "hs_read", "setid", "caps", "seccomp",
   "close", "exec", "running", "dead"}

-----------------------------------------------------------------------------
At(call) == init = "alive" /\ cpc = call

Fail == cpc' = "dead" /\ InitExits(255) /\ UNCHANGED done

Continue(next) == cpc' = next /\ UNCHANGED <<init, status, initFd>>

Succeed(call, next) == Works /\ Continue(next) /\ done' = done \cup {call}

Try(call, next) ==
  Succeed(call, next) \/ (Fault(call) /\ Continue(next) /\ UNCHANGED done)

Must(call, next) == Succeed(call, next) \/ (Fault(call) /\ Fail)

InitKeeps == UNCHANGED <<config, launcher, main0, main1, cloexec, maps,
                         hostNet, cgdir, cgset>>
Private == InitKeeps /\ UNCHANGED <<toMain, toInit, veth, waited>>

-----------------------------------------------------------------------------
Sethostname == At("hostname") /\ Must("hostname", "mount") /\ Private

MountSet ==
  /\ At("mount")
  /\ Must("mount", IF config.net THEN "lo" ELSE "dns")
  /\ Private

LoUp == At("lo") /\ Try("lo", "poll") /\ Private

(* if_nametoindex(veth_tmp) # 0 in the container's network namespace.      *)
Visible == veth = "ns"

M_NoTick == UNCHANGED waited        \* mutant: waited is not advanced
Tick == waited' = waited + 1

(* One evaluation of the loop condition; once the loop has ended, only the *)
(* number of rounds says whether the wait timed out.                       *)
Poll ==
  /\ At("poll")
  /\ IF ~Visible /\ waited < PollMax
       THEN Tick /\ Continue("poll") /\ UNCHANGED done
       ELSE /\ UNCHANGED waited
            /\ IF waited >= PollMax THEN Fail
               ELSE Continue("rename") /\ UNCHANGED done
  /\ Works /\ InitKeeps /\ UNCHANGED <<toMain, toInit, veth>>

Rename ==
  /\ At("rename")
  /\ \/ Visible /\ Succeed("rename", "addr") /\ veth' = "named"
     \/ FailsIf(~Visible, "rename") /\ Fail /\ UNCHANGED veth
  /\ InitKeeps /\ UNCHANGED <<toMain, toInit, waited>>

AddAddr == At("addr") /\ Must("addr", "up") /\ Private

SetUp ==
  At("up") /\ Must("up", IF config.hostip THEN "route" ELSE "dns") /\ Private

(* "gateway": the address in front of the slash of --host-ip is too long   *)
(* for its buffer (nl_add_addr() has refused it at the peer as well).      *)
AddRoute ==
  /\ At("route")
  /\ Try("route", "dns") \/ (Fault("gateway") /\ Fail)
  /\ Private

SetupDns == At("dns") /\ Try("dns", "ping") /\ Private

EnablePing == At("ping") /\ Try("ping", "unshare") /\ Private

-----------------------------------------------------------------------------
(* user_namespace_init() *)
Unshare == At("unshare") /\ Must("unshare", "hs_write") /\ Private

TellUnshared ==
  /\ At("hs_write")
  /\ \/ End0Open /\ Succeed("hs_write", "hs_read") /\ toMain' = "ok"
     \/ FailsIf(~End0Open, "hs_write") /\ Fail /\ UNCHANGED toMain
  /\ InitKeeps /\ UNCHANGED <<toInit, veth, waited>>

(* A short read (end of file) and a nonzero answer are both refused. Init  *)
(* still holds its own copy of end 0 here, so that an empty queue blocks   *)
(* it even when the launcher is gone.                                      *)
Accepts(answer) == answer = "ok"

AwaitMapping ==
  /\ At("hs_read")
  /\ ReadableAt1
  /\ IF Accepts(toInit) THEN Continue("setid") /\ done' = done \cup {"hs_read"}
                        ELSE Fail
  /\ toInit' = "empty"
  /\ Works /\ InitKeeps /\ UNCHANGED <<toMain, veth, waited>>

(* USER_NAMESPACE_UID_CHILD_RANGE_START and _SIZE; setresgid(uid, uid, uid) *)
(* and setresuid(uid, uid, uid) fail for an id that has no mapping.         *)
ChildRange == 0 .. (0 + 1 - 1)
Mapped(id) == id \in ChildRange /\ {"uid_map", "gid_map"} \subseteq maps

SwitchUser ==
  /\ At("setid")
  /\ \/ Mapped(config.uid) /\ Succeed("setid", "caps")
     \/ FailsIf(~Mapped(config.uid), "setid") /\ Fail
  /\ Private

-----------------------------------------------------------------------------
(* sec_set_caps() and sec_set_seccomp() return 1 when they fail, and       *)
(* container_start() gives up only for a negative result: see sec.c.       *)
SetCaps == At("caps") /\ Try("caps", "seccomp") /\ Private

SetSeccomp == At("seccomp") /\ Try("seccomp", "close") /\ Private

CloseSocket ==
  /\ At("close")
  /\ \/ /\ Works /\ cpc' = "exec" /\ done' = done \cup {"close"}
        /\ initFd' = initFd \ {1} /\ UNCHANGED <<init, status>>
     \/ Fault("close") /\ Fail
  /\ Private

Execve ==
  /\ At("exec")
  /\ \/ /\ Works /\ cpc' = "running" /\ done' = done \cup {"exec"}
        /\ initFd' = IF cloexec THEN initFd \ {0} ELSE initFd
        /\ UNCHANGED <<init, status>>
     \/ Fault("exec") /\ Fail
  /\ Private

(* The user's command ends; being process 1 of its PID namespace, it takes *)
(* every other process of the container with it.                           *)
UserExit ==
  /\ At("running")
  /\ \E code \in ExitCodes : InitExits(code)
  /\ cpc' = "dead" /\ Works /\ UNCHANGED done /\ Private

ContainerSetup ==
  \/ Sethostname \/ MountSet
  \/ LoUp \/ Poll \/ Rename \/ AddAddr \/ SetUp \/ AddRoute
  \/ SetupDns \/ EnablePing
  \/ Unshare \/ TellUnshared \/ AwaitMapping \/ SwitchUser
  \/ SetCaps \/ SetSeccomp \/ CloseSocket \/ Execve

ContainerInit == cpc = "hostname" /\ waited = 0 /\ done = {}

ContainerTypeOK ==
  /\ cpc \in ChildLabels
  /\ waited \in 0..PollMax
  /\ done \subseteq ChildLabels
=============================================================================
