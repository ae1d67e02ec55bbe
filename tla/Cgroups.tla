------------------------------ MODULE Cgroups -------------------------------
(***************************************************************************)
(* cgroups_init() and cgroups_free() of src/cgroups.c, run by several      *)
(* launchers at once. main() gives every container the same host name      *)
(* (barco.c:221), so all of them use one directory, by its path.           *)
(***************************************************************************)
EXTENDS FiniteSets

CONSTANTS
  Launchers,   \* the runs of barco on this host
  Failing,     \* launchers for which one call of theirs may fail
  MayCrash     \* launchers that may be killed

ASSUME CgroupsAssumption ==
  IsFiniteSet(Launchers) /\ Failing \cup MayCrash \subseteq Launchers

VARIABLES
  pc,          \* the next step of each launcher
  result,      \* what cgroups_init() returned to it: "none", "ok", "failed"
  dir,         \* the directory exists
  limits,      \* its control files that have been written
  procs,       \* the launchers whose container is in it
  live,        \* the launchers whose container's process is alive
  faulted,     \* launchers one of whose calls has failed
  alone        \* history: launchers that no other container has overlapped

vars == <<pc, result, dir, limits, procs, live, faulted, alone>>

LimitFiles == {"memory.max", "cpu.weight", "pids.max"}

Labels == {"start", "mkdir", "rmdir", "mkdir_again", "memory.max",
           "cpu.weight", "pids.max", "attach", "wait", "free", "returned",
           "left", "killed"}

(* The order of cgroups_setting_list. *)
NextFile == [f \in LimitFiles |->
  CASE f = "memory.max" -> "cpu.weight"
    [] f = "cpu.weight" -> "pids.max"
    [] f = "pids.max" -> "attach"]

-----------------------------------------------------------------------------
Goto(l, next) == pc' = [pc EXCEPT ![l] = next]

(* A result of -1 is only logged, and main() goes on. *)
Returns(l, r) == Goto(l, "wait") /\ result' = [result EXCEPT ![l] = r]

NoDir == dir' = FALSE /\ limits' = {}
NewDir == dir' = TRUE /\ limits' = {}
SameDir == UNCHANGED <<dir, limits, procs>>

Idle(l) == l \notin live /\ pc[l] \in {"start", "returned", "left", "killed"}

(* Before cgroups_init(): everything up to the clone of the container. *)
Start(l) ==
  /\ pc[l] = "start" /\ Goto(l, "mkdir")
  /\ live' = live \cup {l}
  /\ alone' = IF \A m \in Launchers \ {l} : Idle(m) THEN {l} ELSE {}
  /\ SameDir /\ UNCHANGED <<result, faulted>>

Breaks(l) == l \in Failing \ faulted /\ faulted' = faulted \cup {l}

CallFails(l) == Breaks(l) /\ Returns(l, "failed") /\ SameDir

(* Any failure but EEXIST is final. *)
Mkdir(l) ==
  /\ pc[l] = "mkdir"
  /\ \/ /\ IF dir THEN Goto(l, "rmdir") /\ UNCHANGED <<dir, limits>>
                  ELSE Goto(l, "memory.max") /\ NewDir
        /\ UNCHANGED <<procs, result, faulted>>
     \/ CallFails(l)
  /\ UNCHANGED <<live, alone>>

(* An earlier step of main() fails: container_stop(), if there is one, and *)
(* cleanup, which frees a directory that this launcher never made.         *)
GiveUp(l) ==
  /\ pc[l] = "mkdir" /\ Goto(l, "free")
  /\ live' = live \ {l}
  /\ SameDir /\ UNCHANGED <<result, faulted, alone>>

(* EEXIST: rmdir() is refused while a process is inside (EBUSY); a         *)
(* directory that has gone meanwhile (ENOENT) is as good as removed.       *)
M_RefuseExisting(l) ==                  \* mutant: EEXIST is an error
  /\ pc[l] = "rmdir" /\ Returns(l, "failed")
  /\ SameDir /\ UNCHANGED <<live, faulted, alone>>

RmdirExisting(l) ==
  /\ pc[l] = "rmdir"
  /\ \/ /\ dir /\ procs # {}
        /\ Returns(l, "failed") /\ SameDir /\ UNCHANGED faulted
     \/ /\ ~dir \/ procs = {}
        /\ Goto(l, "mkdir_again") /\ NoDir /\ UNCHANGED <<procs, result, faulted>>
     \/ CallFails(l)
  /\ UNCHANGED <<live, alone>>

MkdirAgain(l) ==
  /\ pc[l] = "mkdir_again"
  /\ \/ dir /\ Returns(l, "failed") /\ SameDir /\ UNCHANGED faulted
     \/ /\ ~dir /\ Goto(l, "memory.max") /\ NewDir
        /\ UNCHANGED <<procs, result, faulted>>
     \/ CallFails(l)
  /\ UNCHANGED <<live, alone>>

(* The file is opened by its path, in whatever directory is there now. *)
WriteLimit(l, f) ==
  /\ pc[l] = f
  /\ \/ /\ dir /\ limits' = limits \cup {f} /\ Goto(l, NextFile[f])
        /\ UNCHANGED <<dir, procs, result, faulted>>
     \/ ~dir /\ Returns(l, "failed") /\ SameDir /\ UNCHANGED faulted
     \/ CallFails(l)
  /\ UNCHANGED <<live, alone>>

(* The last setting, cgroup.procs. A process that has ended is not moved.  *)
Moved(l) == {l} \cap live

Attach(l) ==
  /\ pc[l] = "attach"
  /\ \/ /\ dir /\ procs' = procs \cup Moved(l) /\ Returns(l, "ok")
        /\ UNCHANGED <<dir, limits, faulted>>
     \/ ~dir /\ Returns(l, "failed") /\ SameDir /\ UNCHANGED faulted
     \/ CallFails(l)
  /\ UNCHANGED <<live, alone>>

(* main() goes to cleanup when its container has ended. *)
Wait(l) ==
  /\ pc[l] = "wait" /\ l \notin live /\ Goto(l, "free")
  /\ SameDir /\ UNCHANGED <<result, live, faulted, alone>>

(* cgroups_free(): rmdir() of the same path, whoever made it; a refusal is *)
(* only logged. "left": returned, though its rmdir() has failed.           *)
M_FreeOwn(l) == result[l] = "ok"        \* mutant: only after a success
Frees(l) == TRUE

Free(l) ==
  /\ pc[l] = "free"
  /\ \/ /\ IF Frees(l) /\ dir /\ procs = {} THEN NoDir
                                            ELSE UNCHANGED <<dir, limits>>
        /\ Goto(l, "returned") /\ UNCHANGED faulted
     \/ Breaks(l) /\ Goto(l, "left") /\ UNCHANGED <<dir, limits>>
  /\ UNCHANGED <<result, procs, live, alone>>

(* The container's first process ends, at any time. *)
ContainerEnds(l) ==
  /\ l \in live
  /\ live' = live \ {l} /\ procs' = procs \ {l}
  /\ UNCHANGED <<pc, result, dir, limits, faulted, alone>>

(* The launcher is killed; its container stays. *)
LauncherKilled(l) ==
  /\ l \in MayCrash /\ pc[l] \notin {"returned", "left", "killed"}
  /\ Goto(l, "killed")
  /\ SameDir /\ UNCHANGED <<result, live, faulted, alone>>

Step(l) ==
  \/ Start(l) \/ GiveUp(l) \/ Mkdir(l) \/ RmdirExisting(l) \/ MkdirAgain(l)
  \/ \E f \in LimitFiles : WriteLimit(l, f)
  \/ Attach(l) \/ Wait(l) \/ Free(l)

Over ==
  /\ live = {} /\ \A l \in Launchers : pc[l] \in {"returned", "left", "killed"}
  /\ UNCHANGED vars

Next ==
  \/ \E l \in Launchers : Step(l) \/ ContainerEnds(l) \/ LauncherKilled(l)
  \/ Over

Init ==
  /\ pc = [l \in Launchers |-> "start"]
  /\ result = [l \in Launchers |-> "none"]
  /\ dir = FALSE /\ limits = {} /\ procs = {} /\ live = {} /\ faulted = {}
  /\ alone = {}

Spec == Init /\ [][Next]_vars

-----------------------------------------------------------------------------
TypeOK ==
  /\ pc \in [Launchers -> Labels]
  /\ result \in [Launchers -> {"none", "ok", "failed"}]
  /\ dir \in BOOLEAN /\ limits \subseteq LimitFiles
  /\ procs \subseteq live /\ live \subseteq Launchers
  /\ faulted \subseteq Failing /\ alone \subseteq Launchers

(* Once every launcher has returned, the shared directory is gone, in      *)
(* whatever order they ran and freed it, and whoever made it last: it      *)
(* takes a launcher that is killed, or whose own rmdir() fails, to leave   *)
(* it.                                                                     *)
NothingLeft ==
  (\A l \in Launchers : pc[l] = "returned") => ~dir

(* Recovery from a directory that was left there (cgroups.c:97):           *)
(* a container that overlaps no other has its limits, although the name    *)
(* may be taken when it comes.                                             *)
Limited(l) == l \in procs /\ limits = LimitFiles
AloneIsLimited ==
  \A l \in alone \ faulted :
    pc[l] = "wait" => result[l] = "ok" /\ (l \in live => Limited(l))

-----------------------------------------------------------------------------
(* What cgroups.h says and the code does not do.                           *)

(* cgroups.h:44-51: cgroups_init() creates the directory, sets the limits  *)
(* and returns 0 when that succeeded. Another launcher may have replaced   *)
(* the directory between the limits and cgroup.procs.                      *)
SuccessMeansLimited ==
  \A l \in live : result[l] = "ok" => Limited(l)
=============================================================================
