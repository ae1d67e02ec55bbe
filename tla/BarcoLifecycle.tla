--------------------------- MODULE BarcoLifecycle ---------------------------
(* The refinement mapping from Barco to Lifecycle. *)
EXTENDS Barco

phase ==
  IF init = "unborn" THEN "idle"
  ELSE IF init # "alive" THEN "ended"
  ELSE IF Running THEN "running" ELSE "preparing"

held ==
  {r \in {"link", "limits", "nat"} :
     CASE r = "link"   -> veth \in {"host", "ns", "named"}
       [] r = "limits" -> cgdir = "own"
       [] r = "nat"    -> hostNet \cap NatRules # {}}

answer == IF launcher = "returned" THEN exitcode ELSE 0

Life == INSTANCE Lifecycle WITH
  needed <- IF config.net THEN {"link"} ELSE {},
  boss <- launcher

(* Every step of the two processes, the kernel and the host is a step of   *)
(* the promised life of a container, or none: what main() makes is there   *)
(* before the command starts, no error path takes it away from a container *)
(* that lives, and the exit code is the container's.                       *)
KeepsPromise == Life!Spec
=============================================================================
