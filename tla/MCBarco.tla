------------------------------ MODULE MCBarco -------------------------------
(* Values of the constants of Barco for TLC. *)
EXTENDS BarcoLifecycle

MainFaults ==
  {"config", "socketpair", "cloexec", "stack", "scrub", "veth", "peer_addr",
   "peer_up", "ip_forward", "masquerade", "forward_src",
   "forward_established", "clone", "open_ns", "move", "cg_mkdir", "cg_write",
   "setgroups", "uid_map", "gid_map", "nat_del", "peer_del", "cg_free",
   "wait"}
ChildFaults ==
  {"hostname", "mount", "lo", "rename", "addr", "up", "route", "gateway", "dns",
   "ping", "unshare", "hs_write", "setid", "caps", "seccomp", "close", "exec"}
AllFaults == MainFaults \cup ChildFaults
=============================================================================
