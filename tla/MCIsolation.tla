---------------------------- MODULE MCIsolation -----------------------------
(* Values of the constants of Isolation for TLC: two containers, which may *)
(* share their root file system, or be given the host's.                   *)
EXTENDS Isolation

CONSTANTS c1, c2, alpine, busybox, slash

CapSet == {"setpcap", "sys_admin", "mknod", "kill"}
DropSeq == <<"mknod", "sys_admin">>
AllCalls ==
  {"private", "outer", "bind", "inner", "pivot", "chdir", "umount", "rmdir",
   "proc", "dns_open", "dns_write", "ping", "unshare", "drop", "inherit",
   "seccomp", "exec", "kill"}
=============================================================================
