----------------------------- MODULE MCNetlink ------------------------------
(* Values of the constants of Netlink for TLC: two launchers on the host,  *)
(* whose generated names are the same, and a container's first process.    *)
EXTENDS Netlink

CONSTANTS launcher, rival, child, host, cont

ClientSet == {launcher, rival, child}
HomeOf == [c \in ClientSet |-> IF c = child THEN cont ELSE host]

C(op, name, other) == Call(op, name, other, "ok", NoPrefix)
Addr(name, text, plen) == Call("add_addr", name, "", text, plen)

LauncherCalls ==
  {C("create_veth", "tmp", "peer")} \cup
  {Addr("peer", "ok", plen) : plen \in {32, 33, 256}}
RivalCalls == {C("del_link", "peer", ""), C("move_to_ns", "tmp", cont)}
ChildCalls ==
  {Addr("veth", "ok", NoPrefix)} \cup
  {C("rename_link", "tmp", "veth"), Addr("veth", "bad", NoPrefix),
   C("set_up", "veth", ""), C("add_route", "veth", "gw")}

CallSets ==
  [c \in ClientSet |-> CASE c = launcher -> LauncherCalls
                         [] c = rival -> RivalCalls [] c = child -> ChildCalls]

Loopback == {Link(1, 0, "lo", host), Link(0 - 1, 0, "lo", cont)}
Ready == [Link(3, 1, "veth", cont) EXCEPT !.up = TRUE, !.plen = 24]
WorldSet ==
  {Loopback,
   Loopback \cup {Link(2, 1, "peer", host), Link(3, 1, "tmp", cont)},
   Loopback \cup {Link(2, 1, "peer", host), Ready}}
=============================================================================
