------------------------------ MODULE Netlink -------------------------------
(***************************************************************************)
(* The functions nl_*() of src/netlink.c: each opens a socket, looks for   *)
(* the interface, sends one request to the kernel and waits for an answer. *)
(* The processes of several containers call them at the same time, each in *)
(* its own network namespace, and find what the others have changed in     *)
(* between.                                                                *)
(***************************************************************************)
EXTENDS Integers, FiniteSets

CONSTANTS
  Clients,     \* processes that call nl_*()
  Home,        \* [Clients -> namespaces]: where each of them is
  Calls,       \* [Clients -> sets of calls]: what each of them may call
  Worlds,      \* sets of interfaces that may exist at the beginning
  MaxCalls,    \* bound: calls of one process
  PollMax,     \* rounds of wait_for_interface() (5000 ms / 100 ms)
  Faults       \* of {"socket", "timeo", "send", "answer"}: what may fail

VARIABLES
  links,       \* the kernel's interfaces, in all namespaces
  pairs,       \* how many pairs have been created
  pc,          \* what each process does next, "idle" between two calls
  call,        \* the call it is in
  sock,        \* its socket: "closed", "timed" or "untimed"
  idx,         \* the index it has found, 0 for none
  rounds,      \* rounds of wait_for_interface()
  answer,      \* what recvmsg() will find
  ret,         \* the result of the last call
  past         \* history: [made, carried, broken, pair], see Begin

kernel == <<links, pairs>>
vars == <<kernel, pc, call, sock, idx, rounds, answer, ret, past>>

NoPrefix == -1

(* A call's names, whether its addresses can be parsed, and the number     *)
(* behind the slash. undo: nl_del_link() as nl_create_veth() calls it.     *)
Call(op, name, other, text, plen) ==
  [op |-> op, name |-> name, other |-> other, text |-> text, plen |-> plen,
   undo |-> FALSE]
DeletionOf(name) ==
  [op |-> "del_link", name |-> name, other |-> "", text |-> "ok",
   plen |-> NoPrefix, undo |-> TRUE]

Ops == {"create_veth", "set_up", "add_addr", "del_link", "add_route",
        "move_to_ns", "rename_link"}

ASSUME NetlinkAssumption ==
  /\ MaxCalls \in Nat /\ PollMax \in Nat
  /\ \A c \in Clients : \A q \in Calls[c] :
       /\ q = Call(q.op, q.name, q.other, q.text, q.plen)
       /\ q.op \in Ops /\ q.plen \in Nat \cup {NoPrefix}

(* Pairs are only made by main(), which moves an end of them to the        *)
(* namespace of a container; names change there only, in container_start().*)
ASSUME RolesAssumption ==
  \A c, d \in Clients : \A q \in Calls[c] : \A r \in Calls[d] :
    q.op = "create_veth" =>
      /\ r.op = "move_to_ns" => r.other # Home[c]
      /\ r.op = "rename_link" => Home[d] # Home[c]

(* The prefix length that the number behind the slash of an address stands *)
(* for: itself, if it is one of IPv4; 24 without a slash. Of a number      *)
(* beyond 255 only the lower eight bits count; no other number has one.    *)
Means(number, plen) ==
  \/ number = NoPrefix /\ plen = 24
  \/ number \in 0..32 /\ plen = number
  \/ number > 255 /\ plen = number % 256 /\ plen <= 32

-----------------------------------------------------------------------------
(* The kernel. An interface is named within its namespace; both ends of a  *)
(* pair have the pair's number, "lo" has 0. Indices are not used twice.    *)
(* asked: history, the number in the address that set plen.                *)
Link(index, pair, name, ns) ==
  [index |-> index, pair |-> pair, name |-> name, ns |-> ns,
   up |-> FALSE, plen |-> NoPrefix, asked |-> NoPrefix, route |-> FALSE]

Pair(p, name, other, ns) ==
  {Link(2 * p, p, name, ns), Link(2 * p + 1, p, other, ns)}

Named(name, ns) == {l \in links : l.name = name /\ l.ns = ns}
Change(l, new) == (links \ {l}) \cup {new}

(* What there may be at the beginning is what such calls have left.        *)
ASSUME WorldsAssumption ==
  \A w \in Worlds : \A l \in w :
    /\ l = [Link(l.index, l.pair, l.name, l.ns) EXCEPT
              !.up = l.up, !.plen = l.plen, !.asked = l.asked, !.route = l.route]
    /\ l.pair \in 0..3 /\ l.index \in Int /\ l.index <= 2 * 3 + 1
    /\ l.plen # NoPrefix => Means(l.asked, l.plen)
    /\ \A m \in w : l.index = m.index \/ (l.name = m.name /\ l.ns = m.ns) => l = m

(* What the kernel may make of a request from namespace ns: nothing when   *)
(* it refuses. An index is only looked up in that namespace; an interface  *)
(* that moves loses its settings, and one that is up keeps its name.       *)
Effects(q, ns) ==
  LET at == {l \in links : l.index = q.index /\ l.ns = ns}
  IN CASE q.type = "create" ->
            IF q.name = q.other \/ Named(q.name, ns) # {}
                                \/ Named(q.other, ns) # {}
              THEN {}
              ELSE {links \cup Pair(pairs + 1, q.name, q.other, ns)}
       [] q.type = "up" -> {Change(l, [l EXCEPT !.up = TRUE]) : l \in at}
       [] q.type = "addr" ->
            {Change(l, [l EXCEPT !.plen = q.plen, !.asked = q.asked]) :
               l \in {m \in at : q.plen <= 32}}
       [] q.type = "del" ->
            {{m \in links : m.pair # l.pair} : l \in {m \in at : m.pair # 0}}
       [] q.type = "netns" ->
            {Change(l, Link(l.index, l.pair, l.name, q.other)) :
               l \in {m \in at : Named(m.name, q.other) = {}}}
       [] q.type = "name" ->
            {Change(l, [l EXCEPT !.name = q.other]) :
               l \in {m \in at : ~m.up /\ Named(q.other, ns) \subseteq {m}}}
       [] q.type = "route" ->
            {Change(l, [l EXCEPT !.route = TRUE]) :
               l \in {m \in at : m.up /\ m.plen # NoPrefix
                         /\ \A n \in links : n.ns = ns => ~n.route}}

-----------------------------------------------------------------------------
(* parse_cidr(): without a slash 24, otherwise what atoi() makes of the    *)
(* rest, kept in eight bits.                                               *)
M_Plen5(plen) == IF plen = NoPrefix THEN 24 ELSE plen % 32   \* mutant
parse_cidr(plen) == IF plen = NoPrefix THEN 24 ELSE plen % 256

(* The request each function makes; ack stands for NLM_F_ACK.              *)
CreateVethRequest(q) ==
  [type |-> "create", ack |-> TRUE, index |-> 0, name |-> q.name,
   other |-> q.other]
SetUpRequest(i) == [type |-> "up", ack |-> TRUE, index |-> i]
AddAddrRequest(i, q) ==
  [type |-> "addr", ack |-> TRUE, index |-> i, plen |-> parse_cidr(q.plen),
   asked |-> q.plen]
DelLinkRequest(i) == [type |-> "del", ack |-> FALSE, index |-> i]
AddRouteRequest(i) == [type |-> "route", ack |-> TRUE, index |-> i]
MoveToNsRequest(i, q) ==
  [type |-> "netns", ack |-> TRUE, index |-> i, other |-> q.other]
RenameLinkRequest(i, q) ==
  [type |-> "name", ack |-> TRUE, index |-> i, other |-> q.other]

Request(q, i) ==
  CASE q.op = "create_veth" -> CreateVethRequest(q)
    [] q.op = "set_up"      -> SetUpRequest(i)
    [] q.op = "add_addr"    -> AddAddrRequest(i, q)
    [] q.op = "del_link"    -> DelLinkRequest(i)
    [] q.op = "add_route"   -> AddRouteRequest(i)
    [] q.op = "move_to_ns"  -> MoveToNsRequest(i, q)
    [] q.op = "rename_link" -> RenameLinkRequest(i, q)

-----------------------------------------------------------------------------
Goto(c, next) == pc' = [pc EXCEPT ![c] = next]
Close(c) == sock' = [sock EXCEPT ![c] = "closed"]
Breaks(c, fault) ==
  fault \in Faults /\ past' = [past EXCEPT ![c].broken = TRUE]

(* return r; the deletion inside nl_create_veth() makes it return -1.      *)
Return(c, r) ==
  /\ Goto(c, "idle")
  /\ ret' = [ret EXCEPT ![c] = IF call[c].undo THEN -1 ELSE r]

(* close(sock); return r *)
CloseAndReturn(c, r) == Close(c) /\ Return(c, r)

Begin(c) ==
  /\ pc[c] = "idle" /\ past[c].made < MaxCalls /\ Goto(c, "open")
  /\ \E q \in Calls[c] : call' = [call EXCEPT ![c] = q]
  /\ past' = [past EXCEPT ![c] = [made |-> @.made + 1, carried |-> FALSE,
                                  broken |-> FALSE, pair |-> 0]]
  /\ idx' = [idx EXCEPT ![c] = 0]
  /\ UNCHANGED <<kernel, sock, rounds, answer, ret>>

(* nl_socket(): a receive timeout that cannot be set is not fatal.         *)
nl_socket(c) ==
  /\ pc[c] = "open"
  /\ \/ /\ \/ sock' = [sock EXCEPT ![c] = "timed"]
           \/ "timeo" \in Faults /\ sock' = [sock EXCEPT ![c] = "untimed"]
        /\ Goto(c, IF call[c].op = "create_veth" THEN "send" ELSE "find")
        /\ UNCHANGED <<ret, past>>
     \/ Breaks(c, "socket") /\ Return(c, -1) /\ UNCHANGED sock
  /\ UNCHANGED <<kernel, call, idx, rounds, answer>>

-----------------------------------------------------------------------------
(* The interface is missing, or the address cannot be parsed.              *)
M_LeaveOpen(c, r) == Return(c, r) /\ UNCHANGED sock      \* mutant: no close()
GiveUp(c, r) == CloseAndReturn(c, r)

(* if_nametoindex(), once in nl_del_link(), for which a missing interface  *)
(* is no error, in nl_move_to_ns(), nl_rename_link() and nl_add_route().   *)
Lookup(c) ==
  /\ pc[c] = "find" /\ call[c].op \notin {"set_up", "add_addr"}
  /\ \/ \E l \in Named(call[c].name, Home[c]) :
          /\ call[c].text = "ok" /\ idx' = [idx EXCEPT ![c] = l.index]
          /\ Goto(c, "send") /\ UNCHANGED <<sock, ret>>
     \/ /\ Named(call[c].name, Home[c]) = {} \/ call[c].text = "bad"
        /\ GiveUp(c, IF call[c].op = "del_link" THEN 0 ELSE -1)
        /\ UNCHANGED idx
  /\ UNCHANGED <<kernel, call, rounds, answer, past>>

(* wait_for_interface(): looks at least once, up to PollMax times; a round *)
(* in which it has not found the name ends with a sleep.                   *)
M_NoCount(c) == UNCHANGED rounds                 \* mutant: waited not advanced
Waited(c) == rounds' = [rounds EXCEPT ![c] = @ + 1]

Sleeps(c, name) ==
  /\ rounds[c] < PollMax /\ Named(name, Home[c]) = {} /\ Waited(c)
  /\ UNCHANGED <<pc, call, sock, idx, ret>>

(* Its results, once it is over: 0 when the time is. *)
Waits(c, name) ==
  IF rounds[c] = PollMax THEN {0}
                         ELSE {l.index : l \in Named(name, Home[c])}

(* In nl_set_up() and nl_add_addr() *)
Await(c) ==
  /\ pc[c] = "find" /\ call[c].op \in {"set_up", "add_addr"}
  /\ \/ Sleeps(c, call[c].name)
     \/ \E i \in Waits(c, call[c].name) :
          /\ idx' = [idx EXCEPT ![c] = i] /\ rounds' = [rounds EXCEPT ![c] = 0]
          /\ IF i = 0 \/ call[c].text = "bad"
               THEN GiveUp(c, -1) ELSE Goto(c, "send") /\ UNCHANGED <<sock, ret>>
          /\ UNCHANGED call
  /\ UNCHANGED <<kernel, answer, past>>

-----------------------------------------------------------------------------
(* The kernel answers what it refuses, and what it has carried out only if *)
(* it was asked to. "nobufs": it lacked memory for the answer.             *)
Answers(carried, ack) ==
  IF carried /\ ~ack THEN {"silence"}
  ELSE {IF carried THEN "ack" ELSE "error"}
         \cup (IF "answer" \in Faults THEN {"nobufs"} ELSE {})

(* nl_send_recv(): the kernel works while sendmsg() runs.                  *)
Send(c) ==
  /\ pc[c] = "send"
  /\ LET q == Request(call[c], idx[c])
         works == Effects(q, Home[c])
         carried == works # {}
         creates == q.type = "create" /\ carried
     IN \/ /\ Goto(c, "recv") /\ UNCHANGED <<sock, ret>>
           /\ links' \in IF carried THEN works ELSE {links}
           /\ pairs' = IF creates THEN pairs + 1 ELSE pairs
           /\ \E a \in Answers(carried, q.ack) :
                /\ answer' = [answer EXCEPT ![c] = a]
                /\ past' = [past EXCEPT ![c] =
                     [made |-> @.made, carried |-> carried,
                      broken |-> @.broken \/ a = "nobufs",
                      pair |-> IF creates THEN pairs' ELSE @.pair]]
        \/ /\ Breaks(c, "send") /\ CloseAndReturn(c, -1)
           /\ UNCHANGED <<kernel, answer>>
  /\ UNCHANGED <<call, idx, rounds>>

(* The one message of the answer has our sequence number: NLMSG_ERROR with *)
(* error 0 is an acknowledgement. Silence ends when the timeout does.      *)
M_AnyAnswer(a) == IF a \in {"ack", "error"} THEN 0 ELSE -1       \* mutant
Result(a) == IF a = "ack" THEN 0 ELSE -1

Receive(c) ==
  /\ pc[c] = "recv"
  /\ answer[c] # "silence" \/ sock[c] = "timed"
  /\ IF call[c].op = "create_veth" /\ Result(answer[c]) = 0
       THEN Close(c) /\ Goto(c, "appear1") /\ UNCHANGED ret
       ELSE CloseAndReturn(c, Result(answer[c]))
  /\ UNCHANGED <<kernel, call, idx, rounds, answer, past>>

(* nl_create_veth() then waits for one name after the other, and deletes   *)
(* the first when either was missing.                                      *)
M_JustFail(c) == Return(c, -1) /\ UNCHANGED <<call, idx>>         \* mutant
Undo(c) ==
  /\ Goto(c, "open") /\ idx' = [idx EXCEPT ![c] = 0] /\ UNCHANGED ret
  /\ call' = [call EXCEPT ![c] = DeletionOf(@.name)]

Appear(c) ==
  /\ \/ /\ pc[c] = "appear1"
        /\ \/ Sleeps(c, call[c].name)
           \/ \E i \in Waits(c, call[c].name) :
                /\ idx' = [idx EXCEPT ![c] = i] /\ Goto(c, "appear2")
                /\ rounds' = [rounds EXCEPT ![c] = 0] /\ UNCHANGED <<call, ret>>
     \/ /\ pc[c] = "appear2"
        /\ \/ Sleeps(c, call[c].other)
           \/ \E i \in Waits(c, call[c].other) :
                /\ rounds' = [rounds EXCEPT ![c] = 0]
                /\ IF idx[c] = 0 \/ i = 0
                     THEN Undo(c) ELSE Return(c, 0) /\ UNCHANGED <<call, idx>>
  /\ UNCHANGED <<kernel, sock, answer, past>>

-----------------------------------------------------------------------------
Step(c) == nl_socket(c) \/ Lookup(c) \/ Await(c) \/ Send(c) \/ Receive(c)
           \/ Appear(c)

(* Without a receive timeout a process waits for ever for an answer that   *)
(* was not asked for.                                                      *)
Hangs(c) == pc[c] = "recv" /\ answer[c] = "silence" /\ sock[c] = "untimed"

Over ==
  /\ \A c \in Clients : Hangs(c) \/ (pc[c] = "idle" /\ past[c].made = MaxCalls)
  /\ UNCHANGED vars

Next == (\E c \in Clients : Begin(c) \/ Step(c)) \/ Over

Init ==
  /\ links \in Worlds /\ pairs = 3
  /\ pc = [c \in Clients |-> "idle"] /\ sock = [c \in Clients |-> "closed"]
  /\ call \in [Clients -> {Call("del_link", "none", "none", "ok", NoPrefix)}]
  /\ idx = [c \in Clients |-> 0] /\ rounds = [c \in Clients |-> 0]
  /\ answer = [c \in Clients |-> "error"] /\ ret = [c \in Clients |-> 0]
  /\ past = [c \in Clients |->
       [made |-> 0, carried |-> FALSE, broken |-> FALSE, pair |-> 0]]

Spec == Init /\ [][Next]_vars

(* A process that can take a step is scheduled; nobody has to call. *)
FairSpec == Spec /\ \A c \in Clients : WF_vars(Step(c))

-----------------------------------------------------------------------------
Done(c) == pc[c] = "idle" /\ past[c].made > 0
Asked(c, op) == call[c].op = op

(* A call that returns 0 has had its effect, or was the deletion of an     *)
(* interface that was not there: a refusal by the kernel, which names may  *)
(* bring about that other processes have changed since the lookup, is not  *)
(* taken for an acknowledgement.                                           *)
SuccessIsReal ==
  \A c \in Clients :
    (Done(c) /\ ret[c] = 0) =>
       past[c].carried \/ (Asked(c, "del_link") /\ idx[c] = 0)

(* A call that returns -1, in a run without a broken system call, has had  *)
(* no effect, and a pair that nl_create_veth() gives up waiting for is     *)
(* gone, unless another process has moved the end away by whose name it is *)
(* deleted; a deletion may have succeeded (see DeletedMeansZero).          *)
FailureIsClean ==
  \A c \in Clients :
    (Done(c) /\ ret[c] = -1 /\ ~past[c].broken) =>
       \/ ~past[c].carried
       \/ Asked(c, "del_link") /\ ~call[c].undo
       \/ call[c].undo /\ \A l \in Named(call[c].name, Home[c]) :
                             l.pair # past[c].pair

(* No path through the seven functions leaves its socket open, and none    *)
(* closes it before the answer has been read.                              *)
NoSocketLeft ==
  \A c \in Clients :
    /\ pc[c] = "idle" => sock[c] = "closed"
    /\ pc[c] \in {"find", "send", "recv"} => sock[c] # "closed"

(* The prefix length of an interface is the one that the number in its own *)
(* address stands for, whoever has named, moved or set it up since: 24     *)
(* without a number, the number itself up to 32. None from 33 to 255 is    *)
(* ever in force: parse_cidr() lets them through for the kernel to refuse. *)
(* A number beyond 255, which loses its upper bits, is in force only as    *)
(* what remains of it (256 as 0).                                          *)
PrefixKept == \A l \in links : l.plen # NoPrefix => Means(l.asked, l.plen)

(* Every call returns, however long the interface is awaited and whatever  *)
(* is lost, but for one: a deletion that succeeds, over a socket whose     *)
(* receive timeout could not be set, waits for an answer that never comes. *)
CallReturns ==
  \A c \in Clients :
    (pc[c] # "idle") ~>
      \/ pc[c] = "idle"
      \/ Hangs(c) /\ Asked(c, "del_link")

-----------------------------------------------------------------------------
(* netlink.c:322: nl_del_link() returns 0 on success. It does not ask for  *)
(* an acknowledgement, and waits for one.                                  *)
DeletedMeansZero ==
  \A c \in Clients :
    (Done(c) /\ Asked(c, "del_link") /\ ~call[c].undo /\ past[c].carried)
      => ret[c] = 0
=============================================================================
