--------------------------- MODULE NetlinkProofs ---------------------------
(***************************************************************************)
(* Proofs about Netlink for any number of processes and calls, any limit   *)
(* of rounds, and whatever fails: no function leaves its socket open, none *)
(* returns 0 without the effect it was called for, none that returns -1    *)
(* though nothing broke leaves an effect, and prefix lengths are kept.     *)
(***************************************************************************)
EXTENDS Netlink, TLAPS

-----------------------------------------------------------------------------
(* Types of what belongs to one process; nothing need be known of links.   *)
IsCall(q) ==
  /\ q = [op |-> q.op, name |-> q.name, other |-> q.other, text |-> q.text,
          plen |-> q.plen, undo |-> q.undo]
  /\ q.undo \in BOOLEAN

Labels == {"idle", "open", "find", "send", "recv", "appear1", "appear2"}

TypeInv ==
  /\ pc \in [Clients -> Labels]
  /\ DOMAIN call = Clients /\ \A c \in Clients : IsCall(call[c])
  /\ sock \in [Clients -> {"closed", "timed", "untimed"}]
  /\ DOMAIN idx = Clients /\ DOMAIN rounds = Clients
  /\ answer \in [Clients -> {"ack", "error", "silence", "nobufs"}]
  /\ ret \in [Clients -> {0, -1}]
  /\ pairs \in Nat
  /\ past \in [Clients -> [made : Nat, carried : BOOLEAN, broken : BOOLEAN,
                           pair : Nat]]

(* The socket is open exactly between nl_socket() and the answer. *)
SocketInv ==
  \A c \in Clients :
    sock[c] = "closed" <=> pc[c] \in {"idle", "open", "appear1", "appear2"}

(* An acknowledgement means that the request has been carried out, and     *)
(* nl_create_veth() goes on to wait only after one.                        *)
AnswerInv ==
  \A c \in Clients :
    /\ pc[c] \in {"open", "find"} => idx[c] = 0
    /\ pc[c] = "recv" /\ answer[c] = "ack" => past[c].carried
    /\ pc[c] \in {"appear1", "appear2"} => past[c].carried

IInv == TypeInv /\ SocketInv /\ AnswerInv /\ SuccessIsReal

-----------------------------------------------------------------------------
(* A step of one process leaves what belongs to another alone. *)
Same(d) ==
  /\ pc'[d] = pc[d] /\ call'[d] = call[d] /\ sock'[d] = sock[d]
  /\ idx'[d] = idx[d] /\ answer'[d] = answer[d] /\ ret'[d] = ret[d]
  /\ past'[d] = past[d]

LEMMA StepFrame ==
  ASSUME TypeInv, NEW c \in Clients, Begin(c) \/ Step(c), NEW d \in Clients \ {c}
  PROVE  Same(d)
<1> USE DEF Same, TypeInv, Goto, Close, Breaks, Return, CloseAndReturn, GiveUp
<1>1. CASE Begin(c)
  BY <1>1 DEF Begin
<1>2. CASE nl_socket(c)
  BY <1>2 DEF nl_socket
<1>3. CASE Lookup(c)
  BY <1>3 DEF Lookup
<1>4. CASE Await(c)
  BY <1>4 DEF Await, Sleeps
<1>5. CASE Send(c)
  BY <1>5 DEF Send
<1>6. CASE Receive(c)
  BY <1>6 DEF Receive
<1>7. CASE Appear(c)
  BY <1>7 DEF Appear, Sleeps, Undo
<1> QED BY <1>1, <1>2, <1>3, <1>4, <1>5, <1>6, <1>7 DEF Step

(* The invariant for one process, and what the frame gives for the others. *)
Good(c) ==
  /\ sock[c] = "closed" <=> pc[c] \in {"idle", "open", "appear1", "appear2"}
  /\ pc[c] \in {"open", "find"} => idx[c] = 0
  /\ pc[c] = "recv" /\ answer[c] = "ack" => past[c].carried
  /\ pc[c] \in {"appear1", "appear2"} => past[c].carried
  /\ Done(c) /\ ret[c] = 0 =>
       past[c].carried \/ (Asked(c, "del_link") /\ idx[c] = 0)

LEMMA GoodParts == SocketInv /\ AnswerInv /\ SuccessIsReal <=> \A c \in Clients : Good(c)
BY DEF SocketInv, AnswerInv, SuccessIsReal, Good

LEMMA StepOthers ==
  ASSUME NEW d \in Clients, Good(d), Same(d)
  PROVE  Good(d)'
BY DEF Good, Same, Done, Asked

-----------------------------------------------------------------------------
Past == [made : Nat, carried : BOOLEAN, broken : BOOLEAN, pair : Nat]

LEMMA BreaksTypes ==
  ASSUME TypeInv, NEW c \in Clients, NEW fault, Breaks(c, fault)
  PROVE  past' \in [Clients -> Past]
<1>1. past[c] \in Past
  BY DEF TypeInv, Past
<1>2. [past[c] EXCEPT !.broken = TRUE] \in Past
  BY <1>1 DEF Past
<1>3. past' = [past EXCEPT ![c] = [past[c] EXCEPT !.broken = TRUE]]
  BY DEF Breaks
<1> QED BY <1>2, <1>3 DEF TypeInv, Past

LEMMA StepTypes ==
  ASSUME TypeInv, NEW c \in Clients, Begin(c) \/ Step(c)
  PROVE  TypeInv'
<1> USE DEF TypeInv, Past, kernel, Labels, Goto, Close, Return, CloseAndReturn, GiveUp
<1>1. CASE Begin(c)
  <2>1. PICK q \in Calls[c] : call' = [call EXCEPT ![c] = q]
    BY <1>1 DEF Begin
  <2>2. q = Call(q.op, q.name, q.other, q.text, q.plen)
    BY NetlinkAssumption
  <2>3. IsCall(q)
    <3>1. q.undo = FALSE
      BY <2>2 DEF Call
    <3> QED BY <2>2, <3>1 DEF IsCall, Call
  <2>4. \A d \in Clients : IsCall(call'[d])
    BY <2>1, <2>3
  <2>5. past' \in [Clients -> Past]
    BY <1>1 DEF Begin
  <2> QED BY <1>1, <2>1, <2>4, <2>5 DEF Begin
<1>2. CASE nl_socket(c)
  <2>1. past' \in [Clients -> Past]
    BY <1>2, BreaksTypes DEF nl_socket
  <2> QED BY <1>2, <2>1 DEF nl_socket
<1>3. CASE Lookup(c)
  BY <1>3 DEF Lookup
<1>4. CASE Await(c)
  BY <1>4 DEF Await, Sleeps, Waited
<1>5. CASE Send(c)
  <2>1. CASE Breaks(c, "send") /\ CloseAndReturn(c, -1)
    <3>1. past' \in [Clients -> Past]
      BY <2>1, BreaksTypes
    <3> QED BY <1>5, <2>1, <3>1 DEF Send
  <2>2. CASE Goto(c, "recv")
    <3>1. pairs' \in Nat
      BY <1>5, <2>2 DEF Send
    <3> DEFINE q == Request(call[c], idx[c])
               carried == Effects(q, Home[c]) # {}
               Noted(a) ==
                 [made |-> past[c].made, carried |-> carried,
                  broken |-> past[c].broken \/ a = "nobufs",
                  pair |-> IF q.type = "create" /\ carried THEN pairs'
                           ELSE past[c].pair]
    <3>2. PICK a \in Answers(carried, q.ack) :
            /\ answer' = [answer EXCEPT ![c] = a]
            /\ past' = [past EXCEPT ![c] = Noted(a)]
      BY <1>5, <2>2 DEF Send
    <3>3. answer' \in [Clients -> {"ack", "error", "silence", "nobufs"}]
      BY <3>2 DEF Answers
    <3>4. Noted(a) \in Past
      BY <3>1
    <3>5. past' \in [Clients -> Past]
      BY <3>2, <3>4
    <3> QED BY <1>5, <2>2, <3>1, <3>3, <3>5 DEF Send
  <2> QED BY <1>5, <2>1, <2>2 DEF Send
<1>6. CASE Receive(c)
  BY <1>6 DEF Receive, Result
<1>7. CASE Appear(c)
  <2>1. call' = call \/ call' = [call EXCEPT ![c] = DeletionOf(@.name)]
    BY <1>7 DEF Appear, Sleeps, Undo
  <2>2. \A d \in Clients : IsCall(call'[d])
    <3>1. \A name : IsCall(DeletionOf(name))
      BY DEF IsCall, DeletionOf
    <3> QED BY <2>1, <3>1
  <2> QED BY <1>7, <2>1, <2>2 DEF Appear, Sleeps, Waited, Undo
<1> QED BY <1>1, <1>2, <1>3, <1>4, <1>5, <1>6, <1>7 DEF Step

LEMMA StepGood ==
  ASSUME TypeInv, NEW c \in Clients, Good(c), Begin(c) \/ Step(c)
  PROVE  Good(c)'
<1> USE DEF TypeInv, Good, Done, Asked, Labels, Goto, Close, Breaks, Return,
            CloseAndReturn, GiveUp
<1>1. CASE Begin(c)
  BY <1>1 DEF Begin
<1>2. CASE nl_socket(c)
  BY <1>2 DEF nl_socket
<1>3. CASE Lookup(c)
  BY <1>3 DEF Lookup
<1>4. CASE Await(c)
  BY <1>4 DEF Await, Sleeps
<1>5. CASE Send(c)
  <2>1. CASE Breaks(c, "send") /\ CloseAndReturn(c, -1)
    BY <1>5, <2>1 DEF Send
  <2>2. CASE Goto(c, "recv")
    <3> DEFINE q == Request(call[c], idx[c])
               carried == Effects(q, Home[c]) # {}
    <3>1. sock' = sock /\ pc[c] = "send"
      BY <1>5, <2>2 DEF Send
    <3>2. PICK a \in Answers(carried, q.ack) :
            /\ answer' = [answer EXCEPT ![c] = a]
            /\ past'[c].carried = carried
      BY <1>5, <2>2 DEF Send
    <3>3. a = "ack" => carried
      BY DEF Answers
    <3> QED BY <2>2, <3>1, <3>2, <3>3
  <2> QED BY <1>5, <2>1, <2>2 DEF Send
<1>6. CASE Receive(c)
  BY <1>6 DEF Receive, Result
<1>7. CASE Appear(c)
  BY <1>7 DEF Appear, Sleeps, Undo
<1> QED BY <1>1, <1>2, <1>3, <1>4, <1>5, <1>6, <1>7 DEF Step

-----------------------------------------------------------------------------
LEMMA InitGood == Init => IInv
<1> SUFFICES ASSUME Init PROVE IInv
  OBVIOUS
<1>1. TypeInv
  <2>1. \A c \in Clients : IsCall(call[c])
    <3>1. IsCall(Call("del_link", "none", "none", "ok", NoPrefix))
      BY DEF IsCall, Call
    <3> QED BY <3>1 DEF Init
  <2> QED BY <2>1 DEF Init, TypeInv, Labels
<1>2. \A c \in Clients : Good(c)
  BY DEF Init, Good, Done
<1> QED BY <1>1, <1>2, GoodParts DEF IInv

LEMMA NextGood == IInv /\ [Next]_vars => IInv'
<1> SUFFICES ASSUME IInv, [Next]_vars PROVE IInv'
  OBVIOUS
<1>1. TypeInv /\ \A c \in Clients : Good(c)
  BY GoodParts DEF IInv
<1>2. ASSUME NEW c \in Clients, Begin(c) \/ Step(c) PROVE IInv'
  <2>1. TypeInv'
    BY <1>1, <1>2, StepTypes
  <2>2. Good(c)'
    BY <1>1, <1>2, StepGood
  <2>3. \A d \in Clients \ {c} : Good(d)'
    BY <1>1, <1>2, StepFrame, StepOthers
  <2>4. \A d \in Clients : Good(d)'
    BY <2>2, <2>3
  <2>5. SocketInv' /\ AnswerInv' /\ SuccessIsReal'
    BY <2>4 DEF SocketInv, AnswerInv, SuccessIsReal, Good
  <2> QED BY <2>1, <2>5 DEF IInv
<1>3. CASE UNCHANGED vars
  BY <1>3 DEF vars, kernel, IInv, TypeInv, SocketInv, AnswerInv, SuccessIsReal, Done,
              Asked
<1> QED BY <1>2, <1>3 DEF Next, Over

LEMMA Invariance == Spec => []IInv
BY InitGood, NextGood, PTL DEF Spec

(* Every return of the seven functions has closed the socket, and none     *)
(* closes it before the answer (netlink.c:87-396), whatever fails.         *)
THEOREM SocketsClosed == Spec => []NoSocketLeft
<1>1. IInv => NoSocketLeft
  BY DEF IInv, SocketInv, NoSocketLeft
<1> QED BY <1>1, Invariance, PTL

(* A call that returns 0 has had its effect, or was the deletion of an     *)
(* interface that was not there, among any number of processes that change *)
(* the interfaces between its lookup and its request.                      *)
THEOREM ZeroMeansDone == Spec => []SuccessIsReal
<1>1. IInv => SuccessIsReal
  BY DEF IInv
<1> QED BY <1>1, Invariance, PTL

-----------------------------------------------------------------------------
(* What the kernel keeps: an interface has one index, and one name in its  *)
(* namespace, and its prefix length is what its own address stands for.    *)
IsLink(l) ==
  l = [index |-> l.index, pair |-> l.pair, name |-> l.name, ns |-> l.ns,
       up |-> l.up, plen |-> l.plen, asked |-> l.asked, route |-> l.route]

Twins(l, m) == l.index = m.index \/ (l.name = m.name /\ l.ns = m.ns)

LinksInv ==
  \A l \in links :
    /\ IsLink(l) /\ l.pair \in 0..pairs /\ l.index \in Int /\ l.index <= 2 * pairs + 1
    /\ l.plen # NoPrefix => Means(l.asked, l.plen)
    /\ \A m \in links : Twins(l, m) => l = m

(* A process is in a call of its own, or in the deletion with which it     *)
(* undoes a creation.                                                      *)
Creates(c) == \E q \in Calls[c] : q.op = "create_veth"

Called(c) ==
  /\ past[c].pair <= pairs
  /\ \/ pc[c] = "idle" /\ past[c].made = 0
     \/ call[c] \in Calls[c]
     \/ call[c] = DeletionOf(call[c].name) /\ Creates(c)
  /\ pc[c] \in {"appear1", "appear2"} => call[c].op = "create_veth"

CallInv == \A c \in Clients : Called(c)

(* What the kernel may do in one step: make a pair, change one interface,  *)
(* or take both ends of a pair away.                                       *)
Made(c) ==
  /\ call[c].op = "create_veth" /\ call[c].name # call[c].other /\ pairs' = pairs + 1
  /\ Named(call[c].name, Home[c]) = {} /\ Named(call[c].other, Home[c]) = {}
  /\ links' = links \cup Pair(pairs + 1, call[c].name, call[c].other, Home[c])

Kept(l, n) == n.name = l.name /\ n.ns = l.ns
SameAddr(l, n) == n.plen = l.plen /\ n.asked = l.asked
Changed(c) ==
  /\ pairs' = pairs
  /\ \E l \in links, n \in links' :
       /\ links' = Change(l, n) /\ IsLink(n)
       /\ n.index = l.index /\ n.pair = l.pair /\ l.ns = Home[c]
       /\ \/ Kept(l, n) /\ SameAddr(l, n)
          \/ /\ Kept(l, n) /\ call[c].op = "add_addr"
             /\ n.plen = parse_cidr(call[c].plen) /\ n.plen <= 32
             /\ n.asked = call[c].plen
          \/ /\ call[c].op = "move_to_ns" /\ n.name = l.name /\ n.ns = call[c].other
             /\ Named(n.name, n.ns) = {} /\ n.plen = NoPrefix
          \/ /\ call[c].op = "rename_link" /\ n.ns = l.ns /\ SameAddr(l, n)
             /\ Named(n.name, n.ns) \subseteq {l}

Removed(c) ==
  /\ pairs' = pairs /\ call[c].op = "del_link"
  /\ \E l \in links : /\ l.index = idx[c] /\ l.ns = Home[c]
                      /\ links' = {m \in links : m.pair # l.pair}

LEMMA Settings ==
  ASSUME NEW l, IsLink(l), NEW v, NEW n,
         n = [l EXCEPT !.up = v] \/ n = [l EXCEPT !.name = v] \/ n = [l EXCEPT !.route = v]
  PROVE  /\ IsLink(n) /\ n.index = l.index /\ n.pair = l.pair /\ n.ns = l.ns
         /\ SameAddr(l, n)
         /\ n = [l EXCEPT !.name = v] => n.name = v
         /\ n = [l EXCEPT !.up = v] => n.name = l.name
         /\ n = [l EXCEPT !.route = v] => n.name = l.name
BY DEF IsLink, SameAddr

LEMMA KernelStep ==
  ASSUME LinksInv, NEW c \in Clients, call[c].op \in Ops,
         links' \in Effects(Request(call[c], idx[c]), Home[c]),
         pairs' = IF Request(call[c], idx[c]).type = "create" THEN pairs + 1 ELSE pairs
  PROVE  Made(c) \/ Changed(c) \/ Removed(c)
<1> DEFINE q == call[c]
           i == idx[c]
           ns == Home[c]
           at == {l \in links : l.index = i /\ l.ns = ns}
<1>1. CASE q.op = "create_veth"
  <2>1. Request(q, i) = CreateVethRequest(q)
    BY <1>1 DEF Request
  <2>2. /\ q.name # q.other /\ Named(q.name, ns) = {} /\ Named(q.other, ns) = {}
        /\ links' = links \cup Pair(pairs + 1, q.name, q.other, ns)
    BY <2>1 DEF CreateVethRequest, Effects
  <2>3. pairs' = pairs + 1
    BY <2>1 DEF CreateVethRequest
  <2> QED BY <1>1, <2>2, <2>3 DEF Made
<1>2. CASE q.op = "set_up"
  <2>1. Request(q, i) = SetUpRequest(i)
    BY <1>2 DEF Request
  <2>2. links' \in {Change(l, [l EXCEPT !.up = TRUE]) :
                     l \in at}
    BY <2>1 DEF SetUpRequest, Effects
  <2>3. PICK l, n : /\ l \in at /\ links' = Change(l, n)
                    /\ n = [l EXCEPT !.up = TRUE]
    BY <2>2
  <2>4. IsLink(l) /\ l.ns = ns
    BY <2>3 DEF LinksInv
  <2>5. IsLink(n) /\ n.ns = ns
    BY <2>3, <2>4, Settings
  <2>6. n.index = l.index /\ n.pair = l.pair /\ Kept(l, n) /\ SameAddr(l, n)
    BY <2>3, <2>4, Settings DEF Kept
  <2>7. pairs' = pairs /\ n \in links'
    BY <2>1, <2>3 DEF SetUpRequest, Change
  <2> QED BY <1>2, <2>3, <2>4, <2>5, <2>6, <2>7 DEF Changed
<1>3. CASE q.op = "add_route"
  <2>1. Request(q, i) = AddRouteRequest(i)
    BY <1>3 DEF Request
  <2>2. links' \in {Change(l, [l EXCEPT !.route = TRUE]) :
                     l \in {m \in at : m.up /\ m.plen # NoPrefix
                         /\ \A k \in links : k.ns = ns => ~k.route}}
    BY <2>1 DEF AddRouteRequest, Effects
  <2>3. PICK l, n : /\ l \in at /\ links' = Change(l, n)
                    /\ n = [l EXCEPT !.route = TRUE]
    BY <2>2
  <2>4. IsLink(l) /\ l.ns = ns
    BY <2>3 DEF LinksInv
  <2>5. IsLink(n) /\ n.ns = ns
    BY <2>3, <2>4, Settings
  <2>6. n.index = l.index /\ n.pair = l.pair /\ Kept(l, n) /\ SameAddr(l, n)
    BY <2>3, <2>4, Settings DEF Kept
  <2>7. pairs' = pairs /\ n \in links'
    BY <2>1, <2>3 DEF AddRouteRequest, Change
  <2> QED BY <1>3, <2>3, <2>4, <2>5, <2>6, <2>7 DEF Changed
<1>4. CASE q.op = "add_addr"
  <2> DEFINE r == AddAddrRequest(i, q)
             v == parse_cidr(q.plen)
             w == q.plen
  <2>1. Request(q, i) = r
    BY <1>4 DEF Request
  <2>2. r.type = "addr" /\ r.index = i /\ r.plen = v /\ r.asked = w
    BY DEF AddAddrRequest
  <2>3. links' \in Effects(r, ns) /\ pairs' = pairs
    BY <2>1, <2>2
  <2> HIDE DEF r, v, w
  <2>4. links' \in {Change(l, [l EXCEPT !.plen = r.plen, !.asked = r.asked]) :
                       l \in {m \in at : r.plen <= 32}}
    BY <2>2, <2>3 DEF Effects
  <2>5. PICK l, n : /\ l \in at /\ links' = Change(l, n) /\ v <= 32
                    /\ n = [l EXCEPT !.plen = v, !.asked = w]
    BY <2>2, <2>4
  <2>6. IsLink(l) /\ l.ns = ns
    BY <2>5 DEF LinksInv
  <2>7. /\ IsLink(n) /\ n.index = l.index /\ n.pair = l.pair /\ Kept(l, n)
        /\ n.plen = v /\ n.asked = w
    BY <2>5, <2>6 DEF IsLink, Kept
  <2>8. n \in links'
    BY <2>5 DEF Change
  <2>9. n.plen = parse_cidr(call[c].plen) /\ n.asked = call[c].plen /\ n.plen <= 32
    BY <2>5, <2>7 DEF v, w
  <2> QED BY <1>4, <2>3, <2>5, <2>6, <2>7, <2>8, <2>9 DEF Changed
<1>5. CASE q.op = "rename_link"
  <2>1. Request(q, i) = RenameLinkRequest(i, q)
    BY <1>5 DEF Request
  <2>2. links' \in {Change(l, [l EXCEPT !.name = q.other]) :
                     l \in {m \in at : ~m.up /\ Named(q.other, ns) \subseteq {m}}}
    BY <2>1 DEF RenameLinkRequest, Effects
  <2>3. PICK l, n : /\ l \in at /\ links' = Change(l, n)
                    /\ n = [l EXCEPT !.name = q.other]
                    /\ Named(q.other, ns) \subseteq {l}
    BY <2>2
  <2>4. IsLink(l) /\ l.ns = ns
    BY <2>3 DEF LinksInv
  <2>5. IsLink(n) /\ n.ns = ns
    BY <2>3, <2>4, Settings
  <2>6. n.index = l.index /\ n.pair = l.pair /\ n.name = q.other /\ SameAddr(l, n)
    BY <2>3, <2>4, Settings
  <2>7. pairs' = pairs /\ n \in links'
    BY <2>1, <2>3 DEF RenameLinkRequest, Change
  <2> QED BY <1>5, <2>3, <2>4, <2>5, <2>6, <2>7 DEF Changed
<1>6. CASE q.op = "move_to_ns"
  <2>1. Request(q, i) = MoveToNsRequest(i, q)
    BY <1>6 DEF Request
  <2>2. PICK l, n : /\ l \in at /\ links' = Change(l, n)
                    /\ Named(l.name, q.other) = {}
                    /\ n = Link(l.index, l.pair, l.name, q.other)
    BY <2>1 DEF MoveToNsRequest, Effects
  <2>3. /\ IsLink(n) /\ n.index = l.index /\ n.pair = l.pair /\ n.name = l.name
        /\ n.ns = q.other /\ n.plen = NoPrefix
    BY <2>2 DEF IsLink, Link
  <2>4. pairs' = pairs /\ n \in links'
    BY <2>1, <2>2 DEF MoveToNsRequest, Change
  <2> QED BY <1>6, <2>2, <2>3, <2>4 DEF Changed
<1>7. CASE q.op = "del_link"
  <2>1. Request(q, i) = DelLinkRequest(i)
    BY <1>7 DEF Request
  <2>2. PICK l \in at : links' = {m \in links : m.pair # l.pair}
    BY <2>1 DEF DelLinkRequest, Effects
  <2>3. pairs' = pairs
    BY <2>1 DEF DelLinkRequest
  <2> QED BY <1>7, <2>2, <2>3 DEF Removed
<1> QED BY <1>1, <1>2, <1>3, <1>4, <1>5, <1>6, <1>7 DEF Ops

LEMMA OpsOnly ==
  ASSUME CallInv, NEW c \in Clients, pc[c] # "idle"
  PROVE  /\ call[c].op \in Ops
         /\ call[c].op # "del_link" => call[c] \in Calls[c]
         /\ call[c] \in Calls[c] \/ (call[c] = DeletionOf(call[c].name) /\ Creates(c))
<1>1. call[c] \in Calls[c] \/ (call[c] = DeletionOf(call[c].name) /\ Creates(c))
  BY DEF CallInv, Called
<1>2. \A name : DeletionOf(name).op = "del_link"
  BY DEF DeletionOf
<1>3. call[c] \in Calls[c] => call[c].op \in Ops
  BY NetlinkAssumption
<1> QED BY <1>1, <1>2, <1>3 DEF Ops

LEMMA StepKernel ==
  ASSUME LinksInv, CallInv, NEW c \in Clients, Begin(c) \/ Step(c)
  PROVE  \/ UNCHANGED kernel
         \/ pc[c] = "send" /\ (Made(c) \/ Changed(c) \/ Removed(c))
<1>1. CASE Send(c)
  <2>1. pc[c] = "send" /\ call[c].op \in Ops
    BY <1>1, OpsOnly DEF Send
  <2> DEFINE q == Request(call[c], idx[c])
             works == Effects(q, Home[c])
  <2>2. \/ UNCHANGED kernel
        \/ /\ links' \in IF works # {} THEN works ELSE {links}
           /\ pairs' = IF q.type = "create" /\ works # {} THEN pairs + 1 ELSE pairs
    BY <1>1 DEF Send
  <2> HIDE DEF works, q
  <2>3. CASE works = {}
    BY <2>2, <2>3 DEF kernel
  <2>4. CASE works # {}
    <3>1. UNCHANGED kernel \/ (links' \in works /\ pairs' = IF q.type = "create" THEN pairs + 1
                                                           ELSE pairs)
      BY <2>2, <2>4
    <3> QED BY <2>1, <3>1, KernelStep DEF works, q
  <2> QED BY <2>3, <2>4
<1>2. CASE ~ Send(c)
  BY <1>2 DEF Step, Begin, nl_socket, Lookup, Await, Receive, Appear
<1> QED BY <1>1, <1>2

LEMMA PrefixMeant ==
  ASSUME NEW c \in Clients, NEW q \in Calls[c], parse_cidr(q.plen) <= 32
  PROVE  Means(q.plen, parse_cidr(q.plen))
<1>1. q.plen \in Nat \cup {NoPrefix}
  BY NetlinkAssumption
<1>2. CASE q.plen = NoPrefix
  BY <1>2 DEF parse_cidr, Means
<1>3. CASE q.plen # NoPrefix
  <2>1. q.plen \in Nat /\ parse_cidr(q.plen) = q.plen % 256
    BY <1>1, <1>3 DEF parse_cidr
  <2>2. q.plen <= 255 => q.plen % 256 = q.plen
    BY <2>1
  <2>3. q.plen > 255 \/ q.plen \in 0..32
    BY <2>1, <2>2
  <2> QED BY <2>1, <2>2, <2>3 DEF Means
<1> QED BY <1>2, <1>3

LEMMA StepLinks ==
  ASSUME LinksInv, CallInv, pairs \in Nat, NEW c \in Clients, Begin(c) \/ Step(c)
  PROVE  LinksInv' /\ pairs' >= pairs
<1>1. CASE UNCHANGED kernel
  BY <1>1 DEF kernel, LinksInv
<1>2. CASE Made(c)
  <2> DEFINE two == Pair(pairs + 1, call[c].name, call[c].other, Home[c])
  <2>1. \A l \in two :
          /\ IsLink(l) /\ l.pair = pairs + 1 /\ l.plen = NoPrefix /\ l.ns = Home[c]
          /\ \/ l.index = 2 * (pairs + 1) /\ l.name = call[c].name
             \/ l.index = 2 * (pairs + 1) + 1 /\ l.name = call[c].other
    BY DEF Pair, Link, IsLink
  <2>2. \A l, m \in two : Twins(l, m) => l = m
    <3>1. call[c].name # call[c].other
      BY <1>2 DEF Made
    <3> DEFINE a == Link(2 * (pairs + 1), pairs + 1, call[c].name, Home[c])
               b == Link(2 * (pairs + 1) + 1, pairs + 1, call[c].other, Home[c])
    <3>2. two = {a, b}
      BY DEF Pair
    <3>3. a.index # b.index /\ a.name # b.name
      BY <3>1 DEF Link
    <3> HIDE DEF a, b, two
    <3> QED BY <3>2, <3>3 DEF Twins
  <2>3. \A l \in two : \A m \in links : ~ Twins(l, m) /\ ~ Twins(m, l)
    <3> SUFFICES ASSUME NEW l \in two, NEW m \in links PROVE ~ Twins(l, m) /\ ~ Twins(m, l)
      OBVIOUS
    <3>1. m.index \in Int /\ m.index <= 2 * pairs + 1
      BY DEF LinksInv
    <3>2. l.index # m.index
      BY <2>1, <3>1
    <3>3. ~ (l.name = m.name /\ l.ns = m.ns)
      BY <1>2, <2>1 DEF Made, Named
    <3> HIDE DEF two
    <3> QED BY <3>2, <3>3 DEF Twins
  <2>4. links' = links \cup two /\ pairs' = pairs + 1
    BY <1>2 DEF Made
  <2> HIDE DEF two
  <2>5. \A l \in links' : \A m \in links' : Twins(l, m) => l = m
    BY <2>2, <2>3, <2>4 DEF LinksInv
  <2>6. \A l \in links' :
           /\ IsLink(l) /\ l.pair \in 0..pairs' /\ l.index \in Int /\ l.index <= 2 * pairs' + 1
           /\ l.plen # NoPrefix => Means(l.asked, l.plen)
    BY <2>1, <2>4 DEF LinksInv
  <2> QED BY <2>4, <2>5, <2>6 DEF LinksInv
<1>3. CASE Changed(c) /\ pc[c] = "send"
  <2>1. PICK l \in links, n \in links' :
       /\ links' = Change(l, n) /\ IsLink(n)
       /\ n.index = l.index /\ n.pair = l.pair /\ l.ns = Home[c]
       /\ \/ Kept(l, n) /\ SameAddr(l, n)
          \/ /\ Kept(l, n) /\ call[c].op = "add_addr"
             /\ n.plen = parse_cidr(call[c].plen) /\ n.plen <= 32
             /\ n.asked = call[c].plen
          \/ /\ call[c].op = "move_to_ns" /\ n.name = l.name /\ n.ns = call[c].other
             /\ Named(n.name, n.ns) = {} /\ n.plen = NoPrefix
          \/ /\ call[c].op = "rename_link" /\ n.ns = l.ns /\ SameAddr(l, n)
             /\ Named(n.name, n.ns) \subseteq {l}
    BY <1>3 DEF Changed
  <2>2. n.plen # NoPrefix => Means(n.asked, n.plen)
    <3>1. CASE SameAddr(l, n)
      BY <3>1 DEF LinksInv, SameAddr
    <3>2. CASE /\ call[c].op = "add_addr" /\ n.asked = call[c].plen
               /\ n.plen = parse_cidr(call[c].plen) /\ n.plen <= 32
      <4>1. call[c] \in Calls[c]
        BY <1>3, <3>2, OpsOnly
      <4> QED BY <3>2, <4>1, PrefixMeant
    <3> QED BY <2>1, <3>1, <3>2
  <2>3. \A m \in links : m # l => ~ Twins(n, m) /\ ~ Twins(m, n)
    <3> SUFFICES ASSUME NEW m \in links, m # l PROVE ~ Twins(n, m) /\ ~ Twins(m, n)
      OBVIOUS
    <3>1. ~ Twins(l, m)
      BY DEF LinksInv
    <3>2. ~ (n.name = m.name /\ n.ns = m.ns)
      BY <2>1, <3>1 DEF Kept, Named, Twins
    <3> QED BY <2>1, <3>1, <3>2 DEF Twins
  <2>4. links' = (links \ {l}) \cup {n} /\ pairs' = pairs
    BY <1>3, <2>1 DEF Change, Changed
  <2>5. \A k \in links' : \A m \in links' : Twins(k, m) => k = m
    BY <2>3, <2>4 DEF LinksInv
  <2>6. \A k \in links' :
           /\ IsLink(k) /\ k.pair \in 0..pairs' /\ k.index \in Int /\ k.index <= 2 * pairs' + 1
           /\ k.plen # NoPrefix => Means(k.asked, k.plen)
    BY <2>1, <2>2, <2>4 DEF LinksInv
  <2>7. pairs' >= pairs
    BY <2>4
  <2> QED BY <2>5, <2>6, <2>7 DEF LinksInv
<1>4. CASE Removed(c)
  <2>1. links' \subseteq links /\ pairs' = pairs
    BY <1>4 DEF Removed
  <2> QED BY <2>1 DEF LinksInv
<1> QED BY <1>1, <1>2, <1>3, <1>4, StepKernel

LEMMA StepCalled ==
  ASSUME TypeInv, CallInv, NEW c \in Clients, Begin(c) \/ Step(c), pairs' >= pairs,
         pairs' \in Nat
  PROVE  CallInv'
<1> USE DEF TypeInv, Labels, Goto, Close, Breaks, Return, CloseAndReturn, GiveUp
<1>1. \A d \in Clients \ {c} : Called(d)'
  <2> SUFFICES ASSUME NEW d \in Clients \ {c} PROVE Called(d)'
    OBVIOUS
  <2>1. Same(d) /\ Called(d)
    BY StepFrame DEF CallInv
  <2> QED BY <2>1 DEF Same, Called
<1>2. Called(c)'
  <2>1. past[c].pair \in Nat /\ past[c].pair <= pairs
    BY DEF CallInv, Called
  <2>2. CASE Begin(c)
    BY <2>2 DEF Begin, Called
  <2>3. CASE ~ Begin(c)
    <3>1. pc[c] # "idle"
      BY <2>3 DEF Step, nl_socket, Lookup, Await, Send, Receive, Appear
    <3>2. call[c] \in Calls[c] \/ (call[c] = DeletionOf(call[c].name) /\ Creates(c))
      BY <3>1, OpsOnly
    <3>3. past'[c].pair <= pairs'
      <4>1. past'[c].pair = past[c].pair \/ past'[c].pair = pairs'
        BY <2>3 DEF Step, nl_socket, Lookup, Await, Send, Receive, Appear
      <4> QED BY <2>1, <4>1
    <3>4. CASE pc[c] \in {"appear1", "appear2"}
      <4>1. Appear(c) /\ call[c].op = "create_veth"
        BY <2>3, <3>4 DEF Step, nl_socket, Lookup, Await, Send, Receive, CallInv, Called
      <4>2. call[c] \in Calls[c] /\ Creates(c)
        BY <3>1, <4>1, OpsOnly DEF Creates
      <4>3. CASE call' = call
        BY <3>3, <4>1, <4>2, <4>3 DEF Called
      <4>4. CASE Undo(c)
        <5>1. call'[c] = DeletionOf(call[c].name) /\ pc'[c] = "open"
          BY <4>4 DEF Undo
        <5>2. DeletionOf(call[c].name).name = call[c].name
          BY DEF DeletionOf
        <5> QED BY <3>3, <4>2, <5>1, <5>2 DEF Called, Creates
      <4> QED BY <4>1, <4>3, <4>4 DEF Appear, Sleeps
    <3>5. CASE pc[c] \notin {"appear1", "appear2"}
      <4>1. call'[c] = call[c]
        BY <2>3, <3>5 DEF Step, nl_socket, Lookup, Await, Sleeps, Send, Receive, Appear
      <4>2. pc'[c] \in {"appear1", "appear2"} => call[c].op = "create_veth"
        BY <2>3, <3>5 DEF Step, nl_socket, Lookup, Await, Sleeps, Send, Receive, Appear
      <4> QED BY <3>2, <3>3, <4>1, <4>2 DEF Called, Creates
    <3> QED BY <3>4, <3>5
  <2> QED BY <2>2, <2>3
<1> QED BY <1>1, <1>2 DEF CallInv

(* Where pairs are made nothing arrives but new pairs, and names stay. *)
LEMMA HomeKept ==
  ASSUME LinksInv, CallInv, pairs \in Nat, NEW c \in Clients, Begin(c) \/ Step(c),
         NEW d \in Clients, Creates(d), NEW l \in links', l.ns = Home[d]
  PROVE  \/ l.pair > pairs /\ l.index > 2 * pairs + 1
         \/ \E k \in links : /\ k.index = l.index /\ k.pair = l.pair
                             /\ k.name = l.name /\ k.ns = l.ns
<1>1. CASE UNCHANGED kernel \/ Removed(c)
  BY <1>1 DEF kernel, Removed
<1>2. CASE Made(c)
  <2>1. l \in links \/ l \in Pair(pairs + 1, call[c].name, call[c].other, Home[c])
    BY <1>2 DEF Made
  <2>2. \A k \in Pair(pairs + 1, call[c].name, call[c].other, Home[c]) :
          /\ k.pair = pairs + 1 /\ (k.index = 2 * (pairs + 1) \/ k.index = 2 * (pairs + 1) + 1)
    BY DEF Pair, Link
  <2> QED BY <2>1, <2>2
<1>3. CASE Changed(c) /\ pc[c] = "send"
  <2>1. PICK k \in links, n \in links' :
       /\ links' = Change(k, n) /\ n.index = k.index /\ n.pair = k.pair /\ k.ns = Home[c]
       /\ \/ Kept(k, n)
          \/ call[c].op = "move_to_ns" /\ n.ns = call[c].other
          \/ call[c].op = "rename_link" /\ n.ns = k.ns
    BY <1>3 DEF Changed
  <2>2. l \in links \/ l = n
    BY <2>1 DEF Change
  <2>3. l = n => Kept(k, n)
    <3>1. call[c].op # "del_link" => call[c] \in Calls[c]
      BY <1>3, OpsOnly
    <3> QED BY <2>1, <3>1, RolesAssumption DEF Creates
  <2> QED BY <2>1, <2>2, <2>3 DEF Kept
<1> QED BY <1>1, <1>2, <1>3, StepKernel

-----------------------------------------------------------------------------
(* What a call that will fail leaves behind. What has been carried out is  *)
(* acknowledged, but for a deletion; the deletion that undoes a creation   *)
(* asks for the interface by its index, which has kept its name.           *)
Gone(c) == \A l \in Named(call[c].name, Home[c]) : l.pair # past[c].pair

Aimed(c) ==
  /\ idx[c] <= 2 * pairs + 1 /\ idx[c] \in Int
  /\ \A l \in links : l.index = idx[c] /\ l.ns = Home[c] => l.name = call[c].name

Failed(c) == Done(c) /\ ret[c] = -1 /\ ~ past[c].broken /\ past[c].carried

Clean(c) ==
  /\ call[c].undo =>
       /\ pc[c] = "send" => Aimed(c)
       /\ (pc[c] = "recv" /\ past[c].carried) \/ Failed(c) => Gone(c)
  /\ ~ call[c].undo =>
       /\ pc[c] \in {"open", "find", "send"} => ~ past[c].carried
       /\ pc[c] = "recv" /\ past[c].carried /\ ~ past[c].broken =>
            answer[c] = "ack" \/ call[c].op = "del_link"
       /\ Failed(c) => call[c].op = "del_link"

LEMMA UndoOf ==
  ASSUME CallInv, NEW c \in Clients, call[c].undo, pc[c] # "idle" \/ Done(c), TypeInv
  PROVE  /\ call[c] = DeletionOf(call[c].name) /\ Creates(c)
         /\ call[c].op = "del_link" /\ call[c].text = "ok"
         /\ pc[c] \notin {"appear1", "appear2"}
<1>1. call[c] \notin Calls[c]
  <2>1. \A op, name, other, text, plen : ~ Call(op, name, other, text, plen).undo
    BY DEF Call
  <2> QED BY <2>1, NetlinkAssumption
<1>2. call[c] = DeletionOf(call[c].name) /\ Creates(c)
  BY <1>1 DEF CallInv, Called, Done, TypeInv
<1>3. \A name : DeletionOf(name).op = "del_link" /\ DeletionOf(name).text = "ok"
  BY DEF DeletionOf
<1>4. call[c].op = "del_link" /\ call[c].text = "ok"
  BY <1>2, <1>3
<1> QED BY <1>2, <1>4 DEF CallInv, Called

(* Neither is disturbed by the steps of any process. *)
LEMMA GoneStays ==
  ASSUME LinksInv, CallInv, pairs \in Nat, NEW c \in Clients, Begin(c) \/ Step(c),
         NEW d \in Clients, Creates(d), Gone(d),
         call'[d].name = call[d].name, past'[d].pair = past[d].pair
  PROVE  Gone(d)'
<1> SUFFICES ASSUME NEW l \in links', l.ns = Home[d], l.name = call[d].name,
                    l.pair = past[d].pair
             PROVE  FALSE
  BY DEF Gone, Named
<1>1. past[d].pair <= pairs
  BY DEF CallInv, Called
<1>2. \/ l.pair > pairs
      \/ \E k \in links : k.pair = l.pair /\ k.name = l.name /\ k.ns = l.ns
  BY HomeKept
<1>3. \E k \in links : k.pair = l.pair /\ k.name = l.name /\ k.ns = l.ns
  <2>1. l.pair \in Int
    BY StepLinks DEF LinksInv
  <2> QED BY <1>1, <1>2, <2>1
<1> QED BY <1>3 DEF Gone, Named

LEMMA AimedStays ==
  ASSUME LinksInv, CallInv, pairs \in Nat, NEW c \in Clients, Begin(c) \/ Step(c),
         NEW d \in Clients, Creates(d), Aimed(d),
         call'[d].name = call[d].name, idx'[d] = idx[d]
  PROVE  Aimed(d)'
<1>1. LinksInv' /\ pairs' >= pairs /\ pairs' \in Int
  BY StepLinks, StepKernel DEF kernel, Made, Changed, Removed
<1>2. idx'[d] <= 2 * pairs' + 1 /\ idx'[d] \in Int
  BY <1>1 DEF Aimed
<1>3. ASSUME NEW l \in links', l.index = idx'[d], l.ns = Home[d]
      PROVE  l.name = call'[d].name
  <2>1. \/ l.index > 2 * pairs + 1
        \/ \E k \in links : k.index = l.index /\ k.name = l.name /\ k.ns = l.ns
    BY <1>3, HomeKept
  <2> QED BY <1>3, <2>1 DEF Aimed
<1> QED BY <1>2, <1>3 DEF Aimed

LEMMA CleanOthers ==
  ASSUME TypeInv, LinksInv, CallInv, NEW c \in Clients, Begin(c) \/ Step(c),
         NEW d \in Clients \ {c}, Clean(d)
  PROVE  Clean(d)'
<1>1. Same(d) /\ pairs \in Nat
  BY StepFrame DEF TypeInv
<1>2. Failed(d)' = Failed(d)
  BY <1>1 DEF Same, Failed, Done
<1>3. call[d].undo /\ pc[d] = "send" => Aimed(d)'
  BY <1>1, UndoOf, AimedStays DEF Clean, Same
<1>4. call[d].undo /\ ((pc[d] = "recv" /\ past[d].carried) \/ Failed(d)) => Gone(d)'
  BY <1>1, UndoOf, GoneStays DEF Clean, Same, Failed
<1> QED BY <1>1, <1>2, <1>3, <1>4 DEF Clean, Same

(* The deletion that undoes: the interface it finds is the only one of     *)
(* that name, and when it goes, so does all of its pair.                   *)
LEMMA UndoStep ==
  ASSUME TypeInv, LinksInv, CallInv, NEW c \in Clients, Step(c), Clean(c), call[c].undo,
         pc[c] # "idle"
  PROVE  Clean(c)'
<1> USE DEF TypeInv, Labels, Goto, Close, Breaks, Return, CloseAndReturn, GiveUp
<1>1. /\ call[c] = DeletionOf(call[c].name) /\ Creates(c) /\ call[c].op = "del_link"
      /\ call[c].text = "ok" /\ pc[c] \notin {"appear1", "appear2"}
  BY UndoOf
<1>2. call'[c] = call[c]
  BY <1>1 DEF Step, nl_socket, Lookup, Await, Sleeps, Send, Receive, Appear
<1>3. CASE nl_socket(c)
  <2>1. pc'[c] \in {"find", "idle"} /\ (pc'[c] = "idle" => past'[c].broken)
    BY <1>1, <1>3 DEF nl_socket
  <2> QED BY <1>1, <1>2, <2>1 DEF Clean, Failed, Done
<1>4. CASE Lookup(c)
  <2>1. CASE pc'[c] = "send"
    <3>1. PICK l \in Named(call[c].name, Home[c]) : idx'[c] = l.index
      BY <1>4, <2>1 DEF Lookup
    <3>2. l \in links /\ l.name = call[c].name /\ l.index \in Int /\ l.index <= 2 * pairs + 1
      BY <3>1 DEF Named, LinksInv
    <3>3. \A k \in links : k.index = l.index => k = l
      BY <3>2 DEF LinksInv, Twins
    <3>4. links' = links /\ pairs' = pairs
      BY <1>4 DEF Lookup, kernel
    <3>5. Aimed(c)'
      BY <1>2, <3>1, <3>2, <3>3, <3>4 DEF Aimed
    <3> QED BY <1>1, <1>2, <2>1, <3>5 DEF Clean, Failed, Done
  <2>2. CASE pc'[c] # "send"
    <3>1. pc'[c] = "idle" /\ Named(call[c].name, Home[c]) = {} /\ links' = links
      BY <1>1, <1>4, <2>2 DEF Lookup, kernel
    <3>2. Gone(c)'
      BY <1>2, <3>1 DEF Gone, Named
    <3> QED BY <1>1, <1>2, <3>1, <3>2 DEF Clean
  <2> QED BY <2>1, <2>2
<1>5. CASE Send(c)
  <2>1. CASE Breaks(c, "send") /\ CloseAndReturn(c, -1)
    <3>1. pc'[c] = "idle" /\ past'[c].broken
      BY <2>1
    <3> QED BY <1>1, <1>2, <3>1 DEF Clean, Failed
  <2>2. CASE Goto(c, "recv")
    <3> DEFINE works == Effects(Request(call[c], idx[c]), Home[c])
    <3>1. Request(call[c], idx[c]) = DelLinkRequest(idx[c])
      BY <1>1 DEF Request
    <3>2. works = {{m \in links : m.pair # l.pair} :
                     l \in {m \in {k \in links : k.index = idx[c] /\ k.ns = Home[c]} :
                              m.pair # 0}}
      BY <3>1 DEF Effects, DelLinkRequest
    <3>3. pc'[c] = "recv" /\ past'[c].carried = (works # {})
      BY <1>5, <2>2 DEF Send
    <3>4. works # {} => links' \in works
      BY <1>5, <2>2 DEF Send
    <3>5. past'[c].pair = past[c].pair
      <4>1. Request(call[c], idx[c]).type # "create"
        BY <3>1 DEF DelLinkRequest
      <4> QED BY <1>5, <2>2, <4>1 DEF Send
    <3>6. ASSUME works # {} PROVE Gone(c)'
      <4>1. PICK l \in links : /\ l.index = idx[c] /\ l.ns = Home[c]
                               /\ links' = {m \in links : m.pair # l.pair}
        BY <3>2, <3>4, <3>6
      <4>2. l.name = call[c].name
        BY <1>5, <4>1 DEF Clean, Aimed, Send
      <4>3. \A k \in Named(call[c].name, Home[c]) : k = l
        BY <4>1, <4>2 DEF Named, LinksInv, Twins
      <4>4. \A k \in links' : k.name = call[c].name /\ k.ns = Home[c] => FALSE
        BY <4>1, <4>3 DEF Named
      <4> QED BY <1>2, <4>4 DEF Gone, Named
    <3> HIDE DEF works
    <3> QED BY <1>1, <1>2, <3>3, <3>6 DEF Clean, Failed, Done
  <2> QED BY <1>5, <2>1, <2>2 DEF Send
<1>6. CASE Receive(c)
  <2>1. pc'[c] = "idle" /\ past' = past /\ links' = links /\ pc[c] = "recv"
    BY <1>1, <1>6 DEF Receive, kernel
  <2>2. past[c].carried => Gone(c)'
    BY <1>2, <2>1 DEF Clean, Gone, Named
  <2> QED BY <1>1, <1>2, <2>1, <2>2 DEF Clean, Failed
<1> QED BY <1>1, <1>3, <1>4, <1>5, <1>6 DEF Step, Await, Appear

(* A call of the program. *)
LEMMA CallStep ==
  ASSUME TypeInv, AnswerInv, LinksInv, CallInv, NEW c \in Clients, Begin(c) \/ Step(c),
         Clean(c), Begin(c) \/ (~ call[c].undo /\ pc[c] # "idle")
  PROVE  Clean(c)'
<1> USE DEF TypeInv, Labels, Goto, Close, Breaks, Return, CloseAndReturn, GiveUp
<1>1. CASE Begin(c)
  <2>1. pc'[c] = "open" /\ ~ past'[c].carried /\ call'[c] \in Calls[c]
    BY <1>1 DEF Begin
  <2> QED BY <2>1 DEF Clean, Failed, Done
<1>2. CASE nl_socket(c)
  <2>1. call' = call /\ ~ past[c].carried
    BY <1>1, <1>2 DEF nl_socket, Clean, Begin
  <2>2. past'[c].carried = past[c].carried /\ pc'[c] \notin {"open", "recv"}
    BY <1>2 DEF nl_socket
  <2> QED BY <1>2, <2>1, <2>2 DEF Clean, Failed, nl_socket, Begin
<1>3. CASE Lookup(c) \/ Await(c)
  <2>1. ~ call[c].undo /\ ~ past[c].carried
    BY <1>1, <1>3 DEF Lookup, Await, Clean, Begin
  <2>2. call' = call /\ past' = past /\ pc'[c] \in {"find", "send", "idle"}
    BY <1>3 DEF Lookup, Await, Sleeps
  <2> QED BY <2>1, <2>2 DEF Clean, Failed
<1>4. CASE Send(c)
  <2>1. ~ call[c].undo /\ ~ past[c].carried /\ call' = call
    BY <1>1, <1>4 DEF Send, Clean, Begin
  <2>2. CASE Breaks(c, "send") /\ CloseAndReturn(c, -1)
    <3>1. pc'[c] = "idle" /\ past'[c].broken
      BY <2>2
    <3> QED BY <2>1, <3>1 DEF Clean, Failed
  <2>3. CASE Goto(c, "recv")
    <3> DEFINE q == Request(call[c], idx[c])
               carried == Effects(q, Home[c]) # {}
    <3>1. PICK a \in Answers(carried, q.ack) :
            /\ answer' = [answer EXCEPT ![c] = a] /\ past'[c].carried = carried
            /\ past'[c].broken = (past[c].broken \/ a = "nobufs")
      BY <1>4, <2>3 DEF Send
    <3>2. call[c].op # "del_link" => q.ack
      <4>1. call[c].op \in Ops
        BY <1>4, OpsOnly DEF Send
      <4> QED BY <4>1 DEF Ops, Request, CreateVethRequest, SetUpRequest, AddAddrRequest,
                          AddRouteRequest, MoveToNsRequest, RenameLinkRequest
    <3>3. carried /\ q.ack => a \in {"ack", "nobufs"}
      BY <3>1 DEF Answers
    <3>4. pc'[c] = "recv"
      BY <2>3
    <3> HIDE DEF q, carried
    <3> QED BY <2>1, <3>1, <3>2, <3>3, <3>4 DEF Clean, Failed, Done
  <2> QED BY <1>4, <2>2, <2>3 DEF Send
<1>5. CASE Receive(c)
  <2>1. ~ call[c].undo /\ call' = call /\ past' = past /\ pc[c] = "recv"
    BY <1>1, <1>5 DEF Receive, Begin
  <2>2. pc'[c] = "appear1" \/ (pc'[c] = "idle" /\ (answer[c] = "ack" => ret'[c] = 0))
    BY <1>5, <2>1 DEF Receive, Result
  <2> QED BY <2>1, <2>2 DEF Clean, Failed, Done
<1>6. CASE Appear(c)
  <2>1. ~ call[c].undo /\ pc[c] \in {"appear1", "appear2"} /\ past' = past
    BY <1>1, <1>6 DEF Appear, Begin
  <2>2. \/ pc'[c] = "open" /\ call'[c].undo
        \/ call' = call /\ pc'[c] \in {"appear1", "appear2"}
        \/ call' = call /\ pc'[c] = "idle" /\ ret'[c] = 0
    <3>1. \A name : DeletionOf(name).undo
      BY DEF DeletionOf
    <3>2. CASE Undo(c)
      BY <3>1, <3>2 DEF Undo
    <3>3. CASE ~ Undo(c)
      BY <1>6, <2>1, <3>3 DEF Appear, Sleeps
    <3> QED BY <3>2, <3>3
  <2> QED BY <2>1, <2>2 DEF Clean, Failed, Done
<1> QED BY <1>1, <1>2, <1>3, <1>4, <1>5, <1>6 DEF Step

-----------------------------------------------------------------------------
CleanInv == LinksInv /\ CallInv /\ \A c \in Clients : Clean(c)

LEMMA InitClean == Init => CleanInv
<1> SUFFICES ASSUME Init PROVE CleanInv
  OBVIOUS
<1>1. links \in Worlds /\ pairs = 3
  BY DEF Init
<1>2. ASSUME NEW l \in links
      PROVE  /\ IsLink(l) /\ l.pair \in 0..pairs /\ l.index \in Int
             /\ l.index <= 2 * pairs + 1
             /\ l.plen # NoPrefix => Means(l.asked, l.plen)
             /\ \A m \in links : Twins(l, m) => l = m
  <2>1. /\ l = [Link(l.index, l.pair, l.name, l.ns) EXCEPT
              !.up = l.up, !.plen = l.plen, !.asked = l.asked, !.route = l.route]
        /\ l.pair \in 0..3 /\ l.index \in Int /\ l.index <= 2 * 3 + 1
        /\ l.plen # NoPrefix => Means(l.asked, l.plen)
        /\ \A m \in links : Twins(l, m) => l = m
    BY <1>1, WorldsAssumption DEF Twins
  <2>2. IsLink(l)
    BY <2>1 DEF IsLink, Link
  <2> QED BY <1>1, <2>1, <2>2
<1>3. LinksInv
  BY <1>2 DEF LinksInv
<1>4. CallInv /\ \A c \in Clients : Clean(c)
  BY DEF Init, CallInv, Called, Clean, Failed, Done
<1> QED BY <1>3, <1>4 DEF CleanInv

LEMMA NextClean == IInv /\ CleanInv /\ [Next]_vars => CleanInv'
<1> SUFFICES ASSUME IInv, CleanInv, [Next]_vars PROVE CleanInv'
  OBVIOUS
<1> USE DEF CleanInv
<1>1. ASSUME NEW c \in Clients, Begin(c) \/ Step(c) PROVE CleanInv'
  <2>1. TypeInv /\ AnswerInv /\ pairs \in Nat
    BY DEF IInv, TypeInv
  <2>2. LinksInv' /\ pairs' >= pairs /\ pairs' \in Nat
    BY <1>1, <2>1, StepLinks, StepTypes DEF TypeInv
  <2>3. CallInv'
    BY <1>1, <2>1, <2>2, StepCalled
  <2>4. Begin(c) \/ pc[c] # "idle"
    BY <1>1 DEF Step, nl_socket, Lookup, Await, Send, Receive, Appear
  <2>5. Clean(c)'
    BY <1>1, <2>1, <2>4, UndoStep, CallStep
  <2>6. \A d \in Clients \ {c} : Clean(d)'
    BY <1>1, <2>1, CleanOthers
  <2> QED BY <2>2, <2>3, <2>5, <2>6
<1>2. CASE UNCHANGED vars
  <2> USE <1>2 DEF vars, kernel
  <2>1. LinksInv' /\ CallInv'
    BY DEF LinksInv, CallInv, Called
  <2>2. \A c \in Clients : Clean(c)'
    BY DEF Clean, Failed, Done, Gone, Aimed, Named
  <2> QED BY <2>1, <2>2
<1> QED BY <1>1, <1>2 DEF Next, Over

LEMMA CleanInvariance == Spec => []CleanInv
BY InitClean, NextClean, Invariance, PTL DEF Spec

(* A call that returns -1 though no system call of it has failed has       *)
(* changed nothing, and has undone a creation it gave up, whatever other   *)
(* processes rename, move and delete between its steps (nl_create_veth()   *)
(* of netlink.c, and what main() and container_start() call).              *)
THEOREM MinusOneMeansNothing == Spec => []FailureIsClean
<1>1. CleanInv => FailureIsClean
  BY DEF CleanInv, Clean, Failed, Gone, FailureIsClean, Asked
<1> QED BY <1>1, CleanInvariance, PTL

(* parse_cidr() keeps eight bits of what atoi() makes, and the kernel      *)
(* refuses what is beyond 32: for any numbers asked for and any changes of *)
(* the interface since, its prefix length is the one its own address asked *)
(* for, or, of a number beyond 255, what eight bits leave of it.           *)
THEOREM PrefixesAreGiven == Spec => []PrefixKept
<1>1. CleanInv => PrefixKept
  BY DEF CleanInv, LinksInv, PrefixKept
<1> QED BY <1>1, CleanInvariance, PTL

-----------------------------------------------------------------------------
(* What a call has before it: the undoing of a creation, the steps of the  *)
(* function, and the rounds of wait_for_interface() in the one it is at.   *)
StepsOf == [l \in Labels |-> CASE l = "open"    -> 6 [] l = "find"    -> 5
                               [] l = "send"    -> 4 [] l = "recv"    -> 3
                               [] l = "appear1" -> 2 [] l = "appear2" -> 1
                               [] l = "idle"    -> 0]

StepsLeft(c) == StepsOf[pc[c]] + (IF call[c].undo THEN 0 ELSE StepsOf["open"] + 1)

Onward(c) ==
  \/ pc[c] = "idle" /\ pc'[c] = "open"
  \/ StepsLeft(c)' < StepsLeft(c)
  \/ StepsLeft(c)' = StepsLeft(c) /\ rounds'[c] \in rounds[c] + 1 .. PollMax

Still(d) == Same(d) /\ rounds'[d] = rounds[d]

RoundsInv == \A c \in Clients : rounds[c] \in 0 .. PollMax

LEMMA OwnStep ==
  ASSUME TypeInv, CallInv, RoundsInv, NEW c \in Clients, Begin(c) \/ Step(c)
  PROVE  /\ Onward(c) /\ rounds'[c] \in 0 .. PollMax
         /\ \A d \in Clients \ {c} : rounds'[d] = rounds[d]
<1> USE DEF TypeInv, Goto, Close, Breaks, Return, CloseAndReturn, GiveUp
<1> DEFINE s(l) == StepsOf[l]
<1>1. /\ s("open") = 6 /\ s("find") = 5 /\ s("send") = 4 /\ s("recv") = 3
      /\ s("appear1") = 2 /\ s("appear2") = 1 /\ s("idle") = 0
  BY DEF StepsOf, Labels
<1>2. rounds[c] \in 0 .. PollMax /\ PollMax \in Nat
  BY NetlinkAssumption DEF RoundsInv
<1>3. ASSUME pc'[c] \in Labels, s(pc'[c]) < s(pc[c]), call'[c] = call[c]
      PROVE  Onward(c)
  <2>1. s(pc[c]) \in Int /\ s(pc'[c]) \in Int
    BY <1>1, <1>3 DEF Labels
  <2>2. StepsLeft(c)' < StepsLeft(c)
    <3> DEFINE more == IF call[c].undo THEN 0 ELSE s("open") + 1
    <3>1. StepsLeft(c) = s(pc[c]) + more /\ StepsLeft(c)' = s(pc'[c]) + more
      BY <1>3 DEF StepsLeft
    <3>2. more \in Int
      BY <1>1
    <3> HIDE DEF more, s
    <3> QED BY <1>3, <2>1, <3>1, <3>2
  <2> QED BY <2>2 DEF Onward
<1> HIDE DEF s
<1>4. CASE Begin(c)
  BY <1>2, <1>4 DEF Begin, Onward
<1>5. CASE nl_socket(c)
  <2>1. pc[c] = "open" /\ pc'[c] \in {"send", "find", "idle"} /\ call' = call
    BY <1>5 DEF nl_socket
  <2>2. s(pc'[c]) < s(pc[c])
    BY <1>1, <2>1
  <2> QED BY <1>2, <1>3, <1>5, <2>1, <2>2 DEF nl_socket, Labels
<1>6. CASE Lookup(c)
  <2>1. pc[c] = "find" /\ pc'[c] \in {"send", "idle"} /\ call' = call /\ rounds' = rounds
    BY <1>6 DEF Lookup
  <2>2. s(pc'[c]) < s(pc[c])
    BY <1>1, <2>1
  <2> QED BY <1>2, <1>3, <2>1, <2>2 DEF Labels
<1>7. ASSUME NEW name, Sleeps(c, name)
      PROVE  /\ Onward(c) /\ rounds'[c] \in 0 .. PollMax
             /\ \A d \in Clients \ {c} : rounds'[d] = rounds[d]
  <2>1. /\ rounds[c] < PollMax /\ rounds' = [rounds EXCEPT ![c] = rounds[c] + 1]
        /\ pc' = pc /\ call' = call
    BY <1>7 DEF Sleeps, Waited
  <2>2. rounds'[c] = rounds[c] + 1 /\ StepsLeft(c)' = StepsLeft(c)
    BY <2>1 DEF StepsLeft
  <2>3. rounds'[c] \in rounds[c] + 1 .. PollMax /\ rounds'[c] \in 0 .. PollMax
    BY <1>2, <2>1, <2>2
  <2> QED BY <2>1, <2>2, <2>3 DEF Onward
<1>8. ASSUME rounds' = [rounds EXCEPT ![c] = 0]
      PROVE  /\ rounds'[c] \in 0 .. PollMax
             /\ \A d \in Clients \ {c} : rounds'[d] = rounds[d]
  BY <1>2, <1>8
<1>9. CASE Await(c)
  <2>1. CASE ~ Sleeps(c, call[c].name)
    <3>1. /\ pc[c] = "find" /\ pc'[c] \in {"send", "idle"} /\ call' = call
          /\ rounds' = [rounds EXCEPT ![c] = 0]
      BY <1>9, <2>1 DEF Await
    <3>2. s(pc'[c]) < s(pc[c])
      BY <1>1, <3>1
    <3> QED BY <1>3, <1>8, <3>1, <3>2 DEF Labels
  <2> QED BY <1>7, <2>1
<1>10. CASE Send(c)
  <2>1. pc[c] = "send" /\ pc'[c] \in {"recv", "idle"} /\ call' = call /\ rounds' = rounds
    BY <1>10 DEF Send
  <2>2. s(pc'[c]) < s(pc[c])
    BY <1>1, <2>1
  <2> QED BY <1>2, <1>3, <2>1, <2>2 DEF Labels
<1>11. CASE Receive(c)
  <2>1. pc[c] = "recv" /\ pc'[c] \in {"appear1", "idle"} /\ call' = call /\ rounds' = rounds
    BY <1>11 DEF Receive
  <2>2. s(pc'[c]) < s(pc[c])
    BY <1>1, <2>1
  <2> QED BY <1>2, <1>3, <2>1, <2>2 DEF Labels
<1>12. CASE Appear(c)
  <2>1. CASE Sleeps(c, call[c].name) \/ Sleeps(c, call[c].other)
    BY <1>7, <2>1
  <2>2. CASE ~ (Sleeps(c, call[c].name) \/ Sleeps(c, call[c].other))
    <3>1. rounds' = [rounds EXCEPT ![c] = 0]
      BY <1>12, <2>2 DEF Appear
    <3>2. CASE Undo(c)
      <4>1. pc[c] \in {"appear1", "appear2"}
        BY <1>12 DEF Appear
      <4>2. call[c].op = "create_veth" /\ call[c] \in Calls[c]
        BY <4>1, OpsOnly DEF CallInv, Called
      <4>3. ~ call[c].undo
        BY <4>2, NetlinkAssumption DEF Call
      <4>4. call'[c].undo /\ pc'[c] = "open"
        BY <3>2 DEF Undo, DeletionOf
      <4>5. StepsLeft(c)' < StepsLeft(c)
        <5>1. StepsLeft(c)' = 6
          BY <1>1, <4>4 DEF StepsLeft, s
        <5>2. StepsLeft(c) = s(pc[c]) + 7
          BY <1>1, <4>3 DEF StepsLeft, s
        <5> QED BY <1>1, <4>1, <5>1, <5>2
      <4> QED BY <1>8, <3>1, <4>5 DEF Onward
    <3>3. CASE ~ Undo(c)
      <4>1. /\ \/ pc[c] = "appear1" /\ pc'[c] = "appear2"
               \/ pc[c] = "appear2" /\ pc'[c] = "idle"
            /\ call' = call
        BY <1>12, <2>2, <3>3 DEF Appear
      <4>2. s(pc'[c]) < s(pc[c])
        BY <1>1, <4>1
      <4> QED BY <1>3, <1>8, <3>1, <4>1, <4>2 DEF Labels
    <3> QED BY <3>2, <3>3
  <2> QED BY <2>1, <2>2
<1> QED BY <1>4, <1>5, <1>6, <1>9, <1>10, <1>11, <1>12 DEF Step

(* Every step of a process takes its own call onward and no other one back *)
(* or forth: through the steps of the function, once more through those of *)
(* the deletion that undoes a creation, or through one of the PollMax      *)
(* rounds of wait_for_interface(); whatever the others and the kernel do,  *)
(* no call goes round in circles.                                          *)
THEOREM CallsGoOn ==
  Spec => [][\E c \in Clients : Onward(c) /\ \A d \in Clients \ {c} : Still(d)]_vars
<1>1. Init => RoundsInv
  BY NetlinkAssumption DEF Init, RoundsInv
<1>2. ASSUME IInv, CleanInv, RoundsInv, NEW c \in Clients, Begin(c) \/ Step(c)
      PROVE  RoundsInv' /\ Onward(c) /\ \A d \in Clients \ {c} : Still(d)
  <2>1. TypeInv /\ CallInv
    BY <1>2 DEF IInv, CleanInv
  <2>2. /\ Onward(c) /\ rounds'[c] \in 0 .. PollMax
        /\ \A d \in Clients \ {c} : rounds'[d] = rounds[d]
    BY <1>2, <2>1, OwnStep
  <2>3. \A d \in Clients \ {c} : Same(d)
    BY <1>2, <2>1, StepFrame
  <2>4. RoundsInv'
    BY <1>2, <2>2 DEF RoundsInv
  <2> QED BY <2>2, <2>3, <2>4 DEF Still
<1>3. IInv /\ CleanInv /\ RoundsInv /\ [Next]_vars => RoundsInv'
  <2>1. UNCHANGED vars => (RoundsInv => RoundsInv')
    BY DEF vars, RoundsInv
  <2> QED BY <1>2, <2>1 DEF Next, Over
<1>4. IInv /\ CleanInv /\ RoundsInv /\ [Next]_vars =>
        [\E c \in Clients : Onward(c) /\ \A d \in Clients \ {c} : Still(d)]_vars
  BY <1>2 DEF Next, Over
<1> QED BY <1>1, <1>3, <1>4, Invariance, CleanInvariance, PTL DEF Spec
=============================================================================
