----------------------------- MODULE Interfaces -----------------------------
(***************************************************************************)
(* The names of the network interfaces that main() of src/barco.c makes    *)
(* up, and what several launchers on one host do to interfaces they only   *)
(* know by name: the deletion of left-overs, the creation of the pair, its *)
(* move to the container, the deletion at the end. Each call of nl_*() is  *)
(* one step here; Netlink has its parts.                                   *)
(***************************************************************************)
EXTENDS Integers, Sequences, FiniteSets

CONSTANTS
  Launchers,   \* the runs of barco on this host
  Requests,    \* [Launchers -> sets of requests]: --veth and --veth-peer
  Suffixes,    \* what generate_random_suffix() may return
  HostLinks,   \* names of interfaces of the host itself
  Failing,     \* launchers some of whose calls may fail
  MayCrash     \* launchers that may be killed

VARIABLES
  pc,          \* what each launcher does next
  request,     \* its request
  suffix,      \* its suffix
  created,     \* launchers with veth_created = 1
  result,      \* what nl_create_veth() has returned, and why
  child,       \* the container: "none", "waiting", "running", "ended"
  links,       \* interfaces: [pair, name, ns]
  met,         \* history: the launchers it has been on the host with
  failed       \* history: its deletions that have failed

vars == <<pc, request, suffix, created, result, child, links, met, failed>>

Host == "host"

-----------------------------------------------------------------------------
(* generate_random_suffix(): of 16 bytes 8 are random and the last is 0;   *)
(* the seven in between keep what the stack held. The seed is made of the  *)
(* clock and the process id: two launchers may have the same.              *)
RandomChars == 8
IsSuffix(s) == \A i \in 1..15 : (s[i] = "junk") <=> i > RandomChars

(* The user's word for a name, and its length; "" stands for the option    *)
(* not given. A name is plain text, or generated: "%.15s" of               *)
(* "veth-<word>-<suffix>", which cuts the suffix. A word of nine           *)
(* characters or more leaves none of it: what is generated then is plain   *)
(* text too, which words that begin alike share, and which anybody may     *)
(* have given to an interface. "cut" is that text.                         *)
Word(text, len) == [text |-> text, len |-> len, cut |-> ""]
LongWord(text, len, cut) == [text |-> text, len |-> len, cut |-> cut]
NotGiven == Word("", 0)
Tmp == Word("tmp", 3)

Written == <<"as is">>
Plain(text) == [word |-> text, rest |-> Written]
AsIs(word) == Plain(word.text)

(* Whether "%.15s" leaves a character of the suffix behind the word. *)
HasSuffix(word) == word.len <= 8

(* "own" and Host stand for no launcher. The names of the host's own       *)
(* interfaces are plain text, which a random suffix does not look like;    *)
(* and there is one word "tmp".                                            *)
ASSUME InterfacesAssumption ==
  /\ IsFiniteSet(Launchers) /\ Failing \cup MayCrash \subseteq Launchers
  /\ {"own", Host} \cap Launchers = {}
  /\ \A s \in Suffixes :
       s \in Seq(STRING) /\ Len(s) = 15 /\ \A i \in 1..15 : s[i] # Written[1]
  /\ \A n \in HostLinks : n = Plain(n.word)
  /\ \A l \in Launchers : \A r \in Requests[l] :
       r.veth.len \in Nat /\ (r.veth.text = Tmp.text => r.veth = Tmp)

M_NoSuffix(word, s) ==                     \* mutant: "veth-%s"
  [word |-> word.text, rest |-> <<>>]

Generated(word, s) ==
  IF HasSuffix(word) THEN [word |-> word.text, rest |-> SubSeq(s, 1, 9 - word.len)]
                     ELSE Plain(word.cut)

M_SameName(r, s) ==                        \* mutant: the container's own name
  IF r.peer = NotGiven THEN AsIs(r.veth) ELSE AsIs(r.peer)

veth_peer(r, s) ==
  IF r.peer = NotGiven THEN Generated(r.veth, s) ELSE AsIs(r.peer)
veth_tmp(s) == Generated(Tmp, s)

PeerOf(l) == veth_peer(request[l], suffix[l])
TmpOf(l) == veth_tmp(suffix[l])

-----------------------------------------------------------------------------
(* The kernel: both ends of a pair go together, and a name is used once in *)
(* a namespace. The host's own interfaces have no pair.                    *)
Link(pair, name, ns) == [pair |-> pair, name |-> name, ns |-> ns]
Named(name, ns) == {k \in links : k.name = name /\ k.ns = ns}
Without(gone) ==
  {k \in links : k \notin gone /\ \A g \in gone : k.pair = "own" \/ k.pair # g.pair}

nl_del_link(name) == links' = Without(Named(name, Host))

(* It may also fail at socket() or sendmsg(), before anything is deleted.  *)
(* main() ignores that, or logs it.                                        *)
DelLink(l, name) ==
  \/ nl_del_link(name) /\ UNCHANGED failed
  \/ /\ l \in Failing /\ Named(name, Host) # {}
     /\ failed' = [failed EXCEPT ![l] = @ \cup {pc[l]}]
     /\ UNCHANGED links

Active(l) ==
  pc[l] \notin {"start", "returned", "killed"} \/ child[l] \in {"waiting", "running"}

Goto(l, next) == pc' = [pc EXCEPT ![l] = next]
Same == UNCHANGED <<request, suffix, met>>

-----------------------------------------------------------------------------
Begin(l) ==
  /\ pc[l] = "start" /\ Goto(l, "scrub_tmp")
  /\ \E r \in Requests[l] : request' = [request EXCEPT ![l] = r]
  /\ \E s \in Suffixes : suffix' = [suffix EXCEPT ![l] = s]
  /\ LET others == {m \in Launchers \ {l} : Active(m)}
     IN met' = [m \in Launchers |-> IF m = l THEN others
                                    ELSE IF m \in others THEN met[m] \cup {l}
                                    ELSE met[m]]
  /\ UNCHANGED <<created, result, child, links, failed>>

(* nl_del_link() on what may be left of an earlier run; results ignored.   *)
M_NoScrub(l) ==                            \* mutant: nothing is deleted
  /\ pc[l] = "scrub_peer" /\ Goto(l, "create")
  /\ UNCHANGED <<created, result, child, links, failed>> /\ Same

ScrubTmp(l) ==
  /\ pc[l] = "scrub_tmp" /\ DelLink(l, TmpOf(l)) /\ Goto(l, "scrub_peer")
  /\ UNCHANGED <<created, result, child>> /\ Same

ScrubPeer(l) ==
  /\ pc[l] = "scrub_peer" /\ DelLink(l, PeerOf(l)) /\ Goto(l, "create")
  /\ UNCHANGED <<created, result, child>> /\ Same

(* nl_create_veth() is exclusive. "lost": it has made the pair and returns *)
(* -1, having missed the answer or been unable to undo it; "failed": it    *)
(* could not ask, or has undone the pair. What follows in main() up to     *)
(* container_init() leaves the interfaces alone but for their settings;    *)
(* cleanup follows a failure.                                              *)
Clash(l) ==
  TmpOf(l) = PeerOf(l) \/ Named(TmpOf(l), Host) \cup Named(PeerOf(l), Host) # {}

CreateVeth(l) ==
  LET clash == Clash(l)
      makes == links' = links \cup {Link(l, TmpOf(l), Host), Link(l, PeerOf(l), Host)}
      Returns(r, next) == result' = [result EXCEPT ![l] = r] /\ Goto(l, next)
  IN /\ pc[l] = "create"
     /\ \/ clash /\ Returns("exists", "unlink") /\ UNCHANGED <<links, created>>
        \/ ~clash /\ makes /\ Returns("made", "clone") /\ created' = created \cup {l}
        \/ /\ ~clash /\ makes /\ l \in Failing
           /\ Returns("lost", "unlink") /\ UNCHANGED created
        \/ /\ l \in Failing
           /\ Returns("failed", "unlink") /\ UNCHANGED <<links, created>>
     /\ UNCHANGED <<child, failed>> /\ Same

(* container_init(): the container has a network namespace of its own.     *)
Clone(l) ==
  /\ pc[l] = "clone"
  /\ \/ child' = [child EXCEPT ![l] = "waiting"] /\ Goto(l, "move")
     \/ l \in Failing /\ Goto(l, "unlink") /\ UNCHANGED child
  /\ UNCHANGED <<created, result, links, failed>> /\ Same

(* nl_move_to_ns(veth_tmp): whoever's it is. On failure container_stop().  *)
Move(l) ==
  /\ pc[l] = "move"
  /\ \/ \E k \in Named(TmpOf(l), Host) :
          /\ child[l] # "ended"    \* /proc/<pid>/ns/net can be opened
          /\ links' = (links \ {k}) \cup {[k EXCEPT !.ns = l]}
          /\ Goto(l, "wait") /\ UNCHANGED child
     \/ /\ Named(TmpOf(l), Host) = {} \/ child[l] = "ended" \/ l \in Failing
        /\ child' = [child EXCEPT ![l] = "ended"]
        /\ Goto(l, "unlink") /\ UNCHANGED links
  /\ UNCHANGED <<created, result, failed>> /\ Same

Wait(l) ==
  /\ pc[l] = "wait" /\ child[l] = "ended" /\ Goto(l, "unlink")
  /\ UNCHANGED <<created, result, child, links, failed>> /\ Same

(* cleanup: the peer is deleted by its name, if this run has created one.  *)
M_Moved(l) == l \in created /\ child[l] # "none"   \* mutant: only with a child
MustUnlink(l) == l \in created

Unlink(l) ==
  /\ pc[l] = "unlink" /\ Goto(l, "returned")
  /\ IF MustUnlink(l) THEN DelLink(l, PeerOf(l)) ELSE UNCHANGED <<links, failed>>
  /\ UNCHANGED <<created, result, child>> /\ Same

LauncherKilled(l) ==
  /\ l \in MayCrash /\ pc[l] \notin {"start", "returned", "killed"}
  /\ Goto(l, "killed")
  /\ UNCHANGED <<created, result, child, links, failed>> /\ Same

(* container_start() finds veth_tmp in its namespace and gives it the name *)
(* of --veth; or the wait is over, or the command ends.                    *)
ChildRename(l) ==
  /\ child[l] = "waiting"
  /\ \E k \in Named(TmpOf(l), l) :
       links' = (links \ {k}) \cup {[k EXCEPT !.name = AsIs(request[l].veth)]}
  /\ child' = [child EXCEPT ![l] = "running"]
  /\ UNCHANGED <<pc, created, result, failed>> /\ Same

ChildEnds(l) ==
  /\ child[l] \in {"waiting", "running"}
  /\ child' = [child EXCEPT ![l] = "ended"]
  /\ UNCHANGED <<pc, created, result, links, failed>> /\ Same

(* The kernel destroys a namespace without a process. *)
Reclaim(l) ==
  LET inside == {k \in links : k.ns = l}
  IN /\ child[l] = "ended" /\ inside # {}
     /\ links' = Without(inside)
     /\ UNCHANGED <<pc, created, result, child, failed>> /\ Same

Settled ==
  \A l \in Launchers : /\ pc[l] \in {"returned", "killed"}
                       /\ child[l] \in {"none", "ended"}
                       /\ \A k \in links : k.ns # l

Over == Settled /\ UNCHANGED vars

Step(l) ==
  \/ Begin(l) \/ ScrubTmp(l) \/ ScrubPeer(l) \/ CreateVeth(l) \/ Clone(l)
  \/ Move(l) \/ Wait(l) \/ Unlink(l) \/ LauncherKilled(l)
  \/ ChildRename(l) \/ ChildEnds(l) \/ Reclaim(l)

Next == (\E l \in Launchers : Step(l)) \/ Over

Init ==
  /\ pc = [l \in Launchers |-> "start"] /\ created = {}
  /\ request = [l \in Launchers |-> [veth |-> NotGiven, peer |-> NotGiven]]
  /\ suffix = [l \in Launchers |-> <<>>]
  /\ result = [l \in Launchers |-> "none"] /\ child = [l \in Launchers |-> "none"]
  /\ links = {Link("own", n, Host) : n \in HostLinks}
  /\ met = [l \in Launchers |-> {}] /\ failed = [l \in Launchers |-> {}]

Spec == Init /\ [][Next]_vars

-----------------------------------------------------------------------------
Begun(l) == pc[l] # "start"
Names(l) == {PeerOf(l), TmpOf(l)}

(* Another launcher has been there that uses one of its names. *)
Rival(l) == \E m \in met[l] : Names(m) \cap Names(l) # {}

(* Two launchers with words of four characters at most, and suffixes that  *)
(* differ in the first five: barco is to keep them apart.                  *)
Apart(l, m) ==
  /\ \A r \in {request[l], request[m]} : r.peer = NotGiven /\ r.veth.len <= 4
  /\ SubSeq(suffix[l], 1, 5) # SubSeq(suffix[m], 1, 5)

(* A running container is connected to the peer that its own launcher has  *)
(* made, whatever other launchers scrub, create and clean up by name, if   *)
(* they have names with enough of different suffixes in them.              *)
Connected ==
  \A l \in Launchers :
    (child[l] = "running" /\ \A m \in met[l] : Apart(l, m))
      => {Link(l, PeerOf(l), Host), Link(l, AsIs(request[l].veth), l)} \subseteq links

(* The pair can be made over whatever a killed launcher, a lost answer or  *)
(* a failed deletion has left under the names, unless a launcher with one  *)
(* of them is at work at the same time, its own deletion of a left-over    *)
(* has failed, or --veth is "tmp": then both names are one.                *)
AloneCreates ==
  \A l \in Launchers :
    result[l] = "exists" =>
      \/ Rival(l) \/ failed[l] \cap {"scrub_tmp", "scrub_peer"} # {}
      \/ request[l].veth = Tmp /\ request[l].peer = NotGiven

(* When all have returned and all containers are gone, no interface of     *)
(* theirs is left, also when names collided: only launchers that were      *)
(* killed, whose creation worked and returned -1 (the answer was missed,   *)
(* or it could not be undone), or whose deletion at the end has failed     *)
(* leave one.                                                              *)
NothingLeft ==
  Settled => \A k \in links :
               \/ k.pair = "own" \/ pc[k.pair] = "killed"
               \/ result[k.pair] = "lost" \/ "unlink" \in failed[k.pair]

(* An interface of the host is only ever deleted by the name of a peer     *)
(* that is plain text: --veth-peer gives it, or a --veth word of nine      *)
(* characters or more leaves no suffix in it. It never goes because the    *)
(* container is to have one of that name.                                  *)
HostLinksStay ==
  \A n \in HostLinks :
    \/ Link("own", n, Host) \in links
    \/ \E l \in Launchers :
         /\ Begun(l) /\ PeerOf(l) = n
         /\ request[l].peer # NotGiven \/ ~HasSuffix(request[l].veth)
=============================================================================
