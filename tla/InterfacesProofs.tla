-------------------------- MODULE InterfacesProofs --------------------------
(***************************************************************************)
(* Proofs about Interfaces for any number of launchers, whatever they are  *)
(* asked for, whichever suffixes they draw, and whichever of them fail or  *)
(* are killed.                                                             *)
(***************************************************************************)
EXTENDS Interfaces, SequenceTheorems, TLAPS

-----------------------------------------------------------------------------
(* What a launcher is at, and what it has by then. *)
Before == {"start", "scrub_tmp", "scrub_peer", "create"}
Labels == Before \cup {"clone", "move", "wait", "unlink", "returned", "killed"}

TypeInv ==
  /\ pc \in [Launchers -> Labels]
  /\ child \in [Launchers -> {"none", "waiting", "running", "ended"}]
  /\ result \in [Launchers -> {"none", "exists", "made", "lost", "failed"}]
  /\ created \subseteq Launchers
  /\ met \in [Launchers -> SUBSET Launchers]
  /\ failed \in [Launchers -> SUBSET {"scrub_tmp", "scrub_peer", "unlink"}]
  /\ DOMAIN request = Launchers /\ DOMAIN suffix = Launchers
  /\ \A l \in Launchers :
       Begun(l) => request[l] \in Requests[l] /\ suffix[l] \in Suffixes

PhaseInv ==
  \A l \in Launchers :
    /\ pc[l] \in Before => result[l] = "none"
    /\ result[l] = "made" => l \in created
    /\ pc[l] \in {"clone", "move", "wait"} => result[l] = "made"
    /\ pc[l] \in Before \cup {"clone"} => child[l] = "none"
    /\ child[l] = "waiting" => pc[l] \in {"move", "wait", "killed"}
    /\ child[l] = "running" => pc[l] \in {"wait", "killed"}

(* Launchers that are on the host together have met. *)
MetInv ==
  \A l, m \in Launchers :
    /\ m \in met[l] => m # l /\ Begun(l) /\ Begun(m)
    /\ l # m /\ Active(l) /\ Active(m) => m \in met[l]

(* An interface is one of the host, which stays there, or of a launcher    *)
(* that has created a pair; and none is in a container before its launcher *)
(* has moved one there.                                                    *)
LinkInv ==
  \A k \in links :
    /\ k = Link(k.pair, k.name, k.ns)
    /\ k.pair \in Launchers \cup {"own"} /\ k.ns \in Launchers \cup {Host}
    /\ k.pair = "own" => k.ns = Host /\ k.name \in HostLinks
    /\ k.pair \in Launchers => result[k.pair] \in {"made", "lost"}
    /\ k.ns \in Launchers => pc[k.ns] \notin Before \cup {"clone", "move"}

-----------------------------------------------------------------------------
LEMMA HostIsNoLauncher == Host \notin Launchers /\ "own" \notin Launchers
BY InterfacesAssumption

LEMMA StepTypes ==
  ASSUME TypeInv, PhaseInv, LinkInv, NEW c \in Launchers, Step(c)
  PROVE  TypeInv' /\ PhaseInv'
<1> USE DEF TypeInv, PhaseInv, Before, Labels, Goto, Same, Begun
<1>1. CASE Begin(c)
  BY <1>1 DEF Begin
<1>2. CASE ScrubTmp(c) \/ ScrubPeer(c)
  BY <1>2 DEF ScrubTmp, ScrubPeer, DelLink
<1>3. CASE CreateVeth(c)
  BY <1>3 DEF CreateVeth
<1>4. CASE Clone(c)
  BY <1>4 DEF Clone
<1>5. CASE Move(c)
  BY <1>5 DEF Move
<1>6. CASE Wait(c) \/ Unlink(c) \/ LauncherKilled(c)
  BY <1>6 DEF Wait, Unlink, LauncherKilled, DelLink
<1>7. CASE ChildRename(c)
  <2>1. PICK k \in links : k.ns = c
    BY <1>7 DEF ChildRename, Named
  <2>2. pc[c] \notin {"clone", "move"}
    BY <2>1 DEF LinkInv
  <2> QED BY <1>7, <2>2 DEF ChildRename
<1>8. CASE ChildEnds(c) \/ Reclaim(c)
  BY <1>8 DEF ChildEnds, Reclaim
<1> QED BY <1>1, <1>2, <1>3, <1>4, <1>5, <1>6, <1>7, <1>8 DEF Step

(* A step of one launcher leaves what belongs to another alone, and a      *)
(* launcher that has begun keeps its names.                                *)
Frame(c) ==
  \A d \in Launchers \ {c} :
    /\ pc'[d] = pc[d] /\ child'[d] = child[d] /\ result'[d] = result[d]
    /\ request'[d] = request[d] /\ suffix'[d] = suffix[d]

LEMMA StepFrame ==
  ASSUME TypeInv, NEW c \in Launchers, Step(c)
  PROVE  Frame(c)
BY DEF Frame, TypeInv, Goto, Same, Step, Begin, ScrubTmp, ScrubPeer, CreateVeth, Clone,
       Move, Wait, Unlink, LauncherKilled, ChildRename, ChildEnds, Reclaim

LEMMA FailedStays ==
  ASSUME TypeInv, NEW c \in Launchers, Step(c), NEW l \in Launchers
  PROVE  failed[l] \subseteq failed'[l]
BY DEF TypeInv, Step, Begin, ScrubTmp, ScrubPeer, CreateVeth, Clone, Move, Wait, Unlink,
       LauncherKilled, ChildRename, ChildEnds, Reclaim, DelLink

LEMMA NamesStay ==
  ASSUME TypeInv, NEW c \in Launchers, Step(c), NEW l \in Launchers, Begun(l)
  PROVE  /\ request'[l] = request[l] /\ suffix'[l] = suffix[l]
         /\ PeerOf(l)' = PeerOf(l) /\ TmpOf(l)' = TmpOf(l) /\ Begun(l)'
<1>1. request'[l] = request[l] /\ suffix'[l] = suffix[l]
  BY StepFrame DEF Frame, TypeInv, Begun, Goto, Same, Step, Begin, ScrubTmp, ScrubPeer,
     CreateVeth, Clone, Move, Wait, Unlink, LauncherKilled, ChildRename, ChildEnds,
     Reclaim
<1>2. Begun(l)'
  BY StepFrame DEF Frame, TypeInv, Begun, Goto, Same, Step, Begin, ScrubTmp, ScrubPeer,
     CreateVeth, Clone, Move, Wait, Unlink, LauncherKilled, ChildRename, ChildEnds,
     Reclaim
<1> QED BY <1>1, <1>2 DEF PeerOf, TmpOf

LEMMA StepMet ==
  ASSUME TypeInv, PhaseInv, MetInv, NEW c \in Launchers, Step(c)
  PROVE  MetInv'
<1>1. CASE Begin(c)
  <2> DEFINE others == {m \in Launchers \ {c} : Active(m)}
  <2>1. /\ met' = [m \in Launchers |-> IF m = c THEN others
                                    ELSE IF m \in others THEN met[m] \cup {c}
                                    ELSE met[m]]
        /\ pc' = [pc EXCEPT ![c] = "scrub_tmp"] /\ child' = child /\ ~ Begun(c)
    BY <1>1 DEF Begin, Goto, Begun
  <2>2. \A m \in Launchers : Active(m) => Begun(m)
    BY DEF Active, Begun, PhaseInv, Before
  <2>3. \A m \in Launchers \ {c} : Active(m)' <=> Active(m)
    BY <2>1 DEF Active, TypeInv
  <2>4. \A m \in Launchers : Begun(m) => Begun(m)'
    BY <2>1 DEF Begun, TypeInv
  <2>5. Begun(c)'
    BY <2>1 DEF Begun, TypeInv
  <2> HIDE DEF others
  <2>6. \A l, m \in Launchers :
          m \in met'[l] => m \in met[l] \/ (l = c /\ m \in others)
                                       \/ (m = c /\ l \in others)
    BY <2>1
  <2>7. \A m \in others : m \in Launchers \ {c} /\ Active(m)
    BY DEF others
  <2>8. \A l, m \in Launchers : m \in met'[l] => m # l /\ Begun(l)' /\ Begun(m)'
    BY <2>2, <2>4, <2>5, <2>6, <2>7 DEF MetInv
  <2>9. ASSUME NEW l \in Launchers, NEW m \in Launchers, l # m, Active(l)', Active(m)'
        PROVE  m \in met'[l]
    <3>1. CASE l = c
      BY <2>1, <2>3, <2>9, <3>1 DEF others
    <3>2. CASE m = c
      BY <2>1, <2>3, <2>9, <3>2 DEF others
    <3>3. CASE l # c /\ m # c
      BY <2>1, <2>3, <2>9, <3>3 DEF MetInv
    <3> QED BY <3>1, <3>2, <3>3
  <2> QED BY <2>8, <2>9 DEF MetInv
<1>2. CASE ~ Begin(c)
  <2>1. met' = met /\ Begun(c)
    BY <1>2 DEF Step, Begun, Same, ScrubTmp, ScrubPeer, CreateVeth, Clone, Move, Wait,
       Unlink, LauncherKilled, ChildRename, ChildEnds, Reclaim, PhaseInv, Before
  <2>2. \A l \in Launchers : Begun(l) => Begun(l)'
    BY NamesStay
  <2>3. \A l \in Launchers : Active(l)' => Active(l)
    <3>1. Active(c)' => Active(c)
      BY <1>2 DEF Active, TypeInv, PhaseInv, Before, Step, Goto, Same, ScrubTmp,
         ScrubPeer, CreateVeth, Clone, Move, Wait, Unlink, LauncherKilled, ChildRename,
         ChildEnds, Reclaim
    <3> QED BY <3>1, StepFrame DEF Frame, Active
  <2> QED BY <2>1, <2>2, <2>3 DEF MetInv
<1> QED BY <1>1, <1>2

-----------------------------------------------------------------------------
(* Names. What has a character of the suffix is never plain text, and with *)
(* five different characters of the suffix no two generated names agree.   *)
LEMMA FirstCharacter ==
  ASSUME NEW s \in Suffixes, NEW k \in Int, k <= 9
  PROVE  SubSeq(s, 1, k) # Written
<1>1. s \in Seq(STRING) /\ Len(s) = 15 /\ s[1] # Written[1]
  BY InterfacesAssumption
<1>2. Len(Written) = 1
  BY DEF Written
<1>3. CASE k = 1
  <2>1. SubSeq(s, 1, k)[1] = s[1]
    BY <1>1, <1>3, SubSeqProperties
  <2> QED BY <1>1, <1>2, <2>1
<1>4. CASE k # 1
  <2>1. Len(SubSeq(s, 1, k)) # 1
    BY <1>1, <1>4, SubSeqProperties
  <2> QED BY <1>2, <2>1
<1> QED BY <1>3, <1>4

LEMMA GeneratedOrWritten ==
  ASSUME NEW s \in Suffixes, NEW w, w.len \in Nat, HasSuffix(w),
         NEW n, n.rest = Written
  PROVE  Generated(w, s) # n
<1>1. 9 - w.len \in Int /\ 9 - w.len <= 9
  OBVIOUS
<1>2. Generated(w, s).rest # Written
  BY <1>1, FirstCharacter DEF Generated
<1> QED BY <1>2

Taken(t) == [i \in 1..5 |-> t[i]]

LEMMA FirstFive ==
  ASSUME NEW s \in Suffixes, NEW k \in 5..9
  PROVE  Taken(SubSeq(s, 1, k)) = SubSeq(s, 1, 5)
<1>1. s \in Seq(STRING) /\ Len(s) = 15
  BY InterfacesAssumption
<1>2. \A i \in 1..5 : SubSeq(s, 1, k)[i] = s[i]
  BY <1>1
<1>3. SubSeq(s, 1, 5) = [i \in 1..5 |-> s[i]]
  BY <1>1
<1> QED BY <1>2, <1>3 DEF Taken

LEMMA GeneratedApart ==
  ASSUME NEW s \in Suffixes, NEW t \in Suffixes, SubSeq(s, 1, 5) # SubSeq(t, 1, 5),
         NEW v, v.len \in Nat, v.len <= 4, NEW w, w.len \in Nat, w.len <= 4
  PROVE  Generated(v, s) # Generated(w, t)
<1>1. 9 - v.len \in 5..9 /\ 9 - w.len \in 5..9
  OBVIOUS
<1>2. /\ Taken(Generated(v, s).rest) = SubSeq(s, 1, 5)
      /\ Taken(Generated(w, t).rest) = SubSeq(t, 1, 5)
  BY <1>1, FirstFive DEF Generated, HasSuffix
<1> QED BY <1>2

LEMMA TmpIsGenerated ==
  ASSUME TypeInv, NEW l \in Launchers, Begun(l), NEW n, n.rest = Written
  PROVE  TmpOf(l) # n
<1>1. suffix[l] \in Suffixes /\ Tmp.len \in Nat /\ HasSuffix(Tmp)
  BY DEF TypeInv, Tmp, Word, HasSuffix
<1> QED BY <1>1, GeneratedOrWritten DEF TmpOf, veth_tmp

LEMMA ApartNames ==
  ASSUME TypeInv, NEW l \in Launchers, NEW m \in Launchers, Begun(l), Begun(m),
         Apart(l, m)
  PROVE  Names(l) \cap Names(m) = {}
<1>1. /\ suffix[l] \in Suffixes /\ suffix[m] \in Suffixes
      /\ request[l].veth.len \in Nat /\ request[m].veth.len \in Nat
  BY InterfacesAssumption DEF TypeInv
<1>2. /\ request[l].peer = NotGiven /\ request[l].veth.len <= 4
      /\ request[m].peer = NotGiven /\ request[m].veth.len <= 4
      /\ SubSeq(suffix[l], 1, 5) # SubSeq(suffix[m], 1, 5)
  BY DEF Apart
<1>3. Tmp.len \in Nat /\ Tmp.len <= 4
  BY DEF Tmp, Word
<1>4. /\ PeerOf(l) = Generated(request[l].veth, suffix[l])
      /\ PeerOf(m) = Generated(request[m].veth, suffix[m])
      /\ TmpOf(l) = Generated(Tmp, suffix[l]) /\ TmpOf(m) = Generated(Tmp, suffix[m])
  BY <1>2 DEF PeerOf, TmpOf, veth_peer, veth_tmp
<1>5. PeerOf(l) # PeerOf(m) /\ PeerOf(l) # TmpOf(m)
  BY <1>1, <1>2, <1>3, <1>4, GeneratedApart
<1>6. TmpOf(l) # PeerOf(m) /\ TmpOf(l) # TmpOf(m)
  BY <1>1, <1>2, <1>3, <1>4, GeneratedApart
<1> QED BY <1>5, <1>6 DEF Names

(* The two names of a launcher are one only if --veth is "tmp". *)
LEMMA OneName ==
  ASSUME TypeInv, NEW l \in Launchers, Begun(l), TmpOf(l) = PeerOf(l)
  PROVE  request[l].veth = Tmp /\ request[l].peer = NotGiven
<1>1. request[l].peer = NotGiven
  <2>1. AsIs(request[l].peer).rest = Written
    BY DEF AsIs, Plain
  <2>2. TmpOf(l) # AsIs(request[l].peer)
    BY <2>1, TmpIsGenerated
  <2> QED BY <2>2 DEF PeerOf, veth_peer
<1>2. PeerOf(l) = Generated(request[l].veth, suffix[l])
  BY <1>1 DEF PeerOf, veth_peer
<1>3. HasSuffix(request[l].veth)
  <2>1. Plain(request[l].veth.cut).rest = Written
    BY DEF Plain
  <2>2. TmpOf(l) # Plain(request[l].veth.cut)
    BY <2>1, TmpIsGenerated
  <2> QED BY <1>2, <2>2 DEF Generated
<1>4. request[l].veth.text = Tmp.text
  <2>1. PeerOf(l).word = request[l].veth.text
    BY <1>2, <1>3 DEF Generated
  <2>2. TmpOf(l).word = Tmp.text
    BY DEF TmpOf, veth_tmp, Generated, HasSuffix, Tmp, Word
  <2> QED BY <2>1, <2>2
<1>5. request[l] \in Requests[l]
  BY DEF TypeInv
<1> QED BY <1>1, <1>4, <1>5, InterfacesAssumption

-----------------------------------------------------------------------------
(* What a step may do to the interfaces. *)
Deletes(c) ==
  /\ pc[c] \in {"scrub_tmp", "scrub_peer", "unlink"}
  /\ \E name \in Names(c) : links' = Without(Named(name, Host))
Creates(c) ==
  /\ pc[c] = "create" /\ ~ Clash(c) /\ result'[c] \in {"made", "lost"}
  /\ links' = links \cup {Link(c, TmpOf(c), Host), Link(c, PeerOf(c), Host)}
Moves(c) ==
  /\ pc[c] = "move" /\ child[c] # "ended" /\ pc'[c] = "wait"
  /\ \E k \in Named(TmpOf(c), Host) :
       links' = (links \ {k}) \cup {[k EXCEPT !.ns = c]}
Renames(c) ==
  /\ child[c] = "waiting" /\ child'[c] = "running"
  /\ \E k \in Named(TmpOf(c), c) :
       links' = (links \ {k}) \cup {[k EXCEPT !.name = AsIs(request[c].veth)]}
Reclaims(c) ==
  child[c] = "ended" /\ links' = Without({k \in links : k.ns = c})

LEMMA StepLinks ==
  ASSUME TypeInv, NEW c \in Launchers, Step(c)
  PROVE  links' = links \/ Deletes(c) \/ Creates(c) \/ Moves(c) \/ Renames(c) \/ Reclaims(c)
<1> USE DEF TypeInv, Goto
<1>1. CASE Begin(c) \/ Clone(c) \/ Wait(c) \/ LauncherKilled(c) \/ ChildEnds(c)
  BY <1>1 DEF Begin, Clone, Wait, LauncherKilled, ChildEnds
<1>2. CASE ScrubTmp(c) \/ ScrubPeer(c) \/ Unlink(c)
  BY <1>2 DEF ScrubTmp, ScrubPeer, Unlink, DelLink, nl_del_link, Deletes, Names
<1>3. CASE CreateVeth(c)
  BY <1>3 DEF CreateVeth, Creates
<1>4. CASE Move(c)
  BY <1>4 DEF Move, Moves
<1>5. CASE ChildRename(c)
  BY <1>5 DEF ChildRename, Renames
<1>6. CASE Reclaim(c)
  BY <1>6 DEF Reclaim, Reclaims
<1> QED BY <1>1, <1>2, <1>3, <1>4, <1>5, <1>6 DEF Step

LEMMA WithoutKeeps ==
  ASSUME NEW g
  PROVE  /\ Without(g) \subseteq links
         /\ \A k \in links : k \notin Without(g) =>
              k \in g \/ \E d \in g : d.pair # "own" /\ d.pair = k.pair
         /\ \A k \in Without(g) : k \notin g
         /\ \A k \in Without(g), d \in g : d.pair # "own" => k.pair # d.pair
BY DEF Without

LEMMA StepLinkInv ==
  ASSUME TypeInv, PhaseInv, LinkInv, NEW c \in Launchers, Step(c)
  PROVE  LinkInv'
<1> USE HostIsNoLauncher
<1> DEFINE Sound(k) ==
             /\ k = Link(k.pair, k.name, k.ns)
             /\ k.pair \in Launchers \cup {"own"} /\ k.ns \in Launchers \cup {Host}
             /\ k.pair = "own" => k.ns = Host /\ k.name \in HostLinks
             /\ k.pair \in Launchers => result[k.pair] \in {"made", "lost"}
             /\ k.ns \in Launchers => pc[k.ns] \notin Before \cup {"clone", "move"}
<1>1. \A k \in links : Sound(k)
  BY DEF LinkInv
<1>2. \A l \in Launchers : result[l] \in {"made", "lost"} => result'[l] = result[l]
  <2>1. result[c] \in {"made", "lost"} => result'[c] = result[c]
    BY DEF TypeInv, PhaseInv, Before, Goto, Same, Step, Begin, ScrubTmp, ScrubPeer,
       CreateVeth, Clone, Move, Wait, Unlink, LauncherKilled, ChildRename, ChildEnds,
       Reclaim
  <2> QED BY <2>1, StepFrame DEF Frame
<1>3. \A l \in Launchers :
        pc[l] \notin Before \cup {"clone", "move"}
          => pc'[l] \notin Before \cup {"clone", "move"}
  <2>1. pc[c] \notin Before \cup {"clone", "move"}
          => pc'[c] \notin Before \cup {"clone", "move"}
    BY DEF TypeInv, Before, Goto, Same, Step, Begin, ScrubTmp, ScrubPeer,
       CreateVeth, Clone, Move, Wait, Unlink, LauncherKilled, ChildRename, ChildEnds,
       Reclaim
  <2> QED BY <2>1, StepFrame DEF Frame
<1>4. \A k \in links : Sound(k)'
  BY <1>1, <1>2, <1>3
<1>5. SUFFICES ASSUME NEW k \in links' PROVE Sound(k)'
  BY DEF LinkInv
<1> HIDE DEF Sound
<1>6. CASE links' = links \/ Deletes(c) \/ Reclaims(c)
  BY <1>4, <1>6, WithoutKeeps DEF Deletes, Reclaims
<1>7. CASE Creates(c)
  <2>1. ASSUME NEW name, k = Link(c, name, Host) PROVE Sound(k)'
    BY <1>7, <2>1 DEF Sound, Creates, Link
  <2> QED BY <1>4, <1>7, <2>1 DEF Creates
<1>8. CASE Moves(c)
  <2>1. PICK j \in Named(TmpOf(c), Host) :
          links' = (links \ {j}) \cup {[j EXCEPT !.ns = c]}
    BY <1>8 DEF Moves
  <2>2. j \in links /\ j.name = TmpOf(c) /\ Sound(j)'
    BY <1>4 DEF Named
  <2>3. Begun(c) /\ pc'[c] = "wait"
    BY <1>8 DEF Moves, Begun
  <2>4. j.pair # "own"
    <3>1. \A n \in HostLinks : n.rest = Written
      BY InterfacesAssumption DEF Plain
    <3>2. TmpOf(c) \notin HostLinks
      BY <2>3, <3>1, TmpIsGenerated
    <3> QED BY <2>2, <3>2 DEF Sound
  <2>5. [j EXCEPT !.ns = c] = Link(j.pair, j.name, c)
    BY <2>2 DEF Sound, Link
  <2>6. Sound(Link(j.pair, j.name, c))'
    BY <2>2, <2>3, <2>4 DEF Sound, Link, Before
  <2> QED BY <1>4, <2>1, <2>5, <2>6
<1>9. CASE Renames(c)
  <2>1. PICK j \in Named(TmpOf(c), c) :
          links' = (links \ {j}) \cup {[j EXCEPT !.name = AsIs(request[c].veth)]}
    BY <1>9 DEF Renames
  <2>2. j \in links /\ j.ns = c /\ Sound(j)'
    BY <1>4 DEF Named
  <2>3. [j EXCEPT !.name = AsIs(request[c].veth)]
          = Link(j.pair, AsIs(request[c].veth), c)
    BY <2>2 DEF Sound, Link
  <2>4. \A name : j.pair # "own" => Sound(Link(j.pair, name, c))'
    BY <2>2 DEF Sound, Link
  <2>5. j.pair # "own"
    BY <2>2 DEF Sound
  <2>6. k \in links \/ k = Link(j.pair, AsIs(request[c].veth), c)
    BY <2>1, <2>3
  <2> QED BY <1>4, <2>4, <2>5, <2>6
<1> QED BY <1>6, <1>7, <1>8, <1>9, StepLinks

-----------------------------------------------------------------------------
(* The ends of a pair go together. As long as one is left, either the peer *)
(* is where its launcher will look for it, or an end is in a container,    *)
(* with which the pair will go.                                            *)
Moved(l) == \E k \in links : k.pair = l /\ k.ns \in Launchers
Lasting(l) == Link(l, PeerOf(l), Host) \in links \/ Moved(l)

EndInv ==
  \A k \in links : \A l \in Launchers :
    k.pair = l =>
      /\ Lasting(l)
      /\ pc[l] = "returned" /\ result[l] = "made"
           => Moved(l) \/ "unlink" \in failed[l]

LEMMA RemovedTogether ==
  ASSUME NEW g \in SUBSET links, links' = Without(g),
         NEW l \in Launchers, NEW k \in links', k.pair = l
  PROVE  \A j \in links : j.pair = l => j \in links'
<1>1. l # "own"
  BY HostIsNoLauncher
<1>2. \A d \in g : d.pair # l
  BY <1>1, WithoutKeeps
<1> QED BY <1>2, WithoutKeeps

LEMMA PairStays ==
  ASSUME TypeInv, PhaseInv, LinkInv, NEW c \in Launchers, Step(c),
         NEW l \in Launchers, NEW k \in links', k.pair = l, Begun(l),
         ~ (Creates(c) /\ l = c)
  PROVE  /\ \E j \in links : j.pair = l
         /\ Moved(l) => Moved(l)'
         /\ Lasting(l) => Lasting(l)'
<1> USE HostIsNoLauncher
<1>1. Link(l, PeerOf(l), Host)' = Link(l, PeerOf(l), Host)
  BY NamesStay DEF Link
<1>2. CASE links' = links
  BY <1>1, <1>2 DEF Moved, Lasting
<1>3. CASE Deletes(c) \/ Reclaims(c)
  <2>1. PICK g \in SUBSET links : links' = Without(g)
    <3>1. CASE Deletes(c)
      BY <3>1 DEF Deletes, Named
    <3>2. CASE Reclaims(c)
      BY <3>2 DEF Reclaims
    <3> QED BY <1>3, <3>1, <3>2
  <2>2. \A j \in links : j.pair = l => j \in links'
    BY <2>1, RemovedTogether
  <2>3. k \in links
    BY <2>1, WithoutKeeps
  <2>4. Link(l, PeerOf(l), Host).pair = l
    BY DEF Link
  <2> QED BY <1>1, <2>2, <2>3, <2>4 DEF Moved, Lasting
<1>4. CASE Creates(c)
  <2>1. l # c /\ links \subseteq links'
    BY <1>4 DEF Creates
  <2>2. \A name : k # Link(c, name, Host)
    BY <2>1 DEF Link
  <2>3. k \in links
    BY <1>4, <2>2 DEF Creates
  <2> QED BY <1>1, <2>1, <2>3 DEF Moved, Lasting
<1>5. CASE Moves(c) \/ Renames(c)
  <2>1. PICK j \in links, n \in links' :
          /\ links' = (links \ {j}) \cup {n} /\ n.pair = j.pair /\ n.ns = c
    <3>1. \A j \in links : j = Link(j.pair, j.name, j.ns)
      BY DEF LinkInv
    <3>2. CASE Moves(c)
      <4>1. PICK j \in Named(TmpOf(c), Host) :
              links' = (links \ {j}) \cup {[j EXCEPT !.ns = c]}
        BY <3>2 DEF Moves
      <4>2. j \in links /\ [j EXCEPT !.ns = c].pair = j.pair /\ [j EXCEPT !.ns = c].ns = c
        BY <3>1 DEF Named, Link
      <4> QED BY <4>1, <4>2
    <3>3. CASE Renames(c)
      <4>1. PICK j \in Named(TmpOf(c), c) :
              links' = (links \ {j}) \cup {[j EXCEPT !.name = AsIs(request[c].veth)]}
        BY <3>3 DEF Renames
      <4> DEFINE n == [j EXCEPT !.name = AsIs(request[c].veth)]
      <4>2. j \in links /\ n.pair = j.pair /\ n.ns = c
        BY <3>1 DEF Named, Link
      <4> HIDE DEF n
      <4> QED BY <4>1, <4>2 DEF n
    <3> QED BY <1>5, <3>2, <3>3
  <2>2. CASE j.pair = l
    <3>1. Moved(l)'
      BY <2>1, <2>2 DEF Moved
    <3> QED BY <2>2, <3>1 DEF Lasting
  <2>3. CASE j.pair # l
    <3>1. k \in links /\ \A i \in links : i.pair = l => i \in links'
      BY <2>1, <2>3
    <3>2. Link(l, PeerOf(l), Host).pair = l
      BY DEF Link
    <3> QED BY <1>1, <3>1, <3>2 DEF Moved, Lasting
  <2> QED BY <2>2, <2>3
<1> QED BY <1>2, <1>3, <1>4, <1>5, StepLinks

LEMMA StepEndInv ==
  ASSUME TypeInv, PhaseInv, LinkInv, LinkInv', EndInv, NEW c \in Launchers, Step(c)
  PROVE  EndInv'
<1> SUFFICES ASSUME NEW k \in links', NEW l \in Launchers, k.pair = l
             PROVE  /\ Lasting(l)'
                    /\ pc'[l] = "returned" /\ result'[l] = "made"
                         => Moved(l)' \/ "unlink" \in failed'[l]
  BY DEF EndInv
<1>1. CASE Creates(c) /\ l = c
  <2>1. Begun(c) /\ Link(c, PeerOf(c), Host) \in links'
    BY <1>1 DEF Creates, Begun
  <2>2. Link(c, PeerOf(c), Host)' = Link(c, PeerOf(c), Host)
    BY <2>1, NamesStay DEF Link
  <2>3. pc'[c] # "returned"
    BY <1>1 DEF Creates, TypeInv, Goto, Same, Step, Begin, ScrubTmp, ScrubPeer,
       CreateVeth, Clone, Move, Wait, Unlink, LauncherKilled, ChildRename, ChildEnds,
       Reclaim
  <2> QED BY <1>1, <2>1, <2>2, <2>3 DEF Lasting
<1>2. CASE ~ (Creates(c) /\ l = c)
  <2>0. result'[l] \in {"made", "lost"}
    BY DEF LinkInv
  <2>1. result'[l] = result[l]
    BY <1>2, <2>0, StepFrame DEF Frame, Creates, TypeInv, Goto, Same, Step, Begin, ScrubTmp,
       ScrubPeer, CreateVeth, Clone, Move, Wait, Unlink, LauncherKilled, ChildRename,
       ChildEnds, Reclaim
  <2>2. result[l] \in {"made", "lost"}
    BY <2>0, <2>1
  <2>3. Begun(l)
    BY <2>2 DEF PhaseInv, Before, Begun
  <2>4. /\ \E j \in links : j.pair = l
        /\ Moved(l) => Moved(l)'
        /\ Lasting(l) => Lasting(l)'
    BY <1>2, <2>3, PairStays
  <2>5. Lasting(l)'
    BY <2>4 DEF EndInv
  <2>6. ASSUME pc'[l] = "returned", result[l] = "made" 
        PROVE  Moved(l)' \/ "unlink" \in failed'[l]
    <3>1. CASE pc[l] = "returned"
      BY <2>4, <2>6, <3>1, FailedStays DEF EndInv
    <3>2. CASE pc[l] # "returned"
      <4>1. Unlink(l)
        <5>1. l = c
          BY <2>6, <3>2, StepFrame DEF Frame
        <5>2. pc'[c] = "returned" => Unlink(c) \/ pc[c] = "returned"
          BY DEF TypeInv, Goto, Step, Begin, ScrubTmp, ScrubPeer, CreateVeth, Clone,
             Move, Wait, LauncherKilled, ChildRename, ChildEnds, Reclaim
        <5> QED BY <2>6, <3>2, <5>1, <5>2
      <4>2. pc[l] = "unlink" /\ DelLink(l, PeerOf(l))
        BY <2>6, <4>1 DEF Unlink, MustUnlink, PhaseInv
      <4>3. CASE "unlink" \in failed'[l]
        BY <4>3
      <4>4. CASE "unlink" \notin failed'[l]
        <5>1. links' = Without(Named(PeerOf(l), Host))
          BY <4>2, <4>4 DEF DelLink, nl_del_link, TypeInv
        <5>2. Link(l, PeerOf(l), Host) \notin links
          <6>1. ASSUME Link(l, PeerOf(l), Host) \in Named(PeerOf(l), Host) PROVE FALSE
            <7>1. Link(l, PeerOf(l), Host).pair = l /\ l # "own"
              BY HostIsNoLauncher DEF Link
            <7> QED BY <5>1, <6>1, <7>1, WithoutKeeps
          <6> QED BY <6>1 DEF Named, Link
        <5> QED BY <2>4, <5>2 DEF EndInv, Lasting
      <4> QED BY <4>3, <4>4
    <3> QED BY <3>1, <3>2
  <2> QED BY <2>1, <2>5, <2>6
<1> QED BY <1>1, <1>2

-----------------------------------------------------------------------------
(* An interface of the host only has the name of a peer in plain text.     *)
PlainPeer(l) == request[l].peer # NotGiven \/ ~HasSuffix(request[l].veth)

LEMMA HostLinkNamed ==
  ASSUME TypeInv, NEW c \in Launchers, Begun(c), NEW n \in HostLinks, n \in Names(c)
  PROVE  PeerOf(c) = n /\ PlainPeer(c)
<1>1. n.rest = Written
  BY InterfacesAssumption DEF Plain
<1>2. n = PeerOf(c)
  BY <1>1, TmpIsGenerated DEF Names
<1>3. suffix[c] \in Suffixes /\ request[c].veth.len \in Nat
  BY InterfacesAssumption DEF TypeInv
<1>4. request[c].peer = NotGiven => ~HasSuffix(request[c].veth)
  <2>1. HasSuffix(request[c].veth) => Generated(request[c].veth, suffix[c]) # n
    BY <1>1, <1>3, GeneratedOrWritten
  <2> QED BY <1>2, <2>1 DEF PeerOf, veth_peer
<1> QED BY <1>2, <1>4 DEF PlainPeer

LEMMA StepHostLinks ==
  ASSUME TypeInv, LinkInv, HostLinksStay, NEW c \in Launchers, Step(c)
  PROVE  HostLinksStay'
<1> USE HostIsNoLauncher
<1> SUFFICES ASSUME NEW n \in HostLinks
             PROVE  \/ Link("own", n, Host) \in links'
                    \/ \E l \in Launchers :
                         Begun(l)' /\ PeerOf(l)' = n /\ PlainPeer(l)'
  BY DEF HostLinksStay, Link, PlainPeer
<1>1. CASE \E l \in Launchers : Begun(l) /\ PeerOf(l) = n /\ PlainPeer(l)
  BY <1>1, NamesStay DEF PlainPeer
<1>2. CASE Link("own", n, Host) \in links
  <2> DEFINE own == Link("own", n, Host)
  <2>1. own.pair = "own" /\ own.ns = Host /\ own.name = n
    BY DEF Link
  <2> HIDE DEF own
  <2>2. own \in links
    BY <1>2 DEF own
  <2>3. CASE links' = links \/ Creates(c)
    BY <2>2, <2>3 DEF Creates, own
  <2>4. CASE Deletes(c)
    <3>1. PICK name \in Names(c) : links' = Without(Named(name, Host))
      BY <2>4 DEF Deletes
    <3>2. Begun(c)
      BY <2>4 DEF Deletes, Begun
    <3>3. CASE own \in Named(name, Host)
      <4>1. n \in Names(c)
        BY <2>1, <3>1, <3>3 DEF Named
      <4>2. PeerOf(c) = n /\ PlainPeer(c)
        BY <3>2, <4>1, HostLinkNamed
      <4> QED BY <3>2, <4>2, NamesStay DEF PlainPeer
    <3>4. CASE own \notin Named(name, Host)
      <4>1. own \in links'
        BY <2>1, <2>2, <3>1, <3>4, WithoutKeeps
      <4> QED BY <4>1 DEF own
    <3> QED BY <3>3, <3>4
  <2>5. CASE Moves(c)
    <3>1. Begun(c)
      BY <2>5 DEF Moves, Begun
    <3>2. n.rest = Written
      BY InterfacesAssumption DEF Plain
    <3>3. own \notin Named(TmpOf(c), Host)
      BY <2>1, <3>1, <3>2, TmpIsGenerated DEF Named
    <3>4. own \in links'
      BY <2>2, <2>5, <3>3 DEF Moves
    <3> QED BY <3>4 DEF own
  <2>6. CASE Renames(c) \/ Reclaims(c)
    <3>1. own.ns # c
      BY <2>1
    <3>2. own \in links'
      BY <2>1, <2>2, <2>6, <3>1, WithoutKeeps DEF Renames, Reclaims, Named
    <3> QED BY <3>2 DEF own
  <2> QED BY <2>3, <2>4, <2>5, <2>6, StepLinks
<1> QED BY <1>1, <1>2 DEF HostLinksStay, PlainPeer

-----------------------------------------------------------------------------
(* Between the deletion of left-overs and the creation, only a launcher    *)
(* that is there at the same time can bring one of the names back.         *)
Free(name) == Named(name, Host) = {}
ScrubFailed(l) == failed[l] \cap {"scrub_tmp", "scrub_peer"} # {}

ClearInv ==
  \A l \in Launchers :
    /\ pc[l] = "scrub_peer" => Rival(l) \/ ScrubFailed(l) \/ Free(TmpOf(l))
    /\ pc[l] = "create" =>
         Rival(l) \/ ScrubFailed(l) \/ (Free(TmpOf(l)) /\ Free(PeerOf(l)))

LEMMA RivalStays ==
  ASSUME TypeInv, MetInv, NEW c \in Launchers, Step(c), NEW l \in Launchers, Rival(l)
  PROVE  Rival(l)'
<1>1. PICK m \in met[l] : Names(m) \cap Names(l) # {}
  BY DEF Rival
<1>2. m \in Launchers /\ Begun(m) /\ Begun(l)
  BY <1>1 DEF MetInv, TypeInv
<1>3. Names(m)' = Names(m) /\ Names(l)' = Names(l)
  BY <1>2, NamesStay DEF Names
<1>4. m \in met'[l]
  BY <1>1, <1>2 DEF TypeInv, Begun, Step, Begin, Same, ScrubTmp, ScrubPeer, CreateVeth, Clone,
     Move, Wait, Unlink, LauncherKilled, ChildRename, ChildEnds, Reclaim
<1> QED BY <1>1, <1>3, <1>4 DEF Rival

(* A name that is free stays so, but for a launcher that creates it. *)
LEMMA FreeStays ==
  ASSUME TypeInv, LinkInv, NEW c \in Launchers, Step(c), NEW name, Free(name),
         Creates(c) => name \notin Names(c)
  PROVE  Free(name)'
<1> USE HostIsNoLauncher
<1> SUFFICES ASSUME NEW k \in links', k.name = name, k.ns = Host PROVE FALSE
  BY DEF Free, Named
<1>1. k \notin links
  BY DEF Free, Named
<1>2. CASE links' = links \/ Deletes(c) \/ Reclaims(c)
  BY <1>1, <1>2, WithoutKeeps DEF Deletes, Reclaims
<1>3. CASE Creates(c)
  BY <1>1, <1>3 DEF Creates, Names, Link
<1>4. CASE Moves(c)
  <2>1. PICK j \in Named(TmpOf(c), Host) :
          links' = (links \ {j}) \cup {[j EXCEPT !.ns = c]}
    BY <1>4 DEF Moves
  <2>2. [j EXCEPT !.ns = c].ns = c
    BY DEF LinkInv, Named, Link
  <2> QED BY <1>1, <2>1, <2>2
<1>5. CASE Renames(c)
  <2>1. PICK j \in Named(TmpOf(c), c) :
          links' = (links \ {j}) \cup {[j EXCEPT !.name = AsIs(request[c].veth)]}
    BY <1>5 DEF Renames
  <2> DEFINE n == [j EXCEPT !.name = AsIs(request[c].veth)]
  <2>2. n.ns = c
    BY DEF LinkInv, Named, Link
  <2>3. k = n
    BY <1>1, <2>1
  <2> HIDE DEF n
  <2> QED BY <2>2, <2>3
<1> QED BY <1>2, <1>3, <1>4, <1>5, StepLinks

LEMMA StepClear ==
  ASSUME TypeInv, PhaseInv, MetInv, LinkInv, ClearInv, NEW c \in Launchers, Step(c)
  PROVE  ClearInv'
<1> SUFFICES ASSUME NEW l \in Launchers, ~ Rival(l)', ~ ScrubFailed(l)'
             PROVE  /\ pc'[l] = "scrub_peer" => Free(TmpOf(l))'
                    /\ pc'[l] = "create" => Free(TmpOf(l))' /\ Free(PeerOf(l))'
  BY DEF ClearInv
<1>1. ~ Rival(l) /\ ~ ScrubFailed(l)
  BY RivalStays, FailedStays DEF ScrubFailed
<1>2. CASE l = c
  <2>1. CASE ScrubTmp(c)
    <3>1. Begun(c) /\ links' = Without(Named(TmpOf(c), Host)) /\ pc'[c] = "scrub_peer"
      BY <1>2, <2>1 DEF ScrubTmp, Begun, DelLink, nl_del_link, Goto, TypeInv, ScrubFailed
    <3>2. TmpOf(c)' = TmpOf(c)
      BY <3>1, NamesStay
    <3> QED BY <1>2, <3>1, <3>2, WithoutKeeps DEF Free, Named
  <2>2. CASE ScrubPeer(c)
    <3>1. /\ Begun(c) /\ links' = Without(Named(PeerOf(c), Host)) /\ pc'[c] = "create"
          /\ pc[c] = "scrub_peer"
      BY <1>2, <2>2 DEF ScrubPeer, Begun, DelLink, nl_del_link, Goto, TypeInv, ScrubFailed
    <3>2. TmpOf(c)' = TmpOf(c) /\ PeerOf(c)' = PeerOf(c)
      BY <3>1, NamesStay
    <3>3. Free(TmpOf(c)) /\ ~ Creates(c)
      BY <1>1, <1>2, <3>1 DEF ClearInv, Creates
    <3>4. Free(TmpOf(c))'
      <4>1. \A name : Free(name) => Free(name)'
        BY <3>3, FreeStays
      <4> QED BY <3>2, <3>3, <4>1 DEF Free, Named
    <3>5. Free(PeerOf(c))'
      BY <3>1, <3>2, WithoutKeeps DEF Free, Named
    <3> QED BY <1>2, <3>1, <3>4, <3>5
  <2>3. CASE ~ ScrubTmp(c) /\ ~ ScrubPeer(c)
    <3>1. pc'[c] \notin {"scrub_peer", "create"}
      BY <2>3 DEF TypeInv, PhaseInv, Before, Step, Begin, Goto, Same, CreateVeth, Clone,
         Move, Wait, Unlink, LauncherKilled, ChildRename, ChildEnds, Reclaim
    <3> QED BY <1>2, <3>1
  <2> QED BY <2>1, <2>2, <2>3
<1>3. CASE l # c
  <2> SUFFICES ASSUME pc[l] \in {"scrub_peer", "create"}
               PROVE  /\ pc[l] = "scrub_peer" => Free(TmpOf(l))'
                      /\ pc[l] = "create" => Free(TmpOf(l))' /\ Free(PeerOf(l))'
    BY <1>3, StepFrame DEF Frame
  <2>1. Begun(l) /\ TmpOf(l)' = TmpOf(l) /\ PeerOf(l)' = PeerOf(l)
    BY NamesStay DEF Begun
  <2>2. Creates(c) => Names(c) \cap Names(l) = {}
    <3>1. Creates(c) => c \in met[l]
      BY <1>3 DEF Creates, MetInv, Active
    <3> QED BY <1>1, <3>1 DEF Rival
  <2>3. \A name \in Names(l) : Free(name) => Free(name)'
    BY <2>2, FreeStays
  <2>4. TmpOf(l) \in Names(l) /\ PeerOf(l) \in Names(l)
    BY DEF Names
  <2>5. /\ Free(TmpOf(l)) => Free(TmpOf(l))'
        /\ Free(PeerOf(l)) => Free(PeerOf(l))'
    BY <2>1, <2>3, <2>4 DEF Free, Named
  <2> QED BY <1>1, <2>5 DEF ClearInv
<1> QED BY <1>2, <1>3

(* The creation fails for one of these reasons only. *)
LEMMA StepAlone ==
  ASSUME TypeInv, PhaseInv, MetInv, ClearInv, AloneCreates, NEW c \in Launchers, Step(c)
  PROVE  AloneCreates'
<1> SUFFICES ASSUME NEW l \in Launchers, result'[l] = "exists"
             PROVE  \/ Rival(l)' \/ ScrubFailed(l)'
                    \/ request'[l].veth = Tmp /\ request'[l].peer = NotGiven
  BY DEF AloneCreates, ScrubFailed
<1>1. CASE result[l] = "exists"
  <2>1. Begun(l)
    BY <1>1 DEF PhaseInv, Before, Begun
  <2> QED BY <1>1, <2>1, RivalStays, NamesStay, FailedStays DEF AloneCreates, ScrubFailed
<1>2. CASE result[l] # "exists"
  <2>1. l = c /\ pc[c] = "create" /\ Clash(c)
    BY <1>2, StepFrame DEF Frame, TypeInv, Step, Begin, Goto, Same, ScrubTmp, ScrubPeer,
       CreateVeth, Clone, Move, Wait, Unlink, LauncherKilled, ChildRename, ChildEnds,
       Reclaim
  <2>2. Begun(c)
    BY <2>1 DEF Begun
  <2>3. CASE TmpOf(c) = PeerOf(c)
    BY <2>1, <2>2, <2>3, OneName, NamesStay
  <2>4. CASE TmpOf(c) # PeerOf(c)
    <3>1. Rival(c) \/ ScrubFailed(c)
      BY <2>1, <2>4 DEF ClearInv, Clash, Free
    <3> QED BY <2>1, <3>1, RivalStays, FailedStays DEF ScrubFailed
  <2> QED BY <2>3, <2>4
<1> QED BY <1>1, <1>2

-----------------------------------------------------------------------------
(* From the creation of its pair until its container is gone, a launcher   *)
(* that has met none with one of its names has one end on the host, and    *)
(* the other there, or moved, or renamed; and no other interface is where  *)
(* the move and the renaming look for it.                                  *)
Quiet(l) == \A m \in met[l] : Apart(l, m)
Live(l) == pc[l] \in {"clone", "move"} \/ child[l] \in {"waiting", "running"}

Peer(l) == Link(l, PeerOf(l), Host)
Ends(l) == {k \in links : k.pair = l}

Sole(l) ==
  /\ TmpOf(l) # PeerOf(l)
  /\ \A k \in links :
       (k.name = TmpOf(l) /\ k.ns = Host) \/ k.ns = l => k.pair = l

Placed(l) ==
  \/ /\ child[l] = "running"
     /\ Ends(l) = {Peer(l), Link(l, AsIs(request[l].veth), l)}
  \/ child[l] # "running" /\ Ends(l) = {Peer(l), Link(l, TmpOf(l), Host)}
  \/ /\ child[l] # "running" /\ pc[l] \notin {"clone", "move"}
     /\ Ends(l) = {Peer(l), Link(l, TmpOf(l), l)}

JoinInv == \A l \in Launchers : Quiet(l) /\ Live(l) => Sole(l) /\ Placed(l)

LEMMA QuietWas ==
  ASSUME TypeInv, MetInv, NEW c \in Launchers, Step(c), NEW l \in Launchers, Begun(l),
         Quiet(l)'
  PROVE  Quiet(l)
<1> SUFFICES ASSUME NEW m \in met[l] PROVE Apart(l, m)
  BY DEF Quiet
<1>1. m \in Launchers /\ Begun(m)
  BY DEF MetInv, TypeInv
<1>2. m \in met'[l]
  BY <1>1 DEF TypeInv, Begun, Step, Begin, Same, ScrubTmp, ScrubPeer, CreateVeth, Clone,
     Move, Wait, Unlink, LauncherKilled, ChildRename, ChildEnds, Reclaim
<1>3. Apart(l, m)'
  BY <1>2 DEF Quiet
<1> QED BY <1>1, <1>3, NamesStay DEF Apart

LEMMA QuietNames ==
  ASSUME TypeInv, PhaseInv, MetInv, NEW l \in Launchers, Quiet(l), Live(l),
         NEW m \in Launchers \ {l}, Active(m)
  PROVE  Names(l) \cap Names(m) = {}
<1>1. Active(l)
  BY DEF Live, Active
<1>2. m \in met[l]
  BY <1>1 DEF MetInv
<1> QED BY <1>2, ApartNames DEF Quiet, MetInv

(* Where the ends of a pair can be. *)
LEMMA EndsAt ==
  ASSUME NEW l \in Launchers, Placed(l), NEW k \in links, k.pair = l
  PROVE  /\ k.ns = Host \/ k.ns = l
         /\ k.ns = Host => k.name \in Names(l)
<1>1. k \in Ends(l)
  BY DEF Ends
<1> QED BY <1>1, HostIsNoLauncher DEF Placed, Peer, Link, Names

LEMMA OthersLeave ==
  ASSUME TypeInv, PhaseInv, MetInv, LinkInv, NEW c \in Launchers, Step(c),
         NEW l \in Launchers \ {c}, Quiet(l), Live(l), Sole(l), Placed(l)
  PROVE  /\ Ends(l)' = Ends(l)
         /\ \A k \in links' :
              (k.name = TmpOf(l) /\ k.ns = Host) \/ k.ns = l => k.pair = l
<1> USE HostIsNoLauncher
<1>1. \A k \in links : k.pair = l => (k.ns = Host \/ k.ns = l)
                                     /\ (k.ns = Host => k.name \in Names(l))
  BY EndsAt
<1>2. Active(c) => Names(l) \cap Names(c) = {}
  BY QuietNames
<1>3. \A k \in links :
        (k.name = TmpOf(l) /\ k.ns = Host) \/ k.ns = l => k.pair = l
  BY DEF Sole
<1>4. TmpOf(l) \in Names(l)
  BY DEF Names
<1>5. CASE links' = links
  BY <1>3, <1>5 DEF Ends
<1>6. CASE Deletes(c) \/ Reclaims(c)
  <2>1. PICK g \in SUBSET links :
          links' = Without(g) /\ \A d \in g : d.pair # l
    <3>1. CASE Deletes(c)
      <4>1. PICK name \in Names(c) : links' = Without(Named(name, Host))
        BY <3>1 DEF Deletes
      <4>2. Active(c)
        BY <3>1 DEF Deletes, Active
      <4>3. \A d \in Named(name, Host) : d.pair # l
        BY <1>1, <1>2, <4>2 DEF Named
      <4> QED BY <4>1, <4>3 DEF Named
    <3>2. CASE Reclaims(c)
      BY <1>1, <3>2 DEF Reclaims
    <3> QED BY <1>6, <3>1, <3>2
  <2>2. links' \subseteq links /\ \A k \in links : k.pair = l => k \in links'
    BY <2>1, WithoutKeeps
  <2> QED BY <1>3, <2>2 DEF Ends
<1>7. CASE Creates(c)
  <2>1. Active(c)
    BY <1>7 DEF Creates, Active
  <2>2. \A k \in links' : k \in links \/ (k.pair = c /\ k.ns = Host /\ k.name \in Names(c))
    BY <1>7 DEF Creates, Link, Names
  <2>3. links \subseteq links'
    BY <1>7 DEF Creates
  <2>4. Ends(l)' = Ends(l)
    BY <2>2, <2>3 DEF Ends
  <2> QED BY <1>2, <1>3, <1>4, <2>1, <2>2, <2>4
<1>8. CASE Moves(c) \/ Renames(c)
  <2>1. PICK j \in links, n \in links' :
          /\ links' = (links \ {j}) \cup {n} /\ j.pair # l /\ n.pair # l /\ n.ns = c
    <3>1. \A j \in links : j = Link(j.pair, j.name, j.ns)
      BY DEF LinkInv
    <3>2. CASE Moves(c)
      <4>1. PICK j \in Named(TmpOf(c), Host) :
              links' = (links \ {j}) \cup {[j EXCEPT !.ns = c]}
        BY <3>2 DEF Moves
      <4>2. j \in links /\ [j EXCEPT !.ns = c].pair = j.pair /\ [j EXCEPT !.ns = c].ns = c
        BY <3>1 DEF Named, Link
      <4>3. Active(c) /\ TmpOf(c) \in Names(c)
        BY <3>2 DEF Moves, Active, Names
      <4>4. j.pair # l
        BY <1>1, <1>2, <4>3 DEF Named
      <4> QED BY <4>1, <4>2, <4>4
    <3>3. CASE Renames(c)
      <4>1. PICK j \in Named(TmpOf(c), c) :
              links' = (links \ {j}) \cup {[j EXCEPT !.name = AsIs(request[c].veth)]}
        BY <3>3 DEF Renames
      <4> DEFINE n == [j EXCEPT !.name = AsIs(request[c].veth)]
      <4>2. j \in links /\ j.ns = c /\ n.pair = j.pair /\ n.ns = c
        BY <3>1 DEF Named, Link
      <4>3. j.pair # l
        BY <1>1, <4>2
      <4> HIDE DEF n
      <4> QED BY <4>1, <4>2, <4>3 DEF n
    <3> QED BY <1>8, <3>2, <3>3
  <2>2. Ends(l)' = Ends(l)
    BY <2>1 DEF Ends
  <2> QED BY <1>3, <2>1, <2>2
<1> QED BY <1>5, <1>6, <1>7, <1>8, StepLinks

(* The step of the launcher itself, or of its container. *)
LEMMA OwnStep ==
  ASSUME TypeInv, PhaseInv, MetInv, LinkInv, JoinInv, NEW c \in Launchers, Step(c),
         Begun(c), Quiet(c)', Live(c)'
  PROVE  Sole(c)' /\ Placed(c)'
<1> USE HostIsNoLauncher
<1>1. /\ TmpOf(c)' = TmpOf(c) /\ PeerOf(c)' = PeerOf(c) /\ request'[c] = request[c]
      /\ Peer(c)' = Peer(c)
  BY NamesStay DEF Peer, Link
<1>2. Quiet(c)
  BY QuietWas
<1>3. Creates(c) \/ Live(c)
  BY DEF Live, Creates, TypeInv, PhaseInv, Before, Begun, Step, Begin, Goto, Same,
     ScrubTmp, ScrubPeer, CreateVeth, Clone, Move, Wait, Unlink, LauncherKilled,
     ChildRename, ChildEnds, Reclaim
<1>4. CASE Creates(c)
  <2>1. TmpOf(c) # PeerOf(c) /\ Named(TmpOf(c), Host) = {}
    BY <1>4 DEF Creates, Clash
  <2>2. \A k \in links : k.pair # c /\ k.ns # c
    BY <1>4 DEF Creates, LinkInv, PhaseInv, Before
  <2>3. links' = links \cup {Peer(c), Link(c, TmpOf(c), Host)}
    BY <1>4 DEF Creates, Peer
  <2>4. Ends(c)' = {Peer(c), Link(c, TmpOf(c), Host)}
    BY <2>2, <2>3 DEF Ends, Peer, Link
  <2>5. child'[c] # "running"
    BY <1>4 DEF Creates, TypeInv, PhaseInv, Before, Step, Begin, Goto, Same, ScrubTmp,
       ScrubPeer, CreateVeth, Clone, Move, Wait, Unlink, LauncherKilled, ChildRename,
       ChildEnds, Reclaim
  <2>6. Link(c, TmpOf(c), Host)' = Link(c, TmpOf(c), Host)
    BY <1>1 DEF Link
  <2>7. Placed(c)'
    BY <1>1, <2>4, <2>5, <2>6 DEF Placed
  <2>8. Sole(c)'
    BY <1>1, <2>1, <2>2, <2>3 DEF Sole, Named, Peer, Link
  <2> QED BY <2>7, <2>8
<1>5. CASE Live(c) /\ ~ Creates(c)
  <2>1. Sole(c) /\ Placed(c)
    BY <1>2, <1>5 DEF JoinInv
  <2>2. /\ Link(c, TmpOf(c), Host)' = Link(c, TmpOf(c), Host)
        /\ Link(c, TmpOf(c), c)' = Link(c, TmpOf(c), c)
        /\ Link(c, AsIs(request[c].veth), c)' = Link(c, AsIs(request[c].veth), c)
    BY <1>1 DEF Link, AsIs, Plain
  <2>3. CASE links' = links
    <3>1. Ends(c)' = Ends(c) /\ Sole(c)'
      BY <1>1, <2>1, <2>3 DEF Ends, Sole
    <3>2. /\ child'[c] = "running" => child[c] = "running"
          /\ child[c] = "running" => child'[c] = "running"
          /\ pc'[c] \in {"clone", "move"} => pc[c] \in {"clone", "move"}
      <4>1. ~ ChildRename(c)
        <5>1. ASSUME Renames(c) PROVE FALSE
          <6>1. PICK k \in Named(TmpOf(c), c) :
                  links' = (links \ {k}) \cup {[k EXCEPT !.name = AsIs(request[c].veth)]}
            BY <5>1 DEF Renames
          <6>2. k = Link(k.pair, k.name, k.ns) /\ k \in links /\ k.name = TmpOf(c)
            BY DEF LinkInv, Named
          <6> DEFINE n == [k EXCEPT !.name = AsIs(request[c].veth)]
          <6>3. n.name = AsIs(request[c].veth)
            BY <6>2 DEF Link
          <6>4. AsIs(request[c].veth).rest = Written
            BY DEF AsIs, Plain
          <6>5. n # k
            BY <6>2, <6>3, <6>4, TmpIsGenerated
          <6> HIDE DEF n
          <6> QED BY <2>3, <6>1, <6>2, <6>5 DEF n
        <5> QED BY <5>1 DEF ChildRename, Renames, TypeInv
      <4> QED BY <4>1, <1>5 DEF Live, TypeInv, PhaseInv, Before, Begun, Step, Begin, Goto,
          Same, ScrubTmp, ScrubPeer, CreateVeth, Clone, Move, Wait, Unlink,
          LauncherKilled, ChildEnds, Reclaim
    <3> QED BY <1>1, <2>1, <2>2, <3>1, <3>2 DEF Placed
  <2>4. CASE Deletes(c)
    BY <1>5, <2>4 DEF Deletes, Live, PhaseInv, Before
  <2>5. CASE Moves(c)
    <3>1. PICK j \in Named(TmpOf(c), Host) :
            links' = (links \ {j}) \cup {[j EXCEPT !.ns = c]}
      BY <2>5 DEF Moves
    <3>2. j \in links /\ j = Link(j.pair, j.name, j.ns) /\ j.name = TmpOf(c) /\ j.ns = Host
      BY DEF Named, LinkInv
    <3>3. j = Link(c, TmpOf(c), Host)
      BY <2>1, <3>2 DEF Sole
    <3>4. [j EXCEPT !.ns = c] = Link(c, TmpOf(c), c)
      BY <3>3 DEF Link
    <3>5. Ends(c) = {Peer(c), Link(c, TmpOf(c), Host)} /\ child[c] # "running"
      <4>1. pc[c] = "move"
        BY <2>5 DEF Moves
      <4>2. child[c] # "running"
        BY <4>1 DEF PhaseInv
      <4> QED BY <2>1, <4>1, <4>2 DEF Placed
    <3>6. Peer(c) # Link(c, TmpOf(c), Host) /\ Peer(c).pair = c
      BY <2>1 DEF Sole, Peer, Link
    <3>7. links' = (links \ {Link(c, TmpOf(c), Host)}) \cup {Link(c, TmpOf(c), c)}
      BY <3>1, <3>3, <3>4
    <3>8. Link(c, TmpOf(c), c).pair = c /\ Link(c, TmpOf(c), c).ns = c
      BY DEF Link
    <3>9. Ends(c)' = {Peer(c), Link(c, TmpOf(c), c)}
      BY <3>5, <3>6, <3>7, <3>8 DEF Ends
    <3>10. child'[c] # "running" /\ pc'[c] \notin {"clone", "move"}
      BY <2>5, <3>5 DEF Moves, TypeInv, Step, Begin, Goto, Same, ScrubTmp, ScrubPeer,
         CreateVeth, Clone, Move, Wait, Unlink, LauncherKilled, ChildRename, ChildEnds,
         Reclaim
    <3>11. Placed(c)'
      BY <1>1, <2>2, <3>9, <3>10 DEF Placed
    <3>12. Sole(c)'
      BY <1>1, <2>1, <3>7, <3>8 DEF Sole
    <3> QED BY <3>11, <3>12
  <2>6. CASE Renames(c)
    <3>1. PICK j \in Named(TmpOf(c), c) :
            links' = (links \ {j}) \cup {[j EXCEPT !.name = AsIs(request[c].veth)]}
      BY <2>6 DEF Renames
    <3>2. j \in links /\ j = Link(j.pair, j.name, j.ns) /\ j.name = TmpOf(c) /\ j.ns = c
      BY DEF Named, LinkInv
    <3>3. j = Link(c, TmpOf(c), c)
      BY <2>1, <3>2 DEF Sole
    <3>4. [j EXCEPT !.name = AsIs(request[c].veth)] = Link(c, AsIs(request[c].veth), c)
      BY <3>3 DEF Link
    <3>5. j \in Ends(c) /\ child[c] # "running" /\ child'[c] = "running"
      BY <2>6, <3>2, <3>3 DEF Ends, Link, Renames
    <3>6. Ends(c) = {Peer(c), Link(c, TmpOf(c), c)}
      <4>1. j \notin {Peer(c), Link(c, TmpOf(c), Host)}
        BY <3>2 DEF Peer, Link
      <4> QED BY <2>1, <3>5, <4>1 DEF Placed
    <3>7. Peer(c) # j /\ Peer(c).pair = c
      BY <3>2 DEF Peer, Link
    <3> DEFINE n == Link(c, AsIs(request[c].veth), c)
    <3>8. n.pair = c /\ n.ns = c
      BY DEF Link
    <3>9. n' = n
      BY <2>2
    <3> HIDE DEF n
    <3>10. links' = (links \ {j}) \cup {n}
      BY <3>1, <3>4 DEF n
    <3>11. Ends(c)' = {Peer(c), n}
      BY <3>3, <3>6, <3>7, <3>8, <3>10 DEF Ends
    <3>12. Placed(c)'
      BY <1>1, <2>2, <3>5, <3>11 DEF Placed, n
    <3>13. Sole(c)'
      BY <1>1, <2>1, <3>8, <3>10 DEF Sole
    <3> QED BY <3>12, <3>13
  <2>7. CASE Reclaims(c)
    <3>1. child[c] = "ended" /\ links' = Without({k \in links : k.ns = c})
      BY <2>7 DEF Reclaims
    <3>2. pc[c] \in {"clone", "move"}
      BY <1>5, <3>1 DEF Live
    <3>3. Ends(c) = {Peer(c), Link(c, TmpOf(c), Host)}
      BY <2>1, <3>1, <3>2 DEF Placed
    <3>4. \A k \in links : k.ns # c
      <4>1. ASSUME NEW k \in links, k.ns = c PROVE FALSE
        <5>1. k \in Ends(c)
          BY <2>1, <4>1 DEF Sole, Ends
        <5> QED BY <3>3, <4>1, <5>1 DEF Peer, Link
      <4> QED BY <4>1
    <3>5. links' = links
      BY <3>1, <3>4, WithoutKeeps
    <3> QED BY <2>3, <3>5
  <2> QED BY <2>3, <2>4, <2>5, <2>6, <2>7, <1>5, StepLinks
<1> QED BY <1>3, <1>4, <1>5

LEMMA StepJoin ==
  ASSUME TypeInv, PhaseInv, MetInv, LinkInv, JoinInv, NEW c \in Launchers, Step(c)
  PROVE  JoinInv'
<1> SUFFICES ASSUME NEW l \in Launchers, Quiet(l)', Live(l)'
             PROVE  Sole(l)' /\ Placed(l)'
  BY DEF JoinInv
<1>1. CASE l = c
  <2>1. Begun(c)
    BY <1>1 DEF Live, Begun, TypeInv, PhaseInv, Before, Step, Begin, Goto, Same, ScrubTmp,
       ScrubPeer, CreateVeth, Clone, Move, Wait, Unlink, LauncherKilled, ChildRename,
       ChildEnds, Reclaim
  <2> QED BY <1>1, <2>1, OwnStep
<1>2. CASE l # c
  <2>1. pc'[l] = pc[l] /\ child'[l] = child[l] /\ Live(l)
    BY <1>2, StepFrame DEF Frame, Live
  <2>2. Begun(l)
    BY <2>1 DEF Live, Begun, PhaseInv, Before
  <2>3. Quiet(l)
    BY <2>2, QuietWas
  <2>4. Sole(l) /\ Placed(l)
    BY <2>1, <2>3 DEF JoinInv
  <2>5. /\ Ends(l)' = Ends(l)
        /\ \A k \in links' :
              (k.name = TmpOf(l) /\ k.ns = Host) \/ k.ns = l => k.pair = l
    BY <1>2, <2>1, <2>3, <2>4, OthersLeave
  <2>6. /\ TmpOf(l)' = TmpOf(l) /\ PeerOf(l)' = PeerOf(l) /\ request'[l] = request[l]
    BY <2>2, NamesStay
  <2>7. /\ Peer(l)' = Peer(l) /\ Link(l, TmpOf(l), Host)' = Link(l, TmpOf(l), Host)
        /\ Link(l, TmpOf(l), l)' = Link(l, TmpOf(l), l)
        /\ Link(l, AsIs(request[l].veth), l)' = Link(l, AsIs(request[l].veth), l)
    BY <2>6 DEF Peer, Link, AsIs, Plain
  <2>8. Sole(l)'
    BY <2>4, <2>5, <2>6 DEF Sole
  <2>9. Placed(l)'
    BY <2>1, <2>4, <2>5, <2>7 DEF Placed
  <2> QED BY <2>8, <2>9
<1> QED BY <1>1, <1>2

-----------------------------------------------------------------------------
(* The inductive invariant. *)
IInv ==
  /\ TypeInv /\ PhaseInv /\ MetInv /\ LinkInv /\ EndInv /\ ClearInv /\ JoinInv
  /\ HostLinksStay /\ AloneCreates

LEMMA Beginning == Init => IInv
<1> SUFFICES ASSUME Init PROVE IInv
  OBVIOUS
<1> USE DEF Init
<1>1. TypeInv /\ PhaseInv
  BY DEF TypeInv, PhaseInv, Labels, Before, Begun
<1>2. MetInv
  BY DEF MetInv, Active
<1>3. \A k \in links : k.pair = "own" /\ k.ns = Host /\ k.name \in HostLinks
                       /\ k = Link(k.pair, k.name, k.ns)
  BY DEF Link
<1>4. LinkInv /\ EndInv
  BY <1>3, HostIsNoLauncher DEF LinkInv, EndInv
<1>5. ClearInv /\ JoinInv /\ AloneCreates
  BY DEF ClearInv, JoinInv, Live, AloneCreates
<1>6. HostLinksStay
  BY DEF HostLinksStay
<1> QED BY <1>1, <1>2, <1>4, <1>5, <1>6 DEF IInv

LEMMA Stuttering == IInv /\ UNCHANGED vars => IInv'
<1> SUFFICES ASSUME IInv, UNCHANGED vars PROVE IInv'
  OBVIOUS
<1> USE DEF vars
<1>1. TypeInv' /\ PhaseInv' /\ LinkInv'
  BY DEF IInv, TypeInv, PhaseInv, LinkInv, Begun, Link
<1>2. \A l \in Launchers : /\ PeerOf(l)' = PeerOf(l) /\ TmpOf(l)' = TmpOf(l)
                           /\ Names(l)' = Names(l) /\ Begun(l)' = Begun(l)
                           /\ Active(l)' = Active(l)
  BY DEF PeerOf, TmpOf, Names, Begun, Active
<1>3. MetInv'
  BY <1>2 DEF IInv, MetInv
<1>4. \A l \in Launchers : Rival(l)' = Rival(l)
  <2>1. \A l \in Launchers : \A m \in met[l] : m \in Launchers
    BY DEF IInv, TypeInv
  <2> QED BY <1>2, <2>1 DEF Rival
<1>5. EndInv' /\ ClearInv' /\ HostLinksStay' /\ AloneCreates'
  BY <1>2, <1>4 DEF IInv, EndInv, Lasting, Moved, ClearInv, Free, ScrubFailed, Named,
     HostLinksStay, AloneCreates, Link
<1>6. JoinInv'
  BY <1>2 DEF IInv, JoinInv, Quiet, Apart, Live, Sole, Placed, Ends, Peer, Link
<1> QED BY <1>1, <1>3, <1>5, <1>6 DEF IInv

LEMMA Invariance == Spec => []IInv
<1>1. IInv /\ [Next]_vars => IInv'
  <2> SUFFICES ASSUME IInv, [Next]_vars PROVE IInv'
    OBVIOUS
  <2>1. ASSUME NEW c \in Launchers, Step(c) PROVE IInv'
    <3>1. TypeInv' /\ PhaseInv' /\ MetInv'
      BY <2>1, StepTypes, StepMet DEF IInv
    <3>2. LinkInv'
      BY <2>1, StepLinkInv DEF IInv
    <3>3. EndInv'
      BY <2>1, <3>2, StepEndInv DEF IInv
    <3>4. ClearInv' /\ AloneCreates'
      BY <2>1, StepClear, StepAlone DEF IInv
    <3>5. JoinInv'
      BY <2>1, StepJoin DEF IInv
    <3>6. HostLinksStay'
      BY <2>1, StepHostLinks DEF IInv
    <3> QED BY <3>1, <3>2, <3>3, <3>4, <3>5, <3>6 DEF IInv
  <2> QED BY <2>1, Stuttering DEF Next, Over
<1> QED BY <1>1, Beginning, PTL DEF Spec

-----------------------------------------------------------------------------
(* cleanup of main() deletes the pair by the name of the peer, the kernel  *)
(* destroys the namespace of the container: when all is over, whatever the *)
(* names, an interface of a launcher is left only by one that was killed,  *)
(* that missed the answer to nl_create_veth(), or whose nl_del_link() at   *)
(* the end has failed, which is only logged (barco.c:482-487).             *)
THEOREM NothingIsLeft == Spec => []NothingLeft
<1>1. IInv => NothingLeft
  <2> SUFFICES ASSUME IInv, Settled, NEW k \in links, k.pair # "own",
                      pc[k.pair] # "killed", result[k.pair] # "lost",
                      "unlink" \notin failed[k.pair]
               PROVE  FALSE
    BY DEF NothingLeft
  <2>1. k.pair \in Launchers /\ result[k.pair] = "made"
    BY DEF IInv, LinkInv
  <2>2. pc[k.pair] = "returned"
    BY <2>1 DEF Settled
  <2>3. Moved(k.pair)
    BY <2>1, <2>2 DEF IInv, EndInv
  <2> QED BY <2>3 DEF Moved, Settled
<1> QED BY <1>1, Invariance, PTL

(* The nl_del_link() of main() on names it has made up, or was given: an   *)
(* interface of the host goes only when it has the name of a peer that     *)
(* --veth-peer gives, or that a --veth word of nine characters or more     *)
(* leaves without a suffix (barco.c:243-262, 313-314, 482-487).            *)
THEOREM HostLinksAreKept == Spec => []HostLinksStay
<1>1. IInv => HostLinksStay
  BY DEF IInv
<1> QED BY <1>1, Invariance, PTL

(* nl_del_link() on left-overs before nl_create_veth(): the creation fails *)
(* for a name that exists only if somebody with that name has been there   *)
(* at the same time, if a deletion of this run has failed, or if --veth is *)
(* "tmp" (barco.c:313-317).                                                *)
THEOREM CreationSucceeds == Spec => []AloneCreates
<1>1. IInv => AloneCreates
  BY DEF IInv
<1> QED BY <1>1, Invariance, PTL

(* "%.15s" of "veth-<word>-<suffix>" leaves five characters of the suffix  *)
(* to a word of four: where those differ, a running container has its end  *)
(* of the pair whose other end its launcher has made.                      *)
THEOREM ContainersAreConnected == Spec => []Connected
<1>1. IInv => Connected
  <2> SUFFICES ASSUME IInv, NEW l \in Launchers, child[l] = "running",
                      \A m \in met[l] : Apart(l, m)
               PROVE  {Link(l, PeerOf(l), Host), Link(l, AsIs(request[l].veth), l)}
                        \subseteq links
    BY DEF Connected
  <2>1. Placed(l)
    BY DEF IInv, JoinInv, Quiet, Live
  <2>2. Ends(l) = {Link(l, PeerOf(l), Host), Link(l, AsIs(request[l].veth), l)}
    BY <2>1 DEF Placed, Peer
  <2> QED BY <2>2 DEF Ends
<1> QED BY <1>1, Invariance, PTL
=============================================================================
