---------------------------- MODULE MCInterfaces ----------------------------
(* Values of the constants of Interfaces for TLC: two launchers; suffixes  *)
(* that differ in the first, in the sixth or in no character; a long word  *)
(* whose generated name an interface of the host has.                      *)
EXTENDS Interfaces

CONSTANTS l1, l2

LauncherSet == {l1, l2}
Eth0 == Word("eth0", 4)
Short == Word("w", 1)
Long == LongWord("container-ab", 12, "veth-container-")
Veth == LongWord("veth-container-", 15, "veth-veth-contai")
Br0 == Word("br0", 3)

Ask(veth, peer) == [veth |-> veth, peer |-> peer]
RequestSets ==
  [l \in LauncherSet |->
     IF l = l1 THEN {Ask(w, NotGiven) : w \in {Eth0, Long, Short, Tmp}}
                      \cup {Ask(Eth0, Br0)}
               ELSE {Ask(w, NotGiven) : w \in {Eth0, Long, NotGiven}}
                      \cup {Ask(Eth0, Br0), Ask(Short, Veth)}]

Suffix(first, sixth) ==
  [i \in 1..15 |-> IF i > RandomChars THEN "junk" ELSE IF i = 1 THEN first
                   ELSE IF i = 6 THEN sixth ELSE "x"]
SuffixSet == {Suffix("x", "x"), Suffix("y", "x"), Suffix("x", "y")}

ASSUME \A s \in SuffixSet : IsSuffix(s)

HostLinkSet == {AsIs(Eth0), AsIs(Br0), AsIs(Veth)}
=============================================================================
