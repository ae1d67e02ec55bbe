--------------------------- MODULE MCCommandLine ----------------------------
(* Command lines for TLC: a complete one with up to two, or three, further *)
(* tokens put in at every place, numbers around every limit, and all lines *)
(* of at most two tokens. INT_MAX and 1024 are scaled down to 127 and 4.   *)
EXTENDS CommandLine

Complete ==
  <<<<"-", "u", "5">>, <<"-", "m">>, <<"d">>, <<"-", "-", "cmd", "=", "x">>>>

More ==
  {<<>>, <<"o">>, <<"-">>, <<"-", "-">>, <<"-", "v">>, <<"-", "x", "v">>,
   <<"-", "a">>, <<"-", "v", "a", "-">>, <<"-", "v", "-", "nat">>,
   <<"-", "v", "-">>, <<"-", "-", "ve", "=", "y">>, <<"-", "-", "nat", "=", "y">>,
   <<"-", "-", "he">>, <<"-", "-", "dns">>, <<"-", "-", "dns", "=">>,
   <<"-", "-", "veth", "=", "w">>, <<"-", "-", "container-ip", "=", "ip">>}
Few == {<<"o">>, <<"-", "-">>, <<"-", "a">>, <<"-", "v">>}

With(l, k, t) == SubSeq(l, 1, k) \o <<t>> \o SubSeq(l, k + 1, Len(l))
Inserted(ls, ts) == {With(p[1], p[2], p[3]) : p \in UNION
                      {{l} \X (0..Len(l)) \X ts : l \in ls}}
Digits ==
  {<<"-", "-", "uid", "=", "5">>, <<"-", "u">>} \cup
  {<<"-", "u">> \o v : v \in DOMAIN Numerals \cup {<<"five">>}}

LineSet ==
  Inserted(Inserted({Complete}, More), More)
    \cup Inserted(Inserted(Inserted({Complete}, Few), Few), Few)
    \cup {<<t>> \o Tail(Complete) : t \in Digits}
    \cup {<<t>> : t \in More} \cup {<<s, t>> : s \in More, t \in More}

PrefixSet ==
  {<<"ve", e>> : e \in {"version", "verbosity", "veth", "veth-peer"}}
    \cup {<<"veth", "veth-peer">>, <<"he", "help">>}

Number(value, suffix) == [value |-> value, suffix |-> suffix]
NumeralsMap ==
  (<<"5">> :> Number(5, "none")) @@ (<<"5", "x">> :> Number(5, "junk"))
    @@ (<<"-", "1">> :> Number(-1, "none"))
    @@ (<<"127">> :> Number(127, "none")) @@ (<<"128">> :> Number(128, "none"))
    @@ (<<"-", "128">> :> Number(-128, "none"))
    @@ (<<"-", "129">> :> Number(-129, "none"))
    @@ (<<"31", "KB">> :> Number(31, "KB")) @@ (<<"32", "KB">> :> Number(32, "KB"))
    @@ (<<"-", "32", "KB">> :> Number(-32, "KB"))
    @@ (<<"-", "33", "KB">> :> Number(-33, "KB"))
    @@ (<<"7", "MB">> :> Number(7, "MB")) @@ (<<"8", "MB">> :> Number(8, "MB"))
    @@ (<<"1", "GB">> :> Number(1, "GB")) @@ (<<"2", "GB">> :> Number(2, "GB"))
=============================================================================
