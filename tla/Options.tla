------------------------------- MODULE Options -------------------------------
(* The option table of main(), which the parser (CommandLine) and the      *)
(* messages (Messages) both read: what the constructors of argtable3 put   *)
(* into an entry, and what getopt_long() is given of it. An entry is named *)
(* by its long option.                                                     *)
EXTENDS Integers, Sequences

NULL == ""

Larger(a, b) == IF a < b THEN b ELSE a

(* help: the length of the entry's glossary.                               *)
Entry(short, long, datatype, value, min, max, help) ==
  [short |-> short, long |-> long, datatype |-> datatype, value |-> value,
   mincount |-> min, maxcount |-> Larger(min, max), glossary |-> help]

arg_litn(short, long, min, max, help) ==
  Entry(short, long, NULL, FALSE, min, max, help)
arg_intn(short, long, datatype, min, max, help) ==
  Entry(short, long, datatype, TRUE, min, max, help)
arg_strn(short, long, datatype, min, max, help) ==
  Entry(short, long, datatype, TRUE, min, max, help)

argtable ==
  <<arg_litn(NULL, "help", 0, 1, 21), arg_litn(NULL, "version", 0, 1, 24),
    arg_intn("u", "uid", "<n>", 1, 1, 24), arg_strn("m", "mnt", "<path>", 1, 1, 16),
    arg_strn("c", "cmd", "<cmd>", 1, 1, 18), arg_strn("a", "arg", "<arg>", 0, 1, 20),
    arg_litn("v", "verbosity", 0, 1, 14),
    arg_strn(NULL, "veth", "<name>", 0, 1, 39),
    arg_strn(NULL, "veth-peer", "<name>", 0, 1, 50),
    arg_strn(NULL, "container-ip", "<ip/cidr>", 0, 1, 44),
    arg_strn(NULL, "host-ip", "<ip/cidr>", 0, 1, 44),
    arg_litn(NULL, "nat", 0, 1, 51), arg_strn(NULL, "dns", "<ip>", 0, 1, 43)>>

(* struct longoptions: the names, and those with has_arg = 0.              *)
Entries == {argtable[i].long : i \in DOMAIN argtable}
Flags == {argtable[i].long : i \in {j \in DOMAIN argtable : ~ argtable[j].value}}

(* The letters getopt_long() is given, and the entry of each: the first.   *)
Shorts == {argtable[i].short : i \in DOMAIN argtable} \ {NULL}
find_shortoption(letter) ==
  CHOOSE i \in DOMAIN argtable :
    argtable[i].short = letter /\ \A j \in 1..i - 1 : argtable[j].short # letter
Letters == [l \in Shorts |-> argtable[find_shortoption(l)].long]

(* The entries that arg_parse_check() misses when they are not given.      *)
Missed(counts) ==
  {i \in DOMAIN argtable : counts[argtable[i].long] < argtable[i].mincount}
=============================================================================
