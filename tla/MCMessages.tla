----------------------------- MODULE MCMessages ------------------------------
(* Error lists for TLC: every kind of error with every length of argument  *)
(* around the sizes of the buffers, pairs and triples of them, a full      *)
(* struct arg_end, and none, for which the help is printed.                *)
EXTENDS Messages

Of(parent, error, argval) ==
  [parent |-> parent, error |-> error, argval |-> argval]

Kinds ==
  {<<"end", k>> : k \in {"ENOMATCH", "EMISSARG", "ELONGOPT", "letter"}}
    \cup {<<"uid", k>> : k \in {"MAXCOUNT", "BADINT", "OVERFLOW"}}
    \cup {<<"cmd", "MAXCOUNT">>, <<"dns", "MAXCOUNT">>, <<"nat", "MAXCOUNT">>,
          <<"verbosity", "MAXCOUNT">>}

Some(lengths) == {Of(k[1], k[2], l) : k \in Kinds, l \in lengths}
Missing == [i \in 1..3 |-> Of(<<"uid", "mnt", "cmd">>[i], "MINCOUNT", 0)]

Lists ==
  {<<>>} \cup {SubSeq(Missing, i, j) : i \in 1..3, j \in 1..3}
    \cup {<<e>> : e \in Some(0..210 \cup 380..420)}
    \cup {<<e, f>> : e \in Some({1, 60, 177, 260}), f \in Some({0, 80, 390})}
    \cup {[i \in 1..20 |-> IF i < 20 THEN e ELSE Of("end", "ELIMIT", 0)] :
            e \in Some({3, 100, 230})}
=============================================================================
