---------------------------- MODULE CommandLine -----------------------------
(***************************************************************************)
(* The command line of barco: the table of options in main(), arg_parse()  *)
(* of the bundled argtable3 with its getopt_long(), which moves operands   *)
(* behind the options while it scans, and what main() makes of the result. *)
(* A token is a sequence of symbols: "--uid=5" is <<"-","-","uid","=","5">>*)
(* and "-v-nat" is <<"-","v","-","nat">>.                                  *)
(***************************************************************************)
EXTENDS Options, FiniteSets, SequencesExt

CONSTANTS
  Lines,       \* command lines: sequences of tokens, without argv[0]
  Begins,      \* pairs <<word, name>>: word begins the option's name
  Numerals,    \* [texts -> [value, suffix]]: what strtol() finds in a text
  MaxErrors,   \* slots of struct arg_end (ARGTABLE_ARG_MAX)
  IntMax,      \* INT_MAX
  Kilo,        \* 1024
  DefaultDns   \* 8.8.8.8

ASSUME CommandLineAssumption ==
  /\ MaxErrors \in Nat \ {0} /\ IntMax \in Nat /\ Kilo \in Nat \ {0}
  /\ Lines \subseteq Seq(Seq(STRING))
  /\ \A v \in DOMAIN Numerals : Numerals[v].value \in Int

VARIABLES
  line,        \* the tokens as they were given
  argv,        \* argvcopy: their numbers in the order getopt has made
  optind,      \* next token of argv, and
  place,       \* the symbol in it that comes next, 0 for EMSG
  start, end,  \* nonopt_start and nonopt_end, 0 for -1
  phase,       \* "tagged", "untagged", "check", "main" or "done"
  got,         \* [Entries -> at most one value]
  errors,      \* error[] of struct arg_end
  outcome,     \* "none", "refused", "usage" or "run"
  config       \* the container_config of a run, by option

scanning == <<argv, optind, place, start, end>>
vars == <<line, scanning, phase, got, errors, outcome, config>>

-----------------------------------------------------------------------------
(* The options that make a network.                                        *)
NetOptions == {"veth", "veth-peer", "container-ip", "host-ip", "nat"}

(* The names a word may stand for: its own, or else each that it begins.   *)
(* strncmp() with the empty word ("--=x") agrees with all of them.         *)
Candidates(word) ==
  IF word = <<>> THEN Entries
  ELSE IF Len(word) > 1 THEN {}
  ELSE IF word[1] \in Entries THEN {word[1]}
  ELSE {e \in Entries : <<word[1], e>> \in Begins}

(* op(... op(base, 1) ..., n). Each result is bound before it is used, as  *)
(* FoldLeft() would evaluate it again at every use.                        *)
Through(n, op(_, _), base) ==
  LET acc[i \in 0..n] ==
        IF i = 0 THEN base
        ELSE CHOOSE r \in {op(last, i) : last \in {acc[i - 1]}} : TRUE
  IN acc[n]

Upto(t, k) == SubSeq(t, 1, k - 1)
After(t, k) == SubSeq(t, k + 1, Len(t))
EqualsAt(w) ==
  CHOOSE k \in 1..Len(w) + 1 :
    (k <= Len(w) => w[k] = "=") /\ \A i \in 1..k - 1 : w[i] # "="
HasValue(w) == EqualsAt(w) <= Len(w)

-----------------------------------------------------------------------------
(* Exchanging the blocks start..end-1 and end..past-1 of argv in cycles.   *)
(* gcd() divides until nothing remains, which takes at most b rounds.      *)
Divide(p) == IF p.a % p.b = 0 THEN p ELSE [a |-> p.b, b |-> p.a % p.b]
gcd(x, y) == Through(y, LAMBDA p, i : Divide(p), [a |-> x, b |-> y]).b

NextInCycle(pos, e, skipped, options) ==
  IF pos >= e THEN pos - skipped ELSE pos + options

Swapped(args, i, j) == [args EXCEPT ![i] = args[j], ![j] = args[i]]
Swap(at, from, e, skipped, options) ==
  LET pos == NextInCycle(at.pos, e, skipped, options)
  IN [pos |-> pos, args |-> Swapped(at.args, pos, from)]

Cycle(args, from, cyclelen, e, skipped, options) ==
  Through(cyclelen, LAMBDA at, j : Swap(at, from, e, skipped, options),
          [pos |-> from, args |-> args]).args

permute_args(s, e, past, args) ==
  LET skipped == e - s
      options == past - e
      ncycle == gcd(skipped, options)
      cyclelen == (past - s) \div ncycle
  IN Through(ncycle,
             LAMBDA a, i : Cycle(a, e + i - 1, cyclelen, e, skipped, options),
             args)

-----------------------------------------------------------------------------
(* One value for one entry. An int is read in one of four notations, must  *)
(* be in range after its suffix too, and is cast to int.                   *)
Scale == [KB |-> Kilo, MB |-> Kilo * Kilo, GB |-> Kilo * Kilo * Kilo,
          none |-> 1]

Overflows(n) ==
  \/ n.value > IntMax \div Scale[n.suffix]
  \/ n.value < -((IntMax + 1) \div Scale[n.suffix])

AsInt(x) == ((x + IntMax + 1) % (2 * (IntMax + 1))) - (IntMax + 1)

NumberError(v) ==
  IF v \notin DOMAIN Numerals THEN "BADINT"
  ELSE IF Numerals[v].suffix \notin DOMAIN Scale THEN "BADINT"
  ELSE IF Overflows(Numerals[v]) THEN "OVERFLOW" ELSE "ok"

M_AnyCount(e, v) == IF e = "uid" THEN NumberError(v) ELSE "ok"
ScanError(e, v) ==
  IF got[e] # <<>> THEN "MAXCOUNT"
  ELSE IF e = "uid" THEN NumberError(v) ELSE "ok"

M_Unscaled(e, v) == IF e = "uid" THEN AsInt(Numerals[v].value) ELSE v
Scanned(e, v) ==
  IF e = "uid" THEN AsInt(Numerals[v].value * Scale[Numerals[v].suffix])
  ELSE v

(* When no slot is left the last one tells so.                             *)
M_NoLimit(errs, error) == Append(errs, error)
register_error(errs, error) ==
  IF Len(errs) < MaxErrors THEN Append(errs, error)
  ELSE [errs EXCEPT ![MaxErrors] = "ELIMIT"]

Report(error) == errors' = register_error(errors, error) /\ UNCHANGED got

(* errs: the errors there are before the value is scanned.                 *)
Take(e, v, errs) ==
  LET error == ScanError(e, v) IN
  IF error = "ok"
  THEN got' = [got EXCEPT ![e] = <<Scanned(e, v)>>] /\ errors' = errs
  ELSE errors' = register_error(errs, error) /\ UNCHANGED got

-----------------------------------------------------------------------------
(* getopt_internal(). Tok is the token at optind and At the symbol in it   *)
(* that is next; the first option behind operands closes their window.     *)
N == Len(line)
Token(i) == line[argv[i]]
Tok == Token(optind)
At == IF place = 0 THEN 2 ELSE place
Symbol == Tok[At]
IsOperand(t) == ~ (Len(t) > 1 /\ t[1] = "-")
EndsOptions(t) == Len(t) = 2 /\ t[1] = "-" /\ t[2] = "-"
M_NeverClosed == end
Close == IF place = 0 /\ start # 0 /\ end = 0 THEN optind ELSE end

Scanning == phase = "tagged" /\ optind <= N
InOption == Scanning /\ (place = 0 => ~ IsOperand(Tok))

(* The scan is over: what has been skipped goes behind the options.        *)
Finish(e, past) ==
  /\ argv' = IF e # 0 THEN permute_args(start, e, past, argv) ELSE argv
  /\ optind' = IF e # 0 THEN past - (e - start)
               ELSE IF start # 0 THEN start ELSE past
  /\ phase' = "untagged" /\ place' = 0 /\ start' = 0 /\ end' = 0
  /\ UNCHANGED <<got, errors>>

EndOfArgv == phase = "tagged" /\ optind > N /\ Finish(end, optind)

DoubleDash ==
  Scanning /\ place = 0 /\ EndsOptions(Tok) /\ Finish(Close, optind + 1)

(* FLAG_PERMUTE: an operand is passed over, and moved behind the options   *)
(* later. With POSIXLY_CORRECT in the environment getopt_internal() would  *)
(* return -1 here instead; the environment of this model is without it.    *)
SkipOperand ==
  /\ Scanning /\ place = 0 /\ IsOperand(Tok)
  /\ argv' = IF end # 0 THEN permute_args(start, end, optind, argv) ELSE argv
  /\ start' = IF start = 0 THEN optind
              ELSE IF end # 0 THEN optind - (end - start) ELSE start
  /\ end' = 0 /\ optind' = optind + 1
  /\ UNCHANGED <<place, phase, got, errors>>

(* An option ends at optind' = next; or the cluster goes on behind it.     *)
Leave(next) ==
  optind' = next /\ place' = 0 /\ end' = Close /\ UNCHANGED <<argv, start, phase>>
M_NoAdvance ==
  IF At = Len(Tok) THEN Leave(optind)
  ELSE place' = At + 1 /\ end' = Close /\ UNCHANGED <<argv, optind, start, phase>>
Advance ==
  IF At = Len(Tok) THEN Leave(optind + 1)
  ELSE place' = At + 1 /\ end' = Close /\ UNCHANGED <<argv, optind, start, phase>>

(* parse_long_options(): also for a dash in the middle of a cluster.       *)
Word == After(Tok, At)
Long == InOption /\ Symbol = "-" /\ At < Len(Tok)
Found == Candidates(Upto(Word, EqualsAt(Word)))

LongUnknown ==
  /\ Long
  /\ Cardinality(Found) # 1 \/ (Found \subseteq Flags /\ HasValue(Word))
  /\ Report("ELONGOPT") /\ Leave(optind + 1)

LongFlag ==
  /\ Long /\ ~ HasValue(Word)
  /\ \E e \in Flags : Found = {e} /\ Take(e, <<>>, errors)
  /\ Leave(optind + 1)

MissingIfEmpty(v) ==
  IF v = <<>> THEN register_error(errors, "EMISSARG") ELSE errors

LongValue ==
  /\ Long
  /\ \E e \in Entries \ Flags :
       /\ Found = {e}
       /\ \/ /\ HasValue(Word)
             /\ LET v == After(Word, EqualsAt(Word))
                IN Take(e, v, MissingIfEmpty(v))
             /\ Leave(optind + 1)
          \/ /\ ~ HasValue(Word) /\ optind < N
             /\ Take(e, Token(optind + 1), MissingIfEmpty(Token(optind + 1)))
             /\ Leave(optind + 2)
          \/ /\ ~ HasValue(Word) /\ optind = N
             /\ Report("EMISSARG") /\ Leave(optind + 1)

(* A dash that ends a cluster: ':' is returned and optind stays, so that   *)
(* the next call begins with the same token once more.                     *)
MalformedDash ==
  /\ InOption /\ place # 0 /\ Symbol = "-" /\ At = Len(Tok)
  /\ Report("EMISSARG") /\ Leave(optind)

Short == InOption /\ Symbol # "-"

ShortUnknown ==
  Short /\ Symbol \notin DOMAIN Letters /\ Report(Symbol) /\ Advance

ShortFlag ==
  /\ Short /\ Symbol \in DOMAIN Letters /\ Letters[Symbol] \in Flags
  /\ Take(Letters[Symbol], <<>>, errors) /\ Advance

ShortValue ==
  /\ Short /\ Symbol \in DOMAIN Letters /\ Letters[Symbol] \notin Flags
  /\ \/ At < Len(Tok) /\ Take(Letters[Symbol], Word, errors)
        /\ Leave(optind + 1)
     \/ At = Len(Tok) /\ optind < N
        /\ Take(Letters[Symbol], Token(optind + 1), errors)
        /\ Leave(optind + 2)
     \/ At = Len(Tok) /\ optind = N /\ Report("EMISSARG")
        /\ Leave(optind + 1)

arg_parse_tagged ==
  /\ \/ EndOfArgv \/ DoubleDash \/ SkipOperand
     \/ LongUnknown \/ LongFlag \/ LongValue \/ MalformedDash
     \/ ShortUnknown \/ ShortFlag \/ ShortValue
  /\ UNCHANGED <<line, outcome, config>>

-----------------------------------------------------------------------------
(* The table of barco has no untagged entry: all that is left is in error. *)
arg_parse_untagged ==
  /\ phase = "untagged"
  /\ IF optind <= N
     THEN Report("ENOMATCH") /\ optind' = optind + 1 /\ UNCHANGED phase
     ELSE phase' = "check" /\ UNCHANGED <<optind, got, errors>>
  /\ UNCHANGED <<line, argv, place, start, end, outcome, config>>

MissingErrors(k) ==
  Through(k, LAMBDA errs, i : register_error(errs, "MINCOUNT"), <<>>)

arg_parse_check ==
  /\ phase = "check" /\ phase' = "main"
  /\ errors' =
       IF errors # <<>> THEN errors
       ELSE MissingErrors(Cardinality(Missed([e \in Entries |-> Len(got[e])])))
  /\ UNCHANGED <<line, scanning, got, outcome, config>>

(* main(): there is a network only when both its name and its address are  *)
(* given, and everything else about it is ignored otherwise.               *)
WithNetwork == got["veth"] # <<>> /\ got["container-ip"] # <<>>

Filled ==
  [e \in Entries \ {"help", "version", "verbosity"} |->
     IF e \in NetOptions /\ ~ WithNetwork THEN <<>>
     ELSE IF e = "dns" /\ got[e] = <<>> THEN <<DefaultDns>> ELSE got[e]]

main ==
  /\ phase = "main" /\ phase' = "done"
  /\ outcome' = IF errors # <<>> THEN "refused"
                ELSE IF got["help"] # <<>> THEN "usage" ELSE "run"
  /\ config' = IF outcome' = "run" THEN Filled ELSE config
  /\ UNCHANGED <<line, scanning, got, errors>>

Init ==
  /\ line \in Lines /\ argv = [i \in 1..Len(line) |-> i]
  /\ optind = 1 /\ place = 0 /\ start = 0 /\ end = 0 /\ phase = "tagged"
  /\ got = [e \in Entries |-> <<>>] /\ errors = <<>>
  /\ outcome = "none" /\ config = <<>>

Next == arg_parse_tagged \/ arg_parse_untagged \/ arg_parse_check \/ main

Spec == Init /\ [][Next]_vars
FairSpec == Spec /\ WF_vars(Next)

-----------------------------------------------------------------------------
(* What a command line says, read from left to right without moving        *)
(* anything. mode: the entry whose value comes next, "free", or "rest"     *)
(* behind "--"; opts: what is given, in order, each with the text and      *)
(* whether its name was written out.                                       *)
Given(e, v, long) == [entry |-> e, value |-> v, long |-> long]

Add(r, given) == [r EXCEPT !.opts = Append(@, given)]

ReadLong(r, w) ==
  LET found == Candidates(Upto(w, EqualsAt(w)))
      e == CHOOSE e \in found : TRUE
  IN IF Cardinality(found) # 1 \/ (e \in Flags /\ HasValue(w))
     THEN [r EXCEPT !.bad = TRUE]
     ELSE IF e \in Flags THEN Add(r, Given(e, <<>>, TRUE))
     ELSE IF HasValue(w) THEN Add(r, Given(e, After(w, EqualsAt(w)), TRUE))
     ELSE [r EXCEPT !.mode = e, !.long = TRUE]

(* The letters before the one that decides how the token goes on.          *)
Decides(symbol) == symbol = "-" \/ symbol \in DOMAIN Letters \ {"v"}
Deciding(t) ==
  CHOOSE i \in 2..Len(t) + 1 :
    (i <= Len(t) => Decides(t[i])) /\ \A j \in 2..i - 1 : ~ Decides(t[j])

ReadLetter(r, letter) ==
  IF letter = "v" THEN Add(r, Given("verbosity", <<>>, FALSE))
  ELSE [r EXCEPT !.bad = TRUE]
ReadLetters(r, t, stop) ==
  Through(stop - 2, LAMBDA a, i : ReadLetter(a, t[i + 1]), r)

ReadDeciding(r, t, stop) ==
  IF stop > Len(t) THEN r
  ELSE IF t[stop] = "-" /\ stop = Len(t) THEN [r EXCEPT !.endless = TRUE]
  ELSE IF t[stop] = "-" THEN ReadLong(r, After(t, stop))
  ELSE IF stop < Len(t)
  THEN Add(r, Given(Letters[t[stop]], After(t, stop), FALSE))
  ELSE [r EXCEPT !.mode = Letters[t[stop]], !.long = FALSE]

ReadCluster(r, t) ==
  ReadDeciding(ReadLetters(r, t, Deciding(t)), t, Deciding(t))

ReadToken(r, t, i) ==
  CASE r.mode \in Entries ->
         [Add(r, Given(r.mode, t, r.long)) EXCEPT !.mode = "free"]
    [] r.mode = "rest" \/ (r.mode = "free" /\ IsOperand(t)) ->
         [r EXCEPT !.operands = Append(@, i)]
    [] r.mode = "free" /\ EndsOptions(t) -> [r EXCEPT !.mode = "rest"]
    [] OTHER -> ReadCluster(r, t)

Unread ==
  [mode |-> "free", long |-> FALSE, opts |-> <<>>, operands |-> <<>>,
   bad |-> FALSE, endless |-> FALSE]
Read(l) == Through(Len(l), LAMBDA r, i : ReadToken(r, l[i], i), Unread)
Reading == Read(line)

Meaning(v) == Numerals[v].value * Scale[Numerals[v].suffix]

WellFormed(r) ==
  /\ ~ r.bad /\ r.mode \notin Entries /\ r.operands = <<>>
  /\ \A i, j \in DOMAIN r.opts : r.opts[i].entry = r.opts[j].entry => i = j
  /\ \A e \in {"uid", "mnt", "cmd"} : \E i \in DOMAIN r.opts : r.opts[i].entry = e
  /\ \A i \in DOMAIN r.opts :
       LET o == r.opts[i] IN
       /\ o.long /\ o.entry \notin Flags => o.value # <<>>
       /\ o.entry = "uid" =>
            /\ o.value \in DOMAIN Numerals
            /\ Numerals[o.value].suffix \in DOMAIN Scale
            /\ Meaning(o.value) \in -(IntMax + 1)..IntMax

TextOf(r, e) == {r.opts[i].value : i \in {j \in DOMAIN r.opts :
                                            r.opts[j].entry = e}}

-----------------------------------------------------------------------------
(* argvcopy stays a rearrangement of the command line, the window of       *)
(* skipped operands stays inside what has been scanned, and no more errors *)
(* are stored than struct arg_end has slots for (arg_register_error()).    *)
TypeOK ==
  /\ DOMAIN argv = 1..N /\ ToSet(argv) = 1..N
  /\ optind \in 1..N + 1 /\ place \in 0..(IF optind <= N THEN Len(Tok) ELSE 0)
  /\ 0 <= start /\ (end # 0 => 0 < start /\ start < end) /\ end <= optind
  /\ phase \in {"tagged", "untagged", "check", "main", "done"}
  /\ DOMAIN got = Entries /\ \A e \in Entries : Len(got[e]) <= 1
  /\ Len(errors) <= MaxErrors
  /\ outcome \in {"none", "refused", "usage", "run"}

(* However operands and options alternate, after the permutations of       *)
(* getopt_internal() all options come first, all operands last, each of    *)
(* the two in the order they were written in (permute_args()).             *)
OperandsLast ==
  phase # "tagged" =>
    LET operands == Reading.operands
        options == N - Len(operands)
    IN /\ SubSeq(argv, options + 1, N) = operands
       /\ \A i, j \in 1..options : i < j => argv[i] < argv[j]

(* main() goes on, or shows the help, exactly when the line is well formed *)
(* by a reading from left to right, and otherwise refuses it; what it goes *)
(* on with is what was written, whatever was moved, abbreviated, joined or *)
(* repeated, and a network only when it has its name and its address.      *)
AcceptedAsWritten ==
  phase = "done" =>
    LET r == Reading
        net == TextOf(r, "veth") # {} /\ TextOf(r, "container-ip") # {}
        Expected(e) == IF e \in NetOptions /\ ~ net THEN {}
                       ELSE IF e = "dns" /\ TextOf(r, e) = {} THEN {DefaultDns}
                       ELSE TextOf(r, e)
    IN /\ WellFormed(r) <=> outcome # "refused"
       /\ outcome = "usage" <=> WellFormed(r) /\ TextOf(r, "help") # {}
       /\ outcome = "run" =>
            \A e \in DOMAIN config \ {"uid"} : ToSet(config[e]) = Expected(e)

(* The id main() goes on with is the number that was written, times its    *)
(* suffix: no product has wrapped in the cast to int (arg_int_scanfn()).   *)
ValueExact ==
  outcome = "run" => ToSet(config["uid"]) = {Meaning(v) : v \in TextOf(Reading, "uid")}

(* The parser ends on every command line, except on one with a cluster     *)
(* that a dash ends, such as "-v-": there MalformedDash is taken for ever. *)
ParseEnds == ~ Reading.endless ~> phase = "done"
=============================================================================
