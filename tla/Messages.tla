------------------------------ MODULE Messages -------------------------------
(* What barco tells its user about its command line: arg_print_errors(),   *)
(* arg_print_syntax() and arg_print_glossary() as main() calls them, each  *)
(* with a dynamic string (Dstr) of its own. A message is a sequence of     *)
(* calls of arg_dstr_cat() and arg_dstr_catf(), made one at a time.        *)
EXTENDS Dstr, SequencesExt

CONSTANT ErrorLists   \* sequences of [parent, error, argval]: struct arg_end

(* parent is the entry in error, or "end"; argval the length of the text.  *)
(* What arg_register_error() is called with: the code of a scanfn for an   *)
(* entry; for the end, a code of arg_parse() or the letter in optopt.      *)
Codes(parent) ==
  IF parent = "end" THEN {"ELIMIT", "ENOMATCH", "EMISSARG", "ELONGOPT", "letter"}
  ELSE IF parent \in Flags THEN {"MAXCOUNT"}
  ELSE IF parent = "uid" THEN {"MINCOUNT", "MAXCOUNT", "BADINT", "OVERFLOW"}
  ELSE {"MINCOUNT", "MAXCOUNT"}

ASSUME MessagesAssumption ==
  \A errs \in ErrorLists :
    /\ errs \in Seq([parent : Entries \cup {"end"}, error : STRING, argval : Nat])
    /\ \A i \in DOMAIN errs : errs[i].error \in Codes(errs[i].parent)

(* The words of the messages: that each has a few characters is all that   *)
(* depends on their wording.                                               *)
Words ==
  Entries \cup Shorts \cup ({argtable[i].datatype : i \in DOMAIN argtable} \ {NULL})
    \cup {"-", "--", "|", ", ", " ", "  ", " -", "=", "[", "]", "(", "\n", "\""}
    \cup {"barco: ", "too many errors to display", "unexpected argument \"",
          "option \"", "\" requires an argument", "invalid option \"",
          "invalid option \"-", "missing option ", "excess option ",
          "invalid argument \"", "\" to option ", "integer overflow at option ",
          " is too large)", "extraneous option "}
ASSUME WordsAssumption ==
  /\ \A w \in Words : Len(w) \in 1..28
  /\ Words \cup {"argval", "letter", "blanks", "glossary"} \subseteq STRING

VARIABLES
  errors,   \* what arg_parse() has left in struct arg_end
  docs,     \* the texts still to print, each the calls that make it
  calls,    \* the calls still to make of the one in hand
  out       \* what has been printed

vars == <<dstrVars, errors, docs, calls, out>>

-----------------------------------------------------------------------------
(* The syntax of an option in char syntax[200], of which arg_cat() fills   *)
(* at most 198 and strncat() 199 characters.                               *)
Room == 199
arg_cat(t, s) == Cut(t \o s, Room - 1)
strncat(t, s) == Cut(t \o s, Room)

(* The datatype or value that follows, when there is one.                  *)
Valued(t, sign, value) ==
  IF value = <<>> THEN t ELSE arg_cat(arg_cat(t, Lit(sign)), value)

arg_cat_option(o) ==
  LET datatype == IF o.value THEN Lit(o.datatype) ELSE <<>> IN
  IF o.short # NULL THEN Valued(arg_cat(Lit("-"), Lit(o.short)), " ", datatype)
  ELSE Valued(strncat(Lit("--"), Lit(o.long)), "=", datatype)

arg_cat_optionv(o, value, separator) ==
  LET letter == IF o.short = NULL THEN <<>>
                ELSE arg_cat(arg_cat(Lit("-"), Lit(o.short)), Lit(separator))
  IN Valued(strncat(arg_cat(letter, Lit("--")), Lit(o.long)), "=", value)

(* A call: a text, and the length of the format, 0 for arg_dstr_cat().     *)
cat(t) == <<[format |-> 0, text |-> t]>>
catf(f, t) == <<[format |-> f, text |-> t]>>

Datatype(o) == IF o.value THEN Lit(o.datatype) ELSE <<>>

M_SuffixInside(o, value, suffix) ==
  cat(arg_cat(arg_cat_optionv(o, value, "|"), Lit(suffix)))
arg_print_option(o, value, suffix) ==
  cat(arg_cat_optionv(o, value, "|")) \o cat(Lit(suffix))

-----------------------------------------------------------------------------
(* The errorfn of each kind of entry, as calls.                            *)
Option(name) == argtable[CHOOSE i \in DOMAIN argtable : argtable[i].long = name]
Who == catf(4, Lit("barco: "))
Argval(e) == Chars("argval", e.argval)

arg_end_errorfn(e) ==
  Who \o
  (CASE e.error = "ELIMIT" -> cat(Lit("too many errors to display"))
     [] e.error = "ENOMATCH" ->
          catf(24, Lit("unexpected argument \"") \o Argval(e) \o Lit("\""))
     [] e.error = "EMISSARG" ->
          catf(32, Lit("option \"") \o Argval(e) \o Lit("\" requires an argument"))
     [] e.error = "ELONGOPT" ->
          catf(19, Lit("invalid option \"") \o Argval(e) \o Lit("\""))
     [] OTHER -> catf(20, Lit("invalid option \"-") \o Chars("letter", 1) \o Lit("\"")))
  \o cat(Lit("\n"))

arg_int_errorfn(o, e) ==
  Who \o
  (CASE e.error = "MINCOUNT" ->
          cat(Lit("missing option ")) \o arg_print_option(o, Datatype(o), "\n")
     [] e.error = "MAXCOUNT" ->
          cat(Lit("excess option ")) \o arg_print_option(o, Argval(e), "\n")
     [] e.error = "BADINT" ->
          catf(32, Lit("invalid argument \"") \o Argval(e) \o Lit("\" to option "))
            \o arg_print_option(o, Datatype(o), "\n")
     [] e.error = "OVERFLOW" ->
          cat(Lit("integer overflow at option "))
            \o arg_print_option(o, Datatype(o), " ")
            \o catf(18, Lit("(") \o Argval(e) \o Lit(" is too large)") \o Lit("\n")))

arg_str_errorfn(o, e) ==
  Who \o
  (IF e.error = "MINCOUNT"
   THEN cat(Lit("missing option ")) \o arg_print_option(o, Datatype(o), "\n")
   ELSE cat(Lit("excess option ")) \o arg_print_option(o, Argval(e), "\n"))

(* A flag of this table can only be given too often.                       *)
arg_lit_errorfn(o, e) ==
  catf(22, Lit("barco: ") \o Lit("extraneous option "))
    \o arg_print_option(o, <<>>, "\n")

errorfn(e) ==
  IF e.parent = "end" THEN arg_end_errorfn(e)
  ELSE LET o == Option(e.parent) IN
       IF ~ o.value THEN arg_lit_errorfn(o, e)
       ELSE IF o.datatype = "<n>" THEN arg_int_errorfn(o, e)
       ELSE arg_str_errorfn(o, e)

Each(op(_), s) == FlattenSeq([i \in DOMAIN s |-> op(s[i])])

arg_print_errors(errs) == Each(errorfn, errs)

-----------------------------------------------------------------------------
(* " [-v]": the letters of the flags, those that must be given before the  *)
(* others; only the first of all, and the first of the others, opens.      *)
InSwitch(o) == o.short # NULL /\ ~ o.value

Lettered(must) ==
  {i \in DOMAIN argtable : InSwitch(argtable[i]) /\ (argtable[i].mincount > 0) = must}
IsFirst(i, S) == \A j \in S : i <= j

arg_print_gnuswitch ==
  LET musts == Lettered(TRUE)
      others == Lettered(FALSE)
      Letter(i) == Lit(argtable[i].short)
      Must(i) == IF i \notin musts THEN <<>>
                 ELSE IF IsFirst(i, musts) THEN catf(4, Lit(" -") \o Letter(i))
                 ELSE catf(2, Letter(i))
      Other(i) ==
        IF i \notin others THEN <<>>
        ELSE IF ~ IsFirst(i, others) THEN catf(2, Letter(i))
        ELSE IF musts = {} THEN catf(5, Lit(" ") \o Lit("[") \o Lit("-") \o Letter(i))
        ELSE catf(3, Lit("[") \o Letter(i))
      Rows == [i \in DOMAIN argtable |-> i]
  IN Each(Must, Rows) \o Each(Other, Rows)
       \o catf(2, IF others = {} THEN <<>> ELSE Lit("]"))

PrintedOption(o) ==
  IF InSwitch(o) THEN <<>>
  ELSE IF o.mincount = 1 THEN cat(Lit(" ")) \o cat(arg_cat_option(o))
  ELSE cat(Lit(" ") \o Lit("[")) \o cat(arg_cat_option(o)) \o cat(Lit("]"))

arg_print_syntax ==
  arg_print_gnuswitch \o Each(PrintedOption, argtable) \o cat(Lit("\n"))

(* "  %-20s %s\n"                                                          *)
Explained(o) ==
  LET syntax == arg_cat_optionv(o, Datatype(o), ", ")
  IN catf(11, Lit("  ") \o syntax
                \o Chars("blanks", Within(20 - Length(syntax), 0, 20))
                \o Lit(" ") \o Chars("glossary", o.glossary) \o Lit("\n"))

arg_print_glossary == Each(Explained, argtable)

-----------------------------------------------------------------------------
(* One document after the other, each: create, its calls, fputs, destroy.  *)
Begin ==
  /\ docs # <<>> /\ arg_dstr_create
  /\ calls' = Head(docs) /\ UNCHANGED <<errors, docs, out>>

MakeCall ==
  /\ ds # 0 /\ calls # <<>>
  /\ LET c == Head(calls) IN
     \/ c.format = 0 /\ Cat(c.text) /\ calls' = Tail(calls)
     \/ c.format # 0 /\ CatfBegin(c.format) /\ UNCHANGED calls
     \/ CatfRound(c.text) /\ UNCHANGED calls
     \/ CatfEnd(c.text) /\ calls' = Tail(calls)
  /\ UNCHANGED <<errors, docs, out>>

Fputs ==
  /\ ds # 0 /\ calls = <<>>
  /\ out' = out \o text /\ docs' = Tail(docs) /\ arg_dstr_destroy
  /\ UNCHANGED <<errors, calls>>

(* No error: "--help" was given.                                           *)
Documents(errs) ==
  IF errs = <<>> THEN <<arg_print_syntax, arg_print_glossary>>
  ELSE <<arg_print_errors(errs)>>

Init ==
  /\ dstrInit /\ errors \in ErrorLists /\ docs = Documents(errors)
  /\ calls = <<>> /\ out = <<>>

Next == Begin \/ MakeCall \/ Fputs
Spec == Init /\ [][Next]_vars
FairSpec == Spec /\ WF_vars(Next)
Done == docs = <<>>

-----------------------------------------------------------------------------
Pointers == <<ds, append_data, buff>>

(* The blocks in use are those that a pointer leads to, each once: nothing *)
(* is leaked, freed twice or used after its end, and in particular all is  *)
(* freed when the texts are printed (setup_append_buf(), arg_dstr_catf(),  *)
(* arg_dstr_destroy()). Every text and its NUL fit the block they are in,  *)
(* however often it has been extended, although append_used is out of date *)
(* after every append.                                                     *)
HeapSound ==
  /\ DOMAIN heap = ToSet(Pointers) \ {0}
  /\ \A i, j \in DOMAIN Pointers :
       i # j /\ Pointers[i] = Pointers[j] => Pointers[i] = 0
  /\ Done => DOMAIN heap = {}
  /\ data = "append" => Length(text) < heap[append_data]
  /\ data = "append" => append_data_size = heap[append_data]
  /\ buff # 0 => n + 1 < heap[buff]

(* All that the messages consist of is printed, in full and in order,      *)
(* whatever the buffers of arg_dstr_catf() and the append buffer were too  *)
(* small for at first.                                                     *)
AllIsPrinted ==
  Done => out = Each(LAMBDA d : Each(LAMBDA c : c.text, d), Documents(errors))

(* The lines of a text, without their ends; and what a line must contain:  *)
(* its argument in full, of that of an excess option what syntax[] holds.  *)
Places(t, s) == {i \in DOMAIN t : t[i].piece = s /\ t[i].kept > 0}
Breaks(t) == Places(t, "\n")
Break(t, k) ==
  CHOOSE i \in Breaks(t) : Cardinality({j \in Breaks(t) : j <= i}) = k
Line(t, k) ==
  SubSeq(t, IF k = 1 THEN 1 ELSE Break(t, k - 1) + 1, Break(t, k) - 1)

HasArgument ==
  {"ENOMATCH", "EMISSARG", "ELONGOPT", "MAXCOUNT", "BADINT", "OVERFLOW"}
Shown(line, e) ==
  \E i \in DOMAIN line :
    /\ line[i].piece = "argval"
    /\ \/ line[i].kept = e.argval
       \/ e.error = "MAXCOUNT"
            /\ Length(Tail(line)) = Length(Lit("excess option ")) + Room - 1

ErrorLines ==
  Done /\ errors # <<>> =>
    /\ Cardinality(Breaks(out)) = Len(errors) /\ out[Len(out)].piece = "\n"
    /\ \A k \in DOMAIN errors :
         /\ Line(out, k)[1].piece = "barco: "
         /\ errors[k].error \in HasArgument /\ errors[k].parent \notin Flags
              => Shown(Line(out, k), errors[k])

Name(o) == IF o.short # NULL THEN o.short ELSE o.long
InBrackets(t, i) ==
  \E j \in Places(t, "[") : j < i /\ \A m \in Places(t, "]") : m < j \/ i < m

HelpLines ==
  Done /\ errors = <<>> =>
    /\ Cardinality(Breaks(out)) = Len(argtable) + 1
    /\ \A k \in DOMAIN argtable :
         LET o == argtable[k] IN
         /\ \E i \in DOMAIN out :
              /\ Places(Line(out, 1), Name(o)) = {i}
              /\ InBrackets(Line(out, 1), i) <=> o.mincount = 0
         /\ Cardinality(Places(Line(out, k + 1), o.long)) = 1

(* Every error has one line, which begins with the program and, where the  *)
(* error has an argument, shows it: no argument is so long that it costs   *)
(* the line its end (arg_print_errors(), arg_print_option_ds()). The help  *)
(* shows every option once in the first line, in brackets exactly when it  *)
(* can be left out, and once in a line of its own (arg_print_gnuswitch_ds  *)
(* and arg_print_syntax_ds() divide the table between them).               *)
LinesComplete == ErrorLines /\ HelpLines

(* The search of arg_dstr_catf() for a buffer ends for every text.         *)
PrintEnds == <>Done
=============================================================================
