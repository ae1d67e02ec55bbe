-------------------------------- MODULE Dstr ---------------------------------
(* The dynamic string of argtable3, in which every message is put together *)
(* before it is printed: its append buffer, the heap it lives in and the   *)
(* loop around vsnprintf(). A text is a sequence of pieces, each with the  *)
(* number of its characters that are kept. Only arg_dstr_set() could give  *)
(* data another value than sbuf or append_data; nothing in barco calls it. *)
EXTENDS Options, FiniteSets

VARIABLES
  heap,              \* [blocks in use -> size]
  ds,                \* block of the _internal_arg_dstr, 0 without one
  data,              \* "sbuf", which stays empty, or "append"
  append_data,       \* block, 0 for NULL
  append_data_size,
  append_used,
  text,              \* what data points to
  buff, n            \* of arg_dstr_catf(): its block, 0 without one; its size

dstrVars == <<heap, ds, data, append_data, append_data_size,
              append_used, text, buff, n>>
stringVars == <<data, append_data, append_data_size, append_used, text>>

ARG_DSTR_SIZE == 200
START_VSNBUFF == 16

-----------------------------------------------------------------------------
(* Texts. Ends(t)[i]: the characters in the first i pieces.                *)
Pieces == [piece : STRING, kept : Nat]
Texts == Seq(Pieces)
Lit(s) == <<[piece |-> s, kept |-> Len(s)]>>
Chars(piece, k) == <<[piece |-> piece, kept |-> k]>>

Ends(t) == LET upto[i \in 0..Len(t)] ==
                 IF i = 0 THEN 0 ELSE upto[i - 1] + t[i].kept
           IN upto
Length(t) == Ends(t)[Len(t)]

Within(x, lo, hi) == IF x < lo THEN lo ELSE IF x > hi THEN hi ELSE x

(* The first k characters of a text.                                       *)
Cut(t, k) ==
  LET upto == Ends(t)
  IN [i \in 1..Len(t) |->
        [t[i] EXCEPT !.kept = Within(k - upto[i - 1], 0, t[i].kept)]]

-----------------------------------------------------------------------------
xmalloc(h, b, size) ==
  [x \in DOMAIN h \cup {b} |-> IF x = b THEN size ELSE h[x]]
FreeBlock(h) == CHOOSE b \in 1..Cardinality(DOMAIN h) + 1 : b \notin DOMAIN h
xfree(h, b) == [x \in DOMAIN h \ {b} |-> h[x]]

arg_dstr_create ==
  /\ ds = 0 /\ ds' = FreeBlock(heap)
  /\ heap' = xmalloc(heap, ds', ARG_DSTR_SIZE)
  /\ data' = "sbuf" /\ text' = <<>>
  /\ append_data' = 0 /\ append_data_size' = 0 /\ append_used' = 0
  /\ UNCHANGED <<buff, n>>

(* append_used is what it was before the last text was appended: the cell  *)
(* behind it tells whether there was one.                                  *)
M_Stale == IF data # "append" THEN Length(text) ELSE append_used
Used ==
  IF data # "append" \/ append_used < Length(text)
  THEN Length(text) ELSE append_used

WithoutOld(h) == IF append_data # 0 THEN xfree(h, append_data) ELSE h

(* arg_dstr_cat() with setup_append_buf(): room for the text and its NUL,  *)
(* in a buffer that is zeroed when it is new. freed: a block that is no      *)
(* longer used afterwards, 0 for none.                                      *)
arg_dstr_cat(t, freed) ==
  LET total == Length(t) + 1 + Used
      size == IF total < 100 THEN 200 ELSE 2 * total
  IN /\ append_used' = Used /\ data' = "append" /\ text' = text \o t
     /\ IF total >= append_data_size
        THEN /\ append_data' = FreeBlock(heap) /\ append_data_size' = size
             /\ heap' = xfree(WithoutOld(xmalloc(heap, append_data', size)), freed)
        ELSE /\ heap' = xfree(heap, freed)
             /\ UNCHANGED <<append_data, append_data_size>>
     /\ UNCHANGED ds

Cat(t) == buff = 0 /\ arg_dstr_cat(t, 0) /\ UNCHANGED <<buff, n>>

-----------------------------------------------------------------------------
(* arg_dstr_catf() with a format of f characters that makes the text t.    *)
NewBuff(h, size) ==
  /\ n' = size /\ buff' = FreeBlock(h) /\ heap' = xmalloc(h, buff', size + 2)
  /\ UNCHANGED <<ds, stringVars>>

CatfBegin(f) == buff = 0 /\ NewBuff(heap, Larger(2 * f, START_VSNBUFF))

(* vsnprintf() keeps what fits and answers with the length of it all.      *)
Printed(t) == Cut(t, n)
M_FitsExactly(t) == Length(Printed(t)) <= n
Fits(t) == Length(Printed(t)) < n
M_AsAnswered(r) == r
Grown(r) == IF r > n THEN r ELSE n + n

CatfRound(t) ==
  buff # 0 /\ ~ Fits(t) /\ NewBuff(xfree(heap, buff), Grown(Length(t)))

CatfEnd(t) ==
  /\ buff # 0 /\ Fits(t) /\ arg_dstr_cat(Printed(t), buff)
  /\ buff' = 0 /\ n' = 0

(* arg_dstr_reset() and the handle itself.                                 *)
Reset(h) == IF append_data_size > 0 THEN xfree(h, append_data) ELSE h

arg_dstr_destroy ==
  /\ ds # 0 /\ buff = 0 /\ heap' = xfree(Reset(heap), ds)
  /\ ds' = 0 /\ data' = "sbuf" /\ text' = <<>>
  /\ append_data' = 0 /\ append_data_size' = 0
  /\ UNCHANGED <<append_used, buff, n>>

dstrInit ==
  /\ heap = <<>> /\ ds = 0 /\ buff = 0 /\ n = 0
  /\ data = "sbuf" /\ text = <<>>
  /\ append_data = 0 /\ append_data_size = 0 /\ append_used = 0
=============================================================================
