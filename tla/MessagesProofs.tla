--------------------------- MODULE MessagesProofs ----------------------------
(***************************************************************************)
(* Proofs about Messages and the dynamic string under it, for any lists of *)
(* errors and any lengths of their arguments.                              *)
(***************************************************************************)
EXTENDS Messages, FiniteSetTheorems, SequenceTheorems, WellFoundedInduction, TLAPS

-----------------------------------------------------------------------------
(* Induction, from the fact that the intervals 0..n are well-founded: a    *)
(* set of naturals has a least element, so that a set which is closed      *)
(* under the next number holds an interval with its first number.          *)
LEMMA Least ==
  ASSUME NEW T, T \subseteq Nat, T # {}
  PROVE  \E k \in T : \A m \in T : k <= m
<1> DEFINE U == {0..k : k \in T}
<1>1. U \subseteq FiniteSubsetsOf(Nat)
  <2>1. \A k \in T : IsFiniteSet(0..k)
    BY FS_Interval
  <2> QED BY <2>1 DEF FiniteSubsetsOf
<1>2. PICK u \in U : \A v \in U : <<v, u>> \notin StrictSubsetOrdering(Nat)
  <2>1. U # {}
    OBVIOUS
  <2> HIDE DEF U
  <2> QED BY <1>1, <2>1, FS_StrictSubsetOrderingWellFounded, WFMin
<1>3. PICK k \in T : u = 0..k
  BY <1>2
<1>4. ASSUME NEW m \in T, m < k PROVE FALSE
  <2>1. 0..m \subseteq 0..k /\ 0..m # 0..k
    BY <1>4
  <2>2. 0..m \in SUBSET Nat /\ 0..k \in SUBSET Nat
    OBVIOUS
  <2>3. <<0..m, 0..k>> \in StrictSubsetOrdering(Nat)
    BY <2>1, <2>2, Zenon DEF StrictSubsetOrdering
  <2>4. 0..m \in U
    OBVIOUS
  <2> QED BY <1>2, <1>3, <2>3, <2>4
<1> QED BY <1>4

LEMMA Upwards ==
  ASSUME NEW m \in Int, NEW last \in Int, NEW P,
         m <= last => m \in P, \A i \in m + 1 .. last : i - 1 \in P => i \in P
  PROVE  m .. last \subseteq P
<1> DEFINE T == {k \in Nat : m + k <= last /\ m + k \notin P}
<1> SUFFICES ASSUME NEW j \in m .. last, j \notin P PROVE FALSE
  OBVIOUS
<1>1. j - m \in T
  OBVIOUS
<1>2. PICK k \in T : \A l \in T : k <= l
  <2>1. T \subseteq Nat /\ T # {}
    BY <1>1
  <2> HIDE DEF T
  <2> QED BY <2>1, Least
<1>3. k # 0
  BY <1>2
<1>4. k - 1 \notin T /\ k - 1 \in Nat
  BY <1>2, <1>3
<1>5. m + k - 1 \in P
  BY <1>2, <1>4
<1>6. m + k \in m + 1 .. last
  BY <1>2, <1>3
<1> QED BY <1>2, <1>5, <1>6

LEMMA UpwardsFromOne ==
  ASSUME NEW last \in Int, NEW P,
         1 <= last => 1 \in P, \A i \in 2 .. last : i - 1 \in P => i \in P
  PROVE  1 .. last \subseteq P
BY Upwards

(* A recursive function over an interval exists. *)
Unfolds(g, m, last, base, step) ==
  g[m] = base /\ \A i \in m + 1 .. last : g[i] = step[<<g[i - 1], i>>]

LEMMA Recursion ==
  ASSUME NEW m \in Int, NEW last \in Int, m <= last, NEW S, NEW base \in S,
         NEW step \in [S \X (m + 1 .. last) -> S]
  PROVE  \E g \in [m .. last -> S] : Unfolds(g, m, last, base, step)
<1> DEFINE Good(g, k) ==
      g[m] = base /\ \A i \in m + 1 .. k : g[i] = step[<<g[i - 1], i>>]
<1> DEFINE P == {k \in m .. last : \E g \in [m .. k -> S] : Good(g, k)}
<1>1. m \in P
  <2>1. [i \in m .. m |-> base] \in [m .. m -> S]
    OBVIOUS
  <2>2. Good([i \in m .. m |-> base], m)
    OBVIOUS
  <2> QED BY <2>1, <2>2
<1>2. ASSUME NEW k \in m + 1 .. last, k - 1 \in P PROVE k \in P
  <2>1. PICK g \in [m .. k - 1 -> S] : Good(g, k - 1)
    BY <1>2
  <2> DEFINE h == [i \in m .. k |-> IF i = k THEN step[<<g[k - 1], k>>] ELSE g[i]]
  <2>2. h \in [m .. k -> S]
    BY <2>1
  <2>3. h[m] = base /\ h[k - 1] = g[k - 1] /\ h[k] = step[<<g[k - 1], k>>]
    BY <2>1
  <2>4. \A i \in m + 1 .. k - 1 : h[i] = step[<<h[i - 1], i>>]
    BY <2>1
  <2>5. \A i \in m + 1 .. k : i = k \/ i \in m + 1 .. k - 1
    OBVIOUS
  <2> HIDE DEF h
  <2>6. Good(h, k)
    BY <2>3, <2>4, <2>5
  <2> QED BY <2>2, <2>6
<1>3. last \in P
  <2> HIDE DEF P
  <2> QED BY <1>1, <1>2, Upwards
<1> QED BY <1>3 DEF Unfolds

-----------------------------------------------------------------------------
(* Lengths of texts. *)
LEMMA PieceOf ==
  ASSUME NEW t \in Texts
  PROVE  /\ Len(t) \in Nat /\ DOMAIN t = 1 .. Len(t)
         /\ \A i \in 1 .. Len(t) : t[i] \in Pieces /\ t[i].kept \in Nat
<1>1. \A i \in 1 .. Len(t) : t[i] \in Pieces
  BY ElementOfSeq DEF Texts
<1>2. \A p \in Pieces : p.kept \in Nat
  BY DEF Pieces
<1> QED BY <1>1, <1>2 DEF Texts

LEMMA EndsAddUp ==
  ASSUME NEW t \in Texts
  PROVE  /\ Ends(t) \in [0 .. Len(t) -> Nat] /\ Ends(t)[0] = 0
         /\ \A i \in 1 .. Len(t) : Ends(t)[i] = Ends(t)[i - 1] + t[i].kept
<1> DEFINE IsEnds(g) ==
      g = [i \in 0 .. Len(t) |-> IF i = 0 THEN 0 ELSE g[i - 1] + t[i].kept]
<1> DEFINE last == Len(t)
<1>1. last \in Int /\ 0 <= last
  BY PieceOf
<1>2. \A i \in 1 .. last : t[i].kept \in Nat
  BY PieceOf
<1>3. \E g : IsEnds(g)
  <2> DEFINE step == [p \in Nat \X (1 .. last) |-> p[1] + t[p[2]].kept]
  <2>1. step \in [Nat \X (0 + 1 .. last) -> Nat]
    BY <1>2
  <2>2. \A x \in Nat : \A i \in 1 .. last : step[<<x, i>>] = x + t[i].kept
    BY <1>2
  <2> HIDE DEF step, last
  <2>3. PICK g \in [0 .. last -> Nat] : Unfolds(g, 0, last, 0, step)
    <3>1. 0 \in Int /\ 0 \in Nat
      OBVIOUS
    <3> QED BY <1>1, <2>1, <3>1, Recursion, Zenon
  <2>4. \A i \in 1 .. last : g[i] = step[<<g[i - 1], i>>] /\ g[i - 1] \in Nat
    BY <1>1, <2>3 DEF Unfolds
  <2>5. \A i \in 1 .. last : g[i] = g[i - 1] + t[i].kept
    BY <2>2, <2>4
  <2>6. g = [i \in 0 .. last |-> IF i = 0 THEN 0 ELSE g[i - 1] + t[i].kept]
    BY <1>1, <2>3, <2>5 DEF Unfolds
  <2> QED BY <2>6 DEF last
<1>4. IsEnds(Ends(t))
  BY <1>3 DEF Ends
<1> DEFINE P == {i \in 0 .. last : Ends(t)[i] \in Nat}
<1>5. 0 .. last \subseteq P
  <2>1. 0 \in P
    BY <1>1, <1>4
  <2>2. \A i \in 0 + 1 .. last : i - 1 \in P => i \in P
    BY <1>1, <1>2, <1>4
  <2> HIDE DEF P, last
  <2> QED BY <1>1, <2>1, <2>2, Upwards
<1> QED BY <1>1, <1>4, <1>5

LEMMA LengthIsNat ==
  /\ \A t \in Texts : Length(t) \in Nat
  /\ <<>> \in Texts /\ Length(<<>>) = 0
<1>1. \A t \in Texts : Len(t) \in 0 .. Len(t)
  BY PieceOf
<1>2. <<>> \in Texts
  BY DEF Texts
<1> QED BY <1>1, <1>2, EndsAddUp DEF Length

LEMMA JoinedTexts ==
  ASSUME NEW s \in Texts, NEW t \in Texts
  PROVE  /\ s \o t \in Texts /\ Len(s \o t) = Len(s) + Len(t)
         /\ \A i \in 1 .. Len(s) : (s \o t)[i] = s[i]
         /\ \A i \in 1 .. Len(t) : (s \o t)[Len(s) + i] = t[i]
<1>1. s \o t \in Texts
  BY ConcatProperties DEF Texts
<1> QED BY <1>1, ConcatProperties, PieceOf DEF Texts

(* The characters of two texts are those of both. *)
LEMMA LengthOfBoth ==
  ASSUME NEW s \in Texts, NEW t \in Texts
  PROVE  Length(s \o t) = Length(s) + Length(t)
<1> DEFINE st == s \o t
           ls == Len(s)
           lt == Len(t)
           K(i) == st[i].kept
<1>1. ls \in Int /\ 0 <= ls /\ lt \in Int /\ 0 <= lt
  BY PieceOf
<1>2. /\ st \in Texts /\ Len(st) = ls + lt
      /\ \A i \in 1 .. ls : st[i] = s[i]
      /\ \A i \in 1 .. lt : st[ls + i] = t[i]
  BY JoinedTexts
<1> HIDE DEF st
<1> DEFINE both == Ends(st)
           es == Ends(s)
           et == Ends(t)
<1>3. \A i \in 1 .. ls + lt : K(i) \in Nat
  BY <1>2, PieceOf
<1>4. /\ both \in [0 .. ls + lt -> Nat] /\ both[0] = 0
      /\ \A i \in 1 .. ls + lt : both[i] = both[i - 1] + K(i)
  <2> HIDE DEF ls, lt
  <2> QED BY <1>2, EndsAddUp
<1>5. /\ es \in [0 .. ls -> Nat] /\ es[0] = 0
      /\ \A i \in 1 .. ls : es[i] = es[i - 1] + K(i)
  BY <1>2, EndsAddUp
<1>6. /\ et \in [0 .. lt -> Nat] /\ et[0] = 0
      /\ \A i \in 1 .. lt : et[i] = et[i - 1] + K(ls + i)
  BY <1>2, EndsAddUp
<1>7. Length(s) = es[ls] /\ Length(t) = et[lt] /\ Length(st) = both[ls + lt]
  BY <1>2 DEF Length
<1> HIDE DEF ls, lt, both, es, et, K
<1>8. both[ls] = es[ls]
  <2> DEFINE P == {i \in 0 .. ls : both[i] = es[i]}
  <2>1. 0 \in P
    BY <1>1, <1>4, <1>5
  <2>2. \A i \in 0 + 1 .. ls : i - 1 \in P => i \in P
    <3> TAKE i \in 0 + 1 .. ls
    <3>1. i \in 1 .. ls + lt /\ i \in 1 .. ls
      BY <1>1
    <3> QED BY <1>4, <1>5, <3>1
  <2>3. 0 .. ls \subseteq P
    <3> HIDE DEF P
    <3> QED BY <1>1, <2>1, <2>2, Upwards
  <2> QED BY <1>1, <2>3
<1>9. both[ls + lt] = es[ls] + et[lt]
  <2> DEFINE P == {i \in 0 .. lt : both[ls + i] = es[ls] + et[i]}
  <2>1. 0 \in P
    BY <1>1, <1>5, <1>6, <1>8
  <2>2. \A i \in 0 + 1 .. lt : i - 1 \in P => i \in P
    <3> SUFFICES ASSUME NEW i \in 1 .. lt, both[ls + (i - 1)] = es[ls] + et[i - 1]
                 PROVE  both[ls + i] = es[ls] + et[i]
      OBVIOUS
    <3>1. ls + i \in 1 .. ls + lt /\ (ls + i) - 1 = ls + (i - 1) /\ i - 1 \in 0 .. lt
      BY <1>1
    <3>2. both[ls + i] = both[ls + (i - 1)] + K(ls + i)
      BY <1>4, <3>1
    <3>3. et[i] = et[i - 1] + K(ls + i)
      BY <1>6
    <3>4. K(ls + i) \in Nat
      BY <1>3, <3>1
    <3>5. et[i - 1] \in Nat /\ es[ls] \in Nat
      BY <1>1, <1>5, <1>6, <3>1
    <3> QED BY <3>2, <3>3, <3>4, <3>5
  <2>3. 0 .. lt \subseteq P
    <3> HIDE DEF P
    <3> QED BY <1>1, <2>1, <2>2, Upwards
  <2> QED BY <1>1, <2>3
<1> QED BY <1>7, <1>9 DEF st

(* What fits is not cut: vsnprintf() has kept fewer characters than it had *)
(* room for, so that it has kept them all.                                 *)
LEMMA CutIsText ==
  ASSUME NEW t \in Texts, NEW k \in Nat
  PROVE  /\ Cut(t, k) \in Texts /\ Len(Cut(t, k)) = Len(t)
         /\ \A i \in 1 .. Len(t) :
              /\ Cut(t, k)[i] = [t[i] EXCEPT !.kept =
                                   Within(k - Ends(t)[i - 1], 0, t[i].kept)]
              /\ Cut(t, k)[i].kept = Within(k - Ends(t)[i - 1], 0, t[i].kept)
<1>1. \A i \in 1 .. Len(t) : Within(k - Ends(t)[i - 1], 0, t[i].kept) \in Nat
  <2> TAKE i \in 1 .. Len(t)
  <2>1. Ends(t)[i - 1] \in Nat /\ t[i].kept \in Nat
    BY EndsAddUp, PieceOf
  <2> QED BY <2>1 DEF Within
<1>2. \A p \in Pieces : \A x \in Nat :
        [p EXCEPT !.kept = x] \in Pieces /\ [p EXCEPT !.kept = x].kept = x
  BY DEF Pieces
<1>3. Cut(t, k) = [i \in 1 .. Len(t) |->
         [t[i] EXCEPT !.kept = Within(k - Ends(t)[i - 1], 0, t[i].kept)]]
  BY DEF Cut
<1>4. \A i \in 1 .. Len(t) :
        /\ Cut(t, k)[i] = [t[i] EXCEPT !.kept =
                             Within(k - Ends(t)[i - 1], 0, t[i].kept)]
        /\ Cut(t, k)[i].kept = Within(k - Ends(t)[i - 1], 0, t[i].kept)
        /\ Cut(t, k)[i] \in Pieces
  <2> TAKE i \in 1 .. Len(t)
  <2> DEFINE x == Within(k - Ends(t)[i - 1], 0, t[i].kept)
  <2>1. x \in Nat /\ t[i] \in Pieces
    BY <1>1, PieceOf
  <2>2. Cut(t, k)[i] = [t[i] EXCEPT !.kept = x]
    BY <1>3
  <2> HIDE DEF x
  <2>3. /\ Cut(t, k)[i] = [t[i] EXCEPT !.kept = x]
        /\ Cut(t, k)[i].kept = x /\ Cut(t, k)[i] \in Pieces
    BY <1>2, <2>1, <2>2
  <2> QED BY <2>3 DEF x
<1>5. Cut(t, k) \in [1 .. Len(t) -> Pieces]
  BY <1>3, <1>4
<1>6. Cut(t, k) \in Seq(Pieces) /\ Len(Cut(t, k)) = Len(t)
  BY <1>5, PieceOf
<1> QED BY <1>4, <1>6 DEF Texts

LEMMA CutLength ==
  ASSUME NEW t \in Texts, NEW k \in Nat
  PROVE  Length(Cut(t, k)) = IF Length(t) < k THEN Length(t) ELSE k
<1> DEFINE last == Len(t)
           e == Ends(t)
           cut == Cut(t, k)
           c == Ends(cut)
           K(i) == t[i].kept
<1>1. last \in Int /\ 0 <= last
  BY PieceOf
<1>2. \A i \in 1 .. last : K(i) \in Nat
  BY PieceOf
<1>3. /\ e \in [0 .. last -> Nat] /\ e[0] = 0
      /\ \A i \in 1 .. last : e[i] = e[i - 1] + K(i)
  BY EndsAddUp
<1>4. /\ c \in [0 .. last -> Nat] /\ c[0] = 0
      /\ \A i \in 1 .. last : c[i] = c[i - 1] + Within(k - e[i - 1], 0, K(i))
  <2>1. cut \in Texts /\ Len(cut) = last
        /\ \A i \in 1 .. last : cut[i].kept = Within(k - e[i - 1], 0, K(i))
    BY CutIsText
  <2> HIDE DEF cut
  <2>2. /\ c \in [0 .. last -> Nat] /\ c[0] = 0
        /\ \A i \in 1 .. last : c[i] = c[i - 1] + cut[i].kept
    BY <2>1, EndsAddUp
  <2> HIDE DEF c, e, K, last
  <2> QED BY <2>1, <2>2
<1>5. c[last] = Length(cut) /\ e[last] = Length(t)
  BY CutIsText DEF Length
<1>6. \A i \in 1 .. last : /\ i \in 0 .. last /\ i - 1 \in 0 .. last
                           /\ e[i] \in Nat /\ e[i - 1] \in Nat /\ c[i - 1] \in Nat
  <2> TAKE i \in 1 .. last
  <2>1. i \in 0 .. last /\ i - 1 \in 0 .. last
    BY <1>1
  <2> QED BY <1>3, <1>4, <2>1
<1> HIDE DEF last, e, c, K
<1>7. c[last] = IF e[last] < k THEN e[last] ELSE k
  <2> DEFINE P == {i \in 0 .. last : c[i] = IF e[i] < k THEN e[i] ELSE k}
  <2>1. 0 \in P
    BY <1>1, <1>3, <1>4
  <2>2. \A i \in 0 + 1 .. last : i - 1 \in P => i \in P
    <3> SUFFICES ASSUME NEW i \in 1 .. last,
                        c[i - 1] = IF e[i - 1] < k THEN e[i - 1] ELSE k
                 PROVE  c[i] = IF e[i] < k THEN e[i] ELSE k
      BY <1>6
    <3>1. /\ e[i] = e[i - 1] + K(i) /\ K(i) \in Nat
          /\ c[i] = c[i - 1] + Within(k - e[i - 1], 0, K(i))
      BY <1>2, <1>3, <1>4
    <3> QED BY <1>6, <3>1 DEF Within
  <2>3. 0 .. last \subseteq P
    <3> HIDE DEF P
    <3> QED BY <1>1, <2>1, <2>2, Upwards
  <2> QED BY <1>1, <2>3
<1> QED BY <1>5, <1>7

LEMMA UncutIsWhole ==
  ASSUME NEW t \in Texts, NEW k \in Nat,
         Length(t) <= k \/ Length(Cut(t, k)) < k
  PROVE  Cut(t, k) = t
<1> DEFINE last == Len(t)
           e == Ends(t)
           cut == Cut(t, k)
           K(i) == t[i].kept
<1>1. last \in Int /\ 0 <= last
  BY PieceOf
<1>2. \A i \in 1 .. last : K(i) \in Nat
  BY PieceOf
<1>3. /\ e \in [0 .. last -> Nat] /\ e[0] = 0
      /\ \A i \in 1 .. last : e[i] = e[i - 1] + K(i)
  BY EndsAddUp
<1>6. \A i \in 1 .. last : /\ i \in 0 .. last /\ i - 1 \in 0 .. last
                           /\ e[i] \in Nat /\ e[i - 1] \in Nat
  <2> TAKE i \in 1 .. last
  <2>1. i \in 0 .. last /\ i - 1 \in 0 .. last
    BY <1>1
  <2> QED BY <1>3, <2>1
<1>8. e[last] <= k
  <2>1. Length(t) \in Nat /\ Length(t) = e[last]
    BY LengthIsNat DEF Length
  <2> QED BY <2>1, CutLength
<1> HIDE DEF last, e, K
<1>9. \A i \in 0 .. last : \A j \in 0 .. i : e[j] <= e[i]
  <2> DEFINE P == {i \in 0 .. last : \A j \in 0 .. i : e[j] <= e[i]}
  <2>1. 0 \in P
    BY <1>1, <1>3
  <2>2. \A i \in 0 + 1 .. last : i - 1 \in P => i \in P
    <3> SUFFICES ASSUME NEW i \in 1 .. last, \A j \in 0 .. i - 1 : e[j] <= e[i - 1],
                        NEW j \in 0 .. i
                 PROVE  e[j] <= e[i]
      OBVIOUS
    <3>1. e[i] = e[i - 1] + K(i) /\ K(i) \in Nat /\ e[i - 1] \in Nat /\ e[i] \in Nat
      BY <1>2, <1>3, <1>6
    <3>2. CASE j = i
      BY <3>1, <3>2
    <3>3. CASE j \in 0 .. i - 1
      <4>1. e[j] \in Nat
        <5>1. j \in 0 .. last
          BY <1>1, <3>3
        <5> QED BY <1>3, <5>1
      <4> QED BY <3>1, <3>3, <4>1
    <3> QED BY <3>2, <3>3
  <2>3. 0 .. last \subseteq P
    <3> HIDE DEF P
    <3> QED BY <1>1, <2>1, <2>2, Upwards
  <2> QED BY <2>3
<1>10. \A i \in 1 .. last : Within(k - e[i - 1], 0, K(i)) = K(i)
  <2> TAKE i \in 1 .. last
  <2>1. e[i] <= e[last] /\ e[last] \in Nat /\ e[i] \in Nat
    BY <1>1, <1>3, <1>9, <1>6
  <2>2. e[i] = e[i - 1] + K(i) /\ K(i) \in Nat /\ e[i - 1] \in Nat
    BY <1>2, <1>3, <1>6
  <2> QED BY <1>8, <2>1, <2>2 DEF Within
<1>11. \A p \in Pieces : [p EXCEPT !.kept = p.kept] = p
  BY DEF Pieces
<1>12. \A i \in 1 .. Len(t) : Cut(t, k)[i] = t[i]
  <2> TAKE i \in 1 .. Len(t)
  <2>1. cut[i] = [t[i] EXCEPT !.kept = Within(k - e[i - 1], 0, K(i))]
    BY CutIsText DEF e, K
  <2>2. Within(k - e[i - 1], 0, K(i)) = t[i].kept /\ t[i] \in Pieces
    BY <1>10, PieceOf DEF last, K
  <2> QED BY <1>11, <2>1, <2>2
<1>13. cut \in Seq(Pieces) /\ t \in Seq(Pieces) /\ Len(cut) = Len(t)
  BY CutIsText DEF Texts
<1> QED BY <1>12, <1>13, SeqEqual

-----------------------------------------------------------------------------
(* FlattenSeq joins from the left; what is consumed one by one from the    *)
(* left needs its first member.                                            *)
Join(x, y) == x \o y

LEMMA FlattenUnfolds ==
  ASSUME NEW S, NEW s \in Seq(Seq(S)), s # <<>>
  PROVE  \E f \in [1 .. Len(s) -> Seq(S)] :
           /\ f[1] = s[1] /\ \A i \in 2 .. Len(s) : f[i] = f[i - 1] \o s[i]
           /\ FlattenSeq(s) = f[Len(s)]
<1> DEFINE last == Len(s)
           IsFlat(g) ==
             g = [i \in 1 .. last |-> IF i = 1 THEN s[i] ELSE g[i - 1] \o s[i]]
<1>1. last \in Int /\ 1 <= last /\ last # 0
  OBVIOUS
<1>2. \A i \in 1 .. last : s[i] \in Seq(S)
  OBVIOUS
<1> DEFINE step == [p \in Seq(S) \X (2 .. last) |-> p[1] \o s[p[2]]]
<1>3. step \in [Seq(S) \X (1 + 1 .. last) -> Seq(S)]
  BY <1>2
<1>4. \A x \in Seq(S) : \A i \in 2 .. last : step[<<x, i>>] = x \o s[i]
  OBVIOUS
<1> DEFINE first == s[1]
<1>5. first \in Seq(S)
  BY <1>1, <1>2
<1> HIDE DEF step, first
<1>6. PICK f \in [1 .. last -> Seq(S)] : Unfolds(f, 1, last, first, step)
  <2> HIDE DEF last
  <2>1. 1 \in Int
    OBVIOUS
  <2> QED BY <1>1, <1>3, <1>5, <2>1, Recursion, Zenon
<1>7. f[1] = s[1] /\ \A i \in 2 .. last : f[i] = f[i - 1] \o s[i]
  <2> HIDE DEF last
  <2>1. \A i \in 2 .. last : f[i] = step[<<f[i - 1], i>>] /\ f[i - 1] \in Seq(S)
    BY <1>1, <1>6 DEF Unfolds
  <2> QED BY <1>4, <1>6, <2>1 DEF Unfolds, first
<1>8. ASSUME NEW g, IsFlat(g) PROVE g = f
  <2> DEFINE P == {i \in 1 .. last : g[i] = f[i]}
  <2>1. \A i \in 1 .. last : g[i] = IF i = 1 THEN s[i] ELSE Join(g[i - 1], s[i])
    BY <1>8 DEF Join
  <2>2. g = [i \in 1 .. last |-> g[i]]
    BY <1>8
  <2>3. \A i \in 2 .. last : f[i] = Join(f[i - 1], s[i])
    BY <1>7 DEF Join
  <2> HIDE DEF last, IsFlat
  <2>4. 1 \in P
    BY <1>1, <1>7, <2>1
  <2>5. \A i \in 2 .. last : i - 1 \in P => i \in P
    <3> TAKE i \in 2 .. last
    <3>1. i # 1 /\ i \in 1 .. last
      BY <1>1
    <3>2. g[i] = Join(g[i - 1], s[i]) /\ f[i] = Join(f[i - 1], s[i])
      BY <2>1, <2>3, <3>1
    <3> QED BY <3>1, <3>2
  <2>6. 1 .. last \subseteq P
    <3> HIDE DEF P
    <3> QED BY <1>1, <2>4, <2>5, UpwardsFromOne
  <2>7. \A i \in 1 .. last : g[i] = f[i]
    BY <2>6
  <2> QED BY <1>6, <2>2, <2>7
<1>9. IsFlat(f)
  <2>1. \A i \in 1 .. last : f[i] = IF i = 1 THEN s[i] ELSE Join(f[i - 1], s[i])
    <3> TAKE i \in 1 .. last
    <3>1. i = 1 \/ i \in 2 .. last
      BY <1>1
    <3> QED BY <1>7, <3>1 DEF Join
  <2> HIDE DEF last
  <2>2. f = [i \in 1 .. last |-> IF i = 1 THEN s[i] ELSE Join(f[i - 1], s[i])]
    BY <1>6, <2>1
  <2> QED BY <2>2 DEF Join
<1>10. FlattenSeq(s) = f[last]
  BY <1>1, <1>8, <1>9 DEF FlattenSeq
<1> QED BY <1>7, <1>10

LEMMA Associative ==
  ASSUME NEW S, NEW x \in Seq(S), NEW y \in Seq(S), NEW z \in Seq(S)
  PROVE  Join(Join(x, y), z) = Join(x, Join(y, z))
BY DEF Join

LEMMA FlattenFirst ==
  ASSUME NEW S, NEW s \in Seq(Seq(S)), s # <<>>
  PROVE  /\ FlattenSeq(s) \in Seq(S)
         /\ FlattenSeq(s) = Head(s) \o FlattenSeq(Tail(s))
<1> DEFINE t == Tail(s)
           last == Len(t)
<1>1. /\ Len(s) = last + 1 /\ last \in Nat
      /\ t \in Seq(Seq(S)) /\ Head(s) = s[1]
  BY HeadTailProperties
<1>2. \A i \in 1 .. last + 1 : s[i] \in Seq(S)
  BY <1>1, ElementOfSeq
<1>3. \A i \in 1 .. last : t[i] = s[i + 1]
  BY <1>1
<1>4. PICK f \in [1 .. Len(s) -> Seq(S)] :
        /\ f[1] = s[1] /\ \A i \in 2 .. Len(s) : f[i] = f[i - 1] \o s[i]
        /\ FlattenSeq(s) = f[Len(s)]
  BY FlattenUnfolds
<1>5. /\ f \in [1 .. last + 1 -> Seq(S)] /\ f[1] = s[1] /\ FlattenSeq(s) = f[last + 1]
      /\ \A i \in 2 .. last + 1 : f[i] = Join(f[i - 1], s[i])
  BY <1>1, <1>4 DEF Join
<1>6. FlattenSeq(s) \in Seq(S)
  <2> HIDE DEF last
  <2> QED BY <1>1, <1>5
<1>7. CASE last = 0
  <2> HIDE DEF t
  <2>1. FlattenSeq(t) = <<>>
    <3>1. t = <<>>
      BY <1>1, <1>7 DEF last
    <3> QED BY <3>1 DEF FlattenSeq
  <2>2. s[1] \o <<>> = s[1]
    BY <1>1, <1>2, ConcatEmptySeq
  <2> HIDE DEF last
  <2>3. FlattenSeq(s) = s[1]
    BY <1>5, <1>7
  <2> QED BY <1>1, <1>6, <2>1, <2>2, <2>3 DEF t
<1>8. CASE last # 0
  <2>1. t # <<>> /\ 1 <= last
    <3> HIDE DEF t
    <3> QED BY <1>1, <1>8
  <2>2. PICK g \in [1 .. last -> Seq(S)] :
        /\ g[1] = t[1] /\ \A i \in 2 .. last : g[i] = Join(g[i - 1], t[i])
        /\ FlattenSeq(t) = g[last]
    BY <1>1, <2>1, FlattenUnfolds DEF Join
  <2> DEFINE P == {i \in 1 .. last : f[i + 1] = Join(s[1], g[i])}
  <2>3. \A x, y, z \in Seq(S) : Join(Join(x, y), z) = Join(x, Join(y, z))
    BY Associative
  <2> HIDE DEF t, last
  <2>4. 1 \in P
    <3>1. 2 \in 2 .. last + 1 /\ 1 \in 1 .. last
      BY <1>1, <2>1
    <3>2. f[2] = Join(s[1], s[2]) /\ g[1] = s[2]
      BY <1>3, <1>5, <2>2, <3>1
    <3> QED BY <3>1, <3>2
  <2>5. \A i \in 2 .. last : i - 1 \in P => i \in P
    <3> TAKE i \in 2 .. last
    <3> HAVE i - 1 \in P
    <3>1. /\ i + 1 \in 2 .. last + 1 /\ i + 1 - 1 = i /\ i - 1 + 1 = i
          /\ i \in 1 .. last /\ i - 1 \in 1 .. last
          /\ 1 \in 1 .. last + 1 /\ i + 1 \in 1 .. last + 1
      BY <1>1
    <3>2. f[i] = Join(s[1], g[i - 1])
      BY <3>1
    <3>3. f[i + 1] = Join(f[i], s[i + 1])
      BY <1>5, <3>1
    <3>4. g[i] = Join(g[i - 1], s[i + 1])
      BY <1>3, <2>2, <3>1
    <3>5. g[i - 1] \in Seq(S) /\ s[i + 1] \in Seq(S) /\ s[1] \in Seq(S)
      BY <1>2, <2>2, <3>1
    <3>6. f[i + 1] = Join(s[1], g[i])
      BY <2>3, <3>2, <3>3, <3>4, <3>5
    <3> QED BY <3>1, <3>6
  <2>6. last \in 1 .. last /\ last \in Int
    BY <1>1, <2>1
  <2>7. 1 .. last \subseteq P
    <3> HIDE DEF P
    <3> QED BY <2>4, <2>5, <2>6, UpwardsFromOne
  <2>8. f[last + 1] = Join(s[1], g[last])
    BY <2>6, <2>7
  <2> QED BY <1>1, <1>5, <1>6, <2>2, <2>8 DEF t, Join
<1> QED BY <1>1, <1>7, <1>8

LEMMA FlattenNone == FlattenSeq(<<>>) = <<>>
BY DEF FlattenSeq

-----------------------------------------------------------------------------
(* The heap: what xmalloc() and xfree() do, and that there is always a     *)
(* free block.                                                             *)
LEMMA Allocated ==
  ASSUME NEW h, NEW b, NEW size, b \notin DOMAIN h
  PROVE  /\ DOMAIN xmalloc(h, b, size) = DOMAIN h \cup {b}
         /\ xmalloc(h, b, size)[b] = size
         /\ \A x \in DOMAIN h : xmalloc(h, b, size)[x] = h[x]
BY DEF xmalloc

LEMMA Freed ==
  ASSUME NEW h, NEW b
  PROVE  /\ DOMAIN xfree(h, b) = DOMAIN h \ {b}
         /\ \A x \in DOMAIN h \ {b} : xfree(h, b)[x] = h[x]
BY DEF xfree

LEMMA BlockIsFree ==
  ASSUME NEW h, IsFiniteSet(DOMAIN h)
  PROVE  FreeBlock(h) \notin DOMAIN h /\ FreeBlock(h) \in Nat \ {0}
<1> DEFINE used == DOMAIN h
           k == Cardinality(used)
<1>1. k \in Nat
  BY FS_CardinalityType
<1>2. \E b \in 1 .. k + 1 : b \notin used
  <2> SUFFICES ASSUME 1 .. k + 1 \subseteq used PROVE FALSE
    OBVIOUS
  <2>1. Cardinality(1 .. k + 1) <= k
    BY FS_Subset
  <2>2. Cardinality(1 .. k + 1) = k + 1
    BY <1>1, FS_Interval
  <2> QED BY <1>1, <2>1, <2>2
<1> QED BY <1>1, <1>2 DEF FreeBlock

LEMMA ThreeAreFinite ==
  ASSUME NEW a, NEW b, NEW c, NEW D, D \subseteq {a, b, c}
  PROVE  IsFiniteSet(D)
<1>1. IsFiniteSet({a}) /\ IsFiniteSet({a} \cup {b}) /\ IsFiniteSet(({a} \cup {b}) \cup {c})
  BY FS_Singleton, FS_AddElement
<1>2. ({a} \cup {b}) \cup {c} = {a, b, c}
  OBVIOUS
<1> QED BY <1>1, <1>2, FS_Subset

-----------------------------------------------------------------------------
Call == [format : Nat, text : Texts]

(* Which blocks there are, and what is in them. *)
StringInv ==
  /\ data \in {"sbuf", "append"} /\ text \in Texts
  /\ append_data_size \in Nat /\ append_used \in Nat
  /\ data = "sbuf" => text = <<>> /\ append_data = 0 /\ append_data_size = 0
  /\ data = "append" =>
       /\ append_data # 0 /\ append_data_size = heap[append_data]
       /\ append_used <= Length(text) /\ Length(text) < append_data_size
  /\ ds = 0 => data = "sbuf" /\ buff = 0

BlockInv ==
  /\ ds \in Nat /\ append_data \in Nat /\ buff \in Nat /\ n \in Nat
  /\ DOMAIN heap = {ds, append_data, buff} \ {0}
  /\ ds # 0 => ds # append_data /\ ds # buff
  /\ append_data # 0 => append_data # buff
  /\ buff # 0 => n + 1 < heap[buff]

CallsInv ==
  /\ docs \in Seq(Seq(Call)) /\ calls \in Seq(Call)
  /\ ds # 0 => docs # <<>>
  /\ ds = 0 => calls = <<>>
  /\ buff # 0 => calls # <<>>

LEMMA UsedIsLength ==
  ASSUME StringInv
  PROVE  Used = Length(text) /\ Length(text) \in Nat
BY LengthIsNat DEF StringInv, Used

(* Appending a text, with a block that is freed afterwards. *)
LEMMA Appended ==
  ASSUME StringInv, BlockInv, ds # 0, NEW t \in Texts, NEW freed \in {0, buff},
         arg_dstr_cat(t, freed), buff' = (IF freed = 0 THEN buff ELSE 0),
         n' = (IF freed = 0 THEN n ELSE 0)
  PROVE  StringInv' /\ BlockInv' /\ text' = text \o t
<1>1. Used = Length(text) /\ Length(text) \in Nat /\ Length(t) \in Nat
  BY UsedIsLength, LengthIsNat
<1>2. text' = text \o t /\ text' \in Texts /\ Length(text') = Length(text) + Length(t)
  BY LengthOfBoth, JoinedTexts DEF arg_dstr_cat, StringInv
<1>3. /\ data' = "append" /\ append_used' = Length(text) /\ ds' = ds
      /\ n' \in Nat /\ (buff' # 0 => n' = n)
  BY <1>1 DEF arg_dstr_cat, BlockInv
<1> DEFINE total == Length(t) + 1 + Used
           size == IF total < 100 THEN 200 ELSE 2 * total
<1>4. total \in Nat /\ size \in Nat /\ Length(text') < total /\ Length(text') < size
      /\ Length(text') \in Nat /\ append_used' <= Length(text') /\ append_used' \in Nat
  <2>1. Length(text') = Length(text) + Length(t) /\ append_used' = Length(text)
    BY <1>2, <1>3
  <2> QED BY <1>1, <2>1
<1>5. CASE total >= append_data_size
  <2> DEFINE b == FreeBlock(heap)
             h1 == xmalloc(heap, b, size)
             h2 == IF append_data # 0 THEN xfree(h1, append_data) ELSE h1
  <2>1. /\ append_data' = b /\ append_data_size' = size
        /\ heap' = xfree(h2, freed)
    BY <1>5 DEF arg_dstr_cat, WithoutOld
  <2>2. b \notin DOMAIN heap /\ b \in Nat \ {0}
    <3>1. IsFiniteSet(DOMAIN heap)
      <4>1. DOMAIN heap \subseteq {ds, append_data, buff}
        BY DEF BlockInv
      <4> QED BY <4>1, ThreeAreFinite
    <3> QED BY <3>1, BlockIsFree
  <2> HIDE DEF total, size, b
  <2>3. /\ DOMAIN h1 = DOMAIN heap \cup {b} /\ h1[b] = size
        /\ \A x \in DOMAIN heap : h1[x] = heap[x]
    BY <2>2 DEF xmalloc
  <2> HIDE DEF h1
  <2>4. /\ DOMAIN h2 = (DOMAIN heap \cup {b}) \ ({append_data} \ {0})
        /\ \A x \in DOMAIN h2 : h2[x] = h1[x]
    <3>1. CASE append_data = 0
      BY <2>3, <3>1
    <3>2. CASE append_data # 0
      <4>1. h2 = xfree(h1, append_data)
        BY <3>2
      <4> HIDE DEF h2
      <4>2. /\ DOMAIN h2 = DOMAIN h1 \ {append_data}
            /\ \A x \in DOMAIN h2 : h2[x] = h1[x]
        BY <4>1, Freed
      <4> QED BY <2>3, <3>2, <4>2
    <3> QED BY <3>1, <3>2
  <2> HIDE DEF h2
  <2>5. /\ DOMAIN heap' = DOMAIN h2 \ {freed}
        /\ \A x \in DOMAIN heap' : heap'[x] = h2[x]
    BY <2>1, Freed
  <2>6. DOMAIN heap' = {ds, b, buff'} \ {0}
    BY <2>2, <2>4, <2>5 DEF BlockInv
  <2>7. b # ds /\ b # buff' /\ heap'[b] = size
    BY <2>2, <2>3, <2>4, <2>5, <2>6 DEF BlockInv
  <2>8. buff' # 0 => heap'[buff'] = heap[buff] /\ buff' = buff
    BY <2>2, <2>3, <2>4, <2>5, <2>6 DEF BlockInv
  <2>9. StringInv'
    BY <1>2, <1>3, <1>4, <2>1, <2>2, <2>7 DEF StringInv
  <2>10. BlockInv'
    BY <1>3, <2>1, <2>2, <2>6, <2>7, <2>8 DEF BlockInv
  <2> QED BY <1>2, <2>9, <2>10
<1>6. CASE ~ (total >= append_data_size)
  <2>1. heap' = xfree(heap, freed) /\ UNCHANGED <<append_data, append_data_size>>
    BY <1>6 DEF arg_dstr_cat
  <2>2. data = "append"
    BY <1>1, <1>6 DEF StringInv
  <2>3. Length(text') < append_data_size
    BY <1>1, <1>2, <1>6 DEF StringInv
  <2>4. /\ DOMAIN heap' = DOMAIN heap \ {freed}
        /\ \A x \in DOMAIN heap' : heap'[x] = heap[x]
    BY <2>1, Freed
  <2> HIDE DEF total, size
  <2>5. append_data \in DOMAIN heap'
    BY <2>2, <2>4 DEF StringInv, BlockInv
  <2>6. StringInv'
    BY <1>2, <1>3, <1>4, <2>1, <2>2, <2>3, <2>4, <2>5 DEF StringInv, BlockInv
  <2>7. BlockInv'
    BY <1>3, <2>1, <2>2, <2>4 DEF BlockInv
  <2> QED BY <1>2, <2>6, <2>7
<1> QED BY <1>5, <1>6

(* A new buffer of arg_dstr_catf(), in place of the one it may have.       *)
LEMMA Rebuffered ==
  ASSUME StringInv, BlockInv, ds # 0, NEW h, NEW size \in Nat, NewBuff(h, size),
         DOMAIN h = DOMAIN heap \ ({buff} \ {0}), \A x \in DOMAIN h : h[x] = heap[x]
  PROVE  StringInv' /\ BlockInv' /\ buff' # 0 /\ UNCHANGED <<ds, text>>
<1> DEFINE b == FreeBlock(h)
<1>1. b \notin DOMAIN h /\ b \in Nat \ {0}
  <2>1. DOMAIN h \subseteq {ds, append_data, buff}
    BY DEF BlockInv
  <2> QED BY <2>1, ThreeAreFinite, BlockIsFree
<1>2. n' = size /\ buff' = b /\ heap' = xmalloc(h, b, size + 2)
      /\ UNCHANGED <<ds, stringVars>>
  BY DEF NewBuff
<1> HIDE DEF b
<1>3. /\ DOMAIN heap' = DOMAIN h \cup {b} /\ heap'[b] = size + 2
      /\ \A x \in DOMAIN h : heap'[x] = heap[x]
  BY <1>1, <1>2 DEF xmalloc
<1>4. DOMAIN h = {ds, append_data} \ {0}
  BY DEF BlockInv
<1>5. BlockInv'
  <2>1. DOMAIN heap' = {ds, append_data, b} \ {0}
    BY <1>1, <1>3, <1>4
  <2>2. /\ UNCHANGED <<ds, append_data>> /\ ds \in Nat /\ append_data \in Nat
        /\ ds # append_data
    BY <1>2 DEF BlockInv, stringVars
  <2>3. n' \in Nat /\ n' + 1 < heap'[buff']
    BY <1>2, <1>3
  <2> QED BY <1>1, <1>2, <1>4, <2>1, <2>2, <2>3 DEF BlockInv
<1>6. append_data # 0 => heap'[append_data] = heap[append_data]
  BY <1>3, <1>4
<1>7. StringInv'
  BY <1>2, <1>6 DEF StringInv, stringVars
<1> QED BY <1>1, <1>2, <1>5, <1>7 DEF stringVars

LEMMA Created ==
  ASSUME StringInv, BlockInv, arg_dstr_create
  PROVE  StringInv' /\ BlockInv' /\ ds' # 0 /\ buff' = 0
<1>1. data = "sbuf" /\ append_data = 0 /\ buff = 0 /\ ds = 0
  BY DEF arg_dstr_create, StringInv
<1>2. DOMAIN heap = {}
  BY <1>1 DEF BlockInv
<1>3. FreeBlock(heap) \in Nat \ {0}
  BY <1>2, BlockIsFree, FS_EmptySet
<1>4. /\ ds' = FreeBlock(heap) /\ heap' = xmalloc(heap, ds', ARG_DSTR_SIZE)
      /\ data' = "sbuf" /\ text' = <<>> /\ append_data' = 0
      /\ append_data_size' = 0 /\ append_used' = 0 /\ buff' = buff /\ n' = n
  BY DEF arg_dstr_create
<1>5. DOMAIN heap' = {ds'}
  BY <1>2, <1>4 DEF xmalloc
<1>6. StringInv'
  BY <1>3, <1>4, LengthIsNat DEF StringInv
<1>7. BlockInv'
  BY <1>1, <1>3, <1>4, <1>5 DEF BlockInv
<1> QED BY <1>1, <1>3, <1>4, <1>6, <1>7

LEMMA Destroyed ==
  ASSUME StringInv, BlockInv, arg_dstr_destroy
  PROVE  StringInv' /\ BlockInv' /\ ds' = 0 /\ buff' = 0
<1>1. /\ buff = 0 /\ ds # 0 /\ heap' = xfree(Reset(heap), ds)
      /\ ds' = 0 /\ data' = "sbuf" /\ text' = <<>> /\ append_data' = 0
      /\ append_data_size' = 0 /\ UNCHANGED <<append_used, buff, n>>
  BY DEF arg_dstr_destroy
<1>2. append_data # 0 <=> append_data_size > 0
  BY LengthIsNat DEF StringInv
<1>3. DOMAIN Reset(heap) = {ds} \ {0}
  BY <1>1, <1>2 DEF Reset, xfree, BlockInv
<1>4. DOMAIN heap' = {}
  BY <1>1, <1>3 DEF xfree
<1>5. StringInv'
  BY <1>1, LengthIsNat DEF StringInv
<1>6. BlockInv'
  BY <1>1, <1>4 DEF BlockInv
<1> QED BY <1>1, <1>5, <1>6

-----------------------------------------------------------------------------
(* What is printed: the texts of the calls, one after the other.           *)
Contents(calling) == FlattenSeq([i \in DOMAIN calling |-> calling[i].text])
AllOf(documents) ==
  FlattenSeq([i \in DOMAIN documents |-> Contents(documents[i])])

LEMMA TextsJoin ==
  ASSUME NEW s \in Texts, NEW t \in Texts
  PROVE  /\ Join(s, t) \in Texts /\ Join(<<>>, t) = t /\ Join(t, <<>>) = t
         /\ \A u \in Texts : Join(Join(s, t), u) = Join(s, Join(t, u))
<1>1. \A u \in Texts : Join(Join(s, t), u) = Join(s, Join(t, u))
  BY Associative DEF Texts
<1>2. Join(s, t) \in Texts
  BY JoinedTexts DEF Join
<1>3. <<>> \o t = t /\ t \o <<>> = t
  BY ConcatEmptySeq DEF Texts
<1> QED BY <1>1, <1>2, <1>3 DEF Join

LEMMA ContentsOf ==
  ASSUME NEW d \in Seq(Call)
  PROVE  /\ Contents(d) \in Texts /\ Contents(<<>>) = <<>>
         /\ d # <<>> => /\ Head(d).text \in Texts /\ Tail(d) \in Seq(Call)
                        /\ Contents(d) = Join(Head(d).text, Contents(Tail(d)))
<1>1. \A c \in Call : c.text \in Texts
  BY DEF Call
<1>2. Contents(<<>>) = <<>>
  <2>1. [i \in DOMAIN <<>> |-> <<>>[i].text] = <<>>
    OBVIOUS
  <2> QED BY <2>1, FlattenNone DEF Contents
<1>3. CASE d = <<>>
  BY <1>2, <1>3, LengthIsNat
<1>4. CASE d # <<>>
  <2> DEFINE m == [i \in DOMAIN d |-> d[i].text]
             mt == [i \in DOMAIN Tail(d) |-> Tail(d)[i].text]
  <2>1. /\ Tail(d) \in Seq(Call) /\ Head(d) \in Call /\ Head(d) = d[1]
        /\ Len(Tail(d)) = Len(d) - 1 /\ Len(d) \in Nat \ {0}
        /\ \A i \in 1 .. Len(d) - 1 : Tail(d)[i] = d[i + 1]
    BY <1>4, HeadTailProperties
  <2>2. \A i \in 1 .. Len(d) : d[i] \in Call /\ d[i].text \in Texts
    BY <1>1, ElementOfSeq
  <2>3. m \in Seq(Texts) /\ Len(m) = Len(d) /\ \A i \in 1 .. Len(d) : m[i] = d[i].text
    BY <2>2
  <2>4. \A i \in 1 .. Len(d) - 1 : Tail(d)[i].text \in Texts
    BY <2>1, <2>2
  <2>5. mt \in Seq(Texts) /\ Len(mt) = Len(d) - 1
        /\ \A i \in 1 .. Len(d) - 1 : mt[i] = d[i + 1].text
    BY <2>1, <2>4
  <2> HIDE DEF m, mt
  <2>6. m # <<>>
    BY <2>1, <2>3
  <2>7. Tail(m) \in Seq(Texts) /\ Len(Tail(m)) = Len(d) - 1 /\ Head(m) = d[1].text
        /\ \A i \in 1 .. Len(d) - 1 : Tail(m)[i] = d[i + 1].text
    BY <2>1, <2>3, <2>6, HeadTailProperties
  <2>8. Tail(m) = mt
    BY <2>5, <2>7, SeqEqual
  <2>9. FlattenSeq(m) \in Texts /\ FlattenSeq(m) = Join(Head(m), FlattenSeq(mt))
    BY <2>3, <2>6, <2>8, FlattenFirst DEF Texts, Join
  <2>10. Contents(d) = FlattenSeq(m) /\ Contents(Tail(d)) = FlattenSeq(mt)
    BY DEF Contents, m, mt
  <2> QED BY <1>1, <1>2, <2>1, <2>7, <2>9, <2>10
<1> QED BY <1>3, <1>4

LEMMA AllOfThem ==
  ASSUME NEW d \in Seq(Seq(Call))
  PROVE  /\ AllOf(d) \in Texts /\ AllOf(<<>>) = <<>>
         /\ d # <<>> => /\ Head(d) \in Seq(Call) /\ Tail(d) \in Seq(Seq(Call))
                        /\ AllOf(d) = Join(Contents(Head(d)), AllOf(Tail(d)))
<1>1. \A c \in Seq(Call) : Contents(c) \in Texts
  BY ContentsOf
<1>2. AllOf(<<>>) = <<>>
  <2>1. [i \in DOMAIN <<>> |-> Contents(<<>>[i])] = <<>>
    OBVIOUS
  <2> QED BY <2>1, FlattenNone DEF AllOf
<1>3. CASE d = <<>>
  BY <1>2, <1>3, LengthIsNat
<1>4. CASE d # <<>>
  <2> DEFINE m == [i \in DOMAIN d |-> Contents(d[i])]
             mt == [i \in DOMAIN Tail(d) |-> Contents(Tail(d)[i])]
  <2>1. /\ Tail(d) \in Seq(Seq(Call)) /\ Head(d) \in Seq(Call) /\ Head(d) = d[1]
        /\ Len(Tail(d)) = Len(d) - 1 /\ Len(d) \in Nat \ {0}
        /\ \A i \in 1 .. Len(d) - 1 : Tail(d)[i] = d[i + 1]
    BY <1>4, HeadTailProperties
  <2>2. \A i \in 1 .. Len(d) : d[i] \in Seq(Call) /\ Contents(d[i]) \in Texts
    BY <1>1, ElementOfSeq
  <2>3. m \in Seq(Texts) /\ Len(m) = Len(d)
        /\ \A i \in 1 .. Len(d) : m[i] = Contents(d[i])
    <3>1. DOMAIN d = 1 .. Len(d)
      OBVIOUS
    <3>2. m \in [1 .. Len(d) -> Texts]
      BY <2>2, <3>1
    <3>3. \A i \in 1 .. Len(d) : m[i] = Contents(d[i])
      BY <3>1
    <3> HIDE DEF m
    <3> QED BY <2>1, <3>2, <3>3
  <2>4. \A i \in 1 .. Len(d) - 1 : Contents(Tail(d)[i]) \in Texts
    BY <2>1, <2>2
  <2>5. mt \in Seq(Texts) /\ Len(mt) = Len(d) - 1
        /\ \A i \in 1 .. Len(d) - 1 : mt[i] = Contents(d[i + 1])
    BY <2>1, <2>4
  <2> HIDE DEF m, mt
  <2>6. m # <<>>
    BY <2>1, <2>3
  <2>7. Tail(m) \in Seq(Texts) /\ Len(Tail(m)) = Len(d) - 1 /\ Head(m) = Contents(d[1])
        /\ \A i \in 1 .. Len(d) - 1 : Tail(m)[i] = Contents(d[i + 1])
    BY <2>1, <2>3, <2>6, HeadTailProperties
  <2>8. Tail(m) = mt
    BY <2>5, <2>7, SeqEqual
  <2>9. FlattenSeq(m) \in Texts /\ FlattenSeq(m) = Join(Head(m), FlattenSeq(mt))
    BY <2>3, <2>6, <2>8, FlattenFirst DEF Texts, Join
  <2>10. AllOf(d) = FlattenSeq(m) /\ AllOf(Tail(d)) = FlattenSeq(mt)
    BY DEF AllOf, m, mt
  <2> QED BY <1>2, <2>1, <2>7, <2>9, <2>10
<1> QED BY <1>3, <1>4

-----------------------------------------------------------------------------
(* What calls say: joined calls join their contents, and so do the calls   *)
(* that are made for every member of a list.                               *)
LEMMA TailOfBoth ==
  ASSUME NEW S, NEW s \in Seq(S), NEW t \in Seq(S), s # <<>>
  PROVE  s \o t # <<>> /\ Head(s \o t) = Head(s) /\ Tail(s \o t) = Tail(s) \o t
<1> DEFINE both == s \o t
           rest == Tail(s) \o t
<1>1. /\ Len(s) \in Nat \ {0} /\ Len(t) \in Nat /\ Head(s) = s[1]
      /\ Tail(s) \in Seq(S) /\ Len(Tail(s)) = Len(s) - 1
      /\ \A i \in 1 .. Len(s) - 1 : Tail(s)[i] = s[i + 1]
  BY HeadTailProperties
<1>2. /\ both \in Seq(S) /\ Len(both) = Len(s) + Len(t)
      /\ \A i \in 1 .. Len(s) : both[i] = s[i]
      /\ \A i \in 1 .. Len(t) : both[Len(s) + i] = t[i]
  BY ConcatProperties
<1>3. /\ rest \in Seq(S) /\ Len(rest) = Len(s) - 1 + Len(t)
      /\ \A i \in 1 .. Len(s) - 1 : rest[i] = s[i + 1]
      /\ \A i \in 1 .. Len(t) : rest[Len(s) - 1 + i] = t[i]
  BY <1>1, ConcatProperties
<1> HIDE DEF both, rest
<1>4. both # <<>>
  BY <1>1, <1>2
<1>5. /\ Head(both) = both[1] /\ Tail(both) \in Seq(S)
      /\ Len(Tail(both)) = Len(both) - 1
      /\ \A i \in 1 .. Len(both) - 1 : Tail(both)[i] = both[i + 1]
  BY <1>2, <1>4, HeadTailProperties
<1>6. \A i \in 1 .. Len(rest) : Tail(both)[i] = rest[i]
  <2> TAKE i \in 1 .. Len(rest)
  <2>1. Tail(both)[i] = both[i + 1]
    BY <1>1, <1>2, <1>3, <1>5
  <2>2. CASE i \in 1 .. Len(s) - 1
    BY <1>1, <1>2, <1>3, <2>1, <2>2
  <2>3. CASE i \notin 1 .. Len(s) - 1
    <3>1. i - (Len(s) - 1) \in 1 .. Len(t)
      BY <1>1, <1>3, <2>3
    <3>2. /\ both[Len(s) + (i - (Len(s) - 1))] = t[i - (Len(s) - 1)]
          /\ rest[Len(s) - 1 + (i - (Len(s) - 1))] = t[i - (Len(s) - 1)]
      BY <1>2, <1>3, <3>1
    <3>3. Len(s) + (i - (Len(s) - 1)) = i + 1 /\ Len(s) - 1 + (i - (Len(s) - 1)) = i
      BY <1>1
    <3> QED BY <2>1, <3>2, <3>3
  <2> QED BY <2>2, <2>3
<1>7. Len(Tail(both)) = Len(rest)
  BY <1>1, <1>2, <1>3, <1>5
<1>8. Tail(both) = rest
  BY <1>3, <1>5, <1>6, <1>7, SeqEqual
<1>9. Head(both) = Head(s)
  BY <1>1, <1>2, <1>5
<1> QED BY <1>4, <1>8, <1>9 DEF both, rest

LEMMA ContentsBoth ==
  ASSUME NEW c \in Seq(Call), NEW d \in Seq(Call)
  PROVE  c \o d \in Seq(Call) /\ Contents(c \o d) = Join(Contents(c), Contents(d))
<1> DEFINE last == Len(c)
           P == {k \in 0 .. last : \A e \in Seq(Call) :
                   Len(e) = k => Contents(e \o d) = Join(Contents(e), Contents(d))}
<1>1. Contents(d) \in Texts
  BY ContentsOf
<1>2. 0 \in P
  <2> SUFFICES ASSUME NEW e \in Seq(Call), Len(e) = 0
               PROVE  Contents(e \o d) = Join(Contents(e), Contents(d))
    OBVIOUS
  <2>1. e = <<>> /\ e \o d = d
    BY ConcatEmptySeq
  <2> QED BY <1>1, <2>1, ContentsOf, TextsJoin
<1>3. ASSUME NEW k \in 0 + 1 .. last, k - 1 \in P PROVE k \in P
  <2> SUFFICES ASSUME NEW e \in Seq(Call), Len(e) = k
               PROVE  Contents(e \o d) = Join(Contents(e), Contents(d))
    BY <1>3
  <2>1. e # <<>> /\ k \in Nat \ {0}
    OBVIOUS
  <2>2. Tail(e) \in Seq(Call) /\ Len(Tail(e)) = k - 1
    BY <2>1, HeadTailProperties
  <2>3. /\ e \o d # <<>> /\ e \o d \in Seq(Call)
        /\ Head(e \o d) = Head(e) /\ Tail(e \o d) = Tail(e) \o d
    BY <2>1, TailOfBoth, ConcatProperties
  <2>4. Contents(Tail(e) \o d) = Join(Contents(Tail(e)), Contents(d))
    BY <1>3, <2>2
  <2>5. /\ Head(e).text \in Texts
        /\ Contents(e) = Join(Head(e).text, Contents(Tail(e)))
        /\ Contents(Tail(e)) \in Texts
    BY <2>1, <2>2, ContentsOf
  <2> DEFINE both == e \o d
  <2>6. Contents(both) = Join(Head(both).text, Contents(Tail(both)))
    <3>1. both # <<>> /\ both \in Seq(Call)
      BY <2>3
    <3> HIDE DEF both
    <3> QED BY <3>1, ContentsOf
  <2>7. Contents(both) = Join(Head(e).text, Join(Contents(Tail(e)), Contents(d)))
    BY <2>3, <2>4, <2>6, Zenon
  <2> HIDE DEF both
  <2>8. Contents(both) = Join(Contents(e), Contents(d))
    <3>1. \A x, y, z \in Texts : Join(Join(x, y), z) = Join(x, Join(y, z))
      BY TextsJoin
    <3> DEFINE h == Head(e).text
               r == Contents(Tail(e))
               z == Contents(d)
    <3>2. h \in Texts /\ r \in Texts /\ z \in Texts
      BY <1>1, <2>5
    <3>3. Contents(both) = Join(h, Join(r, z)) /\ Contents(e) = Join(h, r)
      BY <2>5, <2>7
    <3> HIDE DEF h, r
    <3>4. Join(Join(h, r), z) = Join(h, Join(r, z))
      BY <3>1, <3>2
    <3> QED BY <3>3, <3>4
  <2> QED BY <2>8 DEF both
<1>4. last \in P
  <2>1. last \in Int /\ 0 <= last
    OBVIOUS
  <2> HIDE DEF P, last
  <2>2. 0 .. last \subseteq P
    <3>1. 0 \in Int /\ \A k \in 0 + 1 .. last : k - 1 \in P => k \in P
      BY <1>3
    <3> QED BY <1>2, <2>1, <3>1, Upwards
  <2> QED BY <2>1, <2>2
<1>5. c \o d \in Seq(Call)
  BY ConcatProperties
<1> QED BY <1>4, <1>5

LEMMA ContentsOne ==
  ASSUME NEW t \in Texts, NEW f \in Nat
  PROVE  /\ cat(t) \in Seq(Call) /\ Contents(cat(t)) = t
         /\ catf(f, t) \in Seq(Call) /\ Contents(catf(f, t)) = t
<1>1. ASSUME NEW g \in Nat
      PROVE  /\ <<[format |-> g, text |-> t]>> \in Seq(Call)
             /\ Contents(<<[format |-> g, text |-> t]>>) = t
  <2> DEFINE call == [format |-> g, text |-> t]
             one == <<call>>
  <2>1. call \in Call /\ call.text = t
    BY DEF Call
  <2> HIDE DEF call
  <2>2. one \in Seq(Call) /\ one # <<>> /\ Head(one) = call /\ Tail(one) = <<>>
    BY <2>1
  <2> HIDE DEF one
  <2>3. Contents(one) = Join(t, <<>>)
    BY <2>1, <2>2, ContentsOf
  <2> QED BY <2>2, <2>3, TextsJoin DEF one, call
<1> QED BY <1>1 DEF cat, catf

(* The calls made for the members of a list.                               *)
LEMMA ContentsEach ==
  ASSUME NEW s \in Seq(Seq(Call))
  PROVE  /\ FlattenSeq(s) \in Seq(Call)
         /\ Contents(FlattenSeq(s)) = AllOf(s)
<1> DEFINE last == Len(s)
           Good(e) == /\ FlattenSeq(e) \in Seq(Call)
                      /\ Contents(FlattenSeq(e)) = AllOf(e)
           P == {k \in 0 .. last : \A e \in Seq(Seq(Call)) : Len(e) = k => Good(e)}
<1>1. 0 \in P
  <2> SUFFICES ASSUME NEW e \in Seq(Seq(Call)), Len(e) = 0 PROVE Good(e)
    OBVIOUS
  <2>1. e = <<>>
    OBVIOUS
  <2>2. <<>> \in Seq(Call)
    OBVIOUS
  <2> QED BY <2>1, <2>2, FlattenNone, ContentsOf, AllOfThem
<1>2. ASSUME NEW k \in 0 + 1 .. last, k - 1 \in P PROVE k \in P
  <2> SUFFICES ASSUME NEW e \in Seq(Seq(Call)), Len(e) = k PROVE Good(e)
    BY <1>2
  <2>1. e # <<>> /\ k \in Nat \ {0}
    OBVIOUS
  <2>2. Tail(e) \in Seq(Seq(Call)) /\ Len(Tail(e)) = k - 1
    BY <2>1, HeadTailProperties
  <2>3. Good(Tail(e))
    BY <1>2, <2>2
  <2>4. /\ Head(e) \in Seq(Call) /\ AllOf(e) = Join(Contents(Head(e)), AllOf(Tail(e)))
    BY <2>1, AllOfThem
  <2>5. FlattenSeq(e) = Head(e) \o FlattenSeq(Tail(e))
    BY <2>1, FlattenFirst
  <2> QED BY <2>3, <2>4, <2>5, ContentsBoth
<1>3. last \in P
  <2>1. last \in Int /\ 0 <= last
    OBVIOUS
  <2> HIDE DEF P, last
  <2>2. 0 .. last \subseteq P
    <3>1. 0 \in Int /\ \A k \in 0 + 1 .. last : k - 1 \in P => k \in P
      BY <1>2
    <3> QED BY <1>1, <2>1, <3>1, Upwards
  <2> QED BY <2>1, <2>2
<1> QED BY <1>3

-----------------------------------------------------------------------------
(* The table of options.                                                   *)
Row(i, short, long, datatype, value, min) ==
  /\ argtable[i].short = short /\ argtable[i].long = long
  /\ argtable[i].datatype = datatype /\ argtable[i].value = value
  /\ argtable[i].mincount = min /\ argtable[i].glossary \in Nat

LEMMA ThirteenRows ==
  ASSUME NEW a, NEW b, NEW c, NEW d, NEW e, NEW f, NEW g,
         NEW h, NEW i, NEW j, NEW k, NEW l, NEW m, NEW t,
         t = <<a, b, c, d, e, f, g, h, i, j, k, l, m>>
  PROVE  /\ DOMAIN t = 1 .. 13 /\ Len(t) = 13
         /\ t[1] = a /\ t[2] = b /\ t[3] = c /\ t[4] = d /\ t[5] = e /\ t[6] = f
         /\ t[7] = g /\ t[8] = h /\ t[9] = i /\ t[10] = j /\ t[11] = k
         /\ t[12] = l /\ t[13] = m
OBVIOUS

LEMMA Table ==
  /\ DOMAIN argtable = 1 .. 13
  /\ Row(1, NULL, "help", NULL, FALSE, 0) /\ Row(2, NULL, "version", NULL, FALSE, 0)
  /\ Row(3, "u", "uid", "<n>", TRUE, 1) /\ Row(4, "m", "mnt", "<path>", TRUE, 1)
  /\ Row(5, "c", "cmd", "<cmd>", TRUE, 1) /\ Row(6, "a", "arg", "<arg>", TRUE, 0)
  /\ Row(7, "v", "verbosity", NULL, FALSE, 0)
  /\ Row(8, NULL, "veth", "<name>", TRUE, 0)
  /\ Row(9, NULL, "veth-peer", "<name>", TRUE, 0)
  /\ Row(10, NULL, "container-ip", "<ip/cidr>", TRUE, 0)
  /\ Row(11, NULL, "host-ip", "<ip/cidr>", TRUE, 0)
  /\ Row(12, NULL, "nat", NULL, FALSE, 0) /\ Row(13, NULL, "dns", "<ip>", TRUE, 0)
<1>1. /\ DOMAIN argtable = 1 .. 13
      /\ argtable[1] = arg_litn(NULL, "help", 0, 1, 21)
      /\ argtable[2] = arg_litn(NULL, "version", 0, 1, 24)
      /\ argtable[3] = arg_intn("u", "uid", "<n>", 1, 1, 24)
      /\ argtable[4] = arg_strn("m", "mnt", "<path>", 1, 1, 16)
      /\ argtable[5] = arg_strn("c", "cmd", "<cmd>", 1, 1, 18)
      /\ argtable[6] = arg_strn("a", "arg", "<arg>", 0, 1, 20)
      /\ argtable[7] = arg_litn("v", "verbosity", 0, 1, 14)
      /\ argtable[8] = arg_strn(NULL, "veth", "<name>", 0, 1, 39)
      /\ argtable[9] = arg_strn(NULL, "veth-peer", "<name>", 0, 1, 50)
      /\ argtable[10] = arg_strn(NULL, "container-ip", "<ip/cidr>", 0, 1, 44)
      /\ argtable[11] = arg_strn(NULL, "host-ip", "<ip/cidr>", 0, 1, 44)
      /\ argtable[12] = arg_litn(NULL, "nat", 0, 1, 51)
      /\ argtable[13] = arg_strn(NULL, "dns", "<ip>", 0, 1, 43)
  BY ThirteenRows DEF argtable
<1> QED
  BY <1>1 DEF Row, arg_litn, arg_intn, arg_strn, Entry

LEMMA NoneIsNull ==
  \A w \in {"u", "m", "c", "a", "v", "<n>", "<path>", "<cmd>", "<arg>", "<name>",
            "<ip/cidr>", "<ip>"} : w # NULL
BY Zenon DEF NULL

(* The words of one option.                                                *)
Names == {"help", "version", "uid", "mnt", "cmd", "arg", "verbosity", "veth",
          "veth-peer", "container-ip", "host-ip", "nat", "dns"}
ShortNames == {"u", "m", "c", "a", "v"}
Datatypes == {"<n>", "<path>", "<cmd>", "<arg>", "<name>", "<ip/cidr>", "<ip>"}

IsOption(o) ==
  /\ o.long \in Names /\ (o.short = NULL \/ o.short \in ShortNames)
  /\ o.value => o.datatype \in Datatypes
  /\ o.mincount \in {0, 1} /\ o.glossary \in Nat

LEMMA OptionsAre == \A i \in DOMAIN argtable : IsOption(argtable[i])
<1> TAKE i \in DOMAIN argtable
<1> USE Table DEF Row
<1>1. argtable[i].long \in Names
  BY DEF Names
<1>2. argtable[i].short = NULL \/ argtable[i].short \in ShortNames
  BY DEF ShortNames
<1>3. argtable[i].value => argtable[i].datatype \in Datatypes
  BY DEF Datatypes
<1>4. argtable[i].glossary \in Nat
  OBVIOUS
<1>5. argtable[i].mincount \in {0, 1}
  OBVIOUS
<1> QED BY <1>1, <1>2, <1>3, <1>4, <1>5 DEF IsOption

LEMMA WordsAre ==
  /\ Entries = Names /\ Shorts = ShortNames
  /\ {argtable[i].datatype : i \in DOMAIN argtable} \ {NULL} = Datatypes
<1>1. Entries = Names
  <2>1. \A w \in Names : \E i \in DOMAIN argtable : argtable[i].long = w
    BY Table DEF Row, Names
  <2> QED BY <2>1, OptionsAre DEF Entries, IsOption
<1>2. Shorts = ShortNames
  <2>1. \A w \in ShortNames : \E i \in DOMAIN argtable : argtable[i].short = w
    BY Table DEF Row, ShortNames
  <2>2. \A w \in ShortNames : w # NULL
    BY NoneIsNull DEF ShortNames
  <2> QED BY <2>1, <2>2, OptionsAre DEF Shorts, IsOption
<1>3. {argtable[i].datatype : i \in DOMAIN argtable} \ {NULL} = Datatypes
  <2>1. \A w \in Datatypes : \E i \in DOMAIN argtable : argtable[i].datatype = w
    BY Table DEF Row, Datatypes
  <2>2. \A i \in DOMAIN argtable :
          argtable[i].datatype = NULL \/ argtable[i].datatype \in Datatypes
    BY Table DEF Row, Datatypes
  <2>3. \A w \in Datatypes : w # NULL
    BY NoneIsNull DEF Datatypes
  <2> QED BY <2>1, <2>2, <2>3
<1> QED BY <1>1, <1>2, <1>3

-----------------------------------------------------------------------------
(* Texts without a line break. Words are the pieces of texts.              *)
Plain(t) == t \in Texts /\ \A i \in 1 .. Len(t) : t[i].piece # "\n"

LEMMA OnePiece ==
  ASSUME NEW w \in STRING, NEW k \in Nat
  PROVE  /\ Chars(w, k) \in Texts /\ Len(Chars(w, k)) = 1 /\ Length(Chars(w, k)) = k
         /\ Chars(w, k)[1].piece = w /\ Chars(w, k)[1].kept = k
         /\ w # "\n" => Plain(Chars(w, k))
<1> DEFINE p == [piece |-> w, kept |-> k]
           t == <<p>>
<1>1. p \in Pieces /\ p.piece = w /\ p.kept = k
  BY DEF Pieces
<1> HIDE DEF p
<1>2. t \in Seq(Pieces) /\ Len(t) = 1 /\ t[1] = p
  BY <1>1
<1> HIDE DEF t
<1>3. t \in Texts /\ t[1].kept = k
  BY <1>1, <1>2 DEF Texts
<1>4. Length(t) = k
  <2>1. Ends(t)[1] = Ends(t)[1 - 1] + t[1].kept /\ Ends(t)[0] = 0
    BY <1>2, <1>3, EndsAddUp
  <2> QED BY <1>2, <1>3, <2>1 DEF Length
<1>5. t = Chars(w, k)
  BY DEF t, p, Chars
<1>6. t[1].piece = w
  BY <1>1, <1>2
<1>7. w # "\n" => Plain(t)
  BY <1>2, <1>3, <1>6 DEF Plain
<1> QED BY <1>2, <1>3, <1>4, <1>5, <1>6, <1>7

LEMMA WordIsText ==
  ASSUME NEW w \in Words
  PROVE  /\ Lit(w) \in Texts /\ Len(Lit(w)) = 1 /\ Length(Lit(w)) = Len(w)
         /\ Lit(w)[1].piece = w /\ Lit(w)[1].kept = Len(w) /\ Len(w) \in 1 .. 28
         /\ w # "\n" => Plain(Lit(w))
<1>1. w \in STRING
  BY WordsAssumption
<1>2. Len(w) \in 1 .. 28
  BY WordsAssumption
<1>3. Lit(w) = Chars(w, Len(w))
  BY DEF Lit, Chars
<1> QED BY <1>1, <1>2, <1>3, OnePiece

LEMMA PlainTexts ==
  /\ \A s, t : Plain(s) /\ Plain(t) => Plain(s \o t)
  /\ \A t, k : Plain(t) /\ k \in Nat => Plain(Cut(t, k))
  /\ Plain(<<>>)
<1>1. ASSUME NEW s, NEW t, Plain(s), Plain(t) PROVE Plain(s \o t)
  <2>1. s \in Texts /\ t \in Texts /\ Len(s) \in Nat /\ Len(t) \in Nat
    BY <1>1, PieceOf DEF Plain
  <2>2. \A i \in 1 .. Len(s \o t) : i \in 1 .. Len(s)
                                   \/ (i - Len(s) \in 1 .. Len(t) /\ i = Len(s) + (i - Len(s)))
    BY <2>1, JoinedTexts
  <2> QED BY <1>1, <2>1, <2>2, JoinedTexts DEF Plain
<1>2. ASSUME NEW t, NEW k \in Nat, Plain(t) PROVE Plain(Cut(t, k))
  <2>1. \A p \in Pieces : \A x : [p EXCEPT !.kept = x].piece = p.piece
    BY DEF Pieces
  <2>2. \A i \in 1 .. Len(t) : Cut(t, k)[i].piece = t[i].piece
    <3> TAKE i \in 1 .. Len(t)
    <3>1. t[i] \in Pieces
      BY <1>2, PieceOf DEF Plain
    <3>2. t \in Texts
      BY <1>2 DEF Plain
    <3>3. Cut(t, k)[i] = [t[i] EXCEPT !.kept = Within(k - Ends(t)[i - 1], 0, t[i].kept)]
      BY <3>2, CutIsText
    <3> QED BY <2>1, <3>1, <3>3
  <2> QED BY <1>2, <2>2, CutIsText DEF Plain
<1>3. Plain(<<>>)
  BY LengthIsNat DEF Plain
<1> QED BY <1>1, <1>2, <1>3

FixedWords ==
  {"-", "--", "|", ", ", " ", "  ", " -", "=", "[", "]", "(", "\"", "barco: ",
   "too many errors to display", "unexpected argument \"", "option \"",
   "\" requires an argument", "invalid option \"", "invalid option \"-",
   "missing option ", "excess option ", "invalid argument \"", "\" to option ",
   "integer overflow at option ", " is too large)", "extraneous option "}

LEMMA PlainWords ==
  /\ \A w \in FixedWords \cup Names \cup ShortNames \cup Datatypes :
       Plain(Lit(w)) /\ w \in Words
  /\ \A w \in {"argval", "letter", "blanks", "glossary"} : \A k \in Nat :
       Plain(Chars(w, k))
  /\ Lit("\n") \in Texts /\ "\n" \in Words
<1>1. FixedWords \cup Names \cup ShortNames \cup Datatypes \subseteq Words
  BY WordsAre DEF Words, FixedWords
<1>2. "\n" \in Words
  BY DEF Words
<1>3. "\n" \notin FixedWords /\ "\n" \notin Names
  BY DEF FixedWords, Names
<1>4. "\n" \notin ShortNames /\ "\n" \notin Datatypes
  BY DEF ShortNames, Datatypes
<1>5. \A w \in {"argval", "letter", "blanks", "glossary"} : w \in STRING /\ w # "\n"
  BY WordsAssumption
<1> QED BY <1>1, <1>2, <1>3, <1>4, <1>5, WordIsText, OnePiece

LEMMA CatIsPlain ==
  ASSUME NEW s, NEW t, Plain(s), Plain(t)
  PROVE  /\ Plain(s \o t) /\ Plain(Join(s, t)) /\ Plain(arg_cat(s, t))
         /\ Plain(strncat(s, t)) /\ Length(arg_cat(s, t)) <= Room - 1
<1>1. Plain(s \o t)
  BY PlainTexts
<1>2. 198 \in Nat /\ 199 \in Nat /\ Room = 199 /\ Room - 1 = 198
  BY DEF Room
<1>3. s \o t \in Texts /\ Length(s \o t) \in Nat
  BY <1>1, LengthIsNat DEF Plain
<1>4. Length(Cut(s \o t, 198)) <= 198
  BY <1>2, <1>3, CutLength
<1> QED BY <1>1, <1>2, <1>4, PlainTexts DEF arg_cat, strncat, Join

LEMMA OptionIsPlain ==
  ASSUME NEW o, IsOption(o)
  PROVE  /\ Plain(Datatype(o)) /\ Plain(arg_cat_option(o))
         /\ \A value, separator : Plain(value) /\ separator \in {"|", ", "} =>
              Plain(arg_cat_optionv(o, value, separator))
<1>1. \A s, sign, value : Plain(s) /\ sign \in {" ", "="} /\ Plain(value) =>
        Plain(Valued(s, sign, value))
  BY CatIsPlain, PlainWords DEF Valued, FixedWords
<1>2. Plain(Datatype(o)) /\ Plain(Lit(o.long))
  BY PlainTexts, PlainWords DEF IsOption, Datatype
<1>3. o.short # NULL => Plain(Lit(o.short))
  BY PlainWords DEF IsOption
<1>4. Plain(Lit("-")) /\ Plain(Lit("--"))
  BY PlainWords DEF FixedWords
<1>5. Plain(arg_cat_option(o))
  <2>1. CASE o.short # NULL
    <3>1. Plain(arg_cat(Lit("-"), Lit(o.short)))
      BY <1>3, <1>4, <2>1, CatIsPlain
    <3> QED BY <1>1, <1>2, <2>1, <3>1 DEF arg_cat_option, Datatype
  <2>2. CASE o.short = NULL
    <3>1. Plain(strncat(Lit("--"), Lit(o.long)))
      BY <1>2, <1>4, CatIsPlain
    <3> QED BY <1>1, <1>2, <2>2, <3>1 DEF arg_cat_option, Datatype
  <2> QED BY <2>1, <2>2
<1>6. ASSUME NEW value, NEW separator \in {"|", ", "}, Plain(value)
      PROVE  Plain(arg_cat_optionv(o, value, separator))
  <2> DEFINE letter == IF o.short = NULL THEN <<>>
                       ELSE arg_cat(arg_cat(Lit("-"), Lit(o.short)), Lit(separator))
  <2>1. Plain(Lit(separator))
    BY PlainWords DEF FixedWords
  <2>2. Plain(letter)
    BY <1>3, <1>4, <2>1, CatIsPlain, PlainTexts
  <2> HIDE DEF letter
  <2>3. Plain(strncat(arg_cat(letter, Lit("--")), Lit(o.long)))
    BY <1>2, <1>4, <2>2, CatIsPlain
  <2> QED BY <1>1, <1>6, <2>3 DEF arg_cat_optionv, letter
<1> QED BY <1>2, <1>5, <1>6

(* The argument of an excess option is shown in full, or it fills syntax[]. *)
ShowsIn(t, k, full) ==
  \E i \in 1 .. Len(t) :
    t[i].piece = "argval" /\ (t[i].kept = k \/ (full /\ Length(t) = Room - 1))

LEMMA ValueIsShown ==
  ASSUME NEW o, IsOption(o), NEW k \in Nat
  PROVE  ShowsIn(arg_cat_optionv(o, Chars("argval", k), "|"), k, TRUE)
<1> DEFINE letter == IF o.short = NULL THEN <<>>
                     ELSE arg_cat(arg_cat(Lit("-"), Lit(o.short)), Lit("|"))
           name == strncat(arg_cat(letter, Lit("--")), Lit(o.long))
           s == arg_cat(name, Lit("="))
           v == Chars("argval", k)
           t == s \o v
<1>1. Plain(name)
  <2>1. Plain(Lit(o.long)) /\ (o.short # NULL => Plain(Lit(o.short)))
    BY PlainWords DEF IsOption
  <2>2. Plain(Lit("-")) /\ Plain(Lit("--")) /\ Plain(Lit("|"))
    BY PlainWords DEF FixedWords
  <2>3. Plain(letter)
    BY <2>1, <2>2, CatIsPlain, PlainTexts
  <2> HIDE DEF letter
  <2> QED BY <2>1, <2>2, <2>3, CatIsPlain
<1> HIDE DEF name
<1>2. Plain(s) /\ Length(s) <= 198
  <2>1. Plain(Lit("="))
    BY PlainWords DEF FixedWords
  <2> QED BY <1>1, <2>1, CatIsPlain DEF Room
<1>3. /\ Plain(v) /\ Len(v) = 1 /\ Length(v) = k /\ v # <<>>
      /\ v[1].piece = "argval" /\ v[1].kept = k
  <2>1. v # <<>>
    BY DEF Chars
  <2>2. "argval" \in STRING
    BY WordsAssumption
  <2> HIDE DEF v
  <2> QED BY <2>1, <2>2, OnePiece, PlainWords DEF v
<1>4. arg_cat_optionv(o, v, "|") = Cut(t, 198)
  <2>1. v # <<>>
    BY <1>3
  <2> HIDE DEF v
  <2> QED BY <2>1 DEF arg_cat_optionv, Valued, arg_cat, Room, name
<1> HIDE DEF s, v
<1>5. s \in Texts /\ v \in Texts /\ Len(s) \in Nat /\ Length(s) \in Nat
  BY <1>2, <1>3, PieceOf, LengthIsNat DEF Plain
<1>6. /\ t \in Texts /\ Len(t) = Len(s) + 1 /\ Length(t) = Length(s) + k
      /\ t[Len(s) + 1] = v[1]
  <2>1. /\ t \in Texts /\ Len(t) = Len(s) + Len(v)
        /\ \A i \in 1 .. Len(v) : t[Len(s) + i] = v[i]
    BY <1>5, JoinedTexts
  <2>2. Length(t) = Length(s) + Length(v)
    BY <1>5, LengthOfBoth
  <2> HIDE DEF t
  <2> QED BY <1>3, <2>1, <2>2
<1> HIDE DEF t
<1>7. Ends(t)[Len(s)] = Length(s)
  <2>1. /\ Ends(t) \in [0 .. Len(t) -> Nat]
        /\ Ends(t)[Len(s) + 1] = Ends(t)[Len(s) + 1 - 1] + t[Len(s) + 1].kept
    <3>1. Len(s) + 1 \in 1 .. Len(t)
      BY <1>5, <1>6
    <3> QED BY <1>6, <3>1, EndsAddUp
  <2>2. Ends(t)[Len(s) + 1] = Length(t) /\ Len(s) + 1 - 1 = Len(s) /\ Len(s) \in 0 .. Len(t)
    BY <1>5, <1>6 DEF Length
  <2>3. Ends(t)[Len(s)] \in Nat
    BY <2>1, <2>2
  <2> QED BY <1>3, <1>5, <1>6, <2>1, <2>2, <2>3
<1>8. /\ Len(Cut(t, 198)) = Len(s) + 1
      /\ Cut(t, 198)[Len(s) + 1].kept = Within(198 - Length(s), 0, k)
      /\ Cut(t, 198)[Len(s) + 1].piece = "argval"
  <2>1. Len(s) + 1 \in 1 .. Len(t) /\ Len(s) + 1 - 1 = Len(s) /\ 198 \in Nat
    BY <1>5, <1>6
  <2>2. t[Len(s) + 1] \in Pieces
    BY <1>6, <2>1, PieceOf
  <2>3. \A x : [t[Len(s) + 1] EXCEPT !.kept = x].piece = t[Len(s) + 1].piece
    BY <2>2 DEF Pieces
  <2>4. Cut(t, 198)[Len(s) + 1] =
          [t[Len(s) + 1] EXCEPT !.kept =
             Within(198 - Ends(t)[Len(s) + 1 - 1], 0, t[Len(s) + 1].kept)]
        /\ Cut(t, 198)[Len(s) + 1].kept =
             Within(198 - Ends(t)[Len(s) + 1 - 1], 0, t[Len(s) + 1].kept)
        /\ Len(Cut(t, 198)) = Len(t)
    BY <1>6, <2>1, CutIsText
  <2>5. Cut(t, 198)[Len(s) + 1].piece = t[Len(s) + 1].piece
    <3> DEFINE w == Within(198 - Ends(t)[Len(s) + 1 - 1], 0, t[Len(s) + 1].kept)
    <3>1. Cut(t, 198)[Len(s) + 1] = [t[Len(s) + 1] EXCEPT !.kept = w]
      BY <2>4
    <3>2. [t[Len(s) + 1] EXCEPT !.kept = w].piece = t[Len(s) + 1].piece
      BY <2>3
    <3> HIDE DEF w
    <3> QED BY ONLY <3>1, <3>2, Zenon
  <2> QED BY <1>3, <1>6, <1>7, <2>1, <2>4, <2>5
<1>9. Length(Cut(t, 198)) = IF Length(s) + k < 198 THEN Length(s) + k ELSE 198
  <2>1. 198 \in Nat
    OBVIOUS
  <2> QED BY <1>6, <2>1, CutLength
<1>10. \/ Cut(t, 198)[Len(s) + 1].kept = k
       \/ Length(Cut(t, 198)) = 198
  BY <1>2, <1>5, <1>8, <1>9 DEF Within
<1>11. ShowsIn(Cut(t, 198), k, TRUE)
  <2>1. Len(s) + 1 \in 1 .. Len(Cut(t, 198))
    BY <1>5, <1>8
  <2> QED BY <1>8, <1>10, <2>1 DEF ShowsIn, Room
<1> QED BY <1>4, <1>11 DEF v

-----------------------------------------------------------------------------
(* Calls that make a text, and calls that make a line of one.              *)
Says(c, t) == c \in Seq(Call) /\ Plain(t) /\ Contents(c) = t
SaysLine(c, t) ==
  c \in Seq(Call) /\ Plain(t) /\ Contents(c) = Join(t, Lit("\n"))

LEMMA SaysOne ==
  /\ \A t : \A f \in Nat : Plain(t) => /\ Says(cat(t), t) /\ Says(catf(f, t), t)
                                       /\ SaysLine(catf(f, t \o Lit("\n")), t)
  /\ SaysLine(cat(Lit("\n")), <<>>)
<1>1. ASSUME NEW t, NEW f \in Nat, Plain(t)
      PROVE  /\ Says(cat(t), t) /\ Says(catf(f, t), t)
             /\ SaysLine(catf(f, t \o Lit("\n")), t)
  <2>1. t \in Texts /\ t \o Lit("\n") \in Texts
    BY <1>1, PlainWords, JoinedTexts DEF Plain
  <2> QED BY <1>1, <2>1, ContentsOne DEF Says, SaysLine, Join
<1>2. SaysLine(cat(Lit("\n")), <<>>)
  <2>1. 0 \in Nat /\ Lit("\n") \in Texts /\ Plain(<<>>)
    BY PlainWords, PlainTexts
  <2>2. cat(Lit("\n")) \in Seq(Call) /\ Contents(cat(Lit("\n"))) = Lit("\n")
    BY <2>1, ContentsOne
  <2>3. Join(<<>>, Lit("\n")) = Lit("\n")
    BY <2>1, TextsJoin
  <2> QED BY <2>1, <2>2, <2>3 DEF SaysLine
<1> QED BY <1>1, <1>2

LEMMA SaysBoth ==
  ASSUME NEW c, NEW d, NEW s, NEW t, Says(c, s)
  PROVE  /\ Says(d, t) => Says(c \o d, Join(s, t))
         /\ SaysLine(d, t) => SaysLine(c \o d, Join(s, t))
<1>1. c \in Seq(Call) /\ Plain(s) /\ s \in Texts /\ Contents(c) = s
  BY DEF Says, Plain
<1>2. ASSUME Says(d, t) PROVE Says(c \o d, Join(s, t))
  <2>1. d \in Seq(Call) /\ Plain(t) /\ Contents(d) = t
    BY <1>2 DEF Says
  <2>2. Plain(Join(s, t))
    BY <1>1, <2>1, CatIsPlain
  <2> QED BY <1>1, <2>1, <2>2, ContentsBoth DEF Says
<1>3. ASSUME SaysLine(d, t) PROVE SaysLine(c \o d, Join(s, t))
  <2>1. d \in Seq(Call) /\ Plain(t) /\ Contents(d) = Join(t, Lit("\n"))
    BY <1>3 DEF SaysLine
  <2>2. Plain(Join(s, t)) /\ t \in Texts /\ Lit("\n") \in Texts
    BY <1>1, <2>1, CatIsPlain, PlainWords DEF Plain
  <2>3. Join(s, Join(t, Lit("\n"))) = Join(Join(s, t), Lit("\n"))
    BY <1>1, <2>2, TextsJoin
  <2>4. c \o d \in Seq(Call) /\ Contents(c \o d) = Join(s, Join(t, Lit("\n")))
    BY <1>1, <2>1, ContentsBoth
  <2> QED BY <2>2, <2>3, <2>4 DEF SaysLine
<1> QED BY <1>2, <1>3

(* A line that ends with what is a line of its own.                        *)
LEMMA SaysAndEnds ==
  ASSUME NEW c, NEW s, Says(c, s)
  PROVE  SaysLine(c \o cat(Lit("\n")), s)
<1>1. SaysLine(c \o cat(Lit("\n")), Join(s, <<>>))
  BY SaysOne, SaysBoth
<1>2. Join(s, <<>>) = s
  BY LengthIsNat, TextsJoin DEF Says, Plain
<1> QED BY <1>1, <1>2

LEMMA OptionOf ==
  ASSUME NEW p \in Entries
  PROVE  /\ IsOption(Option(p)) /\ (Option(p).value <=> p \notin Flags)
         /\ p \notin Flags => (Option(p).datatype = "<n>" <=> p = "uid")
<1>1. \E i \in DOMAIN argtable : argtable[i].long = p
  BY DEF Entries
<1>2. PICK i \in DOMAIN argtable : Option(p) = argtable[i] /\ argtable[i].long = p
  BY <1>1 DEF Option
<1>3. \A j \in DOMAIN argtable : argtable[j].long = p => j = i
  BY <1>2, Table DEF Row
<1>4. argtable[i].value <=> p \notin Flags
  BY <1>2, <1>3 DEF Flags
<1>5. argtable[i].value => (argtable[i].datatype = "<n>" <=> argtable[i].long = "uid")
  BY <1>2, Table DEF Row
<1> QED BY <1>2, <1>4, <1>5, OptionsAre

-----------------------------------------------------------------------------
(* What the errorfns say: one line, after the name of the program, with    *)
(* the argument.                                                           *)
IsError(e) ==
  /\ e.parent \in Entries \cup {"end"} /\ e.argval \in Nat
  /\ e.error \in Codes(e.parent)

Speaks(e) == e.error \in HasArgument /\ e.parent \notin Flags
Rest(r, e) ==
  /\ Plain(r)
  /\ Speaks(e) =>
       ShowsIn(r, e.argval, FALSE)
       \/ \E s : /\ Plain(s) /\ r = Join(Lit("excess option "), s)
                 /\ e.error = "MAXCOUNT" /\ ShowsIn(s, e.argval, TRUE)

LEMMA ShowsBoth ==
  ASSUME NEW s, NEW t, Plain(s), Plain(t), NEW k
  PROVE  ShowsIn(s, k, FALSE) \/ ShowsIn(t, k, FALSE) => ShowsIn(Join(s, t), k, FALSE)
<1> DEFINE b == s \o t
<1>1. /\ Len(s) \in Nat /\ Len(t) \in Nat /\ Len(b) = Len(s) + Len(t)
      /\ \A i \in 1 .. Len(s) : b[i] = s[i]
      /\ \A i \in 1 .. Len(t) : b[Len(s) + i] = t[i]
  BY JoinedTexts, PieceOf DEF Plain
<1> HIDE DEF b
<1>2. \A i \in 1 .. Len(s) : i \in 1 .. Len(b)
  BY <1>1
<1>3. \A i \in 1 .. Len(t) : Len(s) + i \in 1 .. Len(b)
  BY <1>1
<1>4. ShowsIn(s, k, FALSE) => ShowsIn(b, k, FALSE)
  BY <1>1, <1>2 DEF ShowsIn
<1>5. ShowsIn(t, k, FALSE) => ShowsIn(b, k, FALSE)
  BY <1>1, <1>3 DEF ShowsIn
<1> QED BY <1>4, <1>5 DEF b, Join

LEMMA ArgvalShown ==
  ASSUME NEW e, IsError(e)
  PROVE  Plain(Argval(e)) /\ ShowsIn(Argval(e), e.argval, FALSE)
<1>1. e.argval \in Nat /\ "argval" \in STRING
  BY WordsAssumption DEF IsError
<1>2. /\ Len(Argval(e)) = 1 /\ Argval(e)[1].piece = "argval"
      /\ Argval(e)[1].kept = e.argval
  BY <1>1, OnePiece DEF Argval
<1>3. 1 \in 1 .. Len(Argval(e))
  BY <1>2
<1> QED BY <1>1, <1>2, <1>3, PlainWords DEF ShowsIn, Argval

(* An argument between two words.                                          *)
LEMMA Quoted ==
  ASSUME NEW e, IsError(e), NEW u \in FixedWords, NEW w \in FixedWords
  PROVE  /\ Plain(Lit(u) \o Argval(e) \o Lit(w))
         /\ ShowsIn(Lit(u) \o Argval(e) \o Lit(w), e.argval, FALSE)
<1>1. Plain(Lit(u)) /\ Plain(Lit(w)) /\ Plain(Argval(e))
      /\ ShowsIn(Argval(e), e.argval, FALSE)
  BY ArgvalShown, PlainWords
<1>2. Plain(Join(Lit(u), Argval(e))) /\ ShowsIn(Join(Lit(u), Argval(e)), e.argval, FALSE)
  BY <1>1, CatIsPlain, ShowsBoth
<1>3. /\ Plain(Join(Join(Lit(u), Argval(e)), Lit(w)))
      /\ ShowsIn(Join(Join(Lit(u), Argval(e)), Lit(w)), e.argval, FALSE)
  BY <1>1, <1>2, CatIsPlain, ShowsBoth
<1> QED BY <1>3 DEF Join

LEMMA EndSays ==
  ASSUME NEW e, IsError(e), e.parent = "end"
  PROVE  \E r : Rest(r, e) /\ SaysLine(arg_end_errorfn(e), Join(Lit("barco: "), r))
<1> DEFINE c == CASE e.error = "ELIMIT" -> cat(Lit("too many errors to display"))
                  [] e.error = "ENOMATCH" ->
                       catf(24, Lit("unexpected argument \"") \o Argval(e) \o Lit("\""))
                  [] e.error = "EMISSARG" ->
                       catf(32, Lit("option \"") \o Argval(e) \o Lit("\" requires an argument"))
                  [] e.error = "ELONGOPT" ->
                       catf(19, Lit("invalid option \"") \o Argval(e) \o Lit("\""))
                  [] OTHER -> catf(20, Lit("invalid option \"-") \o Chars("letter", 1) \o Lit("\""))
<1>1. e.error \in {"ELIMIT", "ENOMATCH", "EMISSARG", "ELONGOPT", "letter"}
  BY DEF IsError, Codes
<1>2. 19 \in Nat /\ 20 \in Nat /\ 24 \in Nat /\ 32 \in Nat /\ 4 \in Nat
  OBVIOUS
<1>3. \E r : Rest(r, e) /\ Says(c, r)
  <2>1. CASE e.error = "ELIMIT"
    <3> DEFINE r == Lit("too many errors to display")
    <3>1. Plain(r)
      BY PlainWords DEF FixedWords
    <3>2. ~ Speaks(e)
      BY <2>1 DEF Speaks, HasArgument
    <3>3. c = cat(r)
      BY <2>1
    <3> HIDE DEF r, c
    <3> QED BY <1>2, <3>1, <3>2, <3>3, SaysOne DEF Rest
  <2>2. ASSUME NEW u \in FixedWords, NEW w \in FixedWords, NEW f \in Nat,
               c = catf(f, Lit(u) \o Argval(e) \o Lit(w))
        PROVE  \E r : Rest(r, e) /\ Says(c, r)
    <3> DEFINE r == Lit(u) \o Argval(e) \o Lit(w)
    <3>1. Plain(r) /\ ShowsIn(r, e.argval, FALSE)
      BY Quoted
    <3>2. c = catf(f, r)
      BY <2>2
    <3> HIDE DEF r, c
    <3> QED BY <3>1, <3>2, SaysOne DEF Rest
  <2>3. CASE e.error = "ENOMATCH"
    <3>1. "unexpected argument \"" \in FixedWords /\ "\"" \in FixedWords
      BY DEF FixedWords
    <3>2. c = catf(24, Lit("unexpected argument \"") \o Argval(e) \o Lit("\""))
      BY <2>3
    <3> HIDE DEF c
    <3> QED BY <1>2, <2>2, <3>1, <3>2
  <2>4. CASE e.error = "EMISSARG"
    <3>1. "option \"" \in FixedWords /\ "\" requires an argument" \in FixedWords
      BY DEF FixedWords
    <3>2. c = catf(32, Lit("option \"") \o Argval(e) \o Lit("\" requires an argument"))
      BY <2>4
    <3> HIDE DEF c
    <3> QED BY <1>2, <2>2, <3>1, <3>2
  <2>5. CASE e.error = "ELONGOPT"
    <3>1. "invalid option \"" \in FixedWords /\ "\"" \in FixedWords
      BY DEF FixedWords
    <3>2. c = catf(19, Lit("invalid option \"") \o Argval(e) \o Lit("\""))
      BY <2>5
    <3> HIDE DEF c
    <3> QED BY <1>2, <2>2, <3>1, <3>2
  <2>6. CASE e.error = "letter"
    <3> DEFINE u == Lit("invalid option \"-")
               w == Lit("\"")
               l == Chars("letter", 1)
               r == u \o l \o w
    <3>1. Plain(u) /\ Plain(w) /\ Plain(l)
      BY PlainWords DEF FixedWords
    <3>2. ~ Speaks(e)
      BY <2>6 DEF Speaks, HasArgument
    <3>3. c = catf(20, r)
      BY <2>6
    <3> HIDE DEF u, w, l, c
    <3>4. Plain(r)
      BY <3>1, CatIsPlain
    <3> HIDE DEF r
    <3> QED BY <1>2, <3>2, <3>3, <3>4, SaysOne DEF Rest
  <2> QED BY <1>1, <2>1, <2>3, <2>4, <2>5, <2>6
<1>4. Says(Who, Lit("barco: "))
  BY <1>2, SaysOne, PlainWords DEF Who, FixedWords
<1>5. arg_end_errorfn(e) = Who \o c \o cat(Lit("\n"))
  BY DEF arg_end_errorfn
<1> HIDE DEF c
<1> QED BY <1>3, <1>4, <1>5, SaysBoth, SaysAndEnds

(* An option as arg_print_option() adds it, at the end of a line or not.   *)
LEMMA OptionSays ==
  ASSUME NEW o, IsOption(o), NEW value, Plain(value)
  PROVE  LET v == arg_cat_optionv(o, value, "|") IN
         /\ Plain(v) /\ SaysLine(arg_print_option(o, value, "\n"), v)
         /\ Says(arg_print_option(o, value, " "), Join(v, Lit(" ")))
<1> DEFINE v == arg_cat_optionv(o, value, "|")
<1>1. Plain(v)
  <2>1. "|" \in {"|", ", "}
    OBVIOUS
  <2> QED BY <2>1, OptionIsPlain
<1>2. /\ arg_print_option(o, value, "\n") = cat(v) \o cat(Lit("\n"))
      /\ arg_print_option(o, value, " ") = cat(v) \o cat(Lit(" "))
  BY DEF arg_print_option
<1>3. Plain(Lit(" ")) /\ 0 \in Nat
  BY PlainWords DEF FixedWords
<1> HIDE DEF v
<1>4. Says(cat(v), v) /\ Says(cat(Lit(" ")), Lit(" "))
  BY <1>1, <1>3, SaysOne
<1>5. SaysLine(arg_print_option(o, value, "\n"), v)
  BY <1>2, <1>4, SaysAndEnds
<1>6. Says(arg_print_option(o, value, " "), Join(v, Lit(" ")))
  BY <1>2, <1>4, SaysBoth
<1> QED BY <1>1, <1>5, <1>6 DEF v

(* The calls that "missing option" and "excess option" consist of.         *)
LEMMA CountSays ==
  ASSUME NEW e, IsError(e), NEW o, IsOption(o)
  PROVE  /\ e.error = "MINCOUNT" => \E r : Rest(r, e) /\ SaysLine(
              cat(Lit("missing option ")) \o arg_print_option(o, Datatype(o), "\n"), r)
         /\ e.error = "MAXCOUNT" => \E r : Rest(r, e) /\ SaysLine(
              cat(Lit("excess option ")) \o arg_print_option(o, Argval(e), "\n"), r)
<1> DEFINE m == Lit("missing option ")
           x == Lit("excess option ")
<1>1. Plain(m) /\ Plain(x) /\ 0 \in Nat
  BY PlainWords DEF FixedWords
<1>2. Says(cat(m), m) /\ Says(cat(x), x)
  <2> HIDE DEF m, x
  <2> QED BY <1>1, SaysOne
<1>3. CASE e.error = "MINCOUNT"
  <2> DEFINE v == arg_cat_optionv(o, Datatype(o), "|")
             p == arg_print_option(o, Datatype(o), "\n")
  <2>1. Plain(v) /\ SaysLine(p, v)
    BY OptionIsPlain, OptionSays
  <2>2. ~ Speaks(e)
    BY <1>3 DEF Speaks, HasArgument
  <2> HIDE DEF m, v, p
  <2>3. SaysLine(cat(m) \o p, Join(m, v)) /\ Plain(Join(m, v))
    BY <1>1, <1>2, <2>1, SaysBoth, CatIsPlain
  <2>4. \E r : Rest(r, e) /\ SaysLine(cat(m) \o p, r)
    BY <2>2, <2>3 DEF Rest
  <2>5. e.error # "MAXCOUNT"
    BY <1>3
  <2> QED BY <2>4, <2>5 DEF m, p
<1>4. CASE e.error = "MAXCOUNT"
  <2> DEFINE v == arg_cat_optionv(o, Argval(e), "|")
             p == arg_print_option(o, Argval(e), "\n")
  <2>1. Plain(v) /\ SaysLine(p, v)
    BY ArgvalShown, OptionSays
  <2>2. ShowsIn(v, e.argval, TRUE)
    BY ValueIsShown DEF IsError, Argval
  <2> HIDE DEF v, p
  <2>3. SaysLine(cat(x) \o p, Join(x, v)) /\ Plain(Join(x, v))
    <3> HIDE DEF x
    <3> QED BY <1>1, <1>2, <2>1, SaysBoth, CatIsPlain
  <2>4. Rest(Join(x, v), e)
    BY <1>4, <2>1, <2>2, <2>3 DEF Rest
  <2>5. \E r : Rest(r, e) /\ SaysLine(cat(x) \o p, r)
    BY <2>3, <2>4
  <2>6. e.error # "MINCOUNT"
    BY <1>4
  <2> QED BY <2>5, <2>6 DEF x, p
<1> QED BY <1>3, <1>4

LEMMA WhoSays ==
  ASSUME NEW c, NEW r, SaysLine(c, r)
  PROVE  SaysLine(Who \o c, Join(Lit("barco: "), r))
<1>1. Plain(Lit("barco: ")) /\ 4 \in Nat
  BY PlainWords DEF FixedWords
<1>2. Says(Who, Lit("barco: "))
  BY <1>1, SaysOne DEF Who
<1> QED BY <1>2, SaysBoth

LEMMA IntSays ==
  ASSUME NEW e, IsError(e), e.parent = "uid", NEW o, IsOption(o)
  PROVE  \E r : Rest(r, e) /\ SaysLine(arg_int_errorfn(o, e), Join(Lit("barco: "), r))
<1>1. e.error \in {"MINCOUNT", "MAXCOUNT", "BADINT", "OVERFLOW"}
  <2>1. e.parent # "end"
    OBVIOUS
  <2>2. "uid" \notin Flags
    <3>1. \A i \in DOMAIN argtable : argtable[i].long = "uid" => argtable[i].value
      BY Table DEF Row
    <3> QED BY <3>1 DEF Flags
  <2> QED BY <2>1, <2>2 DEF IsError, Codes
<1> DEFINE d == arg_print_option(o, Datatype(o), "\n")
           b == arg_print_option(o, Datatype(o), " ")
           v == arg_cat_optionv(o, Datatype(o), "|")
<1>2. /\ Plain(v) /\ SaysLine(d, v) /\ Says(b, Join(v, Lit(" ")))
      /\ Plain(Lit(" "))
  BY OptionIsPlain, OptionSays, PlainWords DEF FixedWords
<1> SUFFICES \E c : /\ arg_int_errorfn(o, e) = Who \o c
                    /\ \E r : Rest(r, e) /\ SaysLine(c, r)
  BY WhoSays
<1>3. CASE e.error = "MINCOUNT"
  <2>1. arg_int_errorfn(o, e) = Who \o
          (cat(Lit("missing option ")) \o arg_print_option(o, Datatype(o), "\n"))
    BY <1>3 DEF arg_int_errorfn
  <2> QED BY <1>3, <2>1, CountSays
<1>4. CASE e.error = "MAXCOUNT"
  <2>1. arg_int_errorfn(o, e) = Who \o
          (cat(Lit("excess option ")) \o arg_print_option(o, Argval(e), "\n"))
    BY <1>4 DEF arg_int_errorfn
  <2> QED BY <1>4, <2>1, CountSays
<1>5. CASE e.error = "BADINT"
  <2> DEFINE q == Lit("invalid argument \"") \o Argval(e) \o Lit("\" to option ")
  <2>1. arg_int_errorfn(o, e) = Who \o (catf(32, q) \o d)
    BY <1>5 DEF arg_int_errorfn
  <2>2. Plain(q) /\ ShowsIn(q, e.argval, FALSE)
    BY Quoted DEF FixedWords
  <2> HIDE DEF q, d, v
  <2>3. Says(catf(32, q), q)
    <3>1. 32 \in Nat
      OBVIOUS
    <3> QED BY <2>2, <3>1, SaysOne
  <2>4. SaysLine(catf(32, q) \o d, Join(q, v)) /\ Plain(Join(q, v))
    BY <1>2, <2>2, <2>3, SaysBoth, CatIsPlain
  <2>5. Rest(Join(q, v), e)
    BY <1>2, <2>2, <2>4, ShowsBoth DEF Rest
  <2> QED BY <2>1, <2>4, <2>5
<1>6. CASE e.error = "OVERFLOW"
  <2> DEFINE x == Lit("integer overflow at option ")
             q == Lit("(") \o Argval(e) \o Lit(" is too large)")
             first == cat(x) \o b
             r == Join(x, Join(v, Lit(" ")))
  <2>1. arg_int_errorfn(o, e) = Who \o (first \o catf(18, q \o Lit("\n")))
    BY <1>6 DEF arg_int_errorfn
  <2>2. Plain(q) /\ ShowsIn(q, e.argval, FALSE)
    BY Quoted DEF FixedWords
  <2>3. Plain(x)
    BY PlainWords DEF FixedWords
  <2> HIDE DEF q, x, b, v
  <2>4. Says(cat(x), x) /\ SaysLine(catf(18, q \o Lit("\n")), q)
    <3>1. 18 \in Nat
      OBVIOUS
    <3> QED BY <2>2, <2>3, <3>1, SaysOne
  <2>5. Says(first, r) /\ Plain(r)
    <3>1. Plain(Join(v, Lit(" ")))
      BY <1>2, CatIsPlain
    <3> QED BY <1>2, <2>3, <2>4, <3>1, SaysBoth, CatIsPlain
  <2> HIDE DEF first, r
  <2>6. SaysLine(first \o catf(18, q \o Lit("\n")), Join(r, q)) /\ Plain(Join(r, q))
    BY <2>2, <2>4, <2>5, SaysBoth, CatIsPlain
  <2>7. Rest(Join(r, q), e)
    BY <2>2, <2>5, <2>6, ShowsBoth DEF Rest
  <2> QED BY <2>1, <2>6, <2>7
<1> QED BY <1>1, <1>3, <1>4, <1>5, <1>6

LEMMA StrSays ==
  ASSUME NEW e, IsError(e), e.error \in {"MINCOUNT", "MAXCOUNT"}, NEW o, IsOption(o)
  PROVE  \E r : Rest(r, e) /\ SaysLine(arg_str_errorfn(o, e), Join(Lit("barco: "), r))
<1> SUFFICES \E c : /\ arg_str_errorfn(o, e) = Who \o c
                    /\ \E r : Rest(r, e) /\ SaysLine(c, r)
  BY WhoSays
<1>1. CASE e.error = "MINCOUNT"
  <2>1. arg_str_errorfn(o, e) = Who \o
          (cat(Lit("missing option ")) \o arg_print_option(o, Datatype(o), "\n"))
    BY <1>1 DEF arg_str_errorfn
  <2> QED BY <1>1, <2>1, CountSays
<1>2. CASE e.error = "MAXCOUNT"
  <2>1. arg_str_errorfn(o, e) = Who \o
          (cat(Lit("excess option ")) \o arg_print_option(o, Argval(e), "\n"))
    BY <1>2 DEF arg_str_errorfn
  <2> QED BY <1>2, <2>1, CountSays
<1> QED BY <1>1, <1>2

LEMMA LitSays ==
  ASSUME NEW e, e.parent \in Flags, NEW o, IsOption(o)
  PROVE  \E r : Rest(r, e) /\ SaysLine(arg_lit_errorfn(o, e), Join(Lit("barco: "), r))
<1> DEFINE w == Lit("barco: ")
           x == Lit("extraneous option ")
           v == arg_cat_optionv(o, <<>>, "|")
           p == arg_print_option(o, <<>>, "\n")
<1>1. Plain(w) /\ Plain(x)
  BY PlainWords DEF FixedWords
<1>2. Plain(v) /\ SaysLine(p, v)
  BY PlainTexts, OptionSays
<1>3. arg_lit_errorfn(o, e) = catf(22, w \o x) \o p
  BY DEF arg_lit_errorfn
<1>4. ~ Speaks(e)
  BY DEF Speaks
<1> HIDE DEF w, x, v, p
<1>5. Plain(Join(w, x)) /\ Says(catf(22, w \o x), Join(w, x))
  <2>1. 22 \in Nat /\ Plain(w \o x)
    BY <1>1, CatIsPlain
  <2> QED BY <1>1, <2>1, SaysOne, CatIsPlain DEF Join
<1>6. SaysLine(arg_lit_errorfn(o, e), Join(Join(w, x), v))
  BY <1>2, <1>3, <1>5, SaysBoth
<1>7. Join(Join(w, x), v) = Join(w, Join(x, v)) /\ Plain(Join(x, v))
  <2>1. w \in Texts /\ x \in Texts /\ v \in Texts
    BY <1>1, <1>2 DEF Plain
  <2> QED BY <1>1, <1>2, <2>1, TextsJoin, CatIsPlain
<1> QED BY <1>4, <1>6, <1>7 DEF Rest, w

LEMMA ErrorSays ==
  ASSUME NEW e, IsError(e)
  PROVE  \E r : Rest(r, e) /\ SaysLine(errorfn(e), Join(Lit("barco: "), r))
<1>1. CASE e.parent = "end"
  BY <1>1, EndSays DEF errorfn
<1>2. CASE e.parent # "end"
  <2> DEFINE o == Option(e.parent)
  <2>1. /\ IsOption(o) /\ (o.value <=> e.parent \notin Flags)
        /\ e.parent \notin Flags => (o.datatype = "<n>" <=> e.parent = "uid")
    BY <1>2, OptionOf DEF IsError
  <2>2. errorfn(e) = IF ~ o.value THEN arg_lit_errorfn(o, e)
                     ELSE IF o.datatype = "<n>" THEN arg_int_errorfn(o, e)
                     ELSE arg_str_errorfn(o, e)
    BY <1>2 DEF errorfn
  <2> HIDE DEF o
  <2>3. CASE e.parent \in Flags
    BY <2>1, <2>2, <2>3, LitSays
  <2>4. CASE e.parent = "uid" /\ e.parent \notin Flags
    BY <2>1, <2>2, <2>4, IntSays
  <2>5. CASE e.parent # "uid" /\ e.parent \notin Flags
    <3>1. e.error \in {"MINCOUNT", "MAXCOUNT"}
      BY <1>2, <2>5 DEF IsError, Codes
    <3> QED BY <2>1, <2>2, <2>5, <3>1, StrSays
  <2> QED BY <2>3, <2>4, <2>5
<1> QED BY <1>1, <1>2

-----------------------------------------------------------------------------
(* Where the blocks of a joined text are.                                  *)
Blocked(off, s, t) ==
  /\ off \in [0 .. Len(s) -> Nat] /\ off[0] = 0 /\ off[Len(s)] = Len(t)
  /\ \A k \in 1 .. Len(s) :
       /\ off[k] = off[k - 1] + Len(s[k])
       /\ \A j \in 1 .. Len(s[k]) : t[off[k - 1] + j] = s[k][j]

LEMMA BlocksOf ==
  ASSUME NEW S, NEW s \in Seq(Seq(S)), s # <<>>
  PROVE  FlattenSeq(s) \in Seq(S) /\ \E off : Blocked(off, s, FlattenSeq(s))
<1> DEFINE last == Len(s)
<1>1. PICK f \in [1 .. last -> Seq(S)] :
        /\ f[1] = s[1] /\ \A i \in 2 .. last : f[i] = f[i - 1] \o s[i]
        /\ FlattenSeq(s) = f[last]
  BY FlattenUnfolds
<1>2. last \in Int /\ 1 <= last
  OBVIOUS
<1>3. \A i \in 1 .. last : s[i] \in Seq(S) /\ Len(s[i]) \in Nat
  BY ElementOfSeq
<1> DEFINE off == [i \in 0 .. last |-> IF i = 0 THEN 0 ELSE Len(f[i])]
<1>4. off \in [0 .. last -> Nat] /\ off[0] = 0 /\ \A i \in 1 .. last : off[i] = Len(f[i])
  BY <1>1, <1>2
<1> HIDE DEF last, off
<1>5. /\ off[1] = off[1 - 1] + Len(s[1])
      /\ \A i \in 2 .. last :
           /\ off[i] = off[i - 1] + Len(s[i])
           /\ \A j \in 1 .. Len(f[i - 1]) : f[i][j] = f[i - 1][j]
           /\ \A j \in 1 .. Len(s[i]) : f[i][off[i - 1] + j] = s[i][j]
  <2>1. off[1] = off[1 - 1] + Len(s[1])
    BY <1>1, <1>2, <1>3, <1>4
  <2>2. ASSUME NEW i \in 2 .. last
        PROVE  /\ off[i] = off[i - 1] + Len(s[i])
               /\ \A j \in 1 .. Len(f[i - 1]) : f[i][j] = f[i - 1][j]
               /\ \A j \in 1 .. Len(s[i]) : f[i][off[i - 1] + j] = s[i][j]
    <3>0. i \in 1 .. last /\ i - 1 \in 1 .. last
      BY <1>2
    <3>1. f[i - 1] \in Seq(S) /\ s[i] \in Seq(S) /\ f[i] = f[i - 1] \o s[i]
      BY <1>1, <1>3, <3>0
    <3>2. off[i] = Len(f[i]) /\ off[i - 1] = Len(f[i - 1])
      BY <1>4, <3>0
    <3> DEFINE u == f[i - 1]
               v == s[i]
    <3>3. u \in Seq(S) /\ v \in Seq(S)
      BY <3>1
    <3>4. f[i] = u \o v /\ off[i] = Len(u \o v) /\ off[i - 1] = Len(u)
      BY <3>1, <3>2
    <3> HIDE DEF u, v
    <3> DEFINE x == Len(u)
               y == Len(v)
    <3>5. /\ x \in Nat /\ y \in Nat /\ Len(u \o v) = x + y
          /\ \A j \in 1 .. x + y : (u \o v)[j] = IF j <= x THEN u[j] ELSE v[j - x]
      BY <3>3, ConcatProperties
    <3>6. off[i - 1] = x /\ off[i] = x + y
      BY <3>4, <3>5
    <3> HIDE DEF x, y
    <3>7. \A j \in 1 .. x : (u \o v)[j] = u[j]
      BY ONLY <3>5
    <3>8. \A j \in 1 .. y : (u \o v)[x + j] = v[j]
      <4>1. \A j \in 1 .. y : x + j \in 1 .. x + y /\ ~ (x + j <= x) /\ x + j - x = j
        BY ONLY <3>5
      <4> QED BY ONLY <3>5, <4>1
    <3> QED BY <3>4, <3>6, <3>7, <3>8 DEF u, v, x, y
  <2> QED BY <2>1, <2>2
<1> DEFINE P == {i \in 1 .. last :
                   \A k \in 1 .. i : \A j \in 1 .. Len(s[k]) :
                     off[k - 1] + j \in 1 .. off[i] /\ f[i][off[k - 1] + j] = s[k][j]}
<1>6. 1 \in P
  <2>1. off[1 - 1] = 0 /\ off[1] = Len(s[1])
    BY <1>1, <1>2, <1>4
  <2> QED BY <1>1, <1>2, <1>3, <2>1
<1>7. ASSUME NEW i \in 2 .. last, i - 1 \in P PROVE i \in P
  <2> SUFFICES ASSUME NEW k \in 1 .. i, NEW j \in 1 .. Len(s[k])
               PROVE  off[k - 1] + j \in 1 .. off[i] /\ f[i][off[k - 1] + j] = s[k][j]
    BY <1>2
  <2>0. i \in 1 .. last /\ i - 1 \in 0 .. last /\ i - 1 \in 1 .. last
    BY <1>2
  <2>1. /\ off[i - 1] = Len(f[i - 1]) /\ off[i - 1] \in Nat
        /\ off[i] = off[i - 1] + Len(s[i]) /\ Len(s[i]) \in Nat
    BY <1>3, <1>4, <1>5, <2>0
  <2>2. CASE k = i
    <3>1. j \in 1 .. Len(s[i]) /\ f[i][off[i - 1] + j] = s[i][j]
      BY <1>5, <2>2
    <3>2. off[i - 1] + j \in 1 .. off[i]
      <4> DEFINE a == off[i - 1]
                 b == off[i]
                 c == Len(s[i])
      <4>1. a \in Nat /\ c \in Nat /\ b = a + c /\ j \in 1 .. c
        BY <2>1, <3>1
      <4> HIDE DEF a, b, c
      <4>2. a + j \in 1 .. b
        BY <4>1
      <4> QED BY <4>2 DEF a, b
    <3> QED BY <2>2, <3>1, <3>2
  <2>3. CASE k \in 1 .. i - 1
    <3>1. off[k - 1] + j \in 1 .. off[i - 1] /\ f[i - 1][off[k - 1] + j] = s[k][j]
      BY <1>7, <2>3
    <3>2. /\ off[k - 1] + j \in 1 .. Len(f[i - 1])
          /\ off[k - 1] + j \in 1 .. off[i]
      <4> DEFINE a == off[i - 1]
                 b == off[i]
                 c == Len(s[i])
                 d == off[k - 1] + j
      <4>1. a \in Nat /\ c \in Nat /\ b = a + c /\ d \in 1 .. a /\ a = Len(f[i - 1])
        BY <2>1, <3>1
      <4> HIDE DEF a, b, c, d
      <4>2. d \in 1 .. b /\ d \in 1 .. Len(f[i - 1])
        BY <4>1
      <4> QED BY <4>2 DEF b, d
    <3> QED BY <1>5, <3>1, <3>2
  <2> QED BY <2>2, <2>3
<1>8. last \in P
  <2> HIDE DEF P
  <2>1. 1 .. last \subseteq P
    BY <1>2, <1>6, <1>7, UpwardsFromOne
  <2> QED BY <1>2, <2>1
<1>9. \A k \in 1 .. last : off[k] = off[k - 1] + Len(s[k])
  BY <1>2, <1>5
<1>10. off[last] = Len(f[last]) /\ f[last] \in Seq(S)
  BY <1>1, <1>2, <1>4
<1>11. Blocked(off, s, FlattenSeq(s))
  BY <1>1, <1>4, <1>8, <1>9, <1>10 DEF Blocked, last
<1> QED BY <1>1, <1>10, <1>11

LEMMA Offsets ==
  ASSUME NEW S, NEW s \in Seq(Seq(S)), NEW t \in Seq(S), NEW off, Blocked(off, s, t)
  PROVE  /\ \A l \in 0 .. Len(s) : \A k \in 0 .. l : off[k] <= off[l]
         /\ \A i \in 1 .. Len(t) : \E k \in 1 .. Len(s) :
              /\ i - off[k - 1] \in 1 .. Len(s[k])
              /\ i = off[k - 1] + (i - off[k - 1]) /\ t[i] = s[k][i - off[k - 1]]
<1> DEFINE last == Len(s)
           L(k) == Len(s[k])
<1>1. last \in Int /\ 0 <= last /\ \A k \in 1 .. last : L(k) \in Nat
  BY ElementOfSeq
<1>2. /\ off \in [0 .. last -> Nat] /\ off[0] = 0 /\ off[last] = Len(t)
      /\ \A k \in 1 .. last : off[k] = off[k - 1] + L(k)
      /\ \A k \in 1 .. last : \A j \in 1 .. L(k) : t[off[k - 1] + j] = s[k][j]
  BY DEF Blocked
<1> HIDE DEF last, L
<1>3. \A k \in 1 .. last : /\ k \in 0 .. last /\ k - 1 \in 0 .. last
                           /\ off[k] \in Nat /\ off[k - 1] \in Nat
  <2> TAKE k \in 1 .. last
  <2>1. k \in 0 .. last /\ k - 1 \in 0 .. last
    BY <1>1
  <2> QED BY <1>2, <2>1
<1> DEFINE Q(l) ==
      /\ \A k \in 0 .. l : off[k] <= off[l]
      /\ \A i \in 1 .. off[l] : \E k \in 1 .. l : i - off[k - 1] \in 1 .. L(k)
    P == {l \in 0 .. last : Q(l)}
<1>4. 0 \in P
  BY <1>1, <1>2
<1>5. ASSUME NEW l \in 0 + 1 .. last, l - 1 \in P PROVE l \in P
  <2>1. /\ off[l] = off[l - 1] + L(l) /\ L(l) \in Nat
        /\ off[l] \in Nat /\ off[l - 1] \in Nat /\ l \in 0 .. last
    BY <1>1, <1>2, <1>3
  <2>2. \A k \in 0 .. l : off[k] <= off[l]
    <3> TAKE k \in 0 .. l
    <3>1. off[k] \in Nat
      <4>1. k \in 0 .. last
        BY <1>1
      <4> QED BY <1>2, <4>1
    <3>2. k = l \/ k \in 0 .. l - 1
      OBVIOUS
    <3> QED BY <1>5, <2>1, <3>1, <3>2
  <2>3. \A i \in 1 .. off[l] : \E k \in 1 .. l : i - off[k - 1] \in 1 .. L(k)
    <3> TAKE i \in 1 .. off[l]
    <3>1. CASE i \in 1 .. off[l - 1]
      <4>1. \E k \in 1 .. l - 1 : i - off[k - 1] \in 1 .. L(k)
        BY <1>5, <3>1
      <4> QED BY <4>1
    <3>2. CASE i \notin 1 .. off[l - 1]
      <4>1. i - off[l - 1] \in 1 .. L(l)
        BY <2>1, <3>2
      <4>2. l \in 1 .. l
        OBVIOUS
      <4> QED BY <4>1, <4>2
    <3> QED BY <3>1, <3>2
  <2> QED BY <2>1, <2>2, <2>3
<1>6. 0 .. last \subseteq P
  <2> HIDE DEF P
  <2>1. 0 \in Int
    OBVIOUS
  <2> QED BY <1>1, <1>4, <1>5, <2>1, Upwards
<1>7. \A l \in 0 .. last : \A k \in 0 .. l : off[k] <= off[l]
  BY <1>6
<1>8. ASSUME NEW i \in 1 .. Len(t)
      PROVE  \E k \in 1 .. last :
               /\ i - off[k - 1] \in 1 .. L(k)
               /\ i = off[k - 1] + (i - off[k - 1]) /\ t[i] = s[k][i - off[k - 1]]
  <2>1. last \in 0 .. last /\ i \in 1 .. off[last]
    BY <1>1, <1>2
  <2>2. PICK k \in 1 .. last : i - off[k - 1] \in 1 .. L(k)
    BY <1>6, <2>1
  <2>3. i = off[k - 1] + (i - off[k - 1])
    BY <1>3
  <2>4. t[off[k - 1] + (i - off[k - 1])] = s[k][i - off[k - 1]]
    BY <1>2, <2>2
  <2> QED BY <2>2, <2>3, <2>4
<1> QED BY <1>7, <1>8 DEF last, L

-----------------------------------------------------------------------------
(* A text of lines has as many breaks as lines, and Line() finds each.     *)
UpTo(off, k) == {off[l] : l \in 1 .. k}

LEMMA CountOfEnds ==
  ASSUME NEW last \in Nat, NEW off,
         \A k \in 1 .. last : \A l \in 1 .. k - 1 : off[l] # off[k]
  PROVE  \A k \in 0 .. last : Cardinality(UpTo(off, k)) = k
<1> DEFINE U(k) == UpTo(off, k)
           P == {k \in 0 .. last : IsFiniteSet(U(k)) /\ Cardinality(U(k)) = k}
<1>1. 0 \in P
  <2>1. U(0) = {}
    BY DEF UpTo
  <2> QED BY <2>1, FS_EmptySet
<1>2. ASSUME NEW k \in 0 + 1 .. last, k - 1 \in P PROVE k \in P
  <2>1. U(k) = U(k - 1) \cup {off[k]}
    <3>1. \A l : l \in 1 .. k <=> l \in 1 .. k - 1 \/ l = k
      OBVIOUS
    <3> QED BY <3>1 DEF UpTo
  <2>2. off[k] \notin U(k - 1)
    BY DEF UpTo
  <2>3. IsFiniteSet(U(k - 1)) /\ Cardinality(U(k - 1)) = k - 1
    BY <1>2
  <2> HIDE DEF U
  <2>4. IsFiniteSet(U(k)) /\ Cardinality(U(k)) = k - 1 + 1
    BY <2>1, <2>2, <2>3, FS_AddElement
  <2> QED BY <2>4
<1>3. 0 .. last \subseteq P
  <2> HIDE DEF P
  <2>1. 0 \in Int /\ last \in Int
    OBVIOUS
  <2> QED BY <1>1, <1>2, <2>1, Upwards
<1> QED BY <1>3

LEMMA LinesOf ==
  ASSUME NEW s \in Seq(Texts), s # <<>>, NEW b,
         \A k \in 1 .. Len(s) : Plain(b[k]) /\ s[k] = Join(b[k], Lit("\n"))
  PROVE  LET t == FlattenSeq(s) IN
         /\ t \in Texts /\ Cardinality(Breaks(t)) = Len(s) /\ t[Len(t)].piece = "\n"
         /\ \A k \in 1 .. Len(s) : Line(t, k) = b[k]
<1> DEFINE t == FlattenSeq(s)
           last == Len(s)
           L(k) == Len(b[k])
<1>1. t \in Texts /\ s \in Seq(Seq(Pieces)) /\ \E off : Blocked(off, s, t)
  BY BlocksOf DEF Texts
<1>2. PICK off : Blocked(off, s, t)
  BY <1>1
<1>3. last \in Nat /\ 1 <= last
  OBVIOUS
<1>4. \A k \in 1 .. last :
        /\ L(k) \in Nat /\ Len(s[k]) = L(k) + 1
        /\ s[k][L(k) + 1].piece = "\n" /\ s[k][L(k) + 1].kept > 0
        /\ \A j \in 1 .. L(k) : s[k][j] = b[k][j] /\ b[k][j].piece # "\n"
  <2> SUFFICES ASSUME NEW k \in 1 .. last
               PROVE  /\ L(k) \in Nat /\ Len(s[k]) = L(k) + 1
                      /\ s[k][L(k) + 1].piece = "\n" /\ s[k][L(k) + 1].kept > 0
                      /\ \A j \in 1 .. L(k) : s[k][j] = b[k][j] /\ b[k][j].piece # "\n"
    OBVIOUS
  <2> DEFINE x == b[k]
             y == Lit("\n")
  <2>1. Plain(x) /\ x \in Texts /\ s[k] = x \o y /\ Len(x) \in Nat
    BY PieceOf DEF Plain, Join
  <2>2. /\ y \in Texts /\ Len(y) = 1 /\ y[1].piece = "\n"
        /\ y[1].kept \in 1 .. 28
    <3>1. \A w \in Words : /\ Lit(w) \in Texts /\ Len(Lit(w)) = 1
                           /\ Lit(w)[1].piece = w /\ Lit(w)[1].kept \in 1 .. 28
      BY WordIsText
    <3> QED BY <3>1, PlainWords, Zenon
  <2> HIDE DEF x, y
  <2>3. Len(x \o y) = Len(x) + 1 /\ (x \o y)[Len(x) + 1] = y[1]
        /\ \A j \in 1 .. Len(x) : (x \o y)[j] = x[j]
    <3>1. x \in Texts /\ y \in Texts /\ 1 \in 1 .. Len(y)
      BY <2>1, <2>2
    <3>2. \A j \in 1 .. Len(y) : (x \o y)[Len(x) + j] = y[j]
      BY <3>1, JoinedTexts
    <3>3. (x \o y)[Len(x) + 1] = y[1]
      BY <3>1, <3>2
    <3>4. Len(x \o y) = Len(x) + Len(y) /\ \A j \in 1 .. Len(x) : (x \o y)[j] = x[j]
      BY <3>1, JoinedTexts
    <3> QED BY ONLY <2>2, <3>3, <3>4
  <2>4. \A j \in 1 .. Len(x) : x[j].piece # "\n"
    BY <2>1 DEF Plain
  <2>5. L(k) = Len(x)
    BY DEF x
  <2> DEFINE z == s[k]
             c == L(k)
  <2>6. z = x \o y /\ c = Len(x) /\ c \in Nat
    BY <2>1, <2>5
  <2> HIDE DEF L, z, c
  <2>7. /\ Len(z) = c + 1 /\ z[c + 1].piece = "\n" /\ z[c + 1].kept > 0
        /\ \A j \in 1 .. c : z[j] = x[j] /\ x[j].piece # "\n"
    <3>1. z[c + 1] = y[1] /\ Len(z) = c + 1 /\ \A j \in 1 .. c : z[j] = x[j]
      BY ONLY <2>3, <2>6
    <3>2. z[c + 1].piece = "\n" /\ z[c + 1].kept > 0
      <4>1. z[c + 1].piece = y[1].piece /\ z[c + 1].kept = y[1].kept
        BY ONLY <3>1, Zenon
      <4>2. y[1].kept > 0
        <5> DEFINE p == y[1].kept
        <5>1. p \in 1 .. 28
          BY ONLY <2>2
        <5> HIDE DEF p
        <5>2. p > 0
          BY ONLY <5>1
        <5> QED BY ONLY <5>2 DEF p
      <4> QED BY ONLY <2>2, <4>1, <4>2, Zenon
    <3>3. \A j \in 1 .. c : x[j].piece # "\n"
      BY ONLY <2>4, <2>6
    <3> QED BY ONLY <3>1, <3>2, <3>3
  <2> QED BY <2>6, <2>7 DEF x, z, c
<1>5. /\ off \in [0 .. last -> Nat] /\ off[0] = 0 /\ off[last] = Len(t)
      /\ \A k \in 1 .. last : off[k] = off[k - 1] + Len(s[k])
      /\ \A k \in 1 .. last : \A j \in 1 .. Len(s[k]) : t[off[k - 1] + j] = s[k][j]
  BY <1>2 DEF Blocked
<1>6. /\ \A l \in 0 .. last : \A k \in 0 .. l : off[k] <= off[l]
      /\ \A i \in 1 .. Len(t) : \E k \in 1 .. last :
           /\ i - off[k - 1] \in 1 .. Len(s[k])
           /\ i = off[k - 1] + (i - off[k - 1]) /\ t[i] = s[k][i - off[k - 1]]
  BY <1>1, <1>2, Offsets DEF Texts
<1>7. Len(t) \in Nat /\ DOMAIN t = 1 .. Len(t)
  BY <1>1, PieceOf
<1> HIDE DEF t, last, L
<1>8. \A k \in 1 .. last : /\ k \in 0 .. last /\ k - 1 \in 0 .. last
                           /\ off[k] \in Nat /\ off[k - 1] \in Nat
                           /\ off[k] = off[k - 1] + L(k) + 1
                           /\ off[k] = off[k - 1] + (L(k) + 1)
  <2> TAKE k \in 1 .. last
  <2>1. k \in 0 .. last /\ k - 1 \in 0 .. last
    BY <1>3
  <2>2. off[k] \in Nat /\ off[k - 1] \in Nat
    BY <1>5, <2>1
  <2> QED BY <1>4, <1>5, <2>1, <2>2
<1>9. \A k \in 1 .. last : /\ off[k] \in 1 .. Len(t)
                           /\ t[off[k]].piece = "\n" /\ t[off[k]].kept > 0
                           /\ \A j \in 1 .. L(k) : t[off[k - 1] + j] = b[k][j]
  <2> SUFFICES ASSUME NEW k \in 1 .. last
               PROVE  /\ off[k] \in 1 .. Len(t)
                      /\ t[off[k]].piece = "\n" /\ t[off[k]].kept > 0
                      /\ \A j \in 1 .. L(k) : t[off[k - 1] + j] = b[k][j]
    OBVIOUS
  <2>1. L(k) \in Nat /\ Len(s[k]) = L(k) + 1
    BY <1>4
  <2>2. L(k) + 1 \in 1 .. Len(s[k]) /\ \A j \in 1 .. L(k) : j \in 1 .. Len(s[k])
    BY <2>1
  <2>3. t[off[k]] = s[k][L(k) + 1] /\ \A j \in 1 .. L(k) : t[off[k - 1] + j] = s[k][j]
    BY <1>5, <1>8, <2>2
  <2>4. off[k] \in 1 .. Len(t)
    <3>1. off[k] <= off[last]
      BY <1>3, <1>6
    <3> QED BY <1>5, <1>7, <1>8, <2>1, <3>1
  <2> QED BY <1>4, <2>3, <2>4
<1>10. \A k \in 1 .. last : \A l \in 1 .. k - 1 : off[l] < off[k]
  <2> SUFFICES ASSUME NEW k \in 1 .. last, NEW l \in 1 .. k - 1 PROVE off[l] < off[k]
    OBVIOUS
  <2>1. l \in 1 .. last /\ l \in 0 .. k - 1 /\ k - 1 \in 0 .. last
    BY <1>3
  <2>2. off[l] <= off[k - 1] /\ off[l] \in Nat
    BY <1>6, <1>8, <2>1
  <2> QED BY <1>4, <1>8, <2>2
<1>11. Breaks(t) = UpTo(off, last)
  <2>1. ASSUME NEW i \in 1 .. Len(t), t[i].piece = "\n"
        PROVE  \E l \in 1 .. last : i = off[l]
    <3>1. PICK k \in 1 .. last :
            /\ i - off[k - 1] \in 1 .. Len(s[k])
            /\ i = off[k - 1] + (i - off[k - 1]) /\ t[i] = s[k][i - off[k - 1]]
      BY <1>6
    <3>2. i - off[k - 1] \notin 1 .. L(k)
      <4> DEFINE m == i - off[k - 1]
      <4>1. t[i] = s[k][m]
        BY <3>1
      <4>2. \A j \in 1 .. L(k) : s[k][j].piece # "\n"
        BY <1>4
      <4> HIDE DEF m
      <4>3. m \notin 1 .. L(k)
        BY <2>1, <4>1, <4>2
      <4> QED BY <4>3 DEF m
    <3>3. i - off[k - 1] = L(k) + 1
      BY <1>4, <3>1, <3>2
    <3> QED BY <1>8, <3>1, <3>3
  <2>2. \A i : i \in Breaks(t) <=> i \in 1 .. Len(t) /\ t[i].piece = "\n" /\ t[i].kept > 0
    BY <1>7 DEF Breaks, Places
  <2> QED BY <1>9, <2>1, <2>2 DEF UpTo
<1>12. \A k \in 1 .. last : {j \in Breaks(t) : j <= off[k]} = UpTo(off, k)
  <2> TAKE k \in 1 .. last
  <2>1. ASSUME NEW l \in 1 .. last PROVE off[l] <= off[k] <=> l \in 1 .. k
    <3>1. CASE l = k
      BY <1>8, <3>1
    <3>2. CASE l < k
      <4>1. l \in 1 .. k - 1
        BY <3>2
      <4> QED BY <1>8, <1>10, <4>1
    <3>3. CASE k < l
      <4>1. k \in 1 .. l - 1
        BY <3>3
      <4>2. off[k] < off[l] /\ off[k] \in Nat /\ off[l] \in Nat
        BY <1>8, <1>10, <4>1
      <4> QED BY <3>3, <4>2
    <3> QED BY <3>1, <3>2, <3>3
  <2>2. 1 .. k \subseteq 1 .. last
    BY <1>3
  <2> QED BY <1>11, <2>1, <2>2 DEF UpTo
<1>13. \A k \in 0 .. last : Cardinality(UpTo(off, k)) = k
  <2>1. \A k \in 1 .. last : \A l \in 1 .. k - 1 : off[l] # off[k]
    <3> TAKE k \in 1 .. last
    <3> TAKE l \in 1 .. k - 1
    <3>1. l \in 1 .. last
      BY <1>3
    <3>2. off[l] < off[k] /\ off[l] \in Nat /\ off[k] \in Nat
      BY <1>8, <1>10, <3>1
    <3> QED BY <3>2
  <2> QED BY ONLY <1>3, <2>1, CountOfEnds
<1>14. Cardinality(Breaks(t)) = last
  BY <1>3, <1>11, <1>13
<1>15. \A k \in 1 .. last : Break(t, k) = off[k]
  <2> TAKE k \in 1 .. last
  <2>1. \A l \in 1 .. last : Cardinality({j \in Breaks(t) : j <= off[l]}) = l
    BY <1>8, <1>12, <1>13
  <2>2. off[k] \in Breaks(t)
    BY <1>11 DEF UpTo
  <2>3. \A i \in Breaks(t) : Cardinality({j \in Breaks(t) : j <= i}) = k => i = off[k]
    BY <1>11, <2>1 DEF UpTo
  <2> QED BY <2>1, <2>2, <2>3 DEF Break
<1>16. \A k \in 1 .. last : Line(t, k) = b[k]
  <2> TAKE k \in 1 .. last
  <2> DEFINE x == off[k - 1] + 1
             y == off[k] - 1
             r == b[k]
  <2>1. Line(t, k) = SubSeq(t, x, y)
    <3>1. CASE k = 1
      <4>1. off[k - 1] + 1 = 1
        BY <1>5, <3>1
      <4> QED BY <1>15, <3>1, <4>1 DEF Line
    <3>2. CASE k # 1
      <4>1. k - 1 \in 1 .. last
        BY <1>3, <3>2
      <4> QED BY <1>15, <3>2, <4>1 DEF Line
    <3> QED BY <3>1, <3>2
  <2>2. x \in Int /\ y \in Int /\ y - x + 1 = L(k) /\ L(k) \in Nat
        /\ x >= 1 /\ y <= Len(t) /\ \A i \in 1 .. L(k) : x + i - 1 = off[k - 1] + i
    <3>1. off[k] <= Len(t) /\ L(k) \in Nat
      BY <1>4, <1>9
    <3>2. /\ off[k] \in Nat /\ off[k - 1] \in Nat
          /\ off[k] = off[k - 1] + L(k) + 1
      BY <1>8
    <3> DEFINE p == off[k - 1]
               q == off[k]
               c == L(k)
               z == Len(t)
    <3>3. q <= z /\ c \in Nat /\ q \in Nat /\ p \in Nat /\ q = p + c + 1 /\ z \in Nat
      BY <1>7, <3>1, <3>2
    <3> HIDE DEF p, q, c, z
    <3>4. /\ p + 1 \in Int /\ q - 1 \in Int /\ q - 1 - (p + 1) + 1 = c
          /\ p + 1 >= 1 /\ q - 1 <= z /\ \A i \in 1 .. c : p + 1 + i - 1 = p + i
      BY <3>3
    <3> QED BY <3>1, <3>4 DEF p, q, c, z
  <2>3. r \in Seq(Pieces) /\ Len(r) = L(k)
    BY DEF Plain, Texts, last, L
  <2>4. \A i \in 1 .. L(k) : t[x + i - 1] = r[i]
    BY <1>9, <2>2
  <2> HIDE DEF x, y, r
  <2>5. \A i \in x .. y : t[i] \in Pieces
    <3>1. \A i \in x .. y : i \in 1 .. Len(t)
      BY <1>7, <2>2
    <3> QED BY <1>1, <3>1, PieceOf
  <2>6. /\ SubSeq(t, x, y) \in Seq(Pieces)
        /\ Len(SubSeq(t, x, y)) = IF x <= y THEN y - x + 1 ELSE 0
        /\ \A i \in 1 .. y - x + 1 : SubSeq(t, x, y)[i] = t[x + i - 1]
    BY <2>2, <2>5, SubSeqProperties
  <2>7. Len(SubSeq(t, x, y)) = L(k)
    BY <2>2, <2>6
  <2>8. \A i \in 1 .. L(k) : SubSeq(t, x, y)[i] = r[i]
    BY <2>2, <2>4, <2>6
  <2>9. SubSeq(t, x, y) = r
    BY <2>3, <2>6, <2>7, <2>8, SeqEqual
  <2> QED BY <2>1, <2>9 DEF r
<1>17. t[Len(t)].piece = "\n"
  BY <1>3, <1>5, <1>9
<1> QED BY <1>1, <1>14, <1>16, <1>17 DEF t, last

-----------------------------------------------------------------------------
(* The errors of a list, each with its line.                               *)
LEMMA Prefixed ==
  ASSUME NEW w \in Texts, NEW r \in Texts, Len(w) = 1
  PROVE  /\ Join(w, r) \in Texts /\ Len(Join(w, r)) = 1 + Len(r)
         /\ Length(Join(w, r)) = Length(w) + Length(r)
         /\ Join(w, r)[1] = w[1] /\ \A i \in 1 .. Len(r) : Join(w, r)[1 + i] = r[i]
<1> DEFINE b == w \o r
<1>1. /\ b \in Texts /\ Len(b) = Len(w) + Len(r)
      /\ \A i \in 1 .. Len(w) : b[i] = w[i]
      /\ \A i \in 1 .. Len(r) : b[Len(w) + i] = r[i]
  BY JoinedTexts
<1>2. Length(b) = Length(w) + Length(r)
  BY LengthOfBoth
<1> HIDE DEF b
<1>3. b[1] = w[1]
  BY <1>1
<1> QED BY <1>1, <1>2, <1>3 DEF Join, b

LEMMA ErrorIsShown ==
  ASSUME NEW e, IsError(e), NEW r, Rest(r, e)
  PROVE  LET line == Join(Lit("barco: "), r) IN
         Plain(line) /\ line[1].piece = "barco: " /\ (Speaks(e) => Shown(line, e))
<1> DEFINE w == Lit("barco: ")
           line == Join(w, r)
<1>1. /\ Plain(w) /\ Len(w) = 1 /\ w[1].piece = "barco: " /\ w \in Texts
  BY PlainWords, WordIsText DEF FixedWords
<1>2. Tail(w) = <<>> /\ w # <<>>
  BY DEF Lit
<1>3. Plain(r) /\ r \in Texts /\ Len(r) \in Nat /\ DOMAIN r = 1 .. Len(r)
  BY PieceOf DEF Rest, Plain
<1>4. Tail(line) = r
  <2>1. Tail(w \o r) = Tail(w) \o r
    BY <1>1, <1>2, <1>3, TailOfBoth DEF Texts
  <2>2. <<>> \o r = r
    BY <1>3, ConcatEmptySeq DEF Texts
  <2> QED BY <1>2, <2>1, <2>2 DEF Join
<1> HIDE DEF w
<1>5. /\ line \in Texts /\ Len(line) = 1 + Len(r) /\ line[1] = w[1] /\ Plain(line)
      /\ \A i \in 1 .. Len(r) : line[1 + i] = r[i]
  <2>1. w \in Texts /\ Len(w) = 1 /\ r \in Texts
    BY <1>1, <1>3
  <2>2. Plain(line)
    BY <1>1, <1>3, CatIsPlain
  <2> QED BY <2>1, <2>2, Prefixed
<1> HIDE DEF line
<1>6. DOMAIN line = 1 .. Len(line) /\ \A i \in 1 .. Len(r) : 1 + i \in DOMAIN line
  BY <1>3, <1>5, PieceOf
<1>7. CASE ShowsIn(r, e.argval, FALSE)
  <2>1. PICK i \in 1 .. Len(r) : r[i].piece = "argval" /\ r[i].kept = e.argval
    BY <1>7 DEF ShowsIn
  <2>2. line[1 + i].piece = "argval" /\ line[1 + i].kept = e.argval
    BY <1>5, <2>1
  <2>3. Shown(line, e)
    BY <1>6, <2>2 DEF Shown
  <2> QED BY <1>1, <1>5, <2>3 DEF line, w
<1>8. CASE \E s : /\ Plain(s) /\ r = Join(Lit("excess option "), s)
                  /\ e.error = "MAXCOUNT" /\ ShowsIn(s, e.argval, TRUE)
  <2> DEFINE x == Lit("excess option ")
  <2>1. PICK s : /\ Plain(s) /\ r = Join(x, s)
                 /\ e.error = "MAXCOUNT" /\ ShowsIn(s, e.argval, TRUE)
    BY <1>8
  <2>2. x \in Texts /\ Len(x) = 1 /\ Length(x) \in Nat
    BY PlainWords, WordIsText, LengthIsNat DEF FixedWords
  <2>3. Shown(line, e) <=> \E i \in DOMAIN line :
          /\ line[i].piece = "argval"
          /\ \/ line[i].kept = e.argval
             \/ e.error = "MAXCOUNT" /\ Length(Tail(line)) = Length(x) + Room - 1
    BY DEF Shown
  <2> HIDE DEF x
  <2>4. s \in Texts /\ Len(s) \in Nat /\ Length(s) \in Nat
    BY <2>1, PieceOf, LengthIsNat DEF Plain
  <2>5. /\ Length(r) = Length(x) + Length(s) /\ Len(r) = 1 + Len(s)
        /\ \A i \in 1 .. Len(s) : r[1 + i] = s[i]
    BY <2>1, <2>2, <2>4, Prefixed
  <2>6. PICK i \in 1 .. Len(s) :
          s[i].piece = "argval" /\ (s[i].kept = e.argval \/ Length(s) = Room - 1)
    BY <2>1 DEF ShowsIn
  <2>7. 1 + i \in 1 .. Len(r)
    BY <2>4, <2>5
  <2>8. /\ line[1 + (1 + i)] = s[i] /\ 1 + (1 + i) \in DOMAIN line
    BY <1>5, <1>6, <2>5, <2>7
  <2>9. Length(s) = Room - 1 => Length(Tail(line)) = Length(x) + Room - 1
    BY <1>4, <2>2, <2>5 DEF Room
  <2>10. Shown(line, e)
    <3>1. line[1 + (1 + i)].piece = "argval"
      BY <2>6, <2>8
    <3>2. line[1 + (1 + i)].kept = e.argval \/ Length(s) = Room - 1
      BY <2>6, <2>8
    <3> QED BY <2>1, <2>3, <2>8, <2>9, <3>1, <3>2
  <2> QED BY <1>1, <1>5, <2>10 DEF line, w
<1>9. ~ Speaks(e) => Plain(line) /\ line[1].piece = "barco: "
  BY <1>1, <1>5
<1>10. Speaks(e) => \/ ShowsIn(r, e.argval, FALSE)
                    \/ \E s : /\ Plain(s) /\ r = Join(Lit("excess option "), s)
                              /\ e.error = "MAXCOUNT" /\ ShowsIn(s, e.argval, TRUE)
  BY DEF Rest
<1> QED BY <1>7, <1>8, <1>9, <1>10 DEF line, w

LEMMA ErrorsAre ==
  ASSUME NEW errs \in ErrorLists
  PROVE  /\ Len(errs) \in Nat /\ DOMAIN errs = 1 .. Len(errs)
         /\ \A i \in DOMAIN errs : IsError(errs[i])
<1> DEFINE R == [parent : Entries \cup {"end"}, error : STRING, argval : Nat]
<1>1. /\ errs \in Seq(R)
      /\ \A i \in DOMAIN errs : errs[i].error \in Codes(errs[i].parent)
  BY MessagesAssumption
<1>2. \A e \in R : e.parent \in Entries \cup {"end"} /\ e.argval \in Nat
  OBVIOUS
<1> HIDE DEF R
<1>3. /\ Len(errs) \in Nat /\ DOMAIN errs = 1 .. Len(errs)
      /\ \A i \in DOMAIN errs : errs[i] \in R
  BY <1>1
<1> QED BY <1>1, <1>2, <1>3 DEF IsError

(* The line of an error, of which it has only one.                         *)
LineOf(e) ==
  CHOOSE b : /\ SaysLine(errorfn(e), b) /\ b[1].piece = "barco: "
             /\ Speaks(e) => Shown(b, e)

LEMMA ErrorHasLine ==
  ASSUME NEW e, IsError(e)
  PROVE  /\ SaysLine(errorfn(e), LineOf(e)) /\ LineOf(e)[1].piece = "barco: "
         /\ Speaks(e) => Shown(LineOf(e), e)
<1> DEFINE Good(b) == /\ SaysLine(errorfn(e), b) /\ b[1].piece = "barco: "
                      /\ Speaks(e) => Shown(b, e)
<1>1. PICK r : Rest(r, e) /\ SaysLine(errorfn(e), Join(Lit("barco: "), r))
  BY ErrorSays
<1>2. Good(Join(Lit("barco: "), r))
  BY <1>1, ErrorIsShown
<1>3. LineOf(e) = CHOOSE b : Good(b)
  BY DEF LineOf
<1> HIDE DEF Good
<1>4. Good(LineOf(e))
  BY <1>2, <1>3
<1> QED BY <1>4 DEF Good

LEMMA ErrorsDocument ==
  ASSUME NEW errs \in ErrorLists
  PROVE  /\ arg_print_errors(errs) \in Seq(Call)
         /\ \E s \in Seq(Texts) :
              /\ Len(s) = Len(errs) /\ Contents(arg_print_errors(errs)) = FlattenSeq(s)
              /\ \A i \in 1 .. Len(errs) : s[i] = Join(LineOf(errs[i]), Lit("\n"))
<1> DEFINE c == [i \in DOMAIN errs |-> errorfn(errs[i])]
           s == [i \in DOMAIN c |-> Contents(c[i])]
<1>1. /\ Len(errs) \in Nat /\ DOMAIN errs = 1 .. Len(errs)
      /\ \A i \in DOMAIN errs : IsError(errs[i])
  BY ErrorsAre
<1>2. \A i \in 1 .. Len(errs) :
        /\ errorfn(errs[i]) \in Seq(Call)
        /\ Contents(errorfn(errs[i])) = Join(LineOf(errs[i]), Lit("\n"))
        /\ Contents(errorfn(errs[i])) \in Texts
  BY <1>1, ErrorHasLine, ContentsOf DEF SaysLine
<1>3. /\ c \in Seq(Seq(Call)) /\ Len(c) = Len(errs) /\ DOMAIN c = 1 .. Len(errs)
      /\ \A i \in 1 .. Len(errs) : c[i] = errorfn(errs[i])
  BY <1>1, <1>2
<1>4. arg_print_errors(errs) = FlattenSeq(c)
  BY DEF arg_print_errors, Each
<1> HIDE DEF c
<1>5. AllOf(c) = FlattenSeq(s)
  BY DEF AllOf
<1>6. /\ s \in Seq(Texts) /\ Len(s) = Len(errs)
      /\ \A i \in 1 .. Len(errs) : s[i] = Join(LineOf(errs[i]), Lit("\n"))
  <2>1. \A i \in 1 .. Len(errs) :
          Contents(c[i]) \in Texts /\ Contents(c[i]) = Join(LineOf(errs[i]), Lit("\n"))
    BY <1>2, <1>3
  <2> QED BY <1>1, <1>3, <2>1
<1> HIDE DEF s
<1> QED BY <1>3, <1>4, <1>5, <1>6, ContentsEach

-----------------------------------------------------------------------------
(* Where a word is in a text, and whether it is in brackets. A text is     *)
(* closed when every bracket it opens is closed again.                     *)
None(t, w) == Places(t, w) = {}
Closed(t) == \A j \in Places(t, "[") : \E m \in Places(t, "]") : j < m
Once(t, w, open) ==
  \E i \in DOMAIN t : Places(t, w) = {i} /\ (InBrackets(t, i) <=> open)

LEMMA PlacesOfBoth ==
  ASSUME NEW s \in Texts, NEW t \in Texts, NEW w
  PROVE  /\ Len(s) \in Nat /\ Places(s, w) \subseteq 1 .. Len(s)
         /\ Len(t) \in Nat /\ Places(t, w) \subseteq 1 .. Len(t)
         /\ \A i \in Nat : i \in Places(Join(s, t), w) <=>
              i \in Places(s, w) \/ (i > Len(s) /\ i - Len(s) \in Places(t, w))
         /\ Places(Join(s, t), w) \subseteq Nat
<1> DEFINE b == s \o t
<1>1. /\ b \in Texts /\ Len(b) = Len(s) + Len(t)
      /\ \A i \in 1 .. Len(s) : b[i] = s[i]
      /\ \A i \in 1 .. Len(t) : b[Len(s) + i] = t[i]
  BY JoinedTexts
<1> HIDE DEF b
<1>2. /\ Len(s) \in Nat /\ DOMAIN s = 1 .. Len(s)
      /\ Len(t) \in Nat /\ DOMAIN t = 1 .. Len(t) /\ DOMAIN b = 1 .. Len(b)
  BY <1>1, PieceOf
<1>3. ASSUME NEW i \in Nat
      PROVE  i \in Places(b, w) <=>
               i \in Places(s, w) \/ (i > Len(s) /\ i - Len(s) \in Places(t, w))
  <2>1. CASE i \in 1 .. Len(s)
    <3>1. b[i] = s[i] /\ i \in DOMAIN s /\ i \in DOMAIN b /\ ~ i > Len(s)
      BY <1>1, <1>2, <2>1
    <3> QED BY <3>1 DEF Places
  <2>2. CASE i - Len(s) \in 1 .. Len(t)
    <3>1. /\ b[Len(s) + (i - Len(s))] = t[i - Len(s)] /\ Len(s) + (i - Len(s)) = i
          /\ i \notin DOMAIN s /\ i \in DOMAIN b /\ i - Len(s) \in DOMAIN t /\ i > Len(s)
      BY <1>1, <1>2, <2>2
    <3> QED BY <3>1 DEF Places
  <2>3. CASE i \notin 1 .. Len(s) /\ i - Len(s) \notin 1 .. Len(t)
    <3>1. i \notin DOMAIN s /\ i \notin DOMAIN b /\ i - Len(s) \notin DOMAIN t
      BY <1>1, <1>2, <2>3
    <3> QED BY <3>1 DEF Places
  <2> QED BY <2>1, <2>2, <2>3
<1>4. /\ Places(s, w) \subseteq 1 .. Len(s) /\ Places(t, w) \subseteq 1 .. Len(t)
      /\ Places(b, w) \subseteq 1 .. Len(b) /\ 1 .. Len(b) \subseteq Nat
  BY <1>2 DEF Places
<1> QED BY <1>2, <1>3, <1>4 DEF Join, b

LEMMA NoneOfBoth ==
  ASSUME NEW s \in Texts, NEW t \in Texts, NEW w, None(s, w), None(t, w)
  PROVE  None(Join(s, t), w)
BY PlacesOfBoth DEF None

LEMMA ClosedBoth ==
  ASSUME NEW s \in Texts, NEW t \in Texts, Closed(s), Closed(t)
  PROVE  Closed(Join(s, t))
<1> DEFINE b == Join(s, t)
           c == Len(s)
<1> SUFFICES ASSUME NEW j \in Places(b, "[") PROVE \E m \in Places(b, "]") : j < m
  BY DEF Closed
<1>1. /\ c \in Nat /\ j \in Nat
      /\ \A i \in Nat : i \in Places(b, "]") <=>
           i \in Places(s, "]") \/ (i > c /\ i - c \in Places(t, "]"))
      /\ Places(s, "]") \subseteq Nat /\ Places(t, "]") \subseteq Nat \ {0}
  BY PlacesOfBoth
<1>2. j \in Places(s, "[") \/ (j > c /\ j - c \in Places(t, "["))
  BY PlacesOfBoth
<1> HIDE DEF b, c
<1>3. CASE j \in Places(s, "[")
  BY <1>1, <1>3 DEF Closed
<1>4. CASE j > c /\ j - c \in Places(t, "[")
  <2>1. PICK m \in Places(t, "]") : j - c < m
    BY <1>4 DEF Closed
  <2>2. c + m \in Nat /\ c + m > c /\ c + m - c = m /\ j < c + m
    BY <1>1, <2>1
  <2> QED BY <1>1, <2>1, <2>2
<1> QED BY <1>2, <1>3, <1>4

LEMMA OnceBefore ==
  ASSUME NEW s \in Texts, NEW t \in Texts, NEW w, NEW open,
         Once(s, w, open), None(t, w)
  PROVE  Once(Join(s, t), w, open)
<1> DEFINE b == Join(s, t)
           c == Len(s)
<1>1. PICK i \in DOMAIN s : Places(s, w) = {i} /\ (InBrackets(s, i) <=> open)
  BY DEF Once
<1>2. \A v : /\ c \in Nat /\ Places(s, v) \subseteq 1 .. c
             /\ \A k \in Nat : k \in Places(b, v) <=>
                  k \in Places(s, v) \/ (k > c /\ k - c \in Places(t, v))
             /\ Places(b, v) \subseteq Nat
  BY PlacesOfBoth
<1> HIDE DEF b, c
<1>3. i \in 1 .. c /\ Places(b, w) = {i}
  BY <1>1, <1>2 DEF None
<1>4. \A v : \A k \in Nat : k <= c => (k \in Places(b, v) <=> k \in Places(s, v))
  BY <1>2
<1>5. InBrackets(b, i) <=> InBrackets(s, i)
  <2>1. ASSUME InBrackets(s, i) PROVE InBrackets(b, i)
    <3>1. PICK j \in Places(s, "[") :
                 j < i /\ \A m \in Places(s, "]") : m < j \/ i < m
      BY <2>1 DEF InBrackets
    <3>2. j \in Places(b, "[")
      BY <1>2, <3>1
    <3>3. \A m \in Places(b, "]") : m < j \/ i < m
      BY <1>2, <1>3, <3>1
    <3> QED BY <3>1, <3>2, <3>3 DEF InBrackets
  <2>2. ASSUME InBrackets(b, i) PROVE InBrackets(s, i)
    <3>1. PICK j \in Places(b, "[") :
                 j < i /\ \A m \in Places(b, "]") : m < j \/ i < m
      BY <2>2 DEF InBrackets
    <3>2. j \in Places(s, "[")
      BY <1>2, <1>3, <1>4, <3>1
    <3>3. \A m \in Places(s, "]") : m < j \/ i < m
      BY <1>2, <3>1
    <3> QED BY <3>1, <3>2, <3>3 DEF InBrackets
  <2> QED BY <2>1, <2>2
<1>6. i \in DOMAIN b
  BY <1>3 DEF Places
<1> QED BY <1>1, <1>3, <1>5, <1>6 DEF Once, b

LEMMA OnceAfter ==
  ASSUME NEW s \in Texts, NEW t \in Texts, NEW w, NEW open,
         Closed(s), None(s, w), Once(t, w, open)
  PROVE  Once(Join(s, t), w, open)
<1> DEFINE b == Join(s, t)
           c == Len(s)
<1>1. PICK i \in DOMAIN t : Places(t, w) = {i} /\ (InBrackets(t, i) <=> open)
  BY DEF Once
<1>2. \A v : /\ c \in Nat /\ Places(s, v) \subseteq 1 .. c
             /\ Places(t, v) \subseteq Nat \ {0}
             /\ \A k \in Nat : k \in Places(b, v) <=>
                  k \in Places(s, v) \/ (k > c /\ k - c \in Places(t, v))
             /\ Places(b, v) \subseteq Nat
  BY PlacesOfBoth
<1> HIDE DEF b, c
<1>3. i \in Nat \ {0} /\ c + i \in Nat /\ c + i - c = i
  BY <1>1, <1>2
<1>4. Places(b, w) = {c + i}
  BY <1>1, <1>2, <1>3 DEF None
<1>5. \A v : \A k \in Nat \ {0} : c + k \in Places(b, v) <=> k \in Places(t, v)
  <2> TAKE v
  <2> TAKE k \in Nat \ {0}
  <2>1. c + k \in Nat /\ c + k > c /\ c + k - c = k /\ c + k \notin 1 .. c
    BY <1>2
  <2> QED BY <1>2, <2>1
<1>6. InBrackets(b, c + i) <=> InBrackets(t, i)
  <2>1. ASSUME InBrackets(t, i) PROVE InBrackets(b, c + i)
    <3>1. PICK j \in Places(t, "[") :
                 j < i /\ \A m \in Places(t, "]") : m < j \/ i < m
      BY <2>1 DEF InBrackets
    <3>2. j \in Nat \ {0} /\ c + j \in Places(b, "[") /\ c + j < c + i
      BY <1>2, <1>3, <1>5, <3>1
    <3>3. ASSUME NEW m \in Places(b, "]") PROVE m < c + j \/ c + i < m
      <4>1. m \in Nat /\ (m \in 1 .. c \/ (m > c /\ m - c \in Places(t, "]")))
        BY <1>2
      <4>2. CASE m \in 1 .. c
        BY <1>2, <3>2, <4>2
      <4>3. CASE m > c /\ m - c \in Places(t, "]")
        <5>1. m - c < j \/ i < m - c
          BY <3>1, <4>3
        <5> QED BY <1>2, <1>3, <3>2, <4>1, <5>1
      <4> QED BY <4>1, <4>2, <4>3
    <3> QED BY <3>2, <3>3 DEF InBrackets
  <2>2. ASSUME InBrackets(b, c + i) PROVE InBrackets(t, i)
    <3>1. PICK j \in Places(b, "[") :
                 j < c + i /\ \A m \in Places(b, "]") : m < j \/ c + i < m
      BY <2>2 DEF InBrackets
    <3>2. j \notin Places(s, "[")
      <4> SUFFICES ASSUME j \in Places(s, "[") PROVE FALSE
        OBVIOUS
      <4>1. PICK m \in Places(s, "]") : j < m
        BY DEF Closed
      <4>2. m \in 1 .. c /\ m \in Places(b, "]") /\ j \in 1 .. c
        BY <1>2, <4>1
      <4>3. m < j \/ c + i < m
        BY <3>1, <4>2
      <4> QED BY <1>2, <1>3, <4>1, <4>2, <4>3
    <3>3. j \in Nat /\ j > c /\ j - c \in Places(t, "[") /\ j - c \in Nat \ {0}
      BY <1>2, <3>1, <3>2
    <3>4. ASSUME NEW m \in Places(t, "]") PROVE m < j - c \/ i < m
      <4>1. m \in Nat \ {0} /\ c + m \in Places(b, "]")
        BY <1>2, <1>5
      <4>2. c + m < j \/ c + i < c + m
        BY <3>1, <4>1
      <4> QED BY <1>2, <1>3, <3>3, <4>1, <4>2
    <3>5. j - c < i
      BY <1>2, <1>3, <3>1, <3>3
    <3> QED BY <3>3, <3>4, <3>5 DEF InBrackets
  <2> QED BY <2>1, <2>2
<1>7. c + i \in DOMAIN b
  BY <1>4 DEF Places
<1> QED BY <1>1, <1>4, <1>6, <1>7 DEF Once, b

LEMMA WordPlaces ==
  ASSUME NEW w \in Words
  PROVE  /\ Lit(w) \in Texts /\ Len(Lit(w)) = 1
         /\ Places(Lit(w), w) = {1} /\ \A v : v # w => None(Lit(w), v)
<1> DEFINE t == Lit(w)
<1>1. /\ t \in Texts /\ Len(t) = 1 /\ t[1].piece = w /\ t[1].kept \in 1 .. 28
  BY WordIsText
<1> HIDE DEF t
<1>2. DOMAIN t = {1}
  <2>1. DOMAIN t = 1 .. Len(t) /\ Len(t) = 1
    BY <1>1, PieceOf
  <2> QED BY <2>1
<1>3. t[1].kept > 0
  <2> DEFINE k == t[1].kept
  <2>1. k \in 1 .. 28
    BY <1>1
  <2> HIDE DEF k
  <2>2. k > 0
    BY <2>1
  <2> QED BY <2>2 DEF k
<1>4. Places(t, w) = {1} /\ \A v : v # w => Places(t, v) = {}
  BY <1>1, <1>2, <1>3, Zenon DEF Places
<1> QED BY <1>1, <1>4 DEF None, t

LEMMA OnceWord ==
  ASSUME NEW w \in Words
  PROVE  w # "[" => Once(Lit(w), w, FALSE) /\ Closed(Lit(w))
<1> DEFINE t == Lit(w)
<1>1. /\ t \in Texts /\ Len(t) = 1 /\ Places(t, w) = {1}
      /\ \A v : v # w => Places(t, v) = {}
  BY WordPlaces DEF None
<1> HIDE DEF t
<1>2. DOMAIN t = 1 .. Len(t)
  BY <1>1, PieceOf
<1>3. ASSUME w # "[" PROVE Once(t, w, FALSE) /\ Closed(t)
  <2>1. Places(t, "[") = {}
    BY <1>1, <1>3
  <2> QED BY <1>1, <1>2, <2>1 DEF Once, Closed, InBrackets
<1> QED BY <1>3 DEF t

(* What is put in brackets is in brackets.                                 *)
LEMMA Bracketed ==
  ASSUME NEW x \in Texts, None(x, "["), None(x, "]")
  PROVE  LET b == Join(Join(Lit("["), x), Lit("]")) IN
         /\ b \in Texts /\ Closed(b)
         /\ \A v : v \notin {"[", "]"} /\ None(x, v) => None(b, v)
         /\ \A w : w \notin {"[", "]"} /\ Once(x, w, FALSE) => Once(b, w, TRUE)
<1> DEFINE l == Lit("[")
           r == Lit("]")
           a == Join(l, x)
           b == Join(a, r)
           c == Len(x)
<1>1. "[" \in Words /\ "]" \in Words /\ "[" # "]"
  BY DEF Words
<1>2. /\ l \in Texts /\ Len(l) = 1 /\ Places(l, "[") = {1}
      /\ \A v : v # "[" => Places(l, v) = {}
  BY <1>1, WordPlaces DEF None
<1>3. /\ r \in Texts /\ Len(r) = 1 /\ Places(r, "]") = {1}
      /\ \A v : v # "]" => Places(r, v) = {}
  BY <1>1, WordPlaces DEF None
<1> HIDE DEF l, r
<1>4. c \in Nat /\ a \in Texts /\ Len(a) = 1 + c
  BY <1>2, PieceOf, Prefixed
<1>5. b \in Texts
  BY <1>3, <1>4, TextsJoin
<1>6. \A v : /\ Places(x, v) \subseteq 1 .. c /\ Places(a, v) \subseteq Nat
             /\ \A k \in Nat : k \in Places(a, v) <=>
                  k \in Places(l, v) \/ (k > 1 /\ k - 1 \in Places(x, v))
  <2>1. l \in Texts /\ Len(l) = 1
    BY <1>2
  <2>2. \A v : /\ Places(x, v) \subseteq 1 .. c /\ Places(a, v) \subseteq Nat
               /\ \A k \in Nat : k \in Places(a, v) <=>
                    k \in Places(l, v) \/ (k > Len(l) /\ k - Len(l) \in Places(x, v))
    BY <2>1, PlacesOfBoth
  <2> HIDE DEF a, c
  <2> QED BY <2>1, <2>2
<1>7. \A v : /\ Places(b, v) \subseteq Nat
             /\ \A k \in Nat : k \in Places(b, v) <=>
                  k \in Places(a, v) \/ (k > 1 + c /\ k - (1 + c) \in Places(r, v))
  <2> HIDE DEF a
  <2> QED BY <1>3, <1>4, PlacesOfBoth
<1> HIDE DEF a, b, c
<1>8. Places(b, "[") = {1}
  BY <1>1, <1>2, <1>3, <1>4, <1>6, <1>7 DEF None
<1>9. Places(b, "]") = {2 + c}
  <2>1. Places(a, "]") = {}
    BY <1>1, <1>2, <1>6 DEF None
  <2> QED BY <1>3, <1>4, <1>7, <2>1
<1>10. \A v : v \notin {"[", "]"} =>
         \A k \in Nat : k \in Places(b, v) <=> k > 1 /\ k - 1 \in Places(x, v)
  BY <1>2, <1>3, <1>6, <1>7
<1>11. Closed(b)
  BY <1>4, <1>8, <1>9 DEF Closed
<1>12. \A v : v \notin {"[", "]"} /\ None(x, v) => None(b, v)
  BY <1>7, <1>10 DEF None
<1>13. ASSUME NEW w, w \notin {"[", "]"}, Once(x, w, FALSE) PROVE Once(b, w, TRUE)
  <2>1. PICK i \in DOMAIN x : Places(x, w) = {i}
    BY <1>13 DEF Once
  <2>2. i \in 1 .. c /\ i + 1 \in Nat
    BY <1>4, <1>6, <2>1
  <2>3. Places(b, w) = {i + 1}
    BY <1>7, <1>10, <1>13, <2>1, <2>2
  <2>4. InBrackets(b, i + 1)
    <3>1. 1 < i + 1 /\ i + 1 < 2 + c
      BY <1>4, <2>2
    <3> QED BY <1>8, <1>9, <3>1 DEF InBrackets
  <2>5. i + 1 \in DOMAIN b
    BY <2>3 DEF Places
  <2> QED BY <2>3, <2>4, <2>5 DEF Once
<1> QED BY <1>5, <1>11, <1>12, <1>13 DEF b, a, l, r

-----------------------------------------------------------------------------
(* Joining a list of texts keeps what joining two keeps; what one of them  *)
(* alone has, the whole has once.                                          *)
LEMMA FlattenKeeps ==
  ASSUME NEW S, NEW m \in Seq(Seq(S)), m # <<>>, NEW P,
         \A k \in 1 .. Len(m) : m[k] \in P, \A x, y \in P : Join(x, y) \in P
  PROVE  FlattenSeq(m) \in P
<1> DEFINE last == Len(m)
<1>1. PICK f \in [1 .. last -> Seq(S)] :
        /\ f[1] = m[1] /\ \A i \in 2 .. last : f[i] = f[i - 1] \o m[i]
        /\ FlattenSeq(m) = f[last]
  BY FlattenUnfolds
<1>2. last \in Int /\ 1 <= last
  OBVIOUS
<1> HIDE DEF last
<1>3. \A i \in 2 .. last : f[i] = Join(f[i - 1], m[i])
  BY <1>1 DEF Join
<1> DEFINE Q == {i \in 1 .. last : f[i] \in P}
<1>4. 1 \in Q
  BY <1>1, <1>2 DEF last
<1>5. ASSUME NEW i \in 2 .. last, i - 1 \in Q PROVE i \in Q
  <2>1. i \in 1 .. last /\ f[i - 1] \in P /\ m[i] \in P
    BY <1>2, <1>5 DEF last
  <2> QED BY <1>3, <2>1
<1>6. 1 .. last \subseteq Q
  <2> HIDE DEF Q
  <2> QED BY <1>2, <1>4, <1>5, UpwardsFromOne
<1> QED BY <1>1, <1>2, <1>6

LEMMA OnceInAll ==
  ASSUME NEW m \in Seq(Texts), NEW p \in 1 .. Len(m), NEW w, NEW open,
         \A k \in 1 .. Len(m) : Closed(m[k]) /\ (k # p => None(m[k], w)),
         Once(m[p], w, open)
  PROVE  Once(FlattenSeq(m), w, open)
<1> DEFINE last == Len(m)
<1>1. last \in Int /\ 1 <= last /\ m # <<>>
  OBVIOUS
<1>2. PICK f \in [1 .. last -> Texts] :
        /\ f[1] = m[1] /\ \A i \in 2 .. last : f[i] = f[i - 1] \o m[i]
        /\ FlattenSeq(m) = f[last]
  BY <1>1, FlattenUnfolds DEF Texts
<1>3. \A i \in 1 .. last : m[i] \in Texts
  BY ElementOfSeq
<1> HIDE DEF last
<1>4. \A i \in 2 .. last : f[i] = Join(f[i - 1], m[i])
  BY <1>2 DEF Join
<1> DEFINE Good(i) == /\ Closed(f[i])
                      /\ i < p => None(f[i], w)
                      /\ i >= p => Once(f[i], w, open)
           Q == {i \in 1 .. last : Good(i)}
<1>5. 1 \in Q
  BY <1>1, <1>2 DEF last
<1>6. ASSUME NEW i \in 2 .. last, i - 1 \in Q PROVE i \in Q
  <2>1. /\ i \in 1 .. last /\ i - 1 \in 1 .. last
        /\ f[i - 1] \in Texts /\ m[i] \in Texts /\ f[i] = Join(f[i - 1], m[i])
    <3>1. i \in 1 .. last /\ i - 1 \in 1 .. last
      BY <1>1
    <3> QED BY <1>2, <1>3, <1>4, <3>1
  <2>2. Closed(f[i]) 
    BY <1>6, <2>1, ClosedBoth DEF last
  <2>3. i < p => None(f[i], w)
    BY <1>6, <2>1, NoneOfBoth DEF last
  <2>4. i = p => Once(f[i], w, open)
    BY <1>6, <2>1, OnceAfter DEF last
  <2>5. i > p => Once(f[i], w, open)
    BY <1>6, <2>1, OnceBefore DEF last
  <2> QED BY <2>1, <2>2, <2>3, <2>4, <2>5 DEF last
<1>7. 1 .. last \subseteq Q
  <2> HIDE DEF Q
  <2> QED BY <1>1, <1>5, <1>6, UpwardsFromOne
<1> QED BY <1>1, <1>2, <1>7 DEF last

-----------------------------------------------------------------------------
(* What the help shows of one option.                                      *)
AllNames == Names \cup ShortNames
Marks == {"-", "--", ", ", " ", "  ", "="}

LEMMA Distinct ==
  /\ \A w \in AllNames \cup {"[", "]"} : w \notin Marks \cup Datatypes
  /\ \A w \in AllNames \cup {"["} : w \notin {"blanks", "glossary"}
  /\ \A w \in AllNames : w \notin {"[", "]"}
  /\ \A w \in Names : w \notin ShortNames
  /\ Marks \cup Datatypes \cup AllNames \cup {"[", "]"} \subseteq Words \ {"\n"}
<1>1. \A w \in AllNames : w \notin Marks /\ w \notin {"[", "]", "blanks", "glossary"}
  BY DEF AllNames, Names, ShortNames, Marks
<1>2. \A w \in AllNames : w \notin Datatypes
  BY DEF AllNames, Names, ShortNames, Datatypes
<1>3. \A w \in {"[", "]"} : w \notin Marks /\ w \notin Datatypes
  BY DEF Marks, Datatypes
<1>4. \A w \in Names : w \notin ShortNames
  BY DEF Names, ShortNames
<1>5. "[" \notin {"blanks", "glossary"}
  OBVIOUS
<1>6. /\ Marks \subseteq FixedWords /\ {"[", "]"} \subseteq FixedWords
      /\ "\n" \notin FixedWords
  BY DEF Marks, FixedWords
<1>7. Marks \cup Datatypes \cup AllNames \cup {"[", "]"} \subseteq Words
  BY <1>6, PlainWords DEF AllNames
<1>8. "\n" \notin AllNames /\ "\n" \notin Datatypes
  BY DEF AllNames, Names, ShortNames, Datatypes
<1> QED BY <1>1, <1>2, <1>3, <1>4, <1>5, <1>6, <1>7, <1>8

LEMMA CharsNone ==
  ASSUME NEW p \in STRING, NEW k \in Nat
  PROVE  Chars(p, k) \in Texts /\ \A v : v # p => None(Chars(p, k), v)
<1> DEFINE t == Chars(p, k)
<1>1. t \in Texts /\ Len(t) = 1 /\ t[1].piece = p
  BY OnePiece
<1> HIDE DEF t
<1>2. DOMAIN t = 1 .. Len(t) /\ Len(t) = 1
  BY <1>1, PieceOf
<1>3. DOMAIN t = {1}
  BY <1>2
<1>4. \A v : v # p => Places(t, v) = {}
  BY <1>1, <1>3, Zenon DEF Places
<1> QED BY <1>1, <1>4 DEF None, t

(* What fits in syntax[] is joined.                                        *)
LEMMA Fitting ==
  ASSUME NEW s, NEW t, Plain(s), Plain(t), Length(s) + Length(t) <= Room - 1
  PROVE  /\ arg_cat(s, t) = Join(s, t) /\ strncat(s, t) = Join(s, t)
         /\ Plain(Join(s, t)) /\ Length(Join(s, t)) = Length(s) + Length(t)
<1> DEFINE b == s \o t
<1>1. b \in Texts /\ Length(b) = Length(s) + Length(t) /\ Plain(Join(s, t))
  <2>1. s \in Texts /\ t \in Texts
    BY DEF Plain
  <2> QED BY <2>1, JoinedTexts, LengthOfBoth, CatIsPlain
<1>2. Length(b) \in Nat /\ Length(b) <= 198 /\ 198 \in Nat /\ 199 \in Nat
  BY <1>1, LengthIsNat DEF Room
<1> HIDE DEF b
<1>3. Cut(b, 198) = b /\ Cut(b, 199) = b
  <2>1. Length(b) <= 199
    BY <1>2
  <2> QED BY <1>1, <1>2, <2>1, UncutIsWhole
<1> QED BY <1>1, <1>3 DEF arg_cat, strncat, Join, Room, b

(* A word of a text without brackets.                                      *)
Has(x, w) == x \in Texts /\ None(x, "[") /\ Once(x, w, FALSE)

LEMMA HasWord ==
  ASSUME NEW w \in AllNames PROVE Has(Lit(w), w)
<1>1. w \in Words /\ w # "["
  BY Distinct
<1> QED BY <1>1, WordPlaces, OnceWord DEF Has

LEMMA HasBeside ==
  ASSUME NEW x, NEW w, Has(x, w), NEW d \in Texts, None(d, "["), None(d, w)
  PROVE  Has(Join(d, x), w) /\ Has(Join(x, d), w)
<1>1. x \in Texts /\ None(x, "[") /\ Once(x, w, FALSE)
  BY DEF Has
<1>2. Closed(d)
  BY DEF Closed, None
<1>3. Join(d, x) \in Texts /\ Join(x, d) \in Texts
  BY <1>1, TextsJoin
<1> QED BY <1>1, <1>2, <1>3, NoneOfBoth, OnceBefore, OnceAfter DEF Has

(* A text that shows one option, and a block of the first line that does.  *)
ShowsOption(x, w) ==
  Has(x, w) /\ None(x, "]") /\ \A v \in AllNames \ {w} : None(x, v)
Block(b, w, open) ==
  b \in Texts /\ Closed(b) /\ Once(b, w, open) /\ \A v \in AllNames \ {w} : None(b, v)

LEMMA OptionBeside ==
  ASSUME NEW w \in AllNames
  PROVE  /\ ShowsOption(Lit(w), w)
         /\ \A x : \A d \in Marks \cup Datatypes : ShowsOption(x, w) =>
              ShowsOption(Join(x, Lit(d)), w) /\ ShowsOption(Join(Lit(d), x), w)
<1>1. ShowsOption(Lit(w), w)
  <2>1. w \in Words /\ w # "]"
    BY Distinct
  <2> QED BY <2>1, HasWord, WordPlaces DEF ShowsOption
<1>2. ASSUME NEW x, NEW d \in Marks \cup Datatypes, ShowsOption(x, w)
      PROVE  ShowsOption(Join(x, Lit(d)), w) /\ ShowsOption(Join(Lit(d), x), w)
  <2>1. /\ d \in Words /\ d # "[" /\ d # "]" /\ \A v \in AllNames : v # d
    BY Distinct
  <2>2. /\ Lit(d) \in Texts /\ None(Lit(d), "[") /\ None(Lit(d), "]")
        /\ \A v \in AllNames : None(Lit(d), v)
    BY <2>1, WordPlaces
  <2>3. x \in Texts
    BY <1>2 DEF ShowsOption, Has
  <2> QED BY <1>2, <2>2, <2>3, HasBeside, NoneOfBoth DEF ShowsOption
<1> QED BY <1>1, <1>2

LEMMA BlockOf ==
  ASSUME NEW w \in AllNames, NEW x, ShowsOption(x, w)
  PROVE  /\ Block(Join(Lit(" "), x), w, FALSE)
         /\ Block(Join(Lit(" "), Join(Join(Lit("["), x), Lit("]"))), w, TRUE)
<1>1. /\ " " \in Words /\ " " # "[" /\ " " # "]" /\ \A v \in AllNames : v # " "
      /\ w \notin {"[", "]"} /\ \A v \in AllNames : v \notin {"[", "]"}
  BY Distinct DEF Marks
<1>2. /\ Lit(" ") \in Texts /\ Closed(Lit(" "))
      /\ \A v \in AllNames : None(Lit(" "), v)
  BY <1>1, WordPlaces, OnceWord
<1>3. /\ x \in Texts /\ None(x, "[") /\ None(x, "]") /\ Closed(x)
      /\ Once(x, w, FALSE) /\ \A v \in AllNames \ {w} : None(x, v)
  BY DEF ShowsOption, Has, Closed, None
<1>4. ASSUME NEW b \in Texts, NEW open, Closed(b), Once(b, w, open),
             \A v \in AllNames \ {w} : None(b, v)
      PROVE  Block(Join(Lit(" "), b), w, open)
  BY <1>2, <1>4, TextsJoin, ClosedBoth, OnceAfter, NoneOfBoth DEF Block
<1> DEFINE b == Join(Join(Lit("["), x), Lit("]"))
<1>5. /\ b \in Texts /\ Closed(b) /\ Once(b, w, TRUE)
      /\ \A v \in AllNames \ {w} : None(b, v)
  BY <1>1, <1>3, Bracketed
<1> HIDE DEF b
<1> QED BY <1>3, <1>4, <1>5 DEF b

LEMMA NamesDiffer ==
  /\ \A k \in 1 .. 13 : Name(argtable[k]) \in AllNames
  /\ \A k, l \in 1 .. 13 : Name(argtable[k]) = Name(argtable[l]) => k = l
  /\ \A k, l \in 1 .. 13 : argtable[k].long = argtable[l].long => k = l
  /\ Name(argtable[7]) = "v"
  /\ \A k \in 1 .. 13 : InSwitch(argtable[k]) <=> k = 7
<1> DEFINE N(k) == Name(argtable[k])
<1>1. /\ N(1) = "help" /\ N(2) = "version" /\ N(3) = "u" /\ N(4) = "m" /\ N(5) = "c"
      /\ N(6) = "a" /\ N(7) = "v" /\ N(8) = "veth" /\ N(9) = "veth-peer"
      /\ N(10) = "container-ip" /\ N(11) = "host-ip" /\ N(12) = "nat" /\ N(13) = "dns"
  BY Table, NoneIsNull DEF Name, Row
<1> HIDE DEF N
<1>2. \A k \in 1 .. 13 : N(k) \in AllNames
  BY <1>1 DEF AllNames, Names, ShortNames
<1>3. \A k, l \in 1 .. 13 : N(k) = N(l) => k = l
  BY <1>1
<1>4. \A k, l \in 1 .. 13 : argtable[k].long = argtable[l].long => k = l
  BY Table DEF Row
<1>5. \A k \in 1 .. 13 : InSwitch(argtable[k]) <=> k = 7
  <2>1. "v" # NULL
    BY NoneIsNull
  <2> QED BY <2>1, Table DEF Row, InSwitch
<1> QED BY <1>1, <1>2, <1>3, <1>4, <1>5 DEF N

LEMMA FlattenOne ==
  ASSUME NEW S, NEW s \in Seq(Seq(S)), NEW p \in 1 .. Len(s),
         \A k \in 1 .. Len(s) : k # p => s[k] = <<>>
  PROVE  FlattenSeq(s) = s[p]
<1> DEFINE last == Len(s)
<1>1. last \in Int /\ 1 <= last /\ s # <<>>
  OBVIOUS
<1>2. PICK f \in [1 .. last -> Seq(S)] :
        /\ f[1] = s[1] /\ \A i \in 2 .. last : f[i] = f[i - 1] \o s[i]
        /\ FlattenSeq(s) = f[last]
  BY <1>1, FlattenUnfolds
<1>3. \A i \in 1 .. last : s[i] \in Seq(S)
  BY ElementOfSeq
<1>4. \A x \in Seq(S) : Join(<<>>, x) = x /\ Join(x, <<>>) = x
  BY ConcatEmptySeq DEF Join
<1>5. \A i \in 2 .. last : f[i] = Join(f[i - 1], s[i])
  BY <1>2 DEF Join
<1>6. \A k \in 1 .. last : k # p => s[k] = <<>>
  OBVIOUS
<1>7. p \in 1 .. last
  OBVIOUS
<1> HIDE DEF last
<1> DEFINE Q == {i \in 1 .. last : f[i] = IF i < p THEN <<>> ELSE s[p]}
<1>8. 1 \in Q
  BY <1>1, <1>2, <1>6, <1>7
<1>9. ASSUME NEW i \in 2 .. last, i - 1 \in Q PROVE i \in Q
  <2>1. /\ i \in 1 .. last /\ f[i] = Join(f[i - 1], s[i])
        /\ f[i - 1] = IF i - 1 < p THEN <<>> ELSE s[p]
    BY <1>1, <1>5, <1>9
  <2>2. s[i] \in Seq(S) /\ s[p] \in Seq(S) /\ <<>> \in Seq(S)
    BY <1>3, <1>7, <2>1
  <2>3. CASE i < p
    <3>1. s[i] = <<>> /\ f[i - 1] = <<>>
      BY <1>6, <2>1, <2>3
    <3> QED BY <1>4, <2>1, <2>2, <2>3, <3>1
  <2>4. CASE i = p
    <3>1. f[i - 1] = <<>>
      BY <2>1, <2>4
    <3> QED BY <1>4, <2>1, <2>2, <2>4, <3>1
  <2>5. CASE i > p
    <3>1. s[i] = <<>> /\ f[i - 1] = s[p]
      BY <1>6, <2>1, <2>5
    <3> QED BY <1>4, <2>1, <2>2, <2>5, <3>1
  <2> QED BY <2>3, <2>4, <2>5
<1>10. 1 .. last \subseteq Q
  <2> HIDE DEF Q
  <2> QED BY <1>1, <1>8, <1>9, UpwardsFromOne
<1> QED BY <1>1, <1>2, <1>7, <1>10

(* A dashed name with its datatype.                                        *)
LEMMA OptionText ==
  ASSUME NEW o, IsOption(o)
  PROVE  ShowsOption(arg_cat_option(o), Name(o))
<1> DEFINE w == Name(o)
           dash == IF o.short # NULL THEN "-" ELSE "--"
           sign == IF o.short # NULL THEN " " ELSE "="
           head == Join(Lit(dash), Lit(w))
           value == IF o.value THEN Lit(o.datatype) ELSE <<>>
<1>1. w \in AllNames /\ w \in Words /\ Plain(Lit(w)) /\ Length(Lit(w)) \in 1 .. 28
  <2>1. w \in AllNames
    BY DEF IsOption, Name, AllNames
  <2> HIDE DEF w
  <2> QED BY <2>1, Distinct, WordIsText
<1>2. /\ dash \in Marks /\ sign \in Marks
      /\ Plain(Lit(dash)) /\ Length(Lit(dash)) \in 1 .. 28
      /\ Plain(Lit(sign)) /\ Length(Lit(sign)) \in 1 .. 28
  <2>1. dash \in Marks /\ sign \in Marks
    BY DEF Marks
  <2> HIDE DEF dash, sign
  <2>2. dash \in Words /\ sign \in Words /\ dash # "\n" /\ sign # "\n"
    BY <2>1, Distinct
  <2> QED BY <2>1, <2>2, WordIsText
<1>3. arg_cat_option(o) =
        IF o.short # NULL THEN Valued(arg_cat(Lit("-"), Lit(w)), sign, value)
        ELSE Valued(strncat(Lit("--"), Lit(w)), sign, value)
  BY DEF arg_cat_option, Name
<1>4. arg_cat_option(o) = Valued(head, sign, value)
  <2>1. Length(Lit(dash)) + Length(Lit(w)) <= Room - 1
    <3> DEFINE x == Length(Lit(dash))
               y == Length(Lit(w))
    <3>1. x \in 1 .. 28 /\ y \in 1 .. 28
      BY <1>1, <1>2
    <3> HIDE DEF x, y
    <3>2. x + y <= Room - 1
      BY <3>1 DEF Room
    <3> QED BY <3>2 DEF x, y
  <2>2. arg_cat(Lit(dash), Lit(w)) = head /\ strncat(Lit(dash), Lit(w)) = head
    <3> HIDE DEF dash, w
    <3> QED BY <1>1, <1>2, <2>1, Fitting
  <2> HIDE DEF w, sign, value, head
  <2>3. CASE o.short # NULL
    BY <1>3, <2>2, <2>3
  <2>4. CASE o.short = NULL
    BY <1>3, <2>2, <2>4
  <2> QED BY <2>3, <2>4
<1>5. Plain(head) /\ Length(head) \in 2 .. 56 /\ ShowsOption(head, w)
  <2> DEFINE l == Lit(dash)
             r == Lit(w)
  <2>1. Plain(l) /\ Plain(r) /\ Length(l) \in 1 .. 28 /\ Length(r) \in 1 .. 28
    BY <1>1, <1>2
  <2>2. ShowsOption(Join(l, r), w)
    <3> HIDE DEF dash, w
    <3> QED BY <1>1, <1>2, OptionBeside
  <2> HIDE DEF l, r
  <2>3. Length(l) + Length(r) <= Room - 1 /\ Length(l) + Length(r) \in 2 .. 56
    BY <2>1 DEF Room
  <2>4. Plain(Join(l, r)) /\ Length(Join(l, r)) \in 2 .. 56
    BY <2>1, <2>3, Fitting
  <2> QED BY <2>2, <2>4 DEF l, r
<1>6. CASE ~ o.value
  <2>1. arg_cat_option(o) = head
    BY <1>4, <1>6 DEF Valued
  <2> QED BY <1>5, <2>1
<1>7. CASE o.value
  <2> DEFINE d == Lit(o.datatype)
             s == Lit(sign)
  <2>1. o.datatype \in Datatypes
    BY <1>7 DEF IsOption
  <2>2. /\ o.datatype \in Words /\ Plain(d) /\ Length(d) \in 1 .. 28
    BY <2>1, Distinct, WordIsText
  <2>3. arg_cat_option(o) = arg_cat(arg_cat(head, s), d)
    <3>1. d # <<>>
      BY DEF Lit
    <3> QED BY <1>4, <1>7, <3>1 DEF Valued
  <2>4. Plain(s) /\ Length(s) \in 1 .. 28
    BY <1>2
  <2>5. ShowsOption(Join(Join(head, s), d), w)
    <3> HIDE DEF head, w, sign
    <3>1. ShowsOption(Join(head, s), w)
      BY <1>1, <1>2, <1>5, OptionBeside
    <3> QED BY <1>1, <2>1, <3>1, OptionBeside
  <2> HIDE DEF s, d, head
  <2>6. Length(head) + Length(s) <= Room - 1 /\ Length(head) + Length(s) \in 3 .. 84
    BY <1>5, <2>4 DEF Room
  <2>7. /\ arg_cat(head, s) = Join(head, s) /\ Plain(Join(head, s))
        /\ Length(Join(head, s)) \in 3 .. 84
    BY <1>5, <2>4, <2>6, Fitting
  <2>8. Length(Join(head, s)) + Length(d) <= Room - 1
    BY <2>2, <2>7 DEF Room
  <2>9. arg_cat(Join(head, s), d) = Join(Join(head, s), d)
    BY <2>2, <2>7, <2>8, Fitting
  <2> QED BY <2>3, <2>5, <2>7, <2>9
<1> QED BY <1>6, <1>7

-----------------------------------------------------------------------------
(* The first line: " [-v]", and then the other options.                    *)
LEMMA Listed ==
  ASSUME NEW S, NEW k \in Nat, NEW f \in [1 .. k -> S]
  PROVE  f \in Seq(S) /\ Len(f) = k
OBVIOUS

SwitchText ==
  Join(Lit(" "), Join(Join(Lit("["), Join(Lit("-"), Lit("v"))), Lit("]")))

LEMMA SwitchSays ==
  Says(arg_print_gnuswitch, SwitchText) /\ Block(SwitchText, "v", TRUE)
<1> DEFINE musts == Lettered(TRUE)
           others == Lettered(FALSE)
           Letter(i) == Lit(argtable[i].short)
           Must(i) == IF i \notin musts THEN <<>>
                      ELSE IF IsFirst(i, musts) THEN catf(4, Lit(" -") \o Letter(i))
                      ELSE catf(2, Letter(i))
           Other(i) ==
             IF i \notin others THEN <<>>
             ELSE IF ~ IsFirst(i, others) THEN catf(2, Letter(i))
             ELSE IF musts = {} THEN catf(5, Lit(" ") \o Lit("[") \o Lit("-") \o Letter(i))
             ELSE catf(3, Lit("[") \o Letter(i))
           Rows == [i \in DOMAIN argtable |-> i]
           A == [i \in DOMAIN Rows |-> Must(Rows[i])]
           B == [i \in DOMAIN Rows |-> Other(Rows[i])]
           last == catf(2, IF others = {} THEN <<>> ELSE Lit("]"))
           t == Lit(" ") \o Lit("[") \o Lit("-") \o Lit("v")
           first == catf(5, t)
<1>1. arg_print_gnuswitch = FlattenSeq(A) \o FlattenSeq(B) \o last
  BY DEF arg_print_gnuswitch, Each
<1>2. musts = {} /\ others = {7}
  <2>1. DOMAIN argtable = 1 .. 13 /\ argtable[7].mincount = 0
    BY Table DEF Row
  <2>2. \A i \in 1 .. 13 : InSwitch(argtable[i]) <=> i = 7
    BY NamesDiffer
  <2>3. (argtable[7].mincount > 0) = FALSE
    BY <2>1
  <2>4. musts = {}
    BY <2>1, <2>2, <2>3 DEF Lettered
  <2>5. others = {7}
    BY <2>1, <2>2, <2>3 DEF Lettered
  <2> QED BY <2>4, <2>5
<1>3. DOMAIN Rows = 1 .. 13 /\ \A i \in 1 .. 13 : Rows[i] = i
  BY Table
<1>4. \A i \in 1 .. 13 : Must(i) = <<>>
  BY <1>2
<1>5. /\ Other(7) = first /\ \A i \in 1 .. 13 : i # 7 => Other(i) = <<>>
  <2>1. IsFirst(7, others)
    <3> HIDE DEF others
    <3> QED BY <1>2 DEF IsFirst
  <2>2. argtable[7].short = "v"
    BY Table DEF Row
  <2> QED BY <1>2, <2>1, <2>2
<1>6. last = catf(2, Lit("]"))
  BY <1>2
<1>7. /\ Plain(Lit(" ")) /\ Plain(Lit("[")) /\ Plain(Lit("-")) /\ Plain(Lit("v"))
      /\ Plain(Lit("]"))
  BY PlainWords DEF FixedWords, ShortNames
<1>8. Plain(t) /\ t = Join(Join(Join(Lit(" "), Lit("[")), Lit("-")), Lit("v"))
  BY <1>7, CatIsPlain DEF Join
<1> HIDE DEF Must, Other, Rows
<1>9. Says(first, t) /\ Says(last, Lit("]"))
  <2>1. 5 \in Nat /\ 2 \in Nat
    OBVIOUS
  <2> HIDE DEF t, last
  <2> QED BY <1>6, <1>7, <1>8, <2>1, SaysOne
<1> HIDE DEF first, last, t
<1>10. A \in Seq(Seq(Call)) /\ Len(A) = 13 /\ \A i \in 1 .. 13 : A[i] = <<>>
  <2>1. \A i \in 1 .. 13 : A[i] = <<>>
    BY <1>3, <1>4
  <2>2. A \in [1 .. 13 -> Seq(Call)]
    <3>1. <<>> \in Seq(Call) /\ \A i \in 1 .. 13 : Must(Rows[i]) = <<>>
      BY <1>3, <1>4
    <3> QED BY <1>3, <3>1
  <2> HIDE DEF A
  <2>3. A \in Seq(Seq(Call)) /\ Len(A) = 13
    <3> DEFINE k == 13
    <3>1. k \in Nat /\ A \in [1 .. k -> Seq(Call)]
      BY <2>2
    <3> HIDE DEF k
    <3>2. A \in Seq(Seq(Call)) /\ Len(A) = k
      BY ONLY <3>1, Listed, Zenon
    <3> QED BY <3>2 DEF k
  <2> QED BY <2>1, <2>3
<1>11. /\ B \in Seq(Seq(Call)) /\ Len(B) = 13 /\ B[7] = first
       /\ \A i \in 1 .. 13 : i # 7 => B[i] = <<>>
  <2>1. B[7] = first /\ \A i \in 1 .. 13 : i # 7 => B[i] = <<>>
    BY <1>3, <1>5
  <2>2. first \in Seq(Call)
    BY <1>9 DEF Says
  <2>3. B \in [1 .. 13 -> Seq(Call)]
    <3>0. <<>> \in Seq(Call) /\ \A i \in 1 .. 13 : Other(Rows[i]) = Other(i)
      BY <1>3
    <3>1. \A i \in 1 .. 13 : Other(Rows[i]) \in Seq(Call)
      BY <1>5, <2>2, <3>0
    <3> QED BY <1>3, <3>1
  <2> HIDE DEF B
  <2>4. B \in Seq(Seq(Call)) /\ Len(B) = 13
    <3> DEFINE k == 13
    <3>1. k \in Nat /\ B \in [1 .. k -> Seq(Call)]
      BY <2>3
    <3> HIDE DEF k
    <3>2. B \in Seq(Seq(Call)) /\ Len(B) = k
      BY ONLY <3>1, Listed, Zenon
    <3> QED BY <3>2 DEF k
  <2> QED BY <2>1, <2>4
<1> HIDE DEF A, B
<1>12. FlattenSeq(A) = <<>> /\ FlattenSeq(B) = first
  <2>1. 7 \in 1 .. Len(A) /\ 7 \in 1 .. Len(B)
    BY <1>10, <1>11
  <2>2. FlattenSeq(A) = A[7]
    BY <1>10, <2>1, FlattenOne
  <2>3. FlattenSeq(B) = B[7]
    BY <1>11, <2>1, FlattenOne
  <2> QED BY <1>10, <1>11, <2>2, <2>3
<1>13. arg_print_gnuswitch = first \o last
  <2>1. <<>> \o first = first
    BY <1>9, ConcatEmptySeq DEF Says
  <2> QED BY <1>1, <1>12, <2>1
<1>14. Says(arg_print_gnuswitch, Join(t, Lit("]")))
  BY <1>9, <1>13, SaysBoth
<1> DEFINE sp == Lit(" ")
           br == Lit("[")
           da == Lit("-")
           v == Lit("v")
           cl == Lit("]")
<1>15. t = Join(Join(Join(sp, br), da), v)
  BY <1>8
<1>16. /\ sp \in Texts /\ br \in Texts /\ da \in Texts /\ v \in Texts /\ cl \in Texts
  BY <1>7 DEF Plain
<1>17. SwitchText = Join(sp, Join(Join(br, Join(da, v)), cl))
  BY DEF SwitchText
<1>18. Block(SwitchText, "v", TRUE)
  <2>1. "v" \in AllNames /\ "-" \in Marks
    BY DEF AllNames, ShortNames, Marks
  <2>2. ShowsOption(Join(da, v), "v")
    BY <2>1, OptionBeside
  <2> QED BY <1>17, <2>1, <2>2, BlockOf
<1> HIDE DEF sp, br, da, v, cl
<1>19. Join(t, cl) = SwitchText
  <2>1. \A x, y, z \in Texts : /\ Join(Join(x, y), z) = Join(x, Join(y, z))
                               /\ Join(x, y) \in Texts
    BY TextsJoin
  <2>2. Join(Join(sp, br), da) = Join(sp, Join(br, da)) /\ Join(br, da) \in Texts
    BY <1>16, <2>1
  <2>3. Join(Join(sp, Join(br, da)), v) = Join(sp, Join(Join(br, da), v))
        /\ Join(Join(br, da), v) \in Texts
    BY <1>16, <2>1, <2>2
  <2>4. Join(Join(br, da), v) = Join(br, Join(da, v))
    BY <1>16, <2>1
  <2>5. t = Join(sp, Join(br, Join(da, v))) /\ Join(br, Join(da, v)) \in Texts
    BY <1>15, <2>2, <2>3, <2>4
  <2>6. Join(t, cl) = Join(sp, Join(Join(br, Join(da, v)), cl))
    BY <1>16, <2>1, <2>5
  <2> QED BY <1>17, <2>6
<1> QED BY <1>14, <1>18, <1>19 DEF cl

LEMMA PrintedSays ==
  ASSUME NEW k \in 1 .. 13
  PROVE  \E t : /\ Says(PrintedOption(argtable[k]), t)
                /\ k = 7 => t = <<>>
                /\ k # 7 => Block(t, Name(argtable[k]), argtable[k].mincount = 0)
<1> DEFINE o == argtable[k]
           x == arg_cat_option(o)
           sp == Lit(" ")
           br == Lit("[")
           cl == Lit("]")
           w == Name(o)
<1>1. IsOption(o)
  BY Table, OptionsAre
<1>2. Plain(x) /\ ShowsOption(x, w) /\ w \in AllNames /\ o.mincount \in {0, 1}
  <2>1. w \in AllNames
    BY NamesDiffer
  <2> HIDE DEF o
  <2> QED BY <1>1, <2>1, OptionIsPlain, OptionText DEF IsOption
<1>3. Plain(sp) /\ Plain(br) /\ Plain(cl) /\ 0 \in Nat
  BY PlainWords DEF FixedWords
<1>4. PrintedOption(o) = IF k = 7 THEN <<>>
                         ELSE IF o.mincount = 1 THEN cat(sp) \o cat(x)
                         ELSE cat(sp \o br) \o cat(x) \o cat(cl)
  <2>1. InSwitch(o) <=> k = 7
    BY NamesDiffer
  <2> HIDE DEF o
  <2> QED BY <2>1 DEF PrintedOption
<1>5. /\ Block(Join(sp, x), w, FALSE)
      /\ Block(Join(sp, Join(Join(br, x), cl)), w, TRUE)
  <2> HIDE DEF o, x, w
  <2> QED BY <1>2, BlockOf
<1> HIDE DEF o, x, w, sp, br, cl
<1>6. CASE k = 7
  <2>1. Says(<<>>, <<>>)
    <3>1. <<>> \in Seq(Call)
      OBVIOUS
    <3> QED BY <3>1, PlainTexts, ContentsOf DEF Says
  <2> QED BY <1>4, <1>6, <2>1 DEF o
<1>7. CASE k # 7 /\ o.mincount = 1
  <2>1. Says(cat(sp), sp) /\ Says(cat(x), x)
    BY <1>2, <1>3, SaysOne
  <2>2. Says(PrintedOption(o), Join(sp, x))
    BY <1>4, <1>7, <2>1, SaysBoth
  <2>3. ~ (o.mincount = 0)
    BY <1>7
  <2>4. Block(Join(sp, x), w, o.mincount = 0)
    BY <1>5, <2>3 DEF Block, Once
  <2> QED BY <1>7, <2>2, <2>4 DEF o, w
<1>8. CASE k # 7 /\ o.mincount = 0
  <2>1. Plain(Join(sp, br)) /\ Plain(sp \o br)
    BY <1>3, CatIsPlain
  <2>2. Says(cat(sp \o br), Join(sp, br)) /\ Says(cat(x), x) /\ Says(cat(cl), cl)
    BY <1>2, <1>3, <2>1, SaysOne DEF Join
  <2>3. Says(cat(sp \o br) \o cat(x), Join(Join(sp, br), x))
    BY <2>2, SaysBoth
  <2>4. Says(PrintedOption(o), Join(Join(Join(sp, br), x), cl))
    <3>1. o.mincount # 1
      BY <1>8
    <3> QED BY <1>4, <1>8, <2>2, <2>3, <3>1, SaysBoth
  <2>5. Join(Join(Join(sp, br), x), cl) = Join(sp, Join(Join(br, x), cl))
    <3>1. sp \in Texts /\ br \in Texts /\ x \in Texts /\ cl \in Texts
      BY <1>2, <1>3 DEF Plain
    <3>2. \A a, b, c \in Texts : /\ Join(Join(a, b), c) = Join(a, Join(b, c))
                                 /\ Join(a, b) \in Texts
      BY TextsJoin
    <3>3. Join(Join(sp, br), x) = Join(sp, Join(br, x)) /\ Join(br, x) \in Texts
      BY <3>1, <3>2
    <3>4. Join(Join(sp, Join(br, x)), cl) = Join(sp, Join(Join(br, x), cl))
      BY <3>1, <3>2, <3>3
    <3> QED BY <3>3, <3>4
  <2>6. Block(Join(sp, Join(Join(br, x), cl)), w, o.mincount = 0)
    BY <1>5, <1>8 DEF Block, Once
  <2> QED BY <1>8, <2>4, <2>5, <2>6 DEF o, w
<1> QED BY <1>2, <1>6, <1>7, <1>8

LEMMA SyntaxSays ==
  \E s : /\ SaysLine(arg_print_syntax, s)
         /\ \A k \in 1 .. 13 : Once(s, Name(argtable[k]), argtable[k].mincount = 0)
<1> DEFINE o(k) == argtable[k]
           c == [k \in DOMAIN argtable |-> PrintedOption(o(k))]
           T(k) == CHOOSE t : /\ Says(PrintedOption(o(k)), t)
                              /\ k = 7 => t = <<>>
                              /\ k # 7 => Block(t, Name(o(k)), o(k).mincount = 0)
           m == [k \in DOMAIN c |-> Contents(c[k])]
           blocks == [k \in 1 .. 14 |-> IF k = 1 THEN SwitchText ELSE T(k - 1)]
<1>1. \A k \in 1 .. 13 : /\ Says(PrintedOption(o(k)), T(k))
                         /\ k = 7 => T(k) = <<>>
                         /\ k # 7 => Block(T(k), Name(o(k)), o(k).mincount = 0)
  BY PrintedSays
<1>2. DOMAIN argtable = 1 .. 13
  BY Table
<1>3. /\ c \in Seq(Seq(Call)) /\ Len(c) = 13 /\ DOMAIN c = 1 .. 13
      /\ \A k \in 1 .. 13 : Contents(c[k]) = T(k)
  <2>1. \A k \in 1 .. 13 : c[k] = PrintedOption(o(k)) /\ c[k] \in Seq(Call)
    BY <1>1, <1>2 DEF Says
  <2>2. \A k \in 1 .. 13 : Contents(c[k]) = T(k)
    <3> HIDE DEF c, T, o
    <3> QED BY <1>1, <2>1 DEF Says
  <2> DEFINE len == 13
  <2>3. len \in Nat /\ c \in [1 .. len -> Seq(Call)]
    <3>1. c = [k \in 1 .. 13 |-> c[k]]
      BY <1>2
    <3> HIDE DEF c
    <3> QED BY <2>1, <3>1
  <2> HIDE DEF c, len
  <2>4. c \in Seq(Seq(Call)) /\ Len(c) = len
    BY ONLY <2>3, Listed, Zenon
  <2>5. DOMAIN c = 1 .. len
    BY <2>3
  <2> HIDE DEF T
  <2> QED BY <2>2, <2>4, <2>5 DEF len
<1>4. arg_print_syntax = (arg_print_gnuswitch \o FlattenSeq(c)) \o cat(Lit("\n"))
  BY DEF arg_print_syntax, Each
<1>5. \A k \in 1 .. 13 : T(k) \in Texts /\ Plain(T(k)) /\ Closed(T(k))
  <2> HIDE DEF T, o
  <2>1. Closed(<<>>)
    BY DEF Closed, Places
  <2> QED BY <1>1, <2>1 DEF Says, Plain, Block
<1> HIDE DEF c
<1>6. Contents(FlattenSeq(c)) = FlattenSeq(m) /\ FlattenSeq(c) \in Seq(Call)
  BY <1>3, ContentsEach DEF AllOf
<1>7. /\ m \in Seq(Texts) /\ Len(m) = 13 /\ \A k \in 1 .. 13 : m[k] = T(k)
  <2>1. \A k \in 1 .. 13 : m[k] = T(k)
    BY <1>3
  <2> DEFINE len == 13
  <2>2. len \in Nat /\ m \in [1 .. len -> Texts]
    <3>1. m = [k \in 1 .. 13 |-> m[k]]
      BY <1>3
    <3> HIDE DEF m, T
    <3> QED BY <1>5, <2>1, <3>1
  <2> HIDE DEF m, len
  <2>3. m \in Seq(Texts) /\ Len(m) = len
    BY ONLY <2>2, Listed, Zenon
  <2> QED BY <2>1, <2>3 DEF len
<1>8. /\ SwitchText \in Texts /\ Plain(SwitchText) /\ Closed(SwitchText)
      /\ Says(arg_print_gnuswitch, SwitchText)
  BY SwitchSays DEF Says, Plain, Block
<1>9. /\ blocks \in Seq(Texts) /\ Len(blocks) = 14 /\ blocks[1] = SwitchText
      /\ \A k \in 1 .. 13 : blocks[k + 1] = T(k)
      /\ \A k \in 1 .. 14 : blocks[k] \in Texts /\ Plain(blocks[k]) /\ Closed(blocks[k])
  <2> HIDE DEF T
  <2>1. /\ blocks[1] = SwitchText /\ \A k \in 2 .. 14 : blocks[k] = T(k - 1)
    OBVIOUS
  <2>2. \A k \in 1 .. 13 : k + 1 \in 2 .. 14 /\ k + 1 - 1 = k
    OBVIOUS
  <2>3. \A k \in 1 .. 14 : k = 1 \/ (k \in 2 .. 14 /\ k - 1 \in 1 .. 13)
    OBVIOUS
  <2>4. \A k \in 1 .. 14 : blocks[k] \in Texts /\ Plain(blocks[k]) /\ Closed(blocks[k])
    <3> HIDE DEF blocks
    <3> QED BY <1>5, <1>8, <2>1, <2>3
  <2> DEFINE len == 14
  <2>5. len \in Nat /\ blocks \in [1 .. len -> Texts]
    <3>1. blocks = [k \in 1 .. 14 |-> blocks[k]]
      OBVIOUS
    <3> HIDE DEF blocks
    <3> QED BY <2>4, <3>1
  <2> HIDE DEF blocks, len
  <2>6. blocks \in Seq(Texts) /\ Len(blocks) = len
    BY ONLY <2>5, Listed, Zenon
  <2>7. \A k \in 1 .. 13 : blocks[k + 1] = T(k)
    BY <2>1, <2>2
  <2> QED BY <2>1, <2>4, <2>6, <2>7 DEF len
<1> HIDE DEF m, blocks, T, o
<1> DEFINE s == FlattenSeq(blocks)
<1>10. s = Join(SwitchText, FlattenSeq(m)) /\ blocks # <<>>
  <2>0. blocks \in Seq(Texts) /\ Len(blocks) = 14
    BY <1>9
  <2>1. blocks # <<>>
    BY ONLY <2>0
  <2>2. /\ Head(blocks) = blocks[1] /\ Tail(blocks) \in Seq(Texts)
        /\ Len(Tail(blocks)) = Len(blocks) - 1
        /\ \A k \in 1 .. Len(Tail(blocks)) : Tail(blocks)[k] = blocks[k + 1]
    BY <1>9, <2>1, HeadTailProperties
  <2>3. Len(Tail(blocks)) = Len(m)
        /\ \A k \in 1 .. Len(Tail(blocks)) : Tail(blocks)[k] = m[k]
    <3>1. Len(Tail(blocks)) = 13 /\ Len(m) = 13
      BY ONLY <1>7, <2>0, <2>2
    <3>2. \A k \in 1 .. 13 : Tail(blocks)[k] = blocks[k + 1]
      BY <2>2, <3>1
    <3> QED BY <1>7, <1>9, <3>1, <3>2
  <2>4. Tail(blocks) = m
    BY ONLY <1>7, <2>2, <2>3, SeqEqual
  <2>5. FlattenSeq(blocks) = Head(blocks) \o FlattenSeq(Tail(blocks))
    BY <1>9, <2>1, FlattenFirst DEF Texts
  <2> QED BY <1>9, <2>1, <2>2, <2>4, <2>5 DEF Join
<1>11. Plain(s)
  <2> DEFINE P == {t \in Texts : Plain(t)}
  <2>1. \A x, y \in P : Join(x, y) \in P
    BY TextsJoin, CatIsPlain
  <2>2. \A k \in 1 .. Len(blocks) : blocks[k] \in P
    BY <1>9
  <2>3. blocks \in Seq(Seq(Pieces)) /\ blocks # <<>>
    BY <1>9, <1>10 DEF Texts
  <2>4. FlattenSeq(blocks) \in P
    <3> HIDE DEF P
    <3> QED BY <2>1, <2>2, <2>3, FlattenKeeps
  <2> QED BY <2>4
<1>12. Plain(FlattenSeq(m))
  <2> DEFINE P == {t \in Texts : Plain(t)}
  <2>1. \A x, y \in P : Join(x, y) \in P
    BY TextsJoin, CatIsPlain
  <2>2. \A k \in 1 .. Len(m) : m[k] \in P
    BY <1>5, <1>7
  <2>3. m \in Seq(Seq(Pieces)) /\ m # <<>>
    <3>1. m \in Seq(Texts) /\ Len(m) = 13
      BY <1>7
    <3>2. m # <<>>
      BY ONLY <3>1
    <3> QED BY <3>1, <3>2 DEF Texts
  <2>4. FlattenSeq(m) \in P
    <3> HIDE DEF P
    <3> QED BY <2>1, <2>2, <2>3, FlattenKeeps
  <2> QED BY <2>4
<1>13. SaysLine(arg_print_syntax, s)
  <2>1. Says(FlattenSeq(c), FlattenSeq(m))
    BY <1>6, <1>12 DEF Says
  <2>2. Says(arg_print_gnuswitch \o FlattenSeq(c), s)
    BY <1>8, <1>10, <2>1, SaysBoth
  <2> QED BY <1>4, <2>2, SaysAndEnds
<1>14. ASSUME NEW k \in 1 .. 13 PROVE Once(s, Name(o(k)), o(k).mincount = 0)
  <2> DEFINE p == IF k = 7 THEN 1 ELSE k + 1
             w == Name(o(k))
  <2>1. p \in 1 .. Len(blocks) /\ w \in AllNames
    BY <1>9, NamesDiffer DEF o
  <2>2. Once(blocks[p], w, o(k).mincount = 0)
    <3>1. CASE k = 7
      <4>1. o(7).mincount = 0 /\ w = "v"
        BY <3>1, Table, NamesDiffer DEF Row, o
      <4> QED BY <1>9, <3>1, <4>1, SwitchSays DEF Block, Once
    <3>2. CASE k # 7
      <4>1. blocks[p] = T(k)
        BY <1>9, <3>2
      <4> QED BY <1>1, <3>2, <4>1 DEF Block
    <3> QED BY <3>1, <3>2
  <2>3. ASSUME NEW l \in 1 .. Len(blocks), l # p PROVE None(blocks[l], w)
    <3>1. CASE l = 1
      <4>1. k # 7 /\ w # "v"
        BY <2>3, <3>1, NamesDiffer DEF o
      <4> QED BY <1>9, <2>1, <3>1, <4>1, SwitchSays DEF Block
    <3>2. CASE l # 1
      <4>1. l - 1 \in 1 .. 13 /\ l - 1 + 1 = l /\ (l - 1 = 7 \/ l - 1 # k)
        BY <1>9, <2>3, <3>2
      <4>2. blocks[l] = T(l - 1)
        BY <1>9, <4>1
      <4>3. CASE l - 1 = 7
        <5>1. blocks[l] = <<>>
          BY <1>1, <4>1, <4>2, <4>3
        <5> QED BY <5>1 DEF None, Places
      <4>4. CASE l - 1 # 7
        <5>1. Block(T(l - 1), Name(o(l - 1)), o(l - 1).mincount = 0)
          BY <1>1, <4>1, <4>4
        <5>2. w # Name(o(l - 1))
          BY <4>1, <4>4, NamesDiffer DEF o
        <5> QED BY <2>1, <4>2, <5>1, <5>2 DEF Block
      <4> QED BY <4>3, <4>4
    <3> QED BY <3>1, <3>2
  <2>4. \A l \in 1 .. Len(blocks) : Closed(blocks[l])
    BY <1>9
  <2> HIDE DEF p, w
  <2>5. Once(s, w, o(k).mincount = 0)
    BY <1>9, <2>1, <2>2, <2>3, <2>4, OnceInAll
  <2> QED BY <2>5 DEF w
<1> QED BY <1>13, <1>14 DEF o

-----------------------------------------------------------------------------
(* The other lines: each of an option, with the long name once.            *)
Free(t, len, w) ==
  Plain(t) /\ Length(t) \in 0 .. len /\ None(t, "[") /\ None(t, w)
Holds(t, len, w) == Plain(t) /\ Length(t) \in 0 .. len /\ Has(t, w)

LEMMA ShortWord ==
  ASSUME NEW w \in Words, w # "\n"
  PROVE  Plain(Lit(w)) /\ Lit(w) \in Texts /\ Length(Lit(w)) \in 1 .. 28
<1>1. Length(Lit(w)) = Len(w) /\ Len(w) \in 1 .. 28
  BY WordIsText
<1>2. Length(Lit(w)) \in 1 .. 28
  BY ONLY <1>1
<1> QED BY <1>2, WordIsText

LEMMA WordAdded ==
  ASSUME NEW w, NEW d \in Words, d \notin {"[", "\n"}, NEW t,
         NEW len \in 0 .. 168, NEW more, more = len + 28
  PROVE  /\ Free(t, len, w) /\ d # w => Free(arg_cat(t, Lit(d)), more, w)
         /\ Holds(t, len, w) /\ d # w => Holds(arg_cat(t, Lit(d)), more, w)
         /\ Free(t, len, w) /\ d = w /\ w \in AllNames =>
              Holds(strncat(t, Lit(d)), more, w)
<1> DEFINE l == Lit(d)
<1>1. /\ Plain(l) /\ Length(l) \in 1 .. 28 /\ l \in Texts /\ None(l, "[")
      /\ d # w => None(l, w)
  <2>1. d # "[" /\ d # "\n"
    OBVIOUS
  <2> QED BY <2>1, ShortWord, WordPlaces
<1>2. ASSUME Plain(t), Length(t) \in 0 .. len
      PROVE  /\ arg_cat(t, l) = Join(t, l) /\ strncat(t, l) = Join(t, l)
             /\ Plain(Join(t, l)) /\ Length(Join(t, l)) \in 0 .. more
  <2>1. Length(t) + Length(l) <= Room - 1 /\ Length(t) + Length(l) \in 0 .. more
    BY <1>1, <1>2 DEF Room
  <2> HIDE DEF l
  <2> QED BY <1>1, <1>2, <2>1, Fitting
<1>3. ASSUME Free(t, len, w), d # w PROVE Free(arg_cat(t, l), more, w)
  <2>1. t \in Texts
    BY <1>3 DEF Free, Plain
  <2> HIDE DEF l
  <2> QED BY <1>1, <1>2, <1>3, <2>1, NoneOfBoth DEF Free
<1>4. ASSUME Holds(t, len, w), d # w PROVE Holds(arg_cat(t, l), more, w)
  <2> HIDE DEF l
  <2> QED BY <1>1, <1>2, <1>4, HasBeside DEF Holds
<1>5. ASSUME Free(t, len, w), d = w, w \in AllNames
      PROVE  Holds(strncat(t, l), more, w)
  <2>1. t \in Texts /\ Has(l, w)
    BY <1>5, HasWord DEF Free, Plain
  <2> HIDE DEF l
  <2> QED BY <1>2, <1>5, <2>1, HasBeside DEF Free, Holds
<1> QED BY <1>3, <1>4, <1>5

LEMMA NamedSyntax ==
  ASSUME NEW o, IsOption(o)
  PROVE  LET t == arg_cat_optionv(o, Datatype(o), ", ") IN
         Plain(t) /\ Has(t, o.long)
<1> DEFINE w == o.long
           dash == arg_cat(Lit("-"), Lit(o.short))
           letter == IF o.short = NULL THEN <<>> ELSE arg_cat(dash, Lit(", "))
           front == arg_cat(letter, Lit("--"))
           name == strncat(front, Lit(w))
           value == Datatype(o)
           valued == arg_cat(arg_cat(name, Lit("=")), Lit(o.datatype))
<1>1. /\ w \in Names /\ w \in AllNames /\ w \in Words /\ w \notin {"[", "\n"}
      /\ w \notin {"-", "--", ", ", "="} /\ w \notin Datatypes
  <2>1. w \in Names
    BY DEF IsOption
  <2> HIDE DEF w
  <2> QED BY <2>1, Distinct DEF AllNames, Marks
<1>2. /\ "-" \in Words /\ "--" \in Words /\ ", " \in Words /\ "=" \in Words
      /\ {"-", "--", ", ", "="} \cap {"[", "\n"} = {}
  BY Distinct DEF Marks
<1> HIDE DEF w
<1>3. Free(<<>>, 0, w) /\ Free(Lit("-"), 28, w)
  <2>1. Free(<<>>, 0, w)
    <3>1. Places(<<>>, "[") = {} /\ Places(<<>>, w) = {}
      BY DEF Places
    <3> QED BY <3>1, LengthIsNat, PlainTexts DEF Free, None
  <2>2. Free(Lit("-"), 28, w)
    <3>1. /\ Plain(Lit("-")) /\ Length(Lit("-")) \in 1 .. 28
          /\ None(Lit("-"), "[") /\ None(Lit("-"), w)
      <4>1. "-" # "\n" /\ "-" # "[" /\ "-" # w
        BY <1>1
      <4>2. "-" \in Words
        BY <1>2
      <4> QED BY <4>1, <4>2, ShortWord, WordPlaces
    <3>2. Length(Lit("-")) \in 0 .. 28
      BY <3>1
    <3> QED BY <3>1, <3>2 DEF Free
  <2> QED BY <2>1, <2>2
<1>4. letter = <<>> \/ Free(letter, 84, w)
  <2>1. CASE o.short = NULL
    BY <2>1
  <2>2. CASE o.short # NULL
    <3>1. /\ o.short \in Words /\ o.short \notin {"[", "\n"} /\ o.short # w
      <4>1. o.short \in ShortNames
        BY <2>2 DEF IsOption
      <4> QED BY <1>1, <4>1, Distinct DEF AllNames
    <3>2. Free(dash, 56, w)
      <4>1. 28 \in 0 .. 168 /\ 28 + 28 = 56
        OBVIOUS
      <4> QED BY <1>3, <3>1, <4>1, WordAdded
    <3> HIDE DEF dash
    <3>3. Free(arg_cat(dash, Lit(", ")), 84, w)
      <4>1. 56 \in 0 .. 168 /\ 84 = 56 + 28
        OBVIOUS
      <4>2. ", " # w /\ ", " \notin {"[", "\n"} /\ ", " \in Words
        BY <1>1, <1>2, Zenon
      <4> QED BY ONLY <3>2, <4>1, <4>2, WordAdded
    <3> QED BY <2>2, <3>3
  <2> QED BY <2>1, <2>2
<1>5. Free(letter, 84, w)
  <2> HIDE DEF letter
  <2> QED BY <1>3, <1>4 DEF Free
<1> HIDE DEF letter
<1>6. Free(front, 112, w)
  <2>1. 84 \in 0 .. 168 /\ 112 = 84 + 28
    OBVIOUS
  <2>2. "--" # w /\ "--" \notin {"[", "\n"} /\ "--" \in Words
    BY <1>1, <1>2, Zenon
  <2> QED BY ONLY <1>5, <2>1, <2>2, WordAdded DEF front
<1> HIDE DEF front
<1>7. Holds(name, 140, w)
  <2>1. 112 \in 0 .. 168 /\ 140 = 112 + 28
    OBVIOUS
  <2>2. w \in Words /\ w \notin {"[", "\n"} /\ w \in AllNames
    BY <1>1
  <2> QED BY ONLY <1>6, <2>1, <2>2, WordAdded DEF name
<1>8. arg_cat_optionv(o, value, ", ") = Valued(name, "=", value)
  BY DEF arg_cat_optionv, letter, front, dash, w
<1> HIDE DEF name
<1>9. CASE ~ o.value
  <2>1. Valued(name, "=", value) = name
    BY <1>9 DEF Valued, Datatype
  <2> QED BY <1>7, <1>8, <2>1 DEF Holds, w
<1>10. CASE o.value
  <2>1. Valued(name, "=", value) = valued
    <3>1. Lit(o.datatype) # <<>>
      BY DEF Lit
    <3> QED BY <1>10, <3>1 DEF Valued, Datatype
  <2>2. o.datatype \in Datatypes
    BY <1>10 DEF IsOption
  <2>3. o.datatype \in Words /\ o.datatype \notin {"[", "\n"} /\ o.datatype # w
    BY <1>1, <2>2, Distinct
  <2>4. Holds(arg_cat(name, Lit("=")), 168, w)
    <3>1. 140 \in 0 .. 168 /\ 168 = 140 + 28
      OBVIOUS
    <3>2. "=" # w /\ "=" \notin {"[", "\n"} /\ "=" \in Words
      BY <1>1, <1>2, Zenon
    <3> QED BY ONLY <1>7, <3>1, <3>2, WordAdded
  <2>5. Holds(valued, 196, w)
    <3> DEFINE x == arg_cat(name, Lit("="))
    <3>1. 168 \in 0 .. 168 /\ 168 + 28 = 196 /\ Holds(x, 168, w)
      BY <2>4
    <3> HIDE DEF x
    <3>2. Holds(arg_cat(x, Lit(o.datatype)), 196, w)
      BY <2>3, <3>1, WordAdded
    <3> QED BY <3>2 DEF x
  <2> QED BY <1>8, <2>1, <2>5 DEF Holds, w
<1> QED BY <1>9, <1>10

LEMMA ExplainedSays ==
  ASSUME NEW o, IsOption(o)
  PROVE  \E t : SaysLine(Explained(o), t) /\ Once(t, o.long, FALSE)
<1> DEFINE w == o.long
           x == arg_cat_optionv(o, Datatype(o), ", ")
           k == Within(20 - Length(x), 0, 20)
           blanks == Chars("blanks", k)
           glossary == Chars("glossary", o.glossary)
           two == Lit("  ")
           one == Lit(" ")
           t == two \o x \o blanks \o one \o glossary
<1>1. Plain(x) /\ Has(x, w)
  BY NamedSyntax
<1>2. Explained(o) = catf(11, t \o Lit("\n"))
  BY DEF Explained
<1>3. w \in AllNames /\ w \notin {"[", " ", "  ", "blanks", "glossary"}
  <2>1. w \in AllNames
    BY DEF IsOption, AllNames
  <2> HIDE DEF w
  <2> QED BY <2>1, Distinct DEF Marks
<1>4. /\ Plain(two) /\ None(two, "[") /\ None(two, w)
      /\ Plain(one) /\ None(one, "[") /\ None(one, w)
  <2>1. "  " \in Words /\ " " \in Words
    BY Distinct DEF Marks
  <2> HIDE DEF w
  <2> QED BY <1>3, <2>1, WordPlaces, PlainWords DEF FixedWords
<1>5. k \in Nat /\ o.glossary \in Nat
  <2>1. Length(x) \in Nat
    BY <1>1, LengthIsNat DEF Plain
  <2> HIDE DEF x
  <2> QED BY <2>1 DEF Within, IsOption
<1>6. /\ Plain(blanks) /\ None(blanks, "[") /\ None(blanks, w)
      /\ Plain(glossary) /\ None(glossary, "[") /\ None(glossary, w)
  <2> HIDE DEF k, w
  <2>1. "blanks" \in STRING /\ "glossary" \in STRING
    BY WordsAssumption
  <2>2. Plain(blanks) /\ Plain(glossary)
    BY <1>5, PlainWords
  <2> QED BY <1>3, <1>5, <2>1, <2>2, CharsNone
<1> HIDE DEF x, k, w, blanks, glossary, two, one
<1>7. ASSUME NEW y, Plain(y), Has(y, w), NEW d, Plain(d), None(d, "["), None(d, w)
      PROVE  /\ Plain(y \o d) /\ Has(y \o d, w) /\ Plain(d \o y) /\ Has(d \o y, w)
  <2>1. d \in Texts
    BY <1>7 DEF Plain
  <2> QED BY <1>7, <2>1, HasBeside, CatIsPlain DEF Join
<1>8. Plain(two \o x) /\ Has(two \o x, w)
  BY <1>1, <1>4, <1>7
<1>9. Plain(two \o x \o blanks) /\ Has(two \o x \o blanks, w)
  BY <1>6, <1>7, <1>8
<1>10. Plain(two \o x \o blanks \o one) /\ Has(two \o x \o blanks \o one, w)
  BY <1>4, <1>7, <1>9
<1>11. Plain(t) /\ Has(t, w)
  BY <1>6, <1>7, <1>10
<1> HIDE DEF t
<1>12. SaysLine(Explained(o), t)
  <2>1. 11 \in Nat
    OBVIOUS
  <2> QED BY <1>2, <1>11, <2>1, SaysOne
<1> QED BY <1>11, <1>12 DEF Has, w

-----------------------------------------------------------------------------
(* The two texts of the help.                                              *)
LEMMA GlossaryDocument ==
  /\ arg_print_glossary \in Seq(Call)
  /\ \E s \in Seq(Texts) : \E b :
       /\ Len(s) = 13 /\ Contents(arg_print_glossary) = FlattenSeq(s)
       /\ \A k \in 1 .. 13 : /\ Plain(b[k]) /\ s[k] = Join(b[k], Lit("\n"))
                             /\ Once(b[k], argtable[k].long, FALSE)
<1> DEFINE o(k) == argtable[k]
           c == [k \in DOMAIN argtable |-> Explained(o(k))]
           m == [k \in DOMAIN c |-> Contents(c[k])]
           B(k) == CHOOSE t : SaysLine(Explained(o(k)), t) /\ Once(t, o(k).long, FALSE)
           b == [k \in 1 .. 13 |-> B(k)]
           len == 13
<1>1. \A k \in 1 .. 13 : SaysLine(Explained(o(k)), B(k)) /\ Once(B(k), o(k).long, FALSE)
  BY Table, OptionsAre, ExplainedSays
<1>2. DOMAIN argtable = 1 .. 13
  BY Table
<1>3. \A k \in 1 .. 13 : b[k] = B(k)
  OBVIOUS
<1> HIDE DEF B, b
<1>4. /\ c \in Seq(Seq(Call)) /\ Len(c) = 13 /\ DOMAIN c = 1 .. 13
      /\ \A k \in 1 .. 13 : Contents(c[k]) = Join(B(k), Lit("\n"))
  <2>1. \A k \in 1 .. 13 : c[k] = Explained(o(k)) /\ c[k] \in Seq(Call)
    BY <1>1, <1>2 DEF SaysLine
  <2>2. \A k \in 1 .. 13 : Contents(c[k]) = Join(B(k), Lit("\n"))
    <3> HIDE DEF c, o
    <3> QED BY <1>1, <2>1 DEF SaysLine
  <2>3. len \in Nat /\ c \in [1 .. len -> Seq(Call)]
    <3>1. c = [k \in 1 .. 13 |-> c[k]]
      BY <1>2
    <3> HIDE DEF c
    <3> QED BY <2>1, <3>1
  <2> HIDE DEF c, len
  <2>4. c \in Seq(Seq(Call)) /\ Len(c) = len
    BY ONLY <2>3, Listed, Zenon
  <2>5. DOMAIN c = 1 .. len
    BY <2>3
  <2> QED BY <2>2, <2>4, <2>5 DEF len
<1>5. arg_print_glossary = FlattenSeq(c)
  BY DEF arg_print_glossary, Each
<1>6. \A k \in 1 .. 13 : /\ Plain(B(k)) /\ Once(B(k), o(k).long, FALSE)
                         /\ Join(B(k), Lit("\n")) \in Texts
  BY <1>1, PlainWords, TextsJoin DEF SaysLine, Plain
<1> HIDE DEF c
<1>7. Contents(FlattenSeq(c)) = FlattenSeq(m) /\ FlattenSeq(c) \in Seq(Call)
  BY <1>4, ContentsEach DEF AllOf
<1>8. /\ m \in Seq(Texts) /\ Len(m) = 13
      /\ \A k \in 1 .. 13 : m[k] = Join(B(k), Lit("\n"))
  <2>1. \A k \in 1 .. 13 : m[k] = Join(B(k), Lit("\n"))
    BY <1>4
  <2>2. len \in Nat /\ m \in [1 .. len -> Texts]
    <3>1. m = [k \in 1 .. 13 |-> m[k]]
      BY <1>4
    <3> HIDE DEF m
    <3> QED BY <1>6, <2>1, <3>1
  <2> HIDE DEF m, len
  <2>3. m \in Seq(Texts) /\ Len(m) = len
    BY ONLY <2>2, Listed, Zenon
  <2> QED BY <2>1, <2>3 DEF len
<1>9. \A k \in 1 .. 13 : /\ Plain(b[k]) /\ m[k] = Join(b[k], Lit("\n"))
                         /\ Once(b[k], argtable[k].long, FALSE)
  BY <1>3, <1>6, <1>8
<1> HIDE DEF m
<1> QED BY <1>5, <1>7, <1>8, <1>9

LEMMA AllOfOne ==
  ASSUME NEW c \in Seq(Call)
  PROVE  <<c>> \in Seq(Seq(Call)) /\ AllOf(<<c>>) = Contents(c)
<1> DEFINE d == <<c>>
<1>1. d \in Seq(Seq(Call)) /\ d # <<>> /\ Head(d) = c /\ Tail(d) = <<>>
  OBVIOUS
<1> HIDE DEF d
<1>2. AllOf(d) = Join(Contents(c), <<>>)
  BY <1>1, AllOfThem
<1>3. Contents(c) \in Texts
  BY ContentsOf
<1> QED BY <1>1, <1>2, <1>3, TextsJoin DEF d

LEMMA AllOfTwo ==
  ASSUME NEW c \in Seq(Call), NEW d \in Seq(Call)
  PROVE  <<c, d>> \in Seq(Seq(Call)) /\ AllOf(<<c, d>>) = Join(Contents(c), Contents(d))
<1> DEFINE e == <<c, d>>
<1>1. e \in Seq(Seq(Call)) /\ e # <<>> /\ Head(e) = c /\ Tail(e) = <<d>>
  OBVIOUS
<1> HIDE DEF e
<1>2. AllOf(e) = Join(Contents(c), AllOf(<<d>>))
  BY <1>1, AllOfThem
<1> QED BY <1>1, <1>2, AllOfOne DEF e

LEMMA DocumentsAreTexts ==
  \A errs \in ErrorLists : Documents(errs) \in Seq(Seq(Call))
<1> TAKE errs \in ErrorLists
<1>1. arg_print_syntax \in Seq(Call) /\ arg_print_glossary \in Seq(Call)
  BY SyntaxSays, GlossaryDocument DEF SaysLine
<1>2. arg_print_errors(errs) \in Seq(Call)
  BY ErrorsDocument
<1> QED BY <1>1, <1>2, AllOfOne, AllOfTwo DEF Documents

(* The help as lines: the options one by one, and then each on its own.    *)
LEMMA HelpText ==
  \E s \in Seq(Texts) : \E b :
    /\ Len(s) = 14 /\ AllOf(<<arg_print_syntax, arg_print_glossary>>) = FlattenSeq(s)
    /\ \A k \in 1 .. 14 : Plain(b[k]) /\ s[k] = Join(b[k], Lit("\n"))
    /\ \A k \in 1 .. 13 :
         /\ Once(b[1], Name(argtable[k]), argtable[k].mincount = 0)
         /\ Once(b[k + 1], argtable[k].long, FALSE)
<1>1. PICK first :
        /\ SaysLine(arg_print_syntax, first)
        /\ \A k \in 1 .. 13 : Once(first, Name(argtable[k]), argtable[k].mincount = 0)
  BY SyntaxSays
<1>2. PICK g, others :
        /\ g \in Seq(Texts) /\ Len(g) = 13 /\ Contents(arg_print_glossary) = FlattenSeq(g)
        /\ \A k \in 1 .. 13 : /\ Plain(others[k]) /\ g[k] = Join(others[k], Lit("\n"))
                              /\ Once(others[k], argtable[k].long, FALSE)
  BY GlossaryDocument
<1> DEFINE b == [k \in 1 .. 14 |-> IF k = 1 THEN first ELSE others[k - 1]]
           s == [k \in 1 .. 14 |-> Join(b[k], Lit("\n"))]
           len == 14
<1>3. b[1] = first /\ \A k \in 1 .. 13 : b[k + 1] = others[k]
  <2>1. \A k \in 2 .. 14 : b[k] = others[k - 1]
    OBVIOUS
  <2>2. \A k \in 1 .. 13 : k + 1 \in 2 .. 14 /\ k + 1 - 1 = k
    OBVIOUS
  <2> QED BY <2>1, <2>2
<1>4. \A k \in 1 .. 14 : k = 1 \/ (k - 1 \in 1 .. 13 /\ k - 1 + 1 = k)
  OBVIOUS
<1>5. Plain(first) /\ Contents(arg_print_syntax) = Join(first, Lit("\n"))
  BY <1>1 DEF SaysLine
<1> HIDE DEF b
<1>6. \A k \in 1 .. 14 : Plain(b[k])
  <2>1. \A k \in 1 .. 13 : Plain(b[k + 1])
    BY <1>2, <1>3
  <2> QED BY <1>3, <1>4, <1>5, <2>1
<1>7. \A k \in 1 .. 14 : s[k] = Join(b[k], Lit("\n")) /\ s[k] \in Texts
  BY <1>6, PlainWords, TextsJoin DEF Plain
<1>8. s \in Seq(Texts) /\ Len(s) = 14
  <2>1. len \in Nat /\ s \in [1 .. len -> Texts]
    <3>1. s = [k \in 1 .. 14 |-> s[k]]
      OBVIOUS
    <3> HIDE DEF s
    <3> QED BY <1>7, <3>1
  <2> HIDE DEF s, len
  <2>2. s \in Seq(Texts) /\ Len(s) = len
    BY ONLY <2>1, Listed, Zenon
  <2> QED BY <2>2 DEF len
<1> HIDE DEF s
<1>9. FlattenSeq(s) = Join(Contents(arg_print_syntax), Contents(arg_print_glossary))
  <2>1. s # <<>>
    <3>1. Len(s) # 0
      BY <1>8
    <3>2. Len(<<>>) = 0
      OBVIOUS
    <3> QED BY ONLY <3>1, <3>2, Zenon
  <2>2. /\ Head(s) = s[1] /\ Tail(s) \in Seq(Texts) /\ Len(Tail(s)) = Len(s) - 1
        /\ \A k \in 1 .. Len(Tail(s)) : Tail(s)[k] = s[k + 1]
    BY <1>8, <2>1, HeadTailProperties
  <2>3. Len(Tail(s)) = 13 /\ Len(g) = 13
    BY ONLY <1>2, <1>8, <2>2
  <2>4. \A k \in 1 .. 13 : Tail(s)[k] = g[k]
    <3>1. \A k \in 1 .. 13 : Tail(s)[k] = s[k + 1]
      BY <2>2, <2>3
    <3>2. \A k \in 1 .. 13 : k + 1 \in 1 .. 14
      OBVIOUS
    <3>3. \A k \in 1 .. 13 : s[k + 1] = Join(others[k], Lit("\n"))
      BY <1>3, <1>7, <3>2
    <3> QED BY <1>2, <3>1, <3>3
  <2>5. Tail(s) = g
    <3>1. Len(Tail(s)) = Len(g) /\ \A k \in 1 .. Len(g) : Tail(s)[k] = g[k]
      BY <2>3, <2>4
    <3> QED BY ONLY <1>2, <2>2, <3>1, SeqEqual
  <2>6. FlattenSeq(s) = Head(s) \o FlattenSeq(Tail(s))
    BY <1>8, <2>1, FlattenFirst DEF Texts
  <2>7. s[1] = Contents(arg_print_syntax)
    BY <1>3, <1>5, <1>7
  <2> QED BY <1>2, <2>2, <2>5, <2>6, <2>7 DEF Join
<1>10. AllOf(<<arg_print_syntax, arg_print_glossary>>) = FlattenSeq(s)
  BY <1>1, <1>9, AllOfTwo, GlossaryDocument DEF SaysLine
<1>11. \A k \in 1 .. 13 : /\ Once(b[1], Name(argtable[k]), argtable[k].mincount = 0)
                          /\ Once(b[k + 1], argtable[k].long, FALSE)
  BY <1>1, <1>2, <1>3
<1> QED BY <1>6, <1>7, <1>8, <1>10, <1>11

-----------------------------------------------------------------------------
(* Printed, in the string, still to come of this message, and of the rest: *)
(* together they are all that there is to print.                           *)
ToCome == Join(Contents(calls), AllOf(Tail(docs)))

OutInv ==
  /\ errors \in ErrorLists /\ Documents(errors) \in Seq(Seq(Call)) /\ out \in Texts
  /\ ds = 0 => Join(out, AllOf(docs)) = AllOf(Documents(errors))
  /\ ds # 0 => Join(out, Join(text, ToCome)) = AllOf(Documents(errors))

IInv == StringInv /\ BlockInv /\ CallsInv /\ OutInv

LEMMA InitGood == Init => IInv
<1> SUFFICES ASSUME Init PROVE IInv
  OBVIOUS
<1>1. /\ errors \in ErrorLists /\ docs = Documents(errors)
      /\ Documents(errors) \in Seq(Seq(Call))
  BY DocumentsAreTexts DEF Init
<1>2. StringInv /\ BlockInv
  BY LengthIsNat DEF Init, dstrInit, StringInv, BlockInv
<1>3. CallsInv
  BY <1>1 DEF Init, dstrInit, CallsInv
<1>4. AllOf(docs) \in Texts
  BY <1>1, AllOfThem
<1>5. OutInv
  BY <1>1, <1>4, LengthIsNat, TextsJoin DEF Init, dstrInit, OutInv
<1> QED BY <1>2, <1>3, <1>5 DEF IInv

LEMMA BeginKeeps == IInv /\ Begin => IInv'
<1> SUFFICES ASSUME IInv, Begin PROVE IInv'
  OBVIOUS
<1>1. /\ ds = 0 /\ docs # <<>> /\ arg_dstr_create /\ text' = <<>>
      /\ calls' = Head(docs) /\ UNCHANGED <<errors, docs, out>>
  BY DEF Begin, arg_dstr_create
<1>2. StringInv' /\ BlockInv' /\ ds' # 0 /\ buff' = 0
  BY <1>1, Created DEF IInv
<1>3. /\ Head(docs) \in Seq(Call) /\ Tail(docs) \in Seq(Seq(Call))
      /\ AllOf(docs) = Join(Contents(Head(docs)), AllOf(Tail(docs)))
      /\ AllOf(docs) \in Texts
  BY <1>1, AllOfThem DEF IInv, CallsInv
<1>4. CallsInv'
  BY <1>1, <1>2, <1>3 DEF CallsInv, IInv
<1>5. ToCome' = AllOf(docs)
  BY <1>1, <1>3 DEF ToCome
<1>6. Join(text', ToCome') = AllOf(docs)
  BY <1>1, <1>3, <1>5, LengthIsNat, TextsJoin
<1>7. OutInv'
  BY <1>1, <1>2, <1>6 DEF OutInv, IInv
<1> QED BY <1>2, <1>4, <1>7 DEF IInv

LEMMA FputsKeeps == IInv /\ Fputs => IInv'
<1> SUFFICES ASSUME IInv, Fputs PROVE IInv'
  OBVIOUS
<1>1. /\ ds # 0 /\ calls = <<>> /\ out' = Join(out, text) /\ docs' = Tail(docs)
      /\ arg_dstr_destroy /\ UNCHANGED <<errors, calls>>
  BY DEF Fputs, Join
<1>2. StringInv' /\ BlockInv' /\ ds' = 0 /\ buff' = 0
  BY <1>1, Destroyed DEF IInv
<1>3. docs # <<>> /\ Tail(docs) \in Seq(Seq(Call)) /\ AllOf(Tail(docs)) \in Texts
  BY <1>1, AllOfThem DEF IInv, CallsInv
<1>4. CallsInv'
  BY <1>1, <1>2, <1>3 DEF CallsInv, IInv
<1>5. ToCome = AllOf(docs')
  <2>1. Contents(calls) = <<>>
    BY <1>1, ContentsOf DEF IInv, CallsInv
  <2> QED BY <1>1, <1>3, <2>1, LengthIsNat, TextsJoin DEF ToCome
<1>6. out \in Texts /\ text \in Texts
  BY DEF IInv, OutInv, StringInv
<1>7. Join(out', AllOf(docs')) = Join(out, Join(text, ToCome))
  BY <1>1, <1>3, <1>5, <1>6, TextsJoin
<1>8. out' \in Texts
  BY <1>1, <1>6, TextsJoin
<1>9. OutInv'
  BY <1>1, <1>2, <1>7, <1>8 DEF OutInv, IInv
<1> QED BY <1>2, <1>4, <1>9 DEF IInv

(* A call that is over has added its text.                                 *)
LEMMA CallDone ==
  ASSUME IInv, ds # 0, calls # <<>>, StringInv', BlockInv', ds' = ds, buff' = 0,
         text' = Join(text, Head(calls).text), calls' = Tail(calls),
         UNCHANGED <<errors, docs, out>>
  PROVE  IInv'
<1>1. /\ Head(calls).text \in Texts /\ Tail(calls) \in Seq(Call)
      /\ Contents(calls) = Join(Head(calls).text, Contents(Tail(calls)))
      /\ Contents(Tail(calls)) \in Texts
  BY ContentsOf DEF IInv, CallsInv
<1>2. docs # <<>> /\ AllOf(Tail(docs)) \in Texts
  BY AllOfThem DEF IInv, CallsInv
<1>3. text \in Texts
  BY DEF IInv, StringInv
<1>4. CallsInv'
  BY <1>1 DEF IInv, CallsInv
<1>5. ToCome = Join(Head(calls).text, ToCome') /\ ToCome' \in Texts
  <2>1. ToCome' = Join(Contents(Tail(calls)), AllOf(Tail(docs)))
    BY DEF ToCome
  <2>2. ToCome = Join(Join(Head(calls).text, Contents(Tail(calls))), AllOf(Tail(docs)))
    BY <1>1 DEF ToCome
  <2> QED BY <1>1, <1>2, <2>1, <2>2, TextsJoin
<1>6. Join(text', ToCome') = Join(text, ToCome)
  BY <1>1, <1>3, <1>5, TextsJoin
<1>7. OutInv'
  BY <1>6 DEF IInv, OutInv
<1> QED BY <1>4, <1>7 DEF IInv

LEMMA MakeCallKeeps == IInv /\ MakeCall => IInv'
<1> SUFFICES ASSUME IInv, MakeCall PROVE IInv'
  OBVIOUS
<1> DEFINE c == Head(calls)
<1>1. ds # 0 /\ calls # <<>> /\ UNCHANGED <<errors, docs, out>>
  BY DEF MakeCall
<1>2. c \in Call /\ c.text \in Texts /\ c.format \in Nat
  <2>1. c \in Call
    BY <1>1, HeadTailProperties DEF IInv, CallsInv
  <2> QED BY <2>1 DEF Call
<1>3. StringInv /\ BlockInv
  BY DEF IInv
<1> HIDE DEF c
<1>4. CASE Cat(c.text) /\ calls' = Tail(calls)
  <2>1. buff = 0 /\ arg_dstr_cat(c.text, 0) /\ UNCHANGED <<buff, n>>
    BY <1>4 DEF Cat
  <2>2. StringInv' /\ BlockInv' /\ text' = text \o c.text
    BY <1>1, <1>2, <1>3, <2>1, Appended
  <2>3. ds' = ds
    BY <2>1 DEF arg_dstr_cat
  <2> QED BY <1>1, <1>4, <2>1, <2>2, <2>3, CallDone DEF Join, c
<1>5. ASSUME NEW h, NEW size \in Nat, NewBuff(h, size), UNCHANGED calls,
             DOMAIN h = DOMAIN heap \ ({buff} \ {0}), \A x \in DOMAIN h : h[x] = heap[x]
      PROVE  IInv'
  <2>1. StringInv' /\ BlockInv' /\ buff' # 0 /\ UNCHANGED <<ds, text>>
    BY <1>1, <1>3, <1>5, Rebuffered
  <2>2. CallsInv'
    BY <1>1, <1>5, <2>1 DEF CallsInv, IInv
  <2>3. OutInv'
    BY <1>1, <1>5, <2>1 DEF OutInv, ToCome, IInv
  <2> QED BY <2>1, <2>2, <2>3 DEF IInv
<1>6. CASE CatfBegin(c.format) /\ UNCHANGED calls
  <2>1. buff = 0 /\ NewBuff(heap, Larger(2 * c.format, START_VSNBUFF))
    BY <1>6 DEF CatfBegin
  <2>2. Larger(2 * c.format, START_VSNBUFF) \in Nat
    BY <1>2 DEF Larger, START_VSNBUFF
  <2> QED BY <1>5, <1>6, <2>1, <2>2
<1>7. CASE CatfRound(c.text) /\ UNCHANGED calls
  <2>1. buff # 0 /\ NewBuff(xfree(heap, buff), Grown(Length(c.text)))
    BY <1>7 DEF CatfRound
  <2>2. Grown(Length(c.text)) \in Nat
    BY <1>2, <1>3, LengthIsNat DEF Grown, BlockInv
  <2>3. /\ DOMAIN xfree(heap, buff) = DOMAIN heap \ ({buff} \ {0})
        /\ \A x \in DOMAIN xfree(heap, buff) : xfree(heap, buff)[x] = heap[x]
    BY <2>1 DEF xfree
  <2> QED BY <1>5, <1>7, <2>1, <2>2, <2>3
<1>8. CASE CatfEnd(c.text) /\ calls' = Tail(calls)
  <2>1. buff # 0 /\ Fits(c.text) /\ arg_dstr_cat(Printed(c.text), buff)
        /\ buff' = 0 /\ n' = 0
    BY <1>8 DEF CatfEnd
  <2>2. Printed(c.text) = c.text
    BY <1>2, <1>3, <2>1, UncutIsWhole DEF Fits, Printed, BlockInv
  <2>3. StringInv' /\ BlockInv' /\ text' = text \o c.text
    BY <1>1, <1>2, <1>3, <2>1, <2>2, Appended
  <2>4. ds' = ds
    BY <2>1 DEF arg_dstr_cat
  <2> QED BY <1>1, <1>8, <2>1, <2>3, <2>4, CallDone DEF Join, c
<1>9. \/ Cat(c.text) /\ calls' = Tail(calls)
      \/ CatfBegin(c.format) /\ UNCHANGED calls
      \/ CatfRound(c.text) /\ UNCHANGED calls
      \/ CatfEnd(c.text) /\ calls' = Tail(calls)
  BY DEF MakeCall, c
<1> QED BY <1>4, <1>6, <1>7, <1>8, <1>9

LEMMA NextGood == IInv /\ [Next]_vars => IInv'
<1>1. ASSUME IInv, UNCHANGED vars PROVE IInv'
  BY <1>1 DEF IInv, vars, dstrVars, StringInv, BlockInv, CallsInv, OutInv, ToCome
<1> QED BY <1>1, BeginKeeps, MakeCallKeeps, FputsKeeps DEF Next

LEMMA Invariance == Spec => []IInv
BY InitGood, NextGood, PTL DEF Spec

(* xmalloc() and xfree() of setup_append_buf(), arg_dstr_catf() and        *)
(* arg_dstr_destroy(), for texts of any length: every block has one        *)
(* pointer, and every text fits its block with its NUL, although           *)
(* append_used is one append behind.                                       *)
THEOREM HeapStaysSound == Spec => []HeapSound
<1>1. IInv => HeapSound
  <2> SUFFICES ASSUME IInv PROVE HeapSound
    OBVIOUS
  <2> USE DEF IInv, StringInv, BlockInv, CallsInv
  <2>1. ToSet(Pointers) = {ds, append_data, buff}
    BY DEF ToSet, Pointers
  <2>2. \A i, j \in DOMAIN Pointers :
          i # j /\ Pointers[i] = Pointers[j] => Pointers[i] = 0
    BY DEF Pointers
  <2>3. Done => DOMAIN heap = {}
    BY DEF Done
  <2> QED BY <2>1, <2>2, <2>3 DEF HeapSound
<1> QED BY <1>1, Invariance, PTL

LEMMA Finished ==
  IInv /\ Done =>
    out = AllOf(Documents(errors)) /\ out \in Texts /\ errors \in ErrorLists
<1> SUFFICES ASSUME IInv, Done
             PROVE  out = AllOf(Documents(errors))
  BY DEF IInv, OutInv
<1>1. ds = 0 /\ docs = <<>>
  BY DEF Done, IInv, CallsInv
<1>2. Join(out, AllOf(docs)) = out
  BY <1>1, AllOfThem, TextsJoin, LengthIsNat DEF IInv, OutInv
<1> QED BY <1>1, <1>2 DEF IInv, OutInv

(* The rounds of vsnprintf() in arg_dstr_catf() and the growth of the      *)
(* append buffer lose nothing and repeat nothing: what the fputs() of      *)
(* main() have written is the texts of all calls in their order, for any   *)
(* lengths and formats.                                                    *)
THEOREM EverythingIsPrinted == Spec => []AllIsPrinted
<1>1. IInv => AllIsPrinted
  BY Finished DEF AllIsPrinted, Each, AllOf, Contents
<1> QED BY <1>1, Invariance, PTL

LEMMA ErrorLinesHold == IInv => ErrorLines
<1> SUFFICES ASSUME IInv, Done, errors # <<>>
             PROVE  /\ Cardinality(Breaks(out)) = Len(errors) /\ out[Len(out)].piece = "\n"
                    /\ \A k \in DOMAIN errors :
                         /\ Line(out, k)[1].piece = "barco: "
                         /\ Speaks(errors[k]) => Shown(Line(out, k), errors[k])
  BY DEF ErrorLines, Speaks
<1>1. out = AllOf(Documents(errors)) /\ errors \in ErrorLists
  BY Finished
<1>2. /\ Len(errors) \in Nat /\ DOMAIN errors = 1 .. Len(errors)
      /\ \A k \in DOMAIN errors : IsError(errors[k])
  BY <1>1, ErrorsAre
<1>3. PICK s \in Seq(Texts) :
        /\ Len(s) = Len(errors) /\ Contents(arg_print_errors(errors)) = FlattenSeq(s)
        /\ \A i \in 1 .. Len(errors) : s[i] = Join(LineOf(errors[i]), Lit("\n"))
  BY <1>1, ErrorsDocument
<1>4. out = FlattenSeq(s)
  <2>1. Documents(errors) = <<arg_print_errors(errors)>>
    BY DEF Documents
  <2>2. arg_print_errors(errors) \in Seq(Call)
    BY <1>1, ErrorsDocument
  <2> QED BY <1>1, <1>3, <2>1, <2>2, AllOfOne
<1>5. s # <<>>
  <2>1. Len(errors) # 0
    <3>1. errors \in Seq([parent : Entries \cup {"end"}, error : STRING, argval : Nat])
      BY <1>1, MessagesAssumption
    <3> QED BY <3>1
  <2> QED BY <1>3, <2>1
<1> DEFINE b == [k \in DOMAIN errors |-> LineOf(errors[k])]
<1>6. \A k \in DOMAIN errors : /\ b[k] = LineOf(errors[k]) /\ Plain(b[k])
                               /\ b[k][1].piece = "barco: "
                               /\ Speaks(errors[k]) => Shown(b[k], errors[k])
  BY <1>2, ErrorHasLine DEF SaysLine
<1> HIDE DEF b
<1>7. /\ Cardinality(Breaks(out)) = Len(s) /\ out[Len(out)].piece = "\n"
      /\ \A k \in 1 .. Len(s) : Line(out, k) = b[k]
  <2>1. \A k \in 1 .. Len(s) : Plain(b[k]) /\ s[k] = Join(b[k], Lit("\n"))
    BY <1>2, <1>3, <1>6
  <2> QED BY <1>4, <1>5, <2>1, LinesOf
<1> QED BY <1>2, <1>3, <1>6, <1>7

LEMMA HelpLinesHold == IInv => HelpLines
<1> SUFFICES ASSUME IInv, Done, errors = <<>> PROVE HelpLines
  BY DEF HelpLines
<1>1. out = AllOf(<<arg_print_syntax, arg_print_glossary>>)
  BY Finished DEF Documents
<1>2. PICK s, b :
        /\ s \in Seq(Texts) /\ Len(s) = 14 /\ out = FlattenSeq(s)
        /\ \A k \in 1 .. 14 : Plain(b[k]) /\ s[k] = Join(b[k], Lit("\n"))
        /\ \A k \in 1 .. 13 :
             /\ Once(b[1], Name(argtable[k]), argtable[k].mincount = 0)
             /\ Once(b[k + 1], argtable[k].long, FALSE)
  BY <1>1, HelpText
<1>3. s # <<>>
  <2>1. s \in Seq(Texts) /\ Len(s) = 14
    BY <1>2
  <2> QED BY ONLY <2>1
<1>4. /\ Cardinality(Breaks(out)) = 14
      /\ \A k \in 1 .. 14 : Line(out, k) = b[k]
  <2>1. \A k \in 1 .. Len(s) : Plain(b[k]) /\ s[k] = Join(b[k], Lit("\n"))
    BY <1>2
  <2>2. /\ Cardinality(Breaks(out)) = Len(s)
        /\ \A k \in 1 .. Len(s) : Line(out, k) = b[k]
    BY <1>2, <1>3, <2>1, LinesOf
  <2> QED BY <1>2, <2>2
<1>5. DOMAIN b[1] \subseteq DOMAIN out
  <2>1. PICK off : Blocked(off, s, out)
    BY <1>2, <1>3, BlocksOf DEF Texts
  <2>2. /\ b[1] \in Texts /\ Lit("\n") \in Texts /\ s[1] = Join(b[1], Lit("\n"))
        /\ out \in Texts
    BY <1>2, PlainWords, Finished DEF Plain
  <2>3. /\ Len(s[1]) = Len(b[1]) + Len(Lit("\n")) /\ Len(b[1]) \in Nat
        /\ Len(Lit("\n")) \in Nat /\ DOMAIN b[1] = 1 .. Len(b[1])
        /\ DOMAIN out = 1 .. Len(out) /\ Len(out) \in Nat
    BY <2>2, JoinedTexts, PieceOf DEF Join
  <2>4. off[1] = off[1 - 1] + Len(s[1]) /\ off[0] = 0 /\ off[14] = Len(out)
    <3>1. 1 \in 1 .. Len(s) /\ Len(s) = 14
      BY <1>2
    <3> QED BY <2>1, <3>1 DEF Blocked
  <2>5. off[1] <= off[14]
    <3>1. 14 \in 0 .. Len(s) /\ 1 \in 0 .. 14
      BY <1>2
    <3>2. s \in Seq(Seq(Pieces)) /\ out \in Seq(Pieces)
      BY <1>2, <2>2 DEF Texts
    <3> QED BY <2>1, <3>1, <3>2, Offsets
  <2>6. Len(b[1]) <= Len(out)
    BY <2>3, <2>4, <2>5
  <2> QED BY <2>3, <2>6
<1>6. DOMAIN argtable = 1 .. 13 /\ Len(argtable) = 13
  <2>1. DOMAIN argtable = 1 .. 13
    BY Table
  <2>2. Len(argtable) = 13
    BY ThirteenRows DEF argtable
  <2> QED BY <2>1, <2>2
<1>7. ASSUME NEW k \in 1 .. 13
      PROVE  /\ \E i \in DOMAIN out :
                  /\ Places(Line(out, 1), Name(argtable[k])) = {i}
                  /\ InBrackets(Line(out, 1), i) <=> argtable[k].mincount = 0
             /\ Cardinality(Places(Line(out, k + 1), argtable[k].long)) = 1
  <2>1. Line(out, 1) = b[1] /\ Line(out, k + 1) = b[k + 1]
    <3>1. k + 1 \in 1 .. 14 /\ 1 \in 1 .. 14
      OBVIOUS
    <3> QED BY <1>4, <3>1
  <2>2. /\ Once(b[1], Name(argtable[k]), argtable[k].mincount = 0)
        /\ Once(b[k + 1], argtable[k].long, FALSE)
    BY <1>2
  <2>3. Cardinality(Places(b[k + 1], argtable[k].long)) = 1
    BY <2>2, FS_Singleton DEF Once
  <2> QED BY <1>5, <2>1, <2>2, <2>3 DEF Once
<1> QED BY <1>4, <1>6, <1>7 DEF HelpLines

(* Every error has one line, which names the program and shows the         *)
(* argument of the error however long it is (arg_print_option_ds() writes  *)
(* the line's end after syntax[], not into it), and the help shows every   *)
(* option once, in brackets exactly when it can be left out, and again in  *)
(* a line of its own (arg_print_gnuswitch_ds(), arg_print_syntax_ds() and  *)
(* arg_print_glossary()): for every list of errors that arg_parse() can    *)
(* leave.                                                                  *)
THEOREM LinesAreComplete == Spec => []LinesComplete
<1>1. IInv => LinesComplete
  BY ErrorLinesHold, HelpLinesHold DEF LinesComplete
<1> QED BY <1>1, Invariance, PTL

-----------------------------------------------------------------------------
(* What is left to do: documents, the string of the one in hand, its       *)
(* calls, and the rounds of vsnprintf() that the one in hand still needs:  *)
(* three at most, of which the first may have too little room, and the     *)
(* second just too little for the NUL.                                     *)
Rounds ==
  IF calls = <<>> THEN 0
  ELSE IF buff = 0 THEN 3
  ELSE LET r == Length(Head(calls).text) IN
       IF n < r THEN 2 ELSE IF n = r THEN 1 ELSE 0

Nearer ==
  \/ Len(docs') < Len(docs)
  \/ docs' = docs /\ ds = 0 /\ ds' # 0
  \/ UNCHANGED <<docs, ds>> /\ Len(calls') < Len(calls)
  \/ UNCHANGED <<docs, ds, calls>> /\ Rounds' < Rounds

RoomInv == buff # 0 => n >= START_VSNBUFF

LEMMA RoomKept == IInv /\ RoomInv /\ [Next]_vars => RoomInv'
<1> SUFFICES ASSUME IInv, RoomInv, [Next]_vars PROVE RoomInv'
  OBVIOUS
<1>1. ASSUME UNCHANGED buff, UNCHANGED n PROVE RoomInv'
  BY <1>1 DEF RoomInv
<1>2. CASE Begin
  BY <1>1, <1>2 DEF Begin, arg_dstr_create
<1>3. CASE MakeCall
  <2> DEFINE c == Head(calls)
             r == Length(c.text)
  <2>1. r \in Nat /\ n \in Nat /\ c.format \in Nat
    <3>1. c \in Call
      BY <1>3, HeadTailProperties DEF IInv, CallsInv, MakeCall
    <3> QED BY <3>1, LengthIsNat DEF Call, IInv, BlockInv
  <2>2. CASE Cat(c.text)
    BY <1>1, <2>2 DEF Cat
  <2>3. CASE CatfBegin(c.format)
    <3>1. n' = Larger(2 * c.format, START_VSNBUFF)
      BY <2>3 DEF CatfBegin, NewBuff
    <3> QED BY <2>1, <3>1 DEF RoomInv, Larger, START_VSNBUFF
  <2>4. CASE CatfRound(c.text)
    <3>1. n' = Grown(r) /\ buff # 0
      BY <2>4 DEF CatfRound, NewBuff
    <3> HIDE DEF r
    <3> QED BY <2>1, <3>1 DEF RoomInv, Grown, START_VSNBUFF
  <2>5. CASE CatfEnd(c.text)
    BY <2>5 DEF CatfEnd, RoomInv
  <2> QED BY <1>3, <2>2, <2>3, <2>4, <2>5 DEF MakeCall
<1>4. CASE Fputs
  BY <1>1, <1>4 DEF Fputs, arg_dstr_destroy
<1>5. CASE UNCHANGED vars
  BY <1>1, <1>5 DEF vars, dstrVars
<1> QED BY <1>2, <1>3, <1>4, <1>5 DEF Next

(* No step of main(), arg_dstr_catf() or arg_dstr_cat() leads back: every  *)
(* one leaves less to do, and the loop around vsnprintf() asks at most     *)
(* three times, whatever the length of the text.                           *)
THEOREM EveryStepIsNearer == Spec => [][Nearer]_vars
<1>1. Init => RoomInv
  BY DEF Init, dstrInit, RoomInv
<1>2. ASSUME IInv, RoomInv, Next PROVE Nearer
  <2>1. CASE Begin
    <3>1. ds = 0 /\ ds' = FreeBlock(heap) /\ docs' = docs
      BY <2>1 DEF Begin, arg_dstr_create
    <3>2. FreeBlock(heap) # 0
      <4>1. DOMAIN heap \subseteq {ds, append_data, buff}
        BY <1>2 DEF IInv, BlockInv
      <4> QED BY <4>1, ThreeAreFinite, BlockIsFree
    <3> QED BY <3>1, <3>2 DEF Nearer
  <2>2. CASE Fputs
    <3>1. docs \in Seq(Seq(Call)) /\ docs # <<>> /\ docs' = Tail(docs)
      BY <1>2, <2>2 DEF Fputs, IInv, CallsInv
    <3>2. Len(docs') < Len(docs)
      BY <3>1, HeadTailProperties
    <3> QED BY <3>2 DEF Nearer
  <2>3. CASE MakeCall
    <3> DEFINE c == Head(calls)
               r == Length(c.text)
    <3>1. calls \in Seq(Call) /\ calls # <<>> /\ UNCHANGED docs
      BY <1>2, <2>3 DEF MakeCall, IInv, CallsInv
    <3>2. c.text \in Texts /\ r \in Nat /\ n \in Nat /\ Len(Tail(calls)) < Len(calls)
      <4>1. c \in Call
        BY <3>1, HeadTailProperties
      <4>2. Len(Tail(calls)) < Len(calls)
        BY <3>1, HeadTailProperties
      <4>3. n \in Nat
        BY <1>2 DEF IInv, BlockInv
      <4> QED BY <4>1, <4>2, <4>3, LengthIsNat DEF Call
    <3> HIDE DEF r
    <3>3. CASE Cat(c.text) /\ calls' = Tail(calls)
      <4>1. UNCHANGED ds
        BY <3>3 DEF Cat, arg_dstr_cat
      <4> QED BY <3>1, <3>2, <3>3, <4>1 DEF Nearer
    <3>4. CASE CatfEnd(c.text) /\ calls' = Tail(calls)
      <4>1. UNCHANGED ds
        BY <3>4 DEF CatfEnd, arg_dstr_cat
      <4> QED BY <3>1, <3>2, <3>4, <4>1 DEF Nearer
    <3>5. ASSUME NEW h, NEW size, NewBuff(h, size), h \in {heap, xfree(heap, buff)},
                 UNCHANGED calls
          PROVE  /\ UNCHANGED ds /\ n' = size
                 /\ Rounds' = IF n' < r THEN 2 ELSE IF n' = r THEN 1 ELSE 0
      <4>1. n' = size /\ buff' = FreeBlock(h) /\ UNCHANGED ds
        BY <3>5 DEF NewBuff
      <4>2. DOMAIN h \subseteq {ds, append_data, buff}
        BY <1>2, <3>5 DEF IInv, BlockInv, xfree
      <4>3. buff' # 0
        BY <4>1, <4>2, ThreeAreFinite, BlockIsFree
      <4> QED BY <3>1, <3>5, <4>1, <4>3 DEF Rounds, r
    <3>6. CASE CatfBegin(c.format) /\ UNCHANGED calls
      <4>1. buff = 0 /\ NewBuff(heap, Larger(2 * c.format, START_VSNBUFF))
        BY <3>6 DEF CatfBegin
      <4>2. Rounds = 3
        BY <3>1, <4>1 DEF Rounds
      <4>3. UNCHANGED ds /\ Rounds' \in {0, 1, 2}
        BY <3>5, <3>6, <4>1
      <4> QED BY <3>1, <3>6, <4>2, <4>3 DEF Nearer
    <3>7. CASE CatfRound(c.text) /\ UNCHANGED calls
      <4>1. /\ buff # 0 /\ ~ (Length(Cut(c.text, n)) < n)
            /\ NewBuff(xfree(heap, buff), Grown(r))
        BY <3>7 DEF CatfRound, Fits, Printed, r
      <4>2. n <= r /\ 1 <= n
        <5>1. Length(Cut(c.text, n)) = IF r < n THEN r ELSE n
          BY <3>2, CutLength DEF r
        <5>2. 1 <= n
          BY <1>2, <3>2, <4>1 DEF RoomInv, START_VSNBUFF
        <5> QED BY <3>2, <4>1, <5>1, <5>2
      <4>3. Rounds = IF n < r THEN 2 ELSE IF n = r THEN 1 ELSE 0
        BY <3>1, <4>1 DEF Rounds, r
      <4>4. /\ UNCHANGED ds /\ n' = Grown(r)
            /\ Rounds' = IF n' < r THEN 2 ELSE IF n' = r THEN 1 ELSE 0
        BY <3>5, <3>7, <4>1
      <4>5. Rounds' < Rounds
        BY <3>2, <4>2, <4>3, <4>4 DEF Grown
      <4> QED BY <3>1, <3>7, <4>4, <4>5 DEF Nearer
    <3> QED BY <2>3, <3>3, <3>4, <3>6, <3>7 DEF MakeCall
  <2> QED BY <1>2, <2>1, <2>2, <2>3 DEF Next
<1>3. IInv /\ RoomInv /\ [Next]_vars => [Nearer]_vars
  BY <1>2
<1> QED BY <1>1, <1>3, RoomKept, Invariance, PTL DEF Spec
=============================================================================
