-------------------------- MODULE CommandLineProofs --------------------------
(***************************************************************************)
(* Proofs about CommandLine, for any command lines, prefixes and numerals. *)
(***************************************************************************)
EXTENDS CommandLine, FiniteSetTheorems, SequenceTheorems, WellFoundedInduction, TLAPS

-----------------------------------------------------------------------------
(* Induction, from the fact that the intervals 0..n are well-founded: a    *)
(* set of naturals has a least element, so that a set which is closed      *)
(* under the next number holds an interval with its first number.          *)
LEMMA Least ==
  ASSUME NEW T, T \subseteq Nat, T # {}
  PROVE  \E k \in T : \A m \in T : k <= m
<1> DEFINE U == {0..k : k \in T}
<1>1. U \subseteq FiniteSubsetsOf(Nat)
  <2>1. \A k \in T : IsFiniteSet(0..k)
    BY FS_Interval
  <2> QED BY <2>1 DEF FiniteSubsetsOf
<1>2. PICK u \in U : \A v \in U : <<v, u>> \notin StrictSubsetOrdering(Nat)
  <2>1. U # {}
    OBVIOUS
  <2> HIDE DEF U
  <2> QED BY <1>1, <2>1, FS_StrictSubsetOrderingWellFounded, WFMin
<1>3. PICK k \in T : u = 0..k
  BY <1>2
<1>4. ASSUME NEW m \in T, m < k PROVE FALSE
  <2>1. 0..m \subseteq 0..k /\ 0..m # 0..k
    BY <1>4
  <2>2. 0..m \in SUBSET Nat /\ 0..k \in SUBSET Nat
    OBVIOUS
  <2>3. <<0..m, 0..k>> \in StrictSubsetOrdering(Nat)
    BY <2>1, <2>2, Zenon DEF StrictSubsetOrdering
  <2>4. 0..m \in U
    OBVIOUS
  <2> QED BY <1>2, <1>3, <2>3, <2>4
<1> QED BY <1>4

LEMMA Upwards ==
  ASSUME NEW m \in Int, NEW last \in Int, NEW P,
         m <= last => m \in P, \A i \in m + 1 .. last : i - 1 \in P => i \in P
  PROVE  m .. last \subseteq P
<1> DEFINE T == {k \in Nat : m + k <= last /\ m + k \notin P}
<1> SUFFICES ASSUME NEW j \in m .. last, j \notin P PROVE FALSE
  OBVIOUS
<1>1. j - m \in T
  OBVIOUS
<1>2. PICK k \in T : \A l \in T : k <= l
  <2>1. T \subseteq Nat /\ T # {}
    BY <1>1
  <2> HIDE DEF T
  <2> QED BY <2>1, Least
<1>3. k # 0
  BY <1>2
<1>4. k - 1 \notin T /\ k - 1 \in Nat
  BY <1>2, <1>3
<1>5. m + k - 1 \in P
  BY <1>2, <1>4
<1>6. m + k \in m + 1 .. last
  BY <1>2, <1>3
<1> QED BY <1>2, <1>5, <1>6

(* A recursive function over an interval exists. *)
Unfolds(g, m, last, base, step) ==
  g[m] = base /\ \A i \in m + 1 .. last : g[i] = step[<<g[i - 1], i>>]

LEMMA Recursion ==
  ASSUME NEW m \in Int, NEW last \in Int, m <= last, NEW S, NEW base \in S,
         NEW step \in [S \X (m + 1 .. last) -> S]
  PROVE  \E g \in [m .. last -> S] : Unfolds(g, m, last, base, step)
<1> DEFINE Good(g, k) ==
      g[m] = base /\ \A i \in m + 1 .. k : g[i] = step[<<g[i - 1], i>>]
<1> DEFINE P == {k \in m .. last : \E g \in [m .. k -> S] : Good(g, k)}
<1>1. m \in P
  <2>1. [i \in m .. m |-> base] \in [m .. m -> S]
    OBVIOUS
  <2>2. Good([i \in m .. m |-> base], m)
    OBVIOUS
  <2> QED BY <2>1, <2>2
<1>2. ASSUME NEW k \in m + 1 .. last, k - 1 \in P PROVE k \in P
  <2>1. PICK g \in [m .. k - 1 -> S] : Good(g, k - 1)
    BY <1>2
  <2> DEFINE h == [i \in m .. k |-> IF i = k THEN step[<<g[k - 1], k>>] ELSE g[i]]
  <2>2. h \in [m .. k -> S]
    BY <2>1
  <2>3. h[m] = base /\ h[k - 1] = g[k - 1] /\ h[k] = step[<<g[k - 1], k>>]
    BY <2>1
  <2>4. \A i \in m + 1 .. k - 1 : h[i] = step[<<h[i - 1], i>>]
    BY <2>1
  <2>5. \A i \in m + 1 .. k : i = k \/ i \in m + 1 .. k - 1
    OBVIOUS
  <2> HIDE DEF h
  <2>6. Good(h, k)
    BY <2>3, <2>4, <2>5
  <2> QED BY <2>2, <2>6
<1>3. last \in P
  <2> HIDE DEF P
  <2> QED BY <1>1, <1>2, Upwards
<1> QED BY <1>3 DEF Unfolds

-----------------------------------------------------------------------------
(* Arithmetic: remainders, and common divisors of two numbers x and y.     *)
LEMMA Division ==
  ASSUME NEW x \in Int, NEW b \in Nat \ {0}
  PROVE  x % b \in 0 .. b - 1 /\ \E q \in Int : x = b * q + (x % b)
<1>1. x % b \in 0 .. b - 1 /\ x \div b \in Int
  OBVIOUS
<1>2. x = b * (x \div b) + (x % b)
  BY Z3
<1> QED BY <1>1, <1>2

LEMMA Remainder ==
  ASSUME NEW x \in Int, NEW b \in Nat \ {0}, NEW q \in Int, NEW r \in 0 .. b - 1,
         x = b * q + r
  PROVE  x % b = r
OBVIOUS

LEMMA SameRemainder ==
  ASSUME NEW b \in Nat \ {0}, NEW x \in Int, NEW y \in Int, x % b = y % b
  PROVE  \E q \in Int : x - y = b * q
<1>1. PICK q \in Int : x = b * q + (x % b)
  BY Division, Zenon
<1>2. PICK p \in Int : y = b * p + (y % b)
  BY Division, Zenon
<1>3. x % b \in Int
  OBVIOUS
<1> DEFINE r == x % b
<1>4. x = b * q + r /\ y = b * p + r /\ r \in Int
  BY <1>1, <1>2, <1>3
<1> HIDE DEF r
<1>5. x - y = b * (q - p) /\ q - p \in Int
  BY <1>4
<1> QED BY <1>5

LEMMA RemainderMoved ==
  ASSUME NEW b \in Nat \ {0}, NEW x \in Int, NEW q \in Int
  PROVE  (x + b * q) % b = x % b
<1>1. PICK p \in Int : x = b * p + (x % b)
  BY Division, Zenon
<1>2. x % b \in 0 .. b - 1
  OBVIOUS
<1> DEFINE r == x % b
<1>3. x = b * p + r /\ r \in 0 .. b - 1
  BY <1>1, <1>2
<1> HIDE DEF r
<1>4. x + b * q = b * (p + q) + r /\ p + q \in Int /\ x + b * q \in Int
  BY <1>3
<1>5. (x + b * q) % b = r
  BY <1>3, <1>4, Remainder, Zenon
<1> QED BY <1>5 DEF r

Divides(d, k) == \E q \in Int : k = d * q
Combines(k, x, y) == \E u, v \in Int : k = u * x + v * y

LEMMA Combined ==
  ASSUME NEW x \in Int, NEW y \in Int, NEW a \in Int, NEW b \in Int, NEW q \in Int,
         Combines(a, x, y), Combines(b, x, y)
  PROVE  Combines(a - b * q, x, y)
<1>1. PICK u \in Int, v \in Int : a = u * x + v * y
  BY DEF Combines
<1>2. PICK w \in Int, z \in Int : b = w * x + z * y
  BY DEF Combines
<1>3. a - b * q = (u - w * q) * x + (v - z * q) * y
  BY <1>1, <1>2
<1>4. u - w * q \in Int /\ v - z * q \in Int
  OBVIOUS
<1> QED BY <1>3, <1>4 DEF Combines

LEMMA SumDivided ==
  ASSUME NEW d \in Int, NEW b \in Int, NEW r \in Int, NEW q \in Int,
         Divides(d, b), Divides(d, r)
  PROVE  Divides(d, b * q + r)
<1>1. PICK s \in Int : b = d * s
  BY DEF Divides
<1>2. PICK t \in Int : r = d * t
  BY DEF Divides
<1>3. b * q + r = d * (s * q + t)
  BY <1>1, <1>2
<1>4. s * q + t \in Int
  OBVIOUS
<1> QED BY <1>3, <1>4 DEF Divides

-----------------------------------------------------------------------------
(* What Through() does with a step, its result bound before it is used: it *)
(* is the only member of a set.                                            *)
LEMMA Bound == \A x : (CHOOSE r \in {x} : TRUE) = x
OBVIOUS

(* The loop of gcd(): it ends within y rounds, since the remainders fall;  *)
(* its result divides both numbers, and is a combination of them.          *)
Euclid(p, x, y, i) ==
  /\ p.a \in Nat \ {0} /\ p.b \in 1 .. y
  /\ p.a % p.b = 0 \/ p.b <= y - i
  /\ Combines(p.a, x, y) /\ Combines(p.b, x, y)
  /\ \A d \in Nat : Divides(d, p.a) /\ Divides(d, p.b) => Divides(d, x) /\ Divides(d, y)

LEMMA Divided ==
  ASSUME NEW x \in Nat, NEW y \in Nat, NEW i \in 1 .. y, NEW p, Euclid(p, x, y, i - 1)
  PROVE  Euclid(Divide(p), x, y, i)
<1> DEFINE a == p.a
           b == p.b
           r == a % b
<1>1. /\ a \in Nat \ {0} /\ b \in 1 .. y /\ b \in Nat \ {0}
      /\ r = 0 \/ b <= y - (i - 1)
      /\ Combines(a, x, y) /\ Combines(b, x, y)
      /\ \A d \in Nat : Divides(d, a) /\ Divides(d, b) => Divides(d, x) /\ Divides(d, y)
  BY DEF Euclid
<1>2. CASE r = 0
  BY <1>1, <1>2 DEF Euclid, Divide
<1>3. CASE r # 0
  <2>1. Divide(p) = [a |-> b, b |-> r]
    BY <1>3 DEF Divide
  <2> HIDE DEF a, b
  <2>2. r \in 0 .. b - 1 /\ \E q \in Int : a = b * q + r
    <3>1. a \in Int /\ b \in Nat \ {0}
      BY <1>1
    <3> QED BY <3>1, Division, Zenon
  <2>3. PICK q \in Int : a = b * q + r
    BY <2>2
  <2>4. r \in 1 .. b - 1
    BY <1>1, <1>3, <2>2
  <2> HIDE DEF r
  <2>5. a - b * q = r
    BY <1>1, <2>3, <2>4
  <2>6. Combines(r, x, y)
    <3>1. Combines(a - b * q, x, y)
      <4>1. a \in Int /\ b \in Int /\ q \in Int /\ x \in Int /\ y \in Int
        BY <1>1, <2>3
      <4> QED BY <1>1, <4>1, Combined, Zenon
    <3> QED BY <2>5, <3>1
  <2>7. \A d \in Nat : Divides(d, b) /\ Divides(d, r) => Divides(d, a)
    <3> TAKE d \in Nat
    <3>1. d \in Int /\ b \in Int /\ r \in Int
      BY <1>1, <2>4
    <3>2. Divides(d, b) /\ Divides(d, r) => Divides(d, b * q + r)
      BY <3>1, SumDivided, Zenon
    <3> QED BY <2>3, <3>2
  <2>8. \A d \in Nat : Divides(d, b) /\ Divides(d, r) => Divides(d, x) /\ Divides(d, y)
    BY <1>1, <2>7
  <2>9. r <= y - i /\ r \in 1 .. y
    BY <1>1, <1>3, <2>4
  <2> QED BY <1>1, <2>1, <2>4, <2>6, <2>8, <2>9 DEF Euclid
<1> QED BY <1>2, <1>3

LEMMA GcdIs ==
  ASSUME NEW x \in Nat \ {0}, NEW y \in Nat \ {0}
  PROVE  /\ gcd(x, y) \in 1 .. y /\ Combines(gcd(x, y), x, y)
         /\ Divides(gcd(x, y), x) /\ Divides(gcd(x, y), y)
<1> DEFINE S == [a : Nat, b : 1 .. y]
           base == [a |-> x, b |-> y]
           Result(p) == CHOOSE r \in {Divide(last) : last \in {p}} : TRUE
           IsAcc(g) == g = [i \in 0 .. y |-> IF i = 0 THEN base ELSE Result(g[i - 1])]
<1>1. base \in S /\ y \in Int /\ 0 <= y
  OBVIOUS
<1>2. \A p \in S : Divide(p) \in S
  <2> TAKE p \in S
  <2>1. p.a \in Nat /\ p.b \in 1 .. y /\ p.b \in Nat \ {0}
    OBVIOUS
  <2>2. p.a % p.b \in 0 .. p.b - 1
    BY <2>1
  <2> QED BY <2>1, <2>2 DEF Divide
<1>3. \A p : Result(p) = Divide(p)
  <2> TAKE p
  <2>1. {Divide(last) : last \in {p}} = {Divide(p)}
    OBVIOUS
  <2> QED BY <2>1, Bound
<1>4. \E g : IsAcc(g)
  <2> DEFINE step == [p \in S \X (1 .. y) |-> Divide(p[1])]
  <2>1. step \in [S \X (0 + 1 .. y) -> S]
    BY <1>2
  <2>2. \A p \in S : \A i \in 1 .. y : step[<<p, i>>] = Divide(p)
    OBVIOUS
  <2> HIDE DEF step, S, base, Result
  <2>3. PICK g \in [0 .. y -> S] : Unfolds(g, 0, y, base, step)
    <3>1. 0 \in Int
      OBVIOUS
    <3> QED BY <1>1, <2>1, <3>1, Recursion, Zenon
  <2>4. \A i \in 1 .. y : g[i] = step[<<g[i - 1], i>>] /\ g[i - 1] \in S
    BY <1>1, <2>3 DEF Unfolds
  <2>5. \A i \in 1 .. y : g[i] = Divide(g[i - 1])
    BY <2>2, <2>4
  <2>6. g = [i \in 0 .. y |-> IF i = 0 THEN base ELSE Divide(g[i - 1])]
    BY <1>1, <2>3, <2>5 DEF Unfolds
  <2> QED BY <1>3, <2>6
<1>5. PICK acc : IsAcc(acc) /\ gcd(x, y) = acc[y].b
  BY <1>4 DEF gcd, Through
<1> DEFINE P == {i \in 0 .. y : Euclid(acc[i], x, y, i)}
<1>6. Euclid(base, x, y, 0)
  <2>1. x = 1 * x + 0 * y /\ y = 0 * x + 1 * y
    OBVIOUS
  <2> QED BY <2>1 DEF Euclid, Combines
<1>7. 0 .. y \subseteq P
  <2> HIDE DEF base, Result
  <2>1. acc = [i \in 0 .. y |-> IF i = 0 THEN base ELSE Divide(acc[i - 1])]
    BY <1>3, <1>5
  <2>2. 0 \in P
    BY <1>1, <1>6, <2>1
  <2>3. \A i \in 0 + 1 .. y : i - 1 \in P => i \in P
    <3> SUFFICES ASSUME NEW i \in 1 .. y, Euclid(acc[i - 1], x, y, i - 1)
                 PROVE  Euclid(acc[i], x, y, i)
      BY <1>1
    <3>1. acc[i] = Divide(acc[i - 1])
      BY <2>1
    <3> QED BY <3>1, Divided
  <2> HIDE DEF P
  <2> QED BY <1>1, <2>2, <2>3, Upwards
<1> DEFINE end_ == acc[y]
<1>8. Euclid(end_, x, y, y)
  BY <1>1, <1>7
<1> HIDE DEF end_
<1>9. end_.b \in 1 .. y /\ end_.a \in Nat \ {0} /\ end_.a % end_.b = 0
  BY <1>8 DEF Euclid
<1>10. Divides(end_.b, end_.b) /\ Divides(end_.b, end_.a)
  <2>1. end_.b = end_.b * 1
    BY <1>9
  <2>2. \E q \in Int : end_.a = end_.b * q + (end_.a % end_.b)
    <3>1. end_.a \in Int /\ end_.b \in Nat \ {0}
      BY <1>9
    <3> QED BY <3>1, Division, Zenon
  <2>3. \E q \in Int : end_.a = end_.b * q
    BY <1>9, <2>2
  <2> QED BY <2>1, <2>3 DEF Divides
<1>11. gcd(x, y) = end_.b
  BY <1>5 DEF end_
<1> QED BY <1>8, <1>9, <1>10, <1>11 DEF Euclid

LEMMA GcdInRange ==
  ASSUME NEW x \in Nat \ {0}, NEW y \in Nat \ {0}
  PROVE  gcd(x, y) \in 1 .. y
BY GcdIs

-----------------------------------------------------------------------------
(* The cycles of permute_args(): m tokens from s on, the last o of them    *)
(* options, are exchanged in g cycles of len positions. Position() is the  *)
(* one that a cycle from a start has after j rounds.                       *)
Position(s, m, o, from, j) == s + ((from - s + j * o) % m)

Follows(s, m, o, from, j) ==
  /\ Position(s, m, o, from, j) \in s .. s + m - 1
  /\ NextInCycle(Position(s, m, o, from, j), s + m - o, m - o, o)
       = Position(s, m, o, from, j + 1)

LEMMA PositionsFollow ==
  ASSUME NEW s \in Int, NEW m \in Nat \ {0}, NEW o \in 1 .. m - 1,
         NEW from \in Int, NEW j \in Int
  PROVE  Follows(s, m, o, from, j)
<1> SUFFICES /\ Position(s, m, o, from, j) \in s .. s + m - 1
             /\ NextInCycle(Position(s, m, o, from, j), s + m - o, m - o, o)
                  = Position(s, m, o, from, j + 1)
  BY DEF Follows
<1> DEFINE x == from - s + j * o
           r == x % m
<1>1. x \in Int /\ from - s + (j + 1) * o = x + o /\ o \in Int
  OBVIOUS
<1> HIDE DEF x
<1>2. r \in 0 .. m - 1
  BY <1>1
<1>3. PICK q \in Int : x = m * q + r
  BY <1>1, Division, Zenon
<1> HIDE DEF r
<1>4. CASE r >= m - o
  <2>1. x + o = m * (q + 1) + (r + o - m) /\ q + 1 \in Int /\ r + o - m \in 0 .. m - 1
    BY <1>1, <1>2, <1>3, <1>4
  <2>2. x + o \in Int
    BY <1>1
  <2>3. (x + o) % m = r + o - m
    BY <2>1, <2>2, Remainder, Zenon
  <2> QED BY <1>1, <1>2, <1>4, <2>3 DEF Position, NextInCycle, x, r
<1>5. CASE r < m - o
  <2>1. x + o = m * q + (r + o) /\ r + o \in 0 .. m - 1 /\ x + o \in Int
    BY <1>1, <1>2, <1>3, <1>5
  <2>2. (x + o) % m = r + o
    BY <2>1, Remainder, Zenon
  <2> QED BY <1>1, <1>2, <1>5, <2>2 DEF Position, NextInCycle, x, r
<1> QED BY <1>2, <1>4, <1>5
Cycles(m, o, g, len) ==
  /\ m \in Nat \ {0} /\ o \in 1 .. m - 1 /\ g \in Nat \ {0} /\ len \in Nat \ {0}
  /\ m = g * len /\ Divides(g, o) /\ Combines(g, m, o)

LEMMA CycleCloses ==
  ASSUME NEW m, NEW o, NEW g, NEW len, Cycles(m, o, g, len),
         NEW s \in Int, NEW from \in s .. s + m - 1
  PROVE  Position(s, m, o, from, 0) = from /\ Position(s, m, o, from, len) = from
<1> USE DEF Cycles
<1>1. PICK h \in Int : o = g * h
  BY DEF Divides
<1>2. len * o = m * h
  BY <1>1
<1> DEFINE x == from - s
<1>3. x \in 0 .. m - 1 /\ x \in Int
  OBVIOUS
<1>4. x % m = x
  <2>1. x = m * 0 + x
    BY <1>3
  <2> HIDE DEF x
  <2> QED BY <1>3, <2>1, Remainder
<1>5. (x + len * o) % m = x
  <2>1. (x + m * h) % m = x % m
    <3> HIDE DEF x
    <3>1. m \in Nat \ {0} /\ h \in Int
      BY <1>1
    <3> QED BY <1>3, <3>1, RemainderMoved, Zenon
  <2> QED BY <1>2, <1>4, <2>1
<1>6. from - s + 0 * o = x /\ from - s + len * o = x + len * o
  OBVIOUS
<1> QED BY <1>4, <1>5, <1>6 DEF Position

LEMMA CycleSteps ==
  ASSUME NEW m, NEW o, NEW g, NEW len, Cycles(m, o, g, len),
         NEW s \in Int, NEW from \in s .. s + m - 1,
         NEW i \in 0 .. len - 1, NEW j \in 0 .. len - 1, i < j
  PROVE  Position(s, m, o, from, i) # Position(s, m, o, from, j)
<1> SUFFICES ASSUME Position(s, m, o, from, i) = Position(s, m, o, from, j)
             PROVE  FALSE
  OBVIOUS
<1>1. /\ m \in Nat \ {0} /\ o \in Int /\ g \in Nat \ {0} /\ len \in Nat \ {0}
      /\ m = g * len
  BY DEF Cycles
<1> DEFINE x == from - s + i * o
           y == from - s + j * o
<1>2. x \in Int /\ y \in Int /\ y - x = (j - i) * o
  BY <1>1
<1>3. x % m = y % m
  <2> DEFINE a == x % m
             b == y % m
  <2>1. s + a = s + b
    BY DEF Position
  <2> HIDE DEF x, y
  <2>2. a \in Int /\ b \in Int
    BY <1>1, <1>2
  <2> HIDE DEF a, b
  <2>3. a = b
    BY <2>1, <2>2
  <2> QED BY <2>3 DEF a, b
<1> HIDE DEF x, y
<1>4. PICK q \in Int : y - x = m * q
  BY <1>1, <1>2, <1>3, SameRemainder, Zenon
<1> DEFINE k == j - i
<1>5. k \in 1 .. len - 1 /\ k * o = m * q
  BY <1>1, <1>2, <1>4
<1>6. PICK u \in Int, w \in Int : g = u * m + w * o
  BY DEF Cycles, Combines
<1> HIDE DEF k
<1>7. k * g = m * (k * u + w * q)
  <2>1. k * g = (k * u) * m + w * (k * o)
    BY <1>1, <1>5, <1>6
  <2> QED BY <1>1, <1>5, <2>1
<1> DEFINE t == k * u + w * q
<1>8. t \in Int /\ g * k = g * (len * t)
  BY <1>1, <1>5, <1>7
<1> HIDE DEF t
<1>9. k = len * t
  BY <1>1, <1>5, <1>8
<1> QED BY <1>1, <1>5, <1>8, <1>9

SameClass(p, q, s, g) == (p - s) % g = (q - s) % g
Reached(p, s, m, o, from, len) == \E j \in 0 .. len - 1 : Position(s, m, o, from, j) = p

LEMMA CycleReaches ==
  ASSUME NEW m, NEW o, NEW g, NEW len, Cycles(m, o, g, len),
         NEW s \in Int, NEW from \in s .. s + m - 1, NEW p \in s .. s + m - 1,
         SameClass(p, from, s, g)
  PROVE  Reached(p, s, m, o, from, len)
<1>1. /\ m \in Nat \ {0} /\ o \in Int /\ g \in Nat \ {0} /\ len \in Nat \ {0}
      /\ m = g * len
  BY DEF Cycles
<1>2. PICK h \in Int : o = g * h
  BY DEF Cycles, Divides
<1>3. PICK u \in Int, w \in Int : g = u * m + w * o
  BY DEF Cycles, Combines
<1> DEFINE x == from - s
           y == p - s
<1>4. x \in Int /\ y \in 0 .. m - 1 /\ y \in Int
  BY <1>1
<1>5. PICK t \in Int : y - x = g * t
  <2> HIDE DEF x, y
  <2>1. x % g = y % g
    BY DEF x, y, SameClass
  <2> QED BY <1>1, <1>4, <2>1, SameRemainder, Zenon
<1> HIDE DEF x, y
<1>6. PICK q \in Int : t * w = len * q + ((t * w) % len)
  <2>1. t * w \in Int
    OBVIOUS
  <2> QED BY <1>1, <2>1, Division, Zenon
<1> DEFINE j == (t * w) % len
<1>7. j \in 0 .. len - 1
  BY <1>1
<1>8. t * w = len * q + j
  BY <1>6
<1> HIDE DEF j
<1>9. y - x = t * u * m + (t * w) * o
  BY <1>1, <1>3, <1>4, <1>5
<1>10. (t * w) * o = m * (q * h) + j * o
  <2>1. (t * w) * o = (len * q) * o + j * o
    BY <1>1, <1>7, <1>8
  <2>2. (len * q) * o = m * (q * h)
    BY <1>1, <1>2
  <2> QED BY <2>1, <2>2
<1>11. x + j * o = m * (- (t * u) - q * h) + y
  BY <1>1, <1>4, <1>7, <1>9, <1>10
<1>12. (x + j * o) % m = y
  <2>1. - (t * u) - q * h \in Int /\ x + j * o \in Int
    BY <1>1, <1>4, <1>7
  <2> QED BY <1>1, <1>4, <1>11, <2>1, Remainder, Zenon
<1>13. from - s + j * o = x + j * o /\ s + y = p
  BY DEF x, y
<1>14. Position(s, m, o, from, j) = p
  BY <1>12, <1>13 DEF Position
<1> QED BY <1>7, <1>14 DEF Reached

LEMMA CycleStays ==
  ASSUME NEW m, NEW o, NEW g, NEW len, Cycles(m, o, g, len),
         NEW s \in Int, NEW from \in s .. s + m - 1, NEW j \in Int
  PROVE  SameClass(Position(s, m, o, from, j), from, s, g)
<1>1. /\ m \in Nat \ {0} /\ o \in Int /\ g \in Nat \ {0} /\ len \in Nat \ {0}
      /\ m = g * len
  BY DEF Cycles
<1>2. PICK h \in Int : o = g * h
  BY DEF Cycles, Divides
<1> DEFINE x == from - s
           y == x + j * o
           r == y % m
<1>3. x \in Int /\ y \in Int /\ r \in Int /\ y = x + j * o
  BY <1>1
<1>4. PICK q \in Int : y = m * q + r
  <2> HIDE DEF x, y
  <2> QED BY <1>1, <1>3, Division, Zenon
<1>5. Position(s, m, o, from, j) - s = r
  <2>1. Position(s, m, o, from, j) = s + r
    BY DEF Position
  <2> HIDE DEF r
  <2> QED BY <1>3, <2>1
<1> HIDE DEF x, y, r
<1>6. r = x + g * (j * h - len * q)
  BY <1>1, <1>2, <1>3, <1>4
<1>7. j * h - len * q \in Int
  BY <1>1, <1>2
<1>8. (x + g * (j * h - len * q)) % g = x % g
  BY <1>1, <1>3, <1>7, RemainderMoved, Zenon
<1> QED BY <1>5, <1>6, <1>8 DEF x, SameClass

-----------------------------------------------------------------------------
(* permute_args() only swaps entries of argvcopy, and only between the     *)
(* start of the window and the token it has come to.                       *)
Orders(k) ==
  {a \in [1 .. k -> 1 .. k] : \A v \in 1 .. k : \E i \in 1 .. k : a[i] = v}

LEMMA SwapPermutes ==
  ASSUME NEW k \in Nat, NEW a \in Orders(k), NEW i \in 1 .. k, NEW j \in 1 .. k
  PROVE  Swapped(a, i, j) \in Orders(k)
<1> DEFINE b == Swapped(a, i, j)
<1>1. a \in [1 .. k -> 1 .. k]
  BY DEF Orders
<1>2. b \in [1 .. k -> 1 .. k] /\ b[j] = a[i] /\ b[i] = a[j]
      /\ \A l \in 1 .. k : l # i /\ l # j => b[l] = a[l]
  BY <1>1 DEF Swapped
<1> HIDE DEF b
<1>3. \A v \in 1 .. k : \E l \in 1 .. k : b[l] = v
  <2> TAKE v \in 1 .. k
  <2>1. PICK l \in 1 .. k : a[l] = v
    BY DEF Orders
  <2> QED BY <1>2, <2>1
<1> QED BY <1>2, <1>3 DEF Orders, b

(* The rounds of one cycle, and what is left in the end.                   *)
Rounds(acc, a, from, cyclelen, e, skipped, options) ==
  /\ acc[0] = [pos |-> from, args |-> a]
  /\ \A j \in 1 .. cyclelen : acc[j] = Swap(acc[j - 1], from, e, skipped, options)
  /\ Cycle(a, from, cyclelen, e, skipped, options) = acc[cyclelen].args

LEMMA CycleRuns ==
  ASSUME NEW k \in Nat, NEW a \in Orders(k),
         NEW s \in Nat, NEW e \in Nat, NEW past \in Nat,
         1 <= s, s < e, e < past, past <= k + 1,
         NEW from \in e .. past - 1, NEW cyclelen \in Nat
  PROVE  \E acc \in [0 .. cyclelen -> [pos : s .. past - 1, args : Orders(k)]] :
           Rounds(acc, a, from, cyclelen, e, e - s, past - e)
<1> DEFINE S == [pos : s .. past - 1, args : Orders(k)]
           base == [pos |-> from, args |-> a]
           Go(at) == Swap(at, from, e, e - s, past - e)
           Result(p) == CHOOSE r \in {Go(last) : last \in {p}} : TRUE
           IsAcc(g) ==
             g = [i \in 0 .. cyclelen |-> IF i = 0 THEN base ELSE Result(g[i - 1])]
<1>1. base \in S /\ cyclelen \in Int /\ 0 <= cyclelen
  OBVIOUS
<1>2. \A p \in S : Go(p) \in S
  <2> TAKE p \in S
  <2>1. p.pos \in s .. past - 1 /\ p.args \in Orders(k)
    OBVIOUS
  <2> DEFINE pos == NextInCycle(p.pos, e, e - s, past - e)
  <2>2. pos \in s .. past - 1
    BY <2>1 DEF NextInCycle
  <2>3. Swapped(p.args, pos, from) \in Orders(k)
    <3> HIDE DEF pos
    <3>1. pos \in 1 .. k /\ from \in 1 .. k
      BY <2>2
    <3> QED BY <2>1, <3>1, SwapPermutes
  <2> QED BY <2>2, <2>3 DEF Swap
<1>3. \A p : Result(p) = Go(p)
  <2> TAKE p
  <2> HIDE DEF Go
  <2>1. {Go(last) : last \in {p}} = {Go(p)}
    OBVIOUS
  <2> QED BY <2>1, Bound
<1>4. \E g : IsAcc(g)
  <2> DEFINE step == [p \in S \X (1 .. cyclelen) |-> Go(p[1])]
  <2> HIDE DEF S, base, Go, Result
  <2>1. step \in [S \X (0 + 1 .. cyclelen) -> S]
    BY <1>2
  <2>2. \A p \in S : \A i \in 1 .. cyclelen : step[<<p, i>>] = Go(p)
    OBVIOUS
  <2> HIDE DEF step
  <2>3. PICK g \in [0 .. cyclelen -> S] : Unfolds(g, 0, cyclelen, base, step)
    <3>1. 0 \in Int
      OBVIOUS
    <3> QED BY <1>1, <2>1, <3>1, Recursion, Zenon
  <2>4. \A i \in 1 .. cyclelen : g[i] = step[<<g[i - 1], i>>] /\ g[i - 1] \in S
    BY <1>1, <2>3 DEF Unfolds
  <2>5. \A i \in 1 .. cyclelen : g[i] = Go(g[i - 1])
    BY <2>2, <2>4
  <2>6. g = [i \in 0 .. cyclelen |-> IF i = 0 THEN base ELSE Go(g[i - 1])]
    BY <1>1, <2>3, <2>5 DEF Unfolds
  <2> QED BY <1>3, <2>6
<1>5. PICK acc : /\ IsAcc(acc)
                 /\ Cycle(a, from, cyclelen, e, e - s, past - e) = acc[cyclelen].args
  BY <1>4 DEF Cycle, Through
<1>6. acc = [i \in 0 .. cyclelen |-> IF i = 0 THEN base ELSE Go(acc[i - 1])]
  <2> HIDE DEF S, base, Go, Result
  <2> QED BY <1>3, <1>5
<1> DEFINE P == {i \in 0 .. cyclelen : acc[i] \in S}
<1>7. 0 .. cyclelen \subseteq P
  <2> HIDE DEF S, base, Go, Result
  <2>1. 0 \in P
    BY <1>1, <1>6
  <2>2. \A i \in 0 + 1 .. cyclelen : i - 1 \in P => i \in P
    BY <1>1, <1>2, <1>6
  <2> HIDE DEF P
  <2> QED BY <1>1, <2>1, <2>2, Upwards
<1>8. acc \in [0 .. cyclelen -> S]
  <2> HIDE DEF S, base, Go, Result
  <2> QED BY <1>6, <1>7
<1>9. acc[0] = base /\ \A i \in 1 .. cyclelen : acc[i] = Go(acc[i - 1])
  <2> HIDE DEF S, base, Go, Result
  <2> QED BY <1>1, <1>6
<1>10. Cycle(a, from, cyclelen, e, e - s, past - e) = acc[cyclelen].args
  BY <1>5
<1> QED BY <1>8, <1>9, <1>10 DEF Rounds

LEMMA CyclePermutes ==
  ASSUME NEW k \in Nat, NEW a \in Orders(k),
         NEW s \in Nat, NEW e \in Nat, NEW past \in Nat,
         1 <= s, s < e, e < past, past <= k + 1,
         NEW from \in e .. past - 1, NEW cyclelen \in Nat
  PROVE  Cycle(a, from, cyclelen, e, e - s, past - e) \in Orders(k)
<1>1. PICK acc \in [0 .. cyclelen -> [pos : s .. past - 1, args : Orders(k)]] :
        Rounds(acc, a, from, cyclelen, e, e - s, past - e)
  BY CycleRuns
<1>2. acc[cyclelen] \in [pos : s .. past - 1, args : Orders(k)]
  OBVIOUS
<1>3. Cycle(a, from, cyclelen, e, e - s, past - e) = acc[cyclelen].args
  BY <1>1 DEF Rounds
<1> QED BY <1>2, <1>3

(* One cycle moves every token of its residue class to the next position,  *)
(* and no other one.                                                       *)
Next_(p, s, m, o) == NextInCycle(p, s + m - o, m - o, o)

LEMMA CycleMoves ==
  ASSUME NEW k \in Nat, NEW a \in Orders(k),
         NEW m, NEW o, NEW g, NEW len, Cycles(m, o, g, len),
         NEW s \in Nat, 1 <= s, s + m <= k + 1,
         NEW from \in s + m - o .. s + m - 1
  PROVE  LET r == Cycle(a, from, len, s + m - o, m - o, o) IN
         /\ r \in Orders(k)
         /\ \A p \in s .. s + m - 1 :
              SameClass(p, from, s, g) => r[Next_(p, s, m, o)] = a[p]
         /\ \A p \in 1 .. k :
              ~ (p \in s .. s + m - 1 /\ SameClass(p, from, s, g)) => r[p] = a[p]
<1> DEFINE e == s + m - o
           past == s + m
           At_(j) == Position(s, m, o, from, j)
           r == Cycle(a, from, len, e, m - o, o)
<1>1. /\ m \in Nat \ {0} /\ o \in 1 .. m - 1 /\ g \in Nat \ {0} /\ len \in Nat \ {0}
      /\ from \in s .. s + m - 1
  BY DEF Cycles
<1>2. e \in Nat /\ past \in Nat /\ s < e /\ e < past /\ past <= k + 1
      /\ e - s = m - o /\ past - e = o /\ from \in e .. past - 1
  BY <1>1
<1>3. PICK acc \in [0 .. len -> [pos : s .. past - 1, args : Orders(k)]] :
        Rounds(acc, a, from, len, e, m - o, o)
  <2>1. \E acc \in [0 .. len -> [pos : s .. past - 1, args : Orders(k)]] :
          Rounds(acc, a, from, len, e, e - s, past - e)
    <3> HIDE DEF e, past
    <3>1. len \in Nat
      BY <1>1
    <3> QED BY <1>2, <3>1, CycleRuns, Zenon
  <2> QED BY <1>2, <2>1
<1>4. /\ acc[0] = [pos |-> from, args |-> a] /\ r = acc[len].args
      /\ \A j \in 1 .. len : acc[j] = Swap(acc[j - 1], from, e, m - o, o)
  BY <1>3 DEF Rounds
<1>5. \A j \in 0 .. len : At_(j) \in s .. past - 1 /\ At_(j) \in 1 .. k
      /\ NextInCycle(At_(j), e, m - o, o) = At_(j + 1)
  <2> TAKE j \in 0 .. len
  <2>1. s \in Int /\ from \in Int /\ j \in Int
    BY <1>1
  <2>2. Follows(s, m, o, from, j)
    BY <1>1, <2>1, PositionsFollow
  <2>3. At_(j) \in s .. s + m - 1 /\ NextInCycle(At_(j), e, m - o, o) = At_(j + 1)
    BY <2>2 DEF Follows
  <2> HIDE DEF At_
  <2> QED BY <1>1, <2>3
<1>6. At_(0) = from /\ At_(len) = from
  BY <1>1, CycleCloses
<1>7. \A i \in 0 .. len - 1 : \A j \in 0 .. len - 1 : i < j => At_(i) # At_(j)
  <2> SUFFICES ASSUME NEW i \in 0 .. len - 1, NEW j \in 0 .. len - 1, i < j
               PROVE  At_(i) # At_(j)
    OBVIOUS
  <2>1. s \in Int
    OBVIOUS
  <2> QED BY <1>1, <2>1, CycleSteps, Zenon
<1> HIDE DEF e, past, At_, r
<1> DEFINE Moved(j) ==
      /\ acc[j].pos = At_(j) /\ acc[j].args \in Orders(k)
      /\ \A i \in 1 .. j : acc[j].args[At_(i)] = a[At_(i - 1)]
      /\ j < len => acc[j].args[from] = a[At_(j)]
      /\ \A x \in 1 .. k : (\A i \in 0 .. j : x # At_(i)) => acc[j].args[x] = a[x]
<1>8. Moved(0)
  <2>1. acc[0].pos = from /\ acc[0].args = a
    BY <1>4
  <2> QED BY <1>1, <1>6, <2>1
<1>9. ASSUME NEW j \in 1 .. len, Moved(j - 1) PROVE Moved(j)
  <2> DEFINE at == acc[j - 1]
             b == at.args
             pos == At_(j)
  <2>1. j - 1 \in 0 .. len - 1 /\ j - 1 \in 0 .. len /\ j - 1 + 1 = j /\ j - 1 < len
        /\ j \in 0 .. len /\ 0 \in 0 .. len
    BY <1>1
  <2>2. at.pos = At_(j - 1) /\ b \in Orders(k) /\ b[from] = a[At_(j - 1)]
    BY <1>9, <2>1
  <2>3. acc[j] = [pos |-> pos, args |-> Swapped(b, pos, from)]
    BY <1>4, <1>5, <2>1, <2>2 DEF Swap
  <2>4. pos \in 1 .. k /\ from \in 1 .. k
    BY <1>5, <1>6, <2>1
  <2>5. b \in [1 .. k -> 1 .. k]
    BY <2>2 DEF Orders
  <2>6. Swapped(b, pos, from) \in Orders(k)
    BY <2>2, <2>4, SwapPermutes
  <2> DEFINE c == Swapped(b, pos, from)
  <2>7. c[pos] = b[from] /\ c[from] = b[pos]
        /\ \A x \in 1 .. k : x # pos /\ x # from => c[x] = b[x]
    BY <2>4, <2>5 DEF Swapped
  <2>8. acc[j].pos = pos /\ acc[j].args = c
    BY <2>3
  <2>9. /\ \A i \in 1 .. j - 1 : b[At_(i)] = a[At_(i - 1)]
        /\ \A x \in 1 .. k : (\A i \in 0 .. j - 1 : x # At_(i)) => b[x] = a[x]
    BY <1>9
  <2> HIDE DEF at, b, pos, c
  <2>10. \A i \in 1 .. j - 1 : At_(i) # from /\ At_(i) # pos
    <3> TAKE i \in 1 .. j - 1
    <3>1. i \in 0 .. len - 1 /\ 0 \in 0 .. len - 1 /\ 0 < i /\ i < j
      BY <1>1
    <3>2. At_(i) # from
      BY <1>6, <1>7, <3>1
    <3>3. CASE j = len
      BY <1>6, <3>2, <3>3 DEF pos
    <3>4. CASE j # len
      <4>1. j \in 0 .. len - 1
        BY <1>1, <3>4
      <4> QED BY <1>7, <3>1, <3>2, <4>1 DEF pos
    <3> QED BY <3>3, <3>4
  <2>11. \A i \in 1 .. j : c[At_(i)] = a[At_(i - 1)]
    <3> TAKE i \in 1 .. j
    <3>1. CASE i = j
      BY <2>2, <2>7, <3>1 DEF pos
    <3>2. CASE i # j
      <4>1. i \in 1 .. j - 1 /\ i \in 0 .. len
        BY <1>1, <3>2
      <4>2. At_(i) \in 1 .. k
        BY <1>5, <4>1
      <4> QED BY <2>7, <2>9, <2>10, <4>1, <4>2
    <3> QED BY <3>1, <3>2
  <2>12. j < len => c[from] = a[pos]
    <3> HAVE j < len
    <3>1. \A i \in 0 .. j - 1 : pos # At_(i)
      <4> TAKE i \in 0 .. j - 1
      <4>1. i \in 0 .. len - 1 /\ j \in 0 .. len - 1 /\ i < j
        BY <1>1
      <4> QED BY <1>7, <4>1 DEF pos
    <3> QED BY <2>4, <2>7, <2>9, <3>1
  <2>13. \A x \in 1 .. k : (\A i \in 0 .. j : x # At_(i)) => c[x] = a[x]
    <3> SUFFICES ASSUME NEW x \in 1 .. k, \A i \in 0 .. j : x # At_(i)
                 PROVE  c[x] = a[x]
      OBVIOUS
    <3>1. x # pos /\ x # from
      BY <1>6, <2>1 DEF pos
    <3>2. \A i \in 0 .. j - 1 : i \in 0 .. j
      BY <2>1
    <3> QED BY <2>7, <2>9, <3>1, <3>2
  <2>14. c \in Orders(k)
    BY <2>6 DEF c
  <2> QED BY <2>8, <2>11, <2>12, <2>13, <2>14 DEF pos
<1>10. Moved(len)
  <2> DEFINE P == {j \in 0 .. len : Moved(j)}
  <2>1. 0 \in P
    BY <1>1, <1>8
  <2>2. \A j \in 0 + 1 .. len : j - 1 \in P => j \in P
    <3> HIDE DEF Moved
    <3> QED BY <1>1, <1>9
  <2>3. 0 .. len \subseteq P
    <3> HIDE DEF P
    <3>1. 0 \in Int /\ len \in Int
      BY <1>1
    <3> QED BY <2>1, <2>2, <3>1, Upwards
  <2> HIDE DEF Moved
  <2> QED BY <1>1, <2>3
<1>11. /\ r \in Orders(k) /\ \A i \in 1 .. len : r[At_(i)] = a[At_(i - 1)]
       /\ \A x \in 1 .. k : (\A i \in 0 .. len : x # At_(i)) => r[x] = a[x]
  BY <1>4, <1>10
<1>12. \A p \in s .. s + m - 1 :
         SameClass(p, from, s, g) => r[Next_(p, s, m, o)] = a[p]
  <2> SUFFICES ASSUME NEW p \in s .. s + m - 1, SameClass(p, from, s, g)
               PROVE  r[Next_(p, s, m, o)] = a[p]
    OBVIOUS
  <2>1. PICK j \in 0 .. len - 1 : Position(s, m, o, from, j) = p
    <3>1. s \in Int
      OBVIOUS
    <3>2. Reached(p, s, m, o, from, len)
      BY <1>1, <3>1, CycleReaches
    <3> QED BY <3>2 DEF Reached
  <2>2. At_(j) = p /\ j \in 0 .. len /\ j + 1 \in 1 .. len /\ j + 1 - 1 = j
    BY <1>1, <2>1 DEF At_
  <2>3. Next_(p, s, m, o) = At_(j + 1)
    BY <1>5, <2>2 DEF Next_, e
  <2> QED BY <1>11, <2>2, <2>3
<1>13. \A p \in 1 .. k :
         ~ (p \in s .. s + m - 1 /\ SameClass(p, from, s, g)) => r[p] = a[p]
  <2> SUFFICES ASSUME NEW p \in 1 .. k, NEW j \in 0 .. len, p = At_(j)
               PROVE  p \in s .. s + m - 1 /\ SameClass(p, from, s, g)
    BY <1>11
  <2>1. p \in s .. s + m - 1
    <3>1. At_(j) \in s .. past - 1
      BY <1>5
    <3> QED BY <1>1, <3>1 DEF past
  <2>2. SameClass(Position(s, m, o, from, j), from, s, g)
    <3>1. s \in Int /\ j \in Int
      OBVIOUS
    <3> QED BY <1>1, <3>1, CycleStays
  <2> QED BY <2>1, <2>2 DEF At_
<1> QED BY <1>11, <1>12, <1>13 DEF r, e

LEMMA CyclesAre ==
  ASSUME NEW s \in Nat, NEW e \in Nat, NEW past \in Nat, s < e, e < past
  PROVE  LET g == gcd(e - s, past - e) IN
         Cycles(past - s, past - e, g, (past - s) \div g)
<1> DEFINE x == e - s
           o == past - e
           m == past - s
           g == gcd(x, o)
<1>1. x \in Nat \ {0} /\ o \in Nat \ {0} /\ m \in Nat \ {0} /\ m = x + o /\ o \in 1 .. m - 1
  OBVIOUS
<1> HIDE DEF x, o, m
<1>2. g \in 1 .. o /\ Combines(g, x, o) /\ Divides(g, x) /\ Divides(g, o)
  BY <1>1, GcdIs
<1> HIDE DEF g
<1>3. g \in Nat \ {0} /\ g \in Int
  BY <1>1, <1>2
<1>4. PICK p \in Int : x = g * p
  BY <1>2 DEF Divides
<1>5. PICK q \in Int : o = g * q
  BY <1>2 DEF Divides
<1>6. m = g * (p + q) /\ p + q \in Int
  BY <1>1, <1>3, <1>4, <1>5
<1> DEFINE h == p + q
<1>7. m = g * h /\ h \in Int
  BY <1>6
<1> HIDE DEF h
<1>8. h \in Nat \ {0}
  <2>1. ~ h <= 0
    <3> SUFFICES ASSUME h <= 0 PROVE FALSE
      OBVIOUS
    <3>1. g * h <= 0
      BY <1>3, <1>7
    <3> QED BY <1>1, <1>7, <3>1
  <2> QED BY <1>7, <2>1
<1>9. m \div g = h
  <2>1. m % g = 0
    <3>1. m = g * h + 0 /\ 0 \in 0 .. g - 1 /\ m \in Int
      BY <1>1, <1>3, <1>7
    <3> QED BY <1>3, <1>7, <3>1, Remainder, Zenon
  <2>2. m = g * (m \div g) + (m % g) /\ m \div g \in Int
    BY <1>1, <1>3, Z3
  <2> DEFINE d == m \div g
  <2>3. g * d = g * h /\ d \in Int
    BY <1>1, <1>3, <1>7, <2>1, <2>2
  <2> HIDE DEF d
  <2>4. d = h
    BY <1>3, <1>7, <2>3
  <2> QED BY <2>4 DEF d
<1>10. Combines(g, m, o)
  <2>1. PICK u \in Int, v \in Int : g = u * x + v * o
    BY <1>2 DEF Combines
  <2>2. g = u * m + (v - u) * o /\ v - u \in Int
    BY <1>1, <1>3, <2>1
  <2> QED BY <2>2 DEF Combines
<1>11. Cycles(m, o, g, m \div g)
  BY <1>1, <1>2, <1>3, <1>7, <1>8, <1>9, <1>10 DEF Cycles
<1> QED BY <1>11 DEF m, o, x, g

(* The cycles one after the other.                                         *)
Turn(b, i, s, e, past) ==
  Cycle(b, e + i - 1, (past - s) \div gcd(e - s, past - e), e, e - s, past - e)

Turns(acc, a, s, e, past) ==
  /\ acc[0] = a
  /\ \A i \in 1 .. gcd(e - s, past - e) : acc[i] = Turn(acc[i - 1], i, s, e, past)
  /\ permute_args(s, e, past, a) = acc[gcd(e - s, past - e)]

LEMMA ArgsRun ==
  ASSUME NEW k \in Nat, NEW a \in Orders(k),
         NEW s \in Nat, NEW e \in Nat, NEW past \in Nat,
         1 <= s, s < e, e < past, past <= k + 1
  PROVE  \E acc \in [0 .. gcd(e - s, past - e) -> Orders(k)] :
           Turns(acc, a, s, e, past)
<1> DEFINE n == gcd(e - s, past - e)
           cyclelen == (past - s) \div n
           Go(b, i) == Cycle(b, e + i - 1, cyclelen, e, e - s, past - e)
           Result(b, i) == CHOOSE r \in {Go(last, i) : last \in {b}} : TRUE
           IsAcc(g) == g = [i \in 0 .. n |-> IF i = 0 THEN a ELSE Result(g[i - 1], i)]
<1>1. n \in 1 .. past - e /\ n \in Int /\ 0 <= n
  <2>1. e - s \in Nat \ {0} /\ past - e \in Nat \ {0}
    OBVIOUS
  <2>2. n \in 1 .. past - e
    BY <2>1, GcdInRange
  <2> HIDE DEF n
  <2> QED BY <2>2
<1>2. \A b \in Orders(k) : \A i \in 1 .. n : Go(b, i) \in Orders(k)
  <2> HIDE DEF n, Go
  <2> SUFFICES ASSUME NEW b \in Orders(k), NEW i \in 1 .. n
               PROVE  Go(b, i) \in Orders(k)
    OBVIOUS
  <2>1. cyclelen \in Nat /\ e + i - 1 \in e .. past - 1
    BY <1>1
  <2> HIDE DEF cyclelen
  <2>2. Cycle(b, e + i - 1, cyclelen, e, e - s, past - e) \in Orders(k)
    BY <2>1, CyclePermutes
  <2> QED BY <2>2 DEF Go
<1>3. \A b, i : Result(b, i) = Go(b, i)
  <2> TAKE b, i
  <2> HIDE DEF Go
  <2>1. {Go(last, i) : last \in {b}} = {Go(b, i)}
    OBVIOUS
  <2> QED BY <2>1, Bound
<1>4. \E g : IsAcc(g)
  <2> HIDE DEF Result, Go, n
  <2> DEFINE step == [p \in Orders(k) \X (1 .. n) |-> Go(p[1], p[2])]
  <2>1. step \in [Orders(k) \X (0 + 1 .. n) -> Orders(k)]
    BY <1>2
  <2>2. \A b \in Orders(k) : \A i \in 1 .. n : step[<<b, i>>] = Go(b, i)
    OBVIOUS
  <2> HIDE DEF step
  <2>3. PICK g \in [0 .. n -> Orders(k)] : Unfolds(g, 0, n, a, step)
    <3>1. 0 \in Int
      OBVIOUS
    <3> QED BY <1>1, <2>1, <3>1, Recursion, Zenon
  <2>4. \A i \in 1 .. n : g[i] = step[<<g[i - 1], i>>] /\ g[i - 1] \in Orders(k)
    BY <1>1, <2>3 DEF Unfolds
  <2>5. \A i \in 1 .. n : g[i] = Go(g[i - 1], i)
    BY <2>2, <2>4
  <2>6. g = [i \in 0 .. n |-> IF i = 0 THEN a ELSE Go(g[i - 1], i)]
    BY <1>1, <2>3, <2>5 DEF Unfolds
  <2> QED BY <1>3, <2>6
<1>5. PICK acc : IsAcc(acc) /\ permute_args(s, e, past, a) = acc[n]
  BY <1>4 DEF permute_args, Through
<1> DEFINE P == {i \in 0 .. n : acc[i] \in Orders(k)}
<1> HIDE DEF Result, Go, n
<1>6. acc = [i \in 0 .. n |-> IF i = 0 THEN a ELSE Go(acc[i - 1], i)]
  BY <1>3, <1>5
<1>7. 0 .. n \subseteq P
  <2>1. 0 \in P
    BY <1>1, <1>6
  <2>2. \A i \in 0 + 1 .. n : i - 1 \in P => i \in P
    BY <1>1, <1>2, <1>6
  <2> HIDE DEF P
  <2> QED BY <1>1, <2>1, <2>2, Upwards
<1>8. acc \in [0 .. n -> Orders(k)]
  BY <1>6, <1>7
<1>9. acc[0] = a /\ \A i \in 1 .. n : acc[i] = Go(acc[i - 1], i)
  BY <1>1, <1>6
<1>10. Turns(acc, a, s, e, past)
  BY <1>5, <1>9 DEF Turns, Turn, Go, n
<1> QED BY <1>8, <1>10 DEF n

LEMMA ArgsPermute ==
  ASSUME NEW k \in Nat, NEW a \in Orders(k),
         NEW s \in Nat, NEW e \in Nat, NEW past \in Nat,
         1 <= s, s < e, e < past, past <= k + 1
  PROVE  permute_args(s, e, past, a) \in Orders(k)
<1> DEFINE n == gcd(e - s, past - e)
<1>1. e - s \in Nat \ {0} /\ past - e \in Nat \ {0}
  OBVIOUS
<1>2. n \in 1 .. past - e
  BY <1>1, GcdInRange
<1>3. PICK acc \in [0 .. n -> Orders(k)] : Turns(acc, a, s, e, past)
  BY ArgsRun
<1>4. permute_args(s, e, past, a) = acc[n]
  BY <1>3 DEF Turns
<1> HIDE DEF n
<1>5. n \in 0 .. n
  BY <1>2
<1> QED BY <1>3, <1>4, <1>5

(* All cycles together exchange the two blocks, each in its own order.     *)
Origin(y, s, e, past) ==
  IF ~ (y \in s .. past - 1) THEN y
  ELSE IF y < s + (past - e) THEN y + (e - s) ELSE y - (past - e)

Class(p, s, e, past) == (p - s) % gcd(e - s, past - e)
To(p, s, e, past) == Next_(p, s, past - s, past - e)

Turned(r, b, i, k, s, e, past) ==
  /\ \A p \in s .. past - 1 :
       Class(p, s, e, past) = i - 1 => r[To(p, s, e, past)] = b[p]
  /\ \A p \in 1 .. k :
       ~ (p \in s .. past - 1 /\ Class(p, s, e, past) = i - 1) => r[p] = b[p]

LEMMA TurnMoves ==
  ASSUME NEW k \in Nat, NEW b \in Orders(k),
         NEW s \in Nat, NEW e \in Nat, NEW past \in Nat,
         1 <= s, s < e, e < past, past <= k + 1,
         NEW i \in 1 .. gcd(e - s, past - e)
  PROVE  Turned(Turn(b, i, s, e, past), b, i, k, s, e, past)
<1> DEFINE g == gcd(e - s, past - e)
           m == past - s
           o == past - e
           len == m \div g
           from == e + i - 1
           r == Turn(b, i, s, e, past)
<1>1. Cycles(m, o, g, len)
  BY CyclesAre
<1>2. g \in 1 .. o
  <2>1. e - s \in Nat \ {0} /\ past - e \in Nat \ {0}
    OBVIOUS
  <2> QED BY <2>1, GcdInRange
<1>3. s + m - o = e /\ m - o = e - s /\ s + m = past /\ from \in e .. past - 1
  BY <1>2
<1>4. r = Cycle(b, from, len, s + m - o, m - o, o)
  BY <1>3 DEF Turn
<1>5. (from - s) % g = i - 1
  <2>1. PICK q \in Int : o = g * q
    BY <1>1 DEF Cycles, Divides
  <2>2. PICK l \in Int : m = g * l
    BY <1>1 DEF Cycles
  <2>3. from - s = g * (l - q) + (i - 1) /\ l - q \in Int /\ i - 1 \in 0 .. g - 1
    BY <1>2, <2>1, <2>2
  <2>4. g \in Nat \ {0} /\ from - s \in Int
    BY <1>2
  <2> QED BY <2>3, <2>4, Remainder, Zenon
<1> HIDE DEF len, r
<1>6. /\ r \in Orders(k)
      /\ \A p \in s .. s + m - 1 :
           SameClass(p, from, s, g) => r[Next_(p, s, m, o)] = b[p]
      /\ \A p \in 1 .. k :
           ~ (p \in s .. s + m - 1 /\ SameClass(p, from, s, g)) => r[p] = b[p]
  <2> HIDE DEF m, o, from
  <2>1. from \in s + m - o .. s + m - 1 /\ s + m <= k + 1
    BY <1>3 DEF m, o
  <2> QED BY <1>1, <1>4, <2>1, CycleMoves
<1> QED BY <1>3, <1>5, <1>6 DEF SameClass, r, Turned, Class, To

ClassKept(p, s, e, past) ==
  /\ To(p, s, e, past) \in s .. past - 1
  /\ Class(To(p, s, e, past), s, e, past) = Class(p, s, e, past)

LEMMA NextKeepsClass ==
  ASSUME NEW s \in Nat, NEW e \in Nat, NEW past \in Nat, s < e, e < past,
         NEW p \in s .. past - 1
  PROVE  ClassKept(p, s, e, past)
<1> DEFINE g == gcd(e - s, past - e)
           m == past - s
           o == past - e
           q == Next_(p, s, m, o)
<1>1. Cycles(m, o, g, m \div g)
  BY CyclesAre
<1>2. PICK h \in Int : o = g * h
  BY <1>1 DEF Cycles, Divides
<1>3. PICK l \in Int : m = g * l
  BY <1>1 DEF Cycles
<1>4. g \in Nat \ {0}
  BY <1>1 DEF Cycles
<1>5. CASE p >= e
  <2>1. q = p - (e - s)
    BY <1>5 DEF Next_, NextInCycle
  <2>2. q - s = (p - s) + g * (h - l) /\ h - l \in Int /\ p - s \in Int
    BY <1>2, <1>3, <1>4, <2>1
  <2>3. ((p - s) + g * (h - l)) % g = (p - s) % g
    BY <1>4, <2>2, RemainderMoved, Zenon
  <2> QED BY <1>5, <2>1, <2>2, <2>3 DEF ClassKept, Class, To
<1>6. CASE p < e
  <2>1. q = p + o
    BY <1>6 DEF Next_, NextInCycle
  <2>2. q - s = (p - s) + g * h /\ p - s \in Int
    BY <1>2, <1>4, <2>1
  <2>3. ((p - s) + g * h) % g = (p - s) % g
    BY <1>4, <2>2, RemainderMoved, Zenon
  <2> QED BY <1>6, <2>1, <2>2, <2>3 DEF ClassKept, Class, To
<1> QED BY <1>5, <1>6

LEMMA BlocksExchanged ==
  ASSUME NEW k \in Nat, NEW a \in Orders(k),
         NEW s \in Nat, NEW e \in Nat, NEW past \in Nat,
         1 <= s, s < e, e < past, past <= k + 1
  PROVE  /\ permute_args(s, e, past, a) \in Orders(k)
         /\ \A y \in 1 .. k :
              permute_args(s, e, past, a)[y] = a[Origin(y, s, e, past)]
<1> DEFINE g == gcd(e - s, past - e)
           to(p) == To(p, s, e, past)
           class(p) == Class(p, s, e, past)
<1>1. g \in 1 .. past - e
  <2>1. e - s \in Nat \ {0} /\ past - e \in Nat \ {0}
    OBVIOUS
  <2> QED BY <2>1, GcdInRange
<1>2. PICK acc \in [0 .. g -> Orders(k)] : Turns(acc, a, s, e, past)
  BY ArgsRun
<1> DEFINE Moved(i) ==
      /\ \A p \in s .. past - 1 :
           /\ class(p) < i => acc[i][to(p)] = a[p]
           /\ class(p) >= i => acc[i][p] = a[p]
      /\ \A p \in 1 .. k : ~ (p \in s .. past - 1) => acc[i][p] = a[p]
<1>3. /\ acc[0] = a /\ permute_args(s, e, past, a) = acc[g]
      /\ \A i \in 1 .. g : acc[i] = Turn(acc[i - 1], i, s, e, past)
  BY <1>2 DEF Turns
<1>4. \A p \in s .. past - 1 : to(p) \in s .. past - 1 /\ class(to(p)) = class(p)
  BY NextKeepsClass DEF ClassKept
<1>5. \A p \in s .. past - 1 : class(p) \in 0 .. g - 1 /\ p \in 1 .. k
  <2> TAKE p \in s .. past - 1
  <2> HIDE DEF g
  <2>1. g \in Nat \ {0} /\ p - s \in Int
    BY <1>1
  <2>2. (p - s) % g \in 0 .. g - 1
    BY <2>1
  <2> QED BY <2>2 DEF Class, g
<1>6. \A i \in 1 .. g : LET r == acc[i] 
                            b == acc[i - 1] IN
         /\ \A p \in s .. past - 1 : class(p) = i - 1 => r[to(p)] = b[p]
         /\ \A p \in 1 .. k :
              ~ (p \in s .. past - 1 /\ class(p) = i - 1) => r[p] = b[p]
  <2> TAKE i \in 1 .. g
  <2>1. acc[i - 1] \in Orders(k)
    <3> HIDE DEF g
    <3>1. i - 1 \in 0 .. g
      BY <1>1
    <3> QED BY <1>2, <3>1
  <2>2. acc[i] = Turn(acc[i - 1], i, s, e, past)
    BY <1>3
  <2>3. Turned(acc[i], acc[i - 1], i, k, s, e, past)
    BY <2>1, <2>2, TurnMoves
  <2> QED BY <2>3 DEF Turned
<1> HIDE DEF g, to, class
<1>7. Moved(0)
  BY <1>3, <1>5
<1>8. ASSUME NEW i \in 1 .. g, Moved(i - 1) PROVE Moved(i)
  <2> DEFINE b == acc[i - 1]
             r == acc[i]
  <2>1. /\ \A p \in s .. past - 1 : class(p) = i - 1 => r[to(p)] = b[p]
        /\ \A p \in 1 .. k : ~ (p \in s .. past - 1 /\ class(p) = i - 1) => r[p] = b[p]
    BY <1>6
  <2>2. /\ \A p \in s .. past - 1 : /\ class(p) < i - 1 => b[to(p)] = a[p]
                                    /\ class(p) >= i - 1 => b[p] = a[p]
        /\ \A p \in 1 .. k : ~ (p \in s .. past - 1) => b[p] = a[p]
    BY <1>8
  <2> HIDE DEF b, r
  <2>3. \A p \in s .. past - 1 : class(p) < i => r[to(p)] = a[p]
    <3> SUFFICES ASSUME NEW p \in s .. past - 1, class(p) < i
                 PROVE  r[to(p)] = a[p]
      OBVIOUS
    <3>1. class(p) \in 0 .. g - 1 /\ to(p) \in 1 .. k /\ class(to(p)) = class(p)
      BY <1>4, <1>5
    <3>2. CASE class(p) = i - 1
      BY <1>1, <2>1, <2>2, <3>1, <3>2
    <3>3. CASE class(p) # i - 1
      BY <1>1, <2>1, <2>2, <3>1, <3>3
    <3> QED BY <3>2, <3>3
  <2>4. \A p \in s .. past - 1 : class(p) >= i => r[p] = a[p]
    <3> SUFFICES ASSUME NEW p \in s .. past - 1, class(p) >= i
                 PROVE  r[p] = a[p]
      OBVIOUS
    <3>1. class(p) \in 0 .. g - 1 /\ p \in 1 .. k
      BY <1>5
    <3> QED BY <1>1, <2>1, <2>2, <3>1
  <2>5. \A p \in 1 .. k : ~ (p \in s .. past - 1) => r[p] = a[p]
    BY <2>1, <2>2
  <2> QED BY <2>3, <2>4, <2>5 DEF r
<1>9. Moved(g)
  <2> DEFINE P == {j \in 0 .. g : Moved(j)}
  <2>1. 0 \in P
    BY <1>1, <1>7
  <2>2. \A j \in 0 + 1 .. g : j - 1 \in P => j \in P
    <3> HIDE DEF Moved
    <3> QED BY <1>1, <1>8
  <2>3. 0 .. g \subseteq P
    <3> HIDE DEF P
    <3>1. 0 \in Int /\ g \in Int
      BY <1>1
    <3> QED BY <2>1, <2>2, <3>1, Upwards
  <2> HIDE DEF Moved
  <2> QED BY <1>1, <2>3
<1>10. /\ \A p \in s .. past - 1 : acc[g][to(p)] = a[p]
       /\ \A p \in 1 .. k : ~ (p \in s .. past - 1) => acc[g][p] = a[p]
  BY <1>1, <1>5, <1>9
<1>11. \A y \in 1 .. k : acc[g][y] = a[Origin(y, s, e, past)]
  <2> TAKE y \in 1 .. k
  <2> DEFINE p == Origin(y, s, e, past)
  <2>1. CASE y \in s .. past - 1
    <3>1. p \in s .. past - 1 /\ to(p) = y
      BY <2>1 DEF Origin, to, To, Next_, NextInCycle
    <3> HIDE DEF p
    <3> QED BY <1>10, <3>1 DEF p
  <2>2. CASE ~ (y \in s .. past - 1)
    <3>1. p = y
      BY <2>2 DEF Origin
    <3> HIDE DEF p
    <3> QED BY <1>10, <2>2, <3>1 DEF p
  <2> QED BY <2>1, <2>2
<1> QED BY <1>3, <1>11, ArgsPermute

-----------------------------------------------------------------------------
(* The table: a letter stands for the option of its own row, and of them   *)
(* only that of -v takes no value.                                         *)
Row(i, short, long, value) ==
  argtable[i].short = short /\ argtable[i].long = long /\ argtable[i].value = value

LEMMA ThirteenRows ==
  ASSUME NEW a, NEW b, NEW c, NEW d, NEW e, NEW f, NEW g,
         NEW h, NEW i, NEW j, NEW k, NEW l, NEW m, NEW t,
         t = <<a, b, c, d, e, f, g, h, i, j, k, l, m>>
  PROVE  /\ DOMAIN t = 1 .. 13
         /\ t[1] = a /\ t[2] = b /\ t[3] = c /\ t[4] = d /\ t[5] = e /\ t[6] = f
         /\ t[7] = g /\ t[8] = h /\ t[9] = i /\ t[10] = j /\ t[11] = k
         /\ t[12] = l /\ t[13] = m
OBVIOUS

LEMMA NoLetter == \A l \in {"u", "m", "c", "a", "v"} : l # NULL
BY Zenon DEF NULL

LEMMA Table ==
  /\ DOMAIN argtable = 1 .. 13
  /\ Row(1, NULL, "help", FALSE) /\ Row(2, NULL, "version", FALSE)
  /\ Row(3, "u", "uid", TRUE) /\ Row(4, "m", "mnt", TRUE)
  /\ Row(5, "c", "cmd", TRUE) /\ Row(6, "a", "arg", TRUE)
  /\ Row(7, "v", "verbosity", FALSE) /\ Row(8, NULL, "veth", TRUE)
  /\ Row(9, NULL, "veth-peer", TRUE) /\ Row(10, NULL, "container-ip", TRUE)
  /\ Row(11, NULL, "host-ip", TRUE) /\ Row(12, NULL, "nat", FALSE)
  /\ Row(13, NULL, "dns", TRUE)
<1>1. /\ DOMAIN argtable = 1 .. 13
      /\ argtable[1] = arg_litn(NULL, "help", 0, 1, 21)
      /\ argtable[2] = arg_litn(NULL, "version", 0, 1, 24)
      /\ argtable[3] = arg_intn("u", "uid", "<n>", 1, 1, 24)
      /\ argtable[4] = arg_strn("m", "mnt", "<path>", 1, 1, 16)
      /\ argtable[5] = arg_strn("c", "cmd", "<cmd>", 1, 1, 18)
      /\ argtable[6] = arg_strn("a", "arg", "<arg>", 0, 1, 20)
      /\ argtable[7] = arg_litn("v", "verbosity", 0, 1, 14)
      /\ argtable[8] = arg_strn(NULL, "veth", "<name>", 0, 1, 39)
      /\ argtable[9] = arg_strn(NULL, "veth-peer", "<name>", 0, 1, 50)
      /\ argtable[10] = arg_strn(NULL, "container-ip", "<ip/cidr>", 0, 1, 44)
      /\ argtable[11] = arg_strn(NULL, "host-ip", "<ip/cidr>", 0, 1, 44)
      /\ argtable[12] = arg_litn(NULL, "nat", 0, 1, 51)
      /\ argtable[13] = arg_strn(NULL, "dns", "<ip>", 0, 1, 43)
  BY ThirteenRows DEF argtable
<1> QED
  BY <1>1 DEF Row, arg_litn, arg_intn, arg_strn, Entry

LEMMA EntriesAre ==
  /\ IsFiniteSet(Entries) /\ "free" \notin Entries /\ "rest" \notin Entries
  /\ "verbosity" \in Entries /\ Flags \subseteq Entries
<1>1. \A i \in DOMAIN argtable : argtable[i].long # "free" /\ argtable[i].long # "rest"
  BY Table DEF Row
<1>2. "verbosity" \in Entries
  BY Table DEF Row, Entries
<1>3. IsFiniteSet(Entries)
  <2> DEFINE T == DOMAIN argtable
             f == [i \in T |-> argtable[i].long]
  <2>1. f \in Surjection(T, Entries)
    BY DEF Surjection, Entries
  <2>2. IsFiniteSet(T)
    <3>1. 1 \in Int /\ 13 \in Int
      OBVIOUS
    <3>2. T = 1 .. 13
      BY Table
    <3> QED BY <3>1, <3>2, FS_Interval, Zenon
  <2> HIDE DEF T, f
  <2> QED BY <2>1, <2>2, FS_Surjection
<1> QED BY <1>1, <1>2, <1>3 DEF Entries, Flags

LEMMA LettersAre ==
  ASSUME NEW l \in DOMAIN Letters
  PROVE  Letters[l] \in Entries /\ (Letters[l] \in Flags <=> l = "v")
<1> DEFINE Is(i) == argtable[i].short = l
<1>1. PICK i \in 3 .. 7 : Is(i)
  <2>1. \E i \in DOMAIN argtable : argtable[i].short = l /\ l # NULL
    BY DEF Letters, Shorts
  <2> QED BY <2>1, Table, NoLetter DEF Row
<1>2. \A j \in DOMAIN argtable : Is(j) => j = i
  BY <1>1, Table, NoLetter DEF Row
<1>3. find_shortoption(l) = i
  <2> DEFINE First_(j) == argtable[j].short = l
                          /\ \A h \in 1 .. j - 1 : argtable[h].short # l
  <2>1. First_(i)
    BY <1>1, <1>2, Table
  <2>2. \A j \in DOMAIN argtable : First_(j) => j = i
    BY <1>2
  <2>3. i \in DOMAIN argtable
    BY <1>1, Table
  <2> QED BY <2>1, <2>2, <2>3 DEF find_shortoption
<1>4. Letters[l] = argtable[i].long /\ i \in DOMAIN argtable
  BY <1>1, <1>3, Table, NoLetter DEF Letters
<1>5. argtable[i].long \in Entries
  BY <1>4 DEF Entries
<1>6. \A j \in DOMAIN argtable : ~ argtable[j].value => j \in {1, 2, 7, 12}
  BY Table, NoLetter DEF Row
<1>7. argtable[i].long \in Flags <=> i = 7
  BY <1>1, <1>6, Table, NoLetter DEF Row, Flags
<1>8. i = 7 <=> l = "v"
  BY <1>1, Table, NoLetter DEF Row
<1> QED BY <1>4, <1>5, <1>7, <1>8

-----------------------------------------------------------------------------
(* arg_register_error() never goes beyond the slots of struct arg_end.     *)
Slots(E) == {errs \in Seq(E) : Len(errs) <= MaxErrors}
Stored(errs) == \E E : errs \in Slots(E)

LEMMA RegisterInSlots ==
  ASSUME NEW E, "ELIMIT" \in E, NEW error \in E, NEW errs \in Slots(E)
  PROVE  register_error(errs, error) \in Slots(E)
<1>1. errs \in Seq(E) /\ Len(errs) \in Nat /\ Len(errs) <= MaxErrors
      /\ MaxErrors \in Nat \ {0}
  BY CommandLineAssumption DEF Slots
<1>2. CASE Len(errs) < MaxErrors
  <2>1. Append(errs, error) \in Seq(E) /\ Len(Append(errs, error)) = Len(errs) + 1
    BY <1>1, AppendProperties
  <2> QED BY <1>1, <1>2, <2>1 DEF Slots, register_error
<1>3. CASE ~ Len(errs) < MaxErrors
  <2>1. MaxErrors \in 1 .. Len(errs)
    BY <1>1, <1>3
  <2>2. [errs EXCEPT ![MaxErrors] = "ELIMIT"] \in Seq(E)
        /\ Len([errs EXCEPT ![MaxErrors] = "ELIMIT"]) = Len(errs)
    BY <1>1, <2>1, ExceptSeq
  <2> QED BY <1>1, <1>3, <2>2 DEF Slots, register_error
<1> QED BY <1>2, <1>3

LEMMA RegisterStores ==
  ASSUME NEW errs, Stored(errs), NEW error
  PROVE  Stored(register_error(errs, error))
<1>1. PICK E : errs \in Slots(E)
  BY DEF Stored
<1> DEFINE F == E \cup {error, "ELIMIT"}
<1>2. errs \in Slots(F)
  <2>1. errs \in Seq(F)
    BY <1>1 DEF Slots
  <2> QED BY <1>1, <2>1 DEF Slots
<1>3. error \in F /\ "ELIMIT" \in F
  OBVIOUS
<1> HIDE DEF F
<1>4. register_error(errs, error) \in Slots(F)
  BY <1>2, <1>3, RegisterInSlots
<1> QED BY <1>4 DEF Stored

(* An error that has been stored is not forgotten.                         *)
LEMMA ErrorStays ==
  ASSUME NEW errs, Stored(errs), NEW error
  PROVE  register_error(errs, error) # <<>>
<1>1. PICK E : errs \in Seq(E) /\ Len(errs) <= MaxErrors
  BY DEF Stored, Slots
<1>2. CASE Len(errs) < MaxErrors
  <2>1. register_error(errs, error) = Append(errs, error)
    BY <1>2 DEF register_error
  <2>2. errs \in Seq(E \cup {error})
    BY <1>1
  <2>3. Len(Append(errs, error)) = Len(errs) + 1 /\ Len(errs) \in Nat
    BY <2>2, AppendProperties, LenProperties
  <2> QED BY <2>1, <2>3
<1>3. CASE ~ Len(errs) < MaxErrors
  <2>1. register_error(errs, error) = [errs EXCEPT ![MaxErrors] = "ELIMIT"]
    BY <1>3 DEF register_error
  <2>2. DOMAIN errs = 1 .. Len(errs) /\ Len(errs) \in Nat /\ MaxErrors \in Nat \ {0}
    BY <1>1, LenProperties, CommandLineAssumption
  <2>3. 1 \in DOMAIN errs
    BY <1>3, <2>2
  <2>4. 1 \in DOMAIN register_error(errs, error)
    BY <2>1, <2>3
  <2> QED BY <2>4
<1> QED BY <1>2, <1>3

(* Three entries have to be given.                                         *)
LEMMA MinCounts ==
  \A i \in 1 .. 13 : argtable[i].mincount = IF i \in 3 .. 5 THEN 1 ELSE 0
<1>1. /\ argtable[1] = arg_litn(NULL, "help", 0, 1, 21)
      /\ argtable[2] = arg_litn(NULL, "version", 0, 1, 24)
      /\ argtable[3] = arg_intn("u", "uid", "<n>", 1, 1, 24)
      /\ argtable[4] = arg_strn("m", "mnt", "<path>", 1, 1, 16)
      /\ argtable[5] = arg_strn("c", "cmd", "<cmd>", 1, 1, 18)
      /\ argtable[6] = arg_strn("a", "arg", "<arg>", 0, 1, 20)
      /\ argtable[7] = arg_litn("v", "verbosity", 0, 1, 14)
      /\ argtable[8] = arg_strn(NULL, "veth", "<name>", 0, 1, 39)
      /\ argtable[9] = arg_strn(NULL, "veth-peer", "<name>", 0, 1, 50)
      /\ argtable[10] = arg_strn(NULL, "container-ip", "<ip/cidr>", 0, 1, 44)
      /\ argtable[11] = arg_strn(NULL, "host-ip", "<ip/cidr>", 0, 1, 44)
      /\ argtable[12] = arg_litn(NULL, "nat", 0, 1, 51)
      /\ argtable[13] = arg_strn(NULL, "dns", "<ip>", 0, 1, 43)
  BY ThirteenRows DEF argtable
<1>2. \A i \in {1, 2, 6, 7, 8, 9, 10, 11, 12, 13} : argtable[i].mincount = 0
  BY <1>1 DEF arg_litn, arg_strn, Entry
<1>3. \A i \in {3, 4, 5} : argtable[i].mincount = 1
  BY <1>1 DEF arg_intn, arg_strn, Entry
<1>4. \A i \in 1 .. 13 : i \in {3, 4, 5} \/ i \in {1, 2, 6, 7, 8, 9, 10, 11, 12, 13}
  OBVIOUS
<1> QED BY <1>2, <1>3, <1>4

LEMMA MissedAreFinite ==
  ASSUME NEW counts
  PROVE  /\ Cardinality(Missed(counts)) \in Nat
         /\ Cardinality(Missed(counts)) = 0 <=> Missed(counts) = {}
<1>1. DOMAIN argtable = 1 .. 13
  BY Table
<1>2. Missed(counts) \subseteq 1 .. 13
  BY <1>1 DEF Missed
<1>3. IsFiniteSet(1 .. 13)
  <2>1. 1 \in Int /\ 13 \in Int
    OBVIOUS
  <2> QED BY <2>1, FS_Interval, Zenon
<1>4. IsFiniteSet(Missed(counts))
  BY <1>2, <1>3, FS_Subset
<1> QED BY <1>4, FS_CardinalityType, FS_EmptySet

LEMMA CheckStores ==
  ASSUME NEW k \in Nat
  PROVE  Stored(MissingErrors(k)) /\ (MissingErrors(k) = <<>> <=> k = 0)
<1> DEFINE E == {"MINCOUNT", "ELIMIT"}
           S == Slots(E)
           none == <<>>
           Go(errs) == register_error(errs, "MINCOUNT")
           Result(errs) == CHOOSE r \in {Go(last) : last \in {errs}} : TRUE
           IsAcc(g) == g = [i \in 0 .. k |-> IF i = 0 THEN none ELSE Result(g[i - 1])]
<1>1. none \in S /\ k \in Int /\ 0 <= k
  BY CommandLineAssumption DEF Slots
<1>2. \A errs \in S : Go(errs) \in S
  <2>1. "MINCOUNT" \in E /\ "ELIMIT" \in E
    OBVIOUS
  <2> HIDE DEF E
  <2> QED BY <2>1, RegisterInSlots
<1>3. \A errs : Result(errs) = Go(errs)
  <2> TAKE errs
  <2> HIDE DEF Go
  <2>1. {Go(last) : last \in {errs}} = {Go(errs)}
    OBVIOUS
  <2> QED BY <2>1, Bound
<1>4. \E g : IsAcc(g)
  <2> HIDE DEF Result, Go, S, none
  <2> DEFINE step == [p \in S \X (1 .. k) |-> Go(p[1])]
  <2>1. step \in [S \X (0 + 1 .. k) -> S]
    BY <1>2
  <2>2. \A errs \in S : \A i \in 1 .. k : step[<<errs, i>>] = Go(errs)
    OBVIOUS
  <2> HIDE DEF step
  <2>3. PICK g \in [0 .. k -> S] : Unfolds(g, 0, k, none, step)
    <3>1. 0 \in Int
      OBVIOUS
    <3> QED BY <1>1, <2>1, <3>1, Recursion, Zenon
  <2>4. \A i \in 1 .. k : g[i] = step[<<g[i - 1], i>>] /\ g[i - 1] \in S
    BY <1>1, <2>3 DEF Unfolds
  <2>5. \A i \in 1 .. k : g[i] = Go(g[i - 1])
    BY <2>2, <2>4
  <2>6. g = [i \in 0 .. k |-> IF i = 0 THEN none ELSE Go(g[i - 1])]
    BY <1>1, <2>3, <2>5 DEF Unfolds
  <2> QED BY <1>3, <2>6
<1>5. PICK acc : IsAcc(acc) /\ MissingErrors(k) = acc[k]
  BY <1>4 DEF MissingErrors, Through
<1> DEFINE P == {i \in 0 .. k : acc[i] \in S}
<1>6. 0 .. k \subseteq P
  <2> HIDE DEF Result, Go, S, none
  <2>1. acc = [i \in 0 .. k |-> IF i = 0 THEN none ELSE Go(acc[i - 1])]
    BY <1>3, <1>5
  <2>2. 0 \in P
    BY <1>1, <2>1
  <2>3. \A i \in 0 + 1 .. k : i - 1 \in P => i \in P
    BY <1>1, <1>2, <2>1
  <2> HIDE DEF P
  <2> QED BY <1>1, <2>2, <2>3, Upwards
<1>7. acc[k] \in S
  <2> HIDE DEF S
  <2> QED BY <1>1, <1>6
<1>8. acc[k] = <<>> <=> k = 0
  <2>1. acc = [i \in 0 .. k |-> IF i = 0 THEN none ELSE Go(acc[i - 1])]
    <3> HIDE DEF Result, Go, none
    <3> QED BY <1>3, <1>5
  <2>2. k # 0 => acc[k] = register_error(acc[k - 1], "MINCOUNT") /\ k - 1 \in P
    <3> HIDE DEF S, P
    <3> QED BY <1>1, <1>6, <2>1
  <2>3. k # 0 => Stored(acc[k - 1])
    BY <2>2 DEF Stored
  <2>4. k # 0 => acc[k] # <<>>
    BY <2>2, <2>3, ErrorStays
  <2>5. acc[0] = <<>>
    BY <1>1, <2>1
  <2> QED BY <2>4, <2>5
<1> QED BY <1>5, <1>7, <1>8 DEF Stored

-----------------------------------------------------------------------------
(* The window of skipped operands lies before the token that is next. Its  *)
(* end is that token only inside of a cluster, and again after a dash that *)
(* ends one, when the same token is looked at once more: never at a token  *)
(* that would be moved past it.                                            *)
ArgvInv == line \in Seq(Seq(STRING)) /\ argv \in Orders(N)

ScanInv ==
  /\ optind \in 1 .. N + 1 /\ place \in 0 .. (IF optind <= N THEN Len(Tok) ELSE 0)
  /\ start \in Nat /\ end \in Nat
  /\ start # 0 => start < optind
  /\ end # 0 => 0 < start /\ start < end /\ end <= optind
  /\ end # 0 /\ end = optind => optind <= N /\ ~ IsOperand(Tok)
  /\ phase # "tagged" => place = 0 /\ start = 0 /\ end = 0

ResultInv ==
  /\ DOMAIN got = Entries /\ \A e \in Entries : Len(got[e]) <= 1
  /\ Stored(errors)

StageInv ==
  /\ phase \in {"tagged", "untagged", "check", "main", "done"}
  /\ outcome \in {"none", "refused", "usage", "run"}

IInv == ArgvInv /\ ScanInv /\ ResultInv /\ StageInv

LEMMA Tokens ==
  ASSUME ArgvInv
  PROVE  N \in Nat /\ \A i \in 1 .. N : Len(Token(i)) \in Nat
<1>1. N \in Nat
  BY LenProperties DEF ArgvInv, N
<1>3. \A i \in 1 .. N : argv[i] \in 1 .. N
  BY DEF ArgvInv, Orders
<1>2. \A i \in 1 .. N : line[i] \in Seq(STRING)
  BY ElementOfSeq DEF ArgvInv, N
<1> QED BY <1>1, <1>2, <1>3 DEF Token

LEMMA InitGood == Init => IInv
<1> SUFFICES ASSUME Init PROVE IInv
  OBVIOUS
<1>1. line \in Seq(Seq(STRING))
  BY CommandLineAssumption DEF Init
<1>2. N \in Nat
  BY <1>1 DEF N
<1>3. argv \in Orders(N)
  <2>1. argv = [i \in 1 .. N |-> i]
    BY DEF Init, N
  <2> QED BY <1>2, <2>1 DEF Orders
<1>4. ScanInv
  <2>1. optind = 1 /\ place = 0 /\ start = 0 /\ end = 0 /\ phase = "tagged"
    BY DEF Init
  <2>2. place \in 0 .. (IF optind <= N THEN Len(Tok) ELSE 0)
    BY <1>1, <1>2, <1>3, <2>1, Tokens DEF ArgvInv, Tok
  <2> QED BY <1>2, <2>1, <2>2 DEF ScanInv
<1>5. ResultInv
  <2>1. got = [e \in Entries |-> <<>>] /\ errors = <<>>
    BY DEF Init
  <2>2. <<>> \in Slots({})
    BY CommandLineAssumption DEF Slots
  <2> QED BY <2>1, <2>2 DEF ResultInv, Stored
<1>6. StageInv
  BY DEF Init, StageInv
<1> QED BY <1>1, <1>3, <1>4, <1>5, <1>6 DEF IInv, ArgvInv

(* Values and errors.                                                      *)
LEMMA Taken ==
  ASSUME ResultInv, NEW e, NEW v, NEW errs, Stored(errs), Take(e, v, errs)
  PROVE  ResultInv'
<1>1. CASE ScanError(e, v) = "ok"
  <2>1. got' = [got EXCEPT ![e] = <<Scanned(e, v)>>] /\ errors' = errs
    BY <1>1 DEF Take
  <2> QED BY <2>1 DEF ResultInv, Stored, Slots
<1>2. CASE ScanError(e, v) # "ok"
  <2>1. errors' = register_error(errs, ScanError(e, v)) /\ UNCHANGED got
    BY <1>2 DEF Take
  <2>2. Stored(register_error(errs, ScanError(e, v)))
    BY RegisterStores
  <2> QED BY <2>1, <2>2 DEF ResultInv, Stored, Slots
<1> QED BY <1>1, <1>2

LEMMA Reported ==
  ASSUME ResultInv, NEW error, Report(error)
  PROVE  ResultInv'
<1>1. Stored(register_error(errors, error))
  BY RegisterStores DEF ResultInv
<1> QED BY <1>1 DEF ResultInv, Report, Stored, Slots

(* The moves of optind and place within the options.                       *)
LEMMA Left ==
  ASSUME ArgvInv, ScanInv, InOption, NEW next \in Nat, Leave(next), line' = line,
         next \in optind + 1 .. N + 1 \/ (next = optind /\ place # 0)
  PROVE  ArgvInv' /\ ScanInv' /\ phase' = phase
<1>1. /\ optind' = next /\ place' = 0 /\ end' = Close
      /\ argv' = argv /\ start' = start /\ phase' = phase
  BY DEF Leave
<1>2. N' = N /\ (\A i : Token(i)' = Token(i)) /\ N \in Nat
  BY <1>1, Tokens DEF N, Token
<1>3. optind \in 1 .. N /\ phase = "tagged" /\ (place = 0 => ~ IsOperand(Tok))
  BY DEF InOption, Scanning, ScanInv
<1>4. place' \in 0 .. (IF optind' <= N' THEN Len(Tok') ELSE 0)
  <2>1. optind' <= N => Len(Token(optind')) \in Nat /\ Tok' = Token(optind')
    BY <1>1, <1>2, <1>3, Tokens DEF Tok
  <2> QED BY <1>1, <1>2, <2>1
<1>5. next = optind => Tok' = Tok
  BY <1>1, <1>2 DEF Tok
<1>6. ScanInv'
  <2>1. end' \in Nat /\ start' < optind'
    BY <1>1, <1>3 DEF ScanInv, Close
  <2>2. end' # 0 => 0 < start' /\ start' < end' /\ end' <= optind'
    BY <1>1, <1>3 DEF ScanInv, Close
  <2>3. end' # 0 /\ end' = optind' => optind' <= N' /\ ~ IsOperand(Tok')
    BY <1>1, <1>2, <1>3, <1>5 DEF ScanInv, Close
  <2> QED BY <1>1, <1>2, <1>3, <1>4, <2>1, <2>2, <2>3 DEF ScanInv
<1> QED BY <1>1, <1>2, <1>6 DEF ArgvInv

LEMMA Advanced ==
  ASSUME ArgvInv, ScanInv, InOption, Advance, line' = line
  PROVE  ArgvInv' /\ ScanInv' /\ phase' = phase
<1>1. optind \in 1 .. N /\ phase = "tagged" /\ (place = 0 => ~ IsOperand(Tok))
  BY DEF InOption, Scanning, ScanInv
<1>2. Len(Tok) \in Nat /\ N \in Nat /\ At \in 1 .. Len(Tok)
  BY <1>1, Tokens DEF Tok, ScanInv, At, IsOperand
<1>3. CASE At = Len(Tok)
  <2>1. Leave(optind + 1) /\ optind + 1 \in optind + 1 .. N + 1 /\ optind + 1 \in Nat
    BY <1>1, <1>2, <1>3 DEF Advance
  <2> QED BY <2>1, Left
<1>4. CASE At # Len(Tok)
  <2>1. place' = At + 1 /\ end' = Close /\ UNCHANGED <<argv, optind, start, phase>>
    BY <1>4 DEF Advance
  <2>2. N' = N /\ Tok' = Tok
    BY <2>1 DEF N, Tok, Token
  <2>3. place' \in 0 .. Len(Tok)
    BY <1>2, <1>4, <2>1
  <2>4. ~ IsOperand(Tok) \/ end = end'
    BY <1>1, <2>1 DEF Close
  <2>5. end' \in Nat /\ (end' # 0 => 0 < start /\ start < end' /\ end' <= optind)
    BY <1>1, <2>1 DEF ScanInv, Close
  <2>6. end' # 0 /\ end' = optind => optind <= N /\ ~ IsOperand(Tok)
    BY <1>1, <2>4 DEF ScanInv
  <2> QED BY <1>1, <2>1, <2>2, <2>3, <2>5, <2>6 DEF ScanInv, ArgvInv
<1> QED BY <1>3, <1>4

(* The steps that move operands.                                           *)
LEMMA Finished ==
  ASSUME ArgvInv, ScanInv, NEW e \in Nat, NEW past \in 1 .. N + 1, Finish(e, past),
         e # 0 => 0 < start /\ start < e /\ e < past, start < past, line' = line
  PROVE  ArgvInv' /\ ScanInv' /\ phase' = "untagged"
<1>1. N \in Nat /\ start \in Nat /\ past \in Nat /\ past <= N + 1
  BY Tokens DEF ScanInv
<1>2. /\ argv' = IF e # 0 THEN permute_args(start, e, past, argv) ELSE argv
      /\ optind' = IF e # 0 THEN past - (e - start)
                   ELSE IF start # 0 THEN start ELSE past
      /\ phase' = "untagged" /\ place' = 0 /\ start' = 0 /\ end' = 0
  BY DEF Finish
<1>3. argv' \in Orders(N)
  BY <1>1, <1>2, ArgsPermute DEF ArgvInv
<1>4. N' = N
  BY DEF N
<1>5. ArgvInv'
  BY <1>3, <1>4 DEF ArgvInv
<1>6. optind' \in 1 .. N + 1
  BY <1>1, <1>2
<1>7. place' \in 0 .. (IF optind' <= N' THEN Len(Tok') ELSE 0)
  <2>1. \A i \in 1 .. N' : Len(Token(i)') \in Nat
    BY <1>5, Tokens
  <2>2. optind' <= N' => Len(Tok') \in Nat
    BY <1>4, <1>6, <2>1 DEF Tok, Token
  <2> QED BY <1>2, <2>2
<1> QED BY <1>2, <1>4, <1>5, <1>6, <1>7 DEF ScanInv

LEMMA ScanEnds ==
  ASSUME ArgvInv, ScanInv, EndOfArgv \/ DoubleDash, line' = line
  PROVE  ArgvInv' /\ ScanInv' /\ phase' = "untagged"
<1>1. N \in Nat /\ optind \in 1 .. N + 1 /\ start \in Nat /\ end \in Nat
  BY Tokens DEF ScanInv
<1>2. CASE EndOfArgv
  <2>1. optind = N + 1 /\ Finish(end, optind)
    BY <1>1, <1>2 DEF EndOfArgv
  <2>2. end # 0 => 0 < start /\ start < end /\ end < optind
    BY <1>1, <2>1 DEF ScanInv
  <2>3. start < optind
    BY <1>1 DEF ScanInv
  <2> QED BY <1>1, <2>1, <2>2, <2>3, Finished
<1>3. CASE DoubleDash
  <2>1. optind <= N /\ Finish(Close, optind + 1)
    BY <1>3 DEF DoubleDash, Scanning
  <2>2. Close \in Nat /\ optind + 1 \in 1 .. N + 1 /\ start < optind + 1
    BY <1>1, <2>1 DEF Close, ScanInv
  <2>3. Close # 0 => 0 < start /\ start < Close /\ Close < optind + 1
    BY <1>1 DEF Close, ScanInv
  <2> QED BY <2>1, <2>2, <2>3, Finished
<1> QED BY <1>2, <1>3

LEMMA OperandSkipped ==
  ASSUME ArgvInv, ScanInv, SkipOperand, line' = line
  PROVE  ArgvInv' /\ ScanInv' /\ phase' = phase
<1>1. /\ optind <= N /\ place = 0 /\ IsOperand(Tok) /\ phase = "tagged"
      /\ argv' = IF end # 0 THEN permute_args(start, end, optind, argv) ELSE argv
      /\ start' = IF start = 0 THEN optind
                  ELSE IF end # 0 THEN optind - (end - start) ELSE start
      /\ end' = 0 /\ optind' = optind + 1 /\ place' = place /\ phase' = phase
  BY DEF SkipOperand, Scanning
<1>2. N \in Nat /\ optind \in 1 .. N /\ start \in Nat /\ end \in Nat
  BY <1>1, Tokens DEF ScanInv
<1>3. end # 0 => 0 < start /\ start < end /\ end < optind
  BY <1>1, <1>2 DEF ScanInv
<1>4. argv' \in Orders(N)
  BY <1>1, <1>2, <1>3, ArgsPermute DEF ArgvInv
<1>5. N' = N
  BY DEF N
<1>6. ArgvInv'
  BY <1>4, <1>5 DEF ArgvInv
<1>7. place' \in 0 .. (IF optind' <= N' THEN Len(Tok') ELSE 0)
  <2>1. \A i \in 1 .. N' : Len(Token(i)') \in Nat
    BY <1>6, Tokens
  <2>2. optind' <= N' => Len(Tok') \in Nat
    BY <1>1, <1>2, <1>5, <2>1 DEF Tok, Token
  <2> QED BY <1>1, <2>2
<1>8. start' \in Nat /\ start' < optind'
  BY <1>1, <1>2, <1>3 DEF ScanInv
<1> QED BY <1>1, <1>2, <1>5, <1>6, <1>7, <1>8 DEF ScanInv

(* The steps of getopt_internal() within one token.                        *)
LEMMA LongKeeps ==
  ASSUME ArgvInv, ScanInv, ResultInv, line' = line,
         LongUnknown \/ LongFlag \/ LongValue \/ MalformedDash
  PROVE  ArgvInv' /\ ScanInv' /\ ResultInv' /\ phase' = phase
<1>1. Stored(errors) /\ \A v : Stored(MissingIfEmpty(v))
  BY RegisterStores DEF ResultInv, MissingIfEmpty
<1>2. InOption /\ ResultInv'
  <2>1. CASE LongUnknown
    BY <2>1, Reported DEF LongUnknown, Long
  <2>2. CASE LongFlag
    BY <1>1, <2>2, Taken DEF LongFlag, Long
  <2>3. CASE LongValue
    BY <1>1, <2>3, Taken, Reported DEF LongValue, Long
  <2>4. CASE MalformedDash
    BY <2>4, Reported DEF MalformedDash
  <2> QED BY <2>1, <2>2, <2>3, <2>4
<1>3. N \in Nat /\ optind \in 1 .. N
  BY <1>2, Tokens DEF InOption, Scanning, ScanInv
<1>4. \/ Leave(optind + 1) \/ (Leave(optind + 2) /\ optind < N)
      \/ (Leave(optind) /\ place # 0)
  BY DEF LongUnknown, LongFlag, LongValue, MalformedDash
<1>5. CASE Leave(optind + 1)
  <2>1. optind + 1 \in Nat /\ optind + 1 \in optind + 1 .. N + 1
    BY <1>3
  <2> QED BY <1>2, <1>5, <2>1, Left
<1>6. CASE Leave(optind + 2) /\ optind < N
  <2>1. optind + 2 \in Nat /\ optind + 2 \in optind + 1 .. N + 1
    BY <1>3, <1>6
  <2> QED BY <1>2, <1>6, <2>1, Left
<1>7. CASE Leave(optind) /\ place # 0
  <2>1. optind \in Nat
    BY <1>3
  <2> QED BY <1>2, <1>7, <2>1, Left
<1> QED BY <1>4, <1>5, <1>6, <1>7

LEMMA ShortKeeps ==
  ASSUME ArgvInv, ScanInv, ResultInv, line' = line,
         ShortUnknown \/ ShortFlag \/ ShortValue
  PROVE  ArgvInv' /\ ScanInv' /\ ResultInv' /\ phase' = phase
<1>1. Stored(errors)
  BY DEF ResultInv
<1>2. InOption /\ ResultInv'
  <2>1. CASE ShortUnknown
    BY <2>1, Reported DEF ShortUnknown, Short
  <2>2. CASE ShortFlag
    BY <1>1, <2>2, Taken DEF ShortFlag, Short
  <2>3. CASE ShortValue
    BY <1>1, <2>3, Taken, Reported DEF ShortValue, Short
  <2> QED BY <2>1, <2>2, <2>3
<1>3. N \in Nat /\ optind \in 1 .. N
  BY <1>2, Tokens DEF InOption, Scanning, ScanInv
<1>4. Advance \/ Leave(optind + 1) \/ (Leave(optind + 2) /\ optind < N)
  BY DEF ShortUnknown, ShortFlag, ShortValue
<1>5. CASE Advance
  BY <1>2, <1>5, Advanced
<1>6. CASE Leave(optind + 1)
  <2>1. optind + 1 \in Nat /\ optind + 1 \in optind + 1 .. N + 1
    BY <1>3
  <2> QED BY <1>2, <1>6, <2>1, Left
<1>7. CASE Leave(optind + 2) /\ optind < N
  <2>1. optind + 2 \in Nat /\ optind + 2 \in optind + 1 .. N + 1
    BY <1>3, <1>7
  <2> QED BY <1>2, <1>7, <2>1, Left
<1> QED BY <1>4, <1>5, <1>6, <1>7

LEMMA TaggedKeeps == IInv /\ arg_parse_tagged => IInv'
<1> SUFFICES ASSUME IInv, arg_parse_tagged PROVE IInv'
  OBVIOUS
<1>1. line' = line /\ outcome' = outcome
  BY DEF arg_parse_tagged
<1>2. ArgvInv /\ ScanInv /\ ResultInv /\ StageInv /\ phase \in {phase, "untagged"}
  BY DEF IInv
<1>3. ArgvInv' /\ ScanInv' /\ ResultInv' /\ phase' \in {phase, "untagged"}
  <2>1. CASE EndOfArgv \/ DoubleDash
    <3>1. UNCHANGED <<got, errors>>
      BY <2>1 DEF EndOfArgv, DoubleDash, Finish
    <3>2. ResultInv'
      BY <1>2, <3>1 DEF ResultInv, Stored, Slots
    <3> QED BY <1>1, <1>2, <2>1, <3>2, ScanEnds
  <2>2. CASE SkipOperand
    <3>1. UNCHANGED <<got, errors>>
      BY <2>2 DEF SkipOperand
    <3>2. ResultInv'
      BY <1>2, <3>1 DEF ResultInv, Stored, Slots
    <3> QED BY <1>1, <1>2, <2>2, <3>2, OperandSkipped
  <2>3. CASE LongUnknown \/ LongFlag \/ LongValue \/ MalformedDash
    BY <1>1, <1>2, <2>3, LongKeeps
  <2>4. CASE ShortUnknown \/ ShortFlag \/ ShortValue
    BY <1>1, <1>2, <2>4, ShortKeeps
  <2> QED BY <2>1, <2>2, <2>3, <2>4 DEF arg_parse_tagged
<1>4. StageInv'
  BY <1>1, <1>2, <1>3 DEF StageInv
<1> QED BY <1>3, <1>4 DEF IInv

LEMMA UntaggedKeeps == IInv /\ arg_parse_untagged => IInv'
<1> SUFFICES ASSUME IInv, arg_parse_untagged PROVE IInv'
  OBVIOUS
<1>1. /\ phase = "untagged" /\ phase' \in {"untagged", "check"}
      /\ UNCHANGED <<line, argv, place, start, end, outcome>>
  BY DEF arg_parse_untagged
<1>2. ArgvInv'
  BY <1>1 DEF IInv, ArgvInv, N
<1>3. ResultInv'
  <2>1. CASE optind <= N
    BY <2>1, Reported DEF arg_parse_untagged, IInv
  <2>2. CASE ~ (optind <= N)
    BY <2>2 DEF arg_parse_untagged, IInv, ResultInv, Stored, Slots
  <2> QED BY <2>1, <2>2
<1>4. ScanInv'
  <2>1. N' = N /\ N \in Nat /\ optind' \in 1 .. N + 1
    BY <1>1, Tokens DEF arg_parse_untagged, IInv, ScanInv, N
  <2>2. place = 0 /\ start = 0 /\ end = 0
    BY <1>1 DEF IInv, ScanInv
  <2>3. \A i \in 1 .. N' : Len(Token(i)') \in Nat
    BY <1>2, Tokens
  <2>4. optind' <= N' => Len(Tok') \in Nat
    BY <2>1, <2>3 DEF Tok, Token
  <2> QED BY <1>1, <2>1, <2>2, <2>4 DEF ScanInv
<1>5. StageInv'
  BY <1>1 DEF IInv, StageInv
<1> QED BY <1>2, <1>3, <1>4, <1>5 DEF IInv

(* arg_parse_check() and main() leave the scan as it is.                   *)
LEMMA ScanStays ==
  ASSUME ArgvInv, ScanInv, UNCHANGED <<line, scanning>>,
         phase' = phase \/ phase # "tagged"
  PROVE  ArgvInv' /\ ScanInv'
BY DEF ArgvInv, ScanInv, scanning, N, Tok, Token

LEMMA CheckKeeps == IInv /\ arg_parse_check => IInv'
<1> SUFFICES ASSUME IInv, arg_parse_check PROVE IInv'
  OBVIOUS
<1>1. /\ phase = "check" /\ phase' = "main" /\ outcome' = outcome /\ got' = got
      /\ UNCHANGED <<line, scanning>>
  BY DEF arg_parse_check
<1>2. ArgvInv' /\ ScanInv'
  BY <1>1, ScanStays DEF IInv
<1>3. Stored(errors')
  <2> DEFINE missed == Cardinality(Missed([e \in Entries |-> Len(got[e])]))
  <2>1. missed \in Nat
    BY MissedAreFinite
  <2> HIDE DEF missed
  <2>2. Stored(MissingErrors(missed))
    BY <2>1, CheckStores
  <2>3. errors' = errors \/ errors' = MissingErrors(missed)
    BY DEF arg_parse_check, missed
  <2>4. Stored(errors)
    BY DEF IInv, ResultInv
  <2> QED BY <2>2, <2>3, <2>4
<1>4. ResultInv'
  BY <1>1, <1>3 DEF IInv, ResultInv, Stored, Slots
<1>5. StageInv'
  BY <1>1 DEF IInv, StageInv
<1> QED BY <1>2, <1>4, <1>5 DEF IInv

LEMMA MainKeeps == IInv /\ main => IInv'
<1> SUFFICES ASSUME IInv, main PROVE IInv'
  OBVIOUS
<1>1. /\ phase = "main" /\ phase' = "done"
      /\ outcome' \in {"refused", "usage", "run"}
      /\ UNCHANGED <<line, scanning, got, errors>>
  BY DEF main
<1>2. ArgvInv' /\ ScanInv'
  BY <1>1, ScanStays DEF IInv
<1>3. ResultInv'
  BY <1>1 DEF IInv, ResultInv, Stored, Slots
<1>4. StageInv'
  BY <1>1 DEF IInv, StageInv
<1> QED BY <1>2, <1>3, <1>4 DEF IInv

LEMMA NextGood == IInv /\ [Next]_vars => IInv'
<1>1. IInv /\ UNCHANGED vars => IInv'
  <2> SUFFICES ASSUME IInv, UNCHANGED vars PROVE IInv'
    OBVIOUS
  <2>1. UNCHANGED <<line, scanning, phase, got, errors, outcome>>
    BY DEF vars
  <2>2. ArgvInv' /\ ScanInv'
    BY <2>1, ScanStays DEF IInv
  <2>3. ResultInv' /\ StageInv'
    BY <2>1 DEF IInv, ResultInv, Stored, Slots, StageInv
  <2> QED BY <2>2, <2>3 DEF IInv
<1> QED BY <1>1, TaggedKeeps, UntaggedKeeps, CheckKeeps, MainKeeps DEF Next

LEMMA Invariance == Spec => []IInv
BY InitGood, NextGood, PTL DEF Spec

(* However the operands and options of a line alternate, getopt_internal() *)
(* and permute_args() only rearrange argvcopy, never reach beyond it, keep *)
(* the window of operands behind what is scanned, and arg_register_error() *)
(* stays within its slots.                                                 *)
THEOREM Typed == Spec => []TypeOK
<1>1. IInv => TypeOK
  <2> SUFFICES ASSUME IInv PROVE TypeOK
    OBVIOUS
  <2>1. DOMAIN argv = 1 .. N /\ ToSet(argv) = 1 .. N
    BY DEF IInv, ArgvInv, Orders, ToSet
  <2>2. Len(errors) <= MaxErrors
    BY DEF IInv, ResultInv, Stored, Slots
  <2> QED BY <2>1, <2>2 DEF TypeOK, IInv, ScanInv, ResultInv, StageInv
<1> QED BY <1>1, Invariance, PTL

-----------------------------------------------------------------------------
(* The order of argvcopy below the token that is next: the operands ops    *)
(* stand in s..e-1, everything else is in the order of the command line.   *)
Arranged(a, ops, s, e, past, k) ==
  /\ Len(ops) = e - s
  /\ \A p \in s .. e - 1 : a[p] = ops[p - s + 1]
  /\ \A p, q \in 1 .. past - 1 :
       p < q /\ ~ (p \in s .. e - 1) /\ ~ (q \in s .. e - 1) => a[p] < a[q]
  /\ \A p \in 1 .. past - 1 : a[p] < past
  /\ \A p \in past .. k : a[p] = p

(* An option comes next.                                                   *)
LEMMA OptionFollows ==
  ASSUME NEW k \in Nat, NEW a \in Orders(k), NEW ops, NEW s \in Int, NEW e \in Int,
         NEW past \in 1 .. k, e <= past, Arranged(a, ops, s, e, past, k)
  PROVE  Arranged(a, ops, s, e, past + 1, k)
<1>1. \A p \in 1 .. k : a[p] \in 1 .. k
  BY DEF Orders
<1>2. a[past] = past /\ \A p \in 1 .. past - 1 : a[p] < past
  BY DEF Arranged
<1>3. \A p \in 1 .. past + 1 - 1 : a[p] < past + 1
  BY <1>1, <1>2
<1>4. ASSUME NEW p \in 1 .. past + 1 - 1, NEW q \in 1 .. past + 1 - 1,
             p < q, ~ (p \in s .. e - 1), ~ (q \in s .. e - 1)
      PROVE  a[p] < a[q]
  <2>1. CASE q = past
    BY <1>2, <1>4, <2>1
  <2>2. CASE q # past
    <3>1. p \in 1 .. past - 1 /\ q \in 1 .. past - 1
      BY <1>4, <2>2
    <3> QED BY <1>4, <3>1 DEF Arranged
  <2> QED BY <2>1, <2>2
<1> QED BY <1>3, <1>4 DEF Arranged

(* An operand comes next, behind the window of operands.                   *)
LEMMA OperandFollows ==
  ASSUME NEW k \in Nat, NEW a \in Orders(k), NEW ops \in Seq(Nat), NEW s \in Int,
         NEW past \in 1 .. k, s <= past, Arranged(a, ops, s, past, past, k)
  PROVE  Arranged(a, Append(ops, past), s, past + 1, past + 1, k)
<1> DEFINE more == Append(ops, past)
<1>1. Len(ops) = past - s /\ Len(ops) \in Nat
  BY LenProperties DEF Arranged
<1>2. /\ Len(more) = Len(ops) + 1 /\ more[Len(ops) + 1] = past
      /\ \A i \in 1 .. Len(ops) : more[i] = ops[i]
  BY AppendProperties
<1> HIDE DEF more
<1>3. a[past] = past
  BY DEF Arranged
<1>4. ASSUME NEW p \in s .. past + 1 - 1 PROVE a[p] = more[p - s + 1]
  <2>1. CASE p = past
    BY <1>1, <1>2, <1>3, <2>1
  <2>2. CASE p # past
    <3>1. p \in s .. past - 1 /\ p - s + 1 \in 1 .. Len(ops)
      BY <1>1, <2>2
    <3> QED BY <1>2, <3>1 DEF Arranged
  <2> QED BY <2>1, <2>2
<1>5. \A p \in 1 .. k : a[p] \in 1 .. k
  BY DEF Orders
<1>6. ASSUME NEW p \in 1 .. past + 1 - 1 PROVE a[p] < past + 1
  <2>1. CASE p = past
    BY <1>3, <2>1
  <2>2. CASE p # past
    <3>1. p \in 1 .. past - 1
      BY <2>2
    <3>2. a[p] < past /\ a[p] \in Int
      BY <1>5, <3>1 DEF Arranged
    <3> QED BY <3>2
  <2> QED BY <2>1, <2>2
<1>7. ASSUME NEW p \in 1 .. past + 1 - 1, NEW q \in 1 .. past + 1 - 1,
             p < q, ~ (p \in s .. past + 1 - 1), ~ (q \in s .. past + 1 - 1)
      PROVE  a[p] < a[q]
  <2>1. /\ p \in 1 .. past - 1 /\ q \in 1 .. past - 1
        /\ ~ (p \in s .. past - 1) /\ ~ (q \in s .. past - 1)
    BY <1>7
  <2> QED BY <1>7, <2>1 DEF Arranged
<1>8. \A p \in past + 1 .. k : a[p] = p
  BY DEF Arranged
<1> QED BY <1>1, <1>2, <1>4, <1>6, <1>7, <1>8 DEF Arranged, more

(* A window without operands is anywhere.                                  *)
LEMMA WindowEmpty ==
  ASSUME NEW k \in Nat, NEW a \in Orders(k), NEW ops, NEW s \in Int, NEW t \in Int,
         NEW past \in Int, Arranged(a, ops, s, s, past, k)
  PROVE  Arranged(a, ops, t, t, past, k)
BY DEF Arranged

(* permute_args() brings the window up to the token that is next.          *)
LEMMA WindowMoved ==
  ASSUME NEW k \in Nat, NEW a \in Orders(k), NEW ops,
         NEW s \in Nat, NEW e \in Nat, NEW past \in Nat,
         1 <= s, s < e, e < past, past <= k + 1, Arranged(a, ops, s, e, past, k)
  PROVE  Arranged(permute_args(s, e, past, a), ops, past - (e - s), past, past, k)
<1> DEFINE b == permute_args(s, e, past, a)
           t == past - (e - s)
           from(y) == Origin(y, s, e, past)
<1>1. \A y \in 1 .. k : b[y] = a[from(y)]
  BY BlocksExchanged
<1> HIDE DEF b
<1>2. \A p \in t .. past - 1 : from(p) = p - (past - e) /\ from(p) \in s .. e - 1 /\ p \in 1 .. k
  BY DEF Origin
<1>3. \A p \in 1 .. past - 1 : from(p) \in 1 .. past - 1 /\ p \in 1 .. k
  BY DEF Origin
<1>4. \A p \in past .. k : from(p) = p /\ p \in 1 .. k
  BY DEF Origin
<1>5. ASSUME NEW p \in 1 .. past - 1, NEW q \in 1 .. past - 1, p < q,
             ~ (p \in t .. past - 1), ~ (q \in t .. past - 1)
      PROVE  from(p) < from(q) /\ ~ (from(p) \in s .. e - 1) /\ ~ (from(q) \in s .. e - 1)
  BY <1>5 DEF Origin
<1> HIDE DEF from
<1>6. ASSUME NEW p \in t .. past - 1 PROVE b[p] = ops[p - t + 1]
  <2>1. b[p] = a[p - (past - e)] /\ p - (past - e) \in s .. e - 1
    BY <1>1, <1>2
  <2>2. a[p - (past - e)] = ops[p - (past - e) - s + 1]
    BY <2>1 DEF Arranged
  <2>3. p - (past - e) - s + 1 = p - t + 1
    OBVIOUS
  <2> QED BY <2>1, <2>2, <2>3
<1>7. ASSUME NEW p \in 1 .. past - 1, NEW q \in 1 .. past - 1, p < q,
             ~ (p \in t .. past - 1), ~ (q \in t .. past - 1)
      PROVE  b[p] < b[q]
  BY <1>1, <1>3, <1>5, <1>7 DEF Arranged
<1>8. \A p \in 1 .. past - 1 : b[p] < past
  BY <1>1, <1>3 DEF Arranged
<1>9. \A p \in past .. k : b[p] = p
  BY <1>1, <1>4 DEF Arranged
<1>10. Len(ops) = past - t
  BY DEF Arranged
<1> HIDE DEF t
<1>11. Arranged(b, ops, t, past, past, k)
  BY <1>6, <1>7, <1>8, <1>9, <1>10 DEF Arranged
<1> QED BY <1>11 DEF b, t

-----------------------------------------------------------------------------
(* The reading from left to right: its results, and what a token does to   *)
(* the mode and the operands.                                              *)
Givens == [entry : Entries, value : Seq(STRING), long : BOOLEAN]
Readings ==
  [mode : Entries \cup {"free", "rest"}, long : BOOLEAN, opts : Seq(Givens),
   operands : Seq(Nat), bad : BOOLEAN, endless : BOOLEAN]

Text == Seq(STRING)
Same(q, r) == q.mode = r.mode /\ q.operands = r.operands

LEMMA Added ==
  ASSUME NEW r \in Readings, NEW e \in Entries, NEW v \in Text, NEW long \in BOOLEAN
  PROVE  Add(r, Given(e, v, long)) \in Readings /\ Same(Add(r, Given(e, v, long)), r)
<1>1. Given(e, v, long) \in Givens
  BY DEF Given, Givens, Text
<1>2. Append(r.opts, Given(e, v, long)) \in Seq(Givens)
  BY <1>1, AppendProperties DEF Readings
<1> QED BY <1>2 DEF Add, Readings, Same

LEMMA LetterRead ==
  ASSUME NEW r \in Readings, NEW letter
  PROVE  ReadLetter(r, letter) \in Readings /\ Same(ReadLetter(r, letter), r)
<1>1. CASE letter = "v"
  <2>1. "verbosity" \in Entries /\ <<>> \in Text /\ FALSE \in BOOLEAN
    BY EntriesAre DEF Text
  <2>2. /\ Add(r, Given("verbosity", <<>>, FALSE)) \in Readings
        /\ Same(Add(r, Given("verbosity", <<>>, FALSE)), r)
    BY <2>1, Added
  <2> QED BY <1>1, <2>2 DEF ReadLetter
<1>2. CASE letter # "v"
  BY <1>2 DEF ReadLetter, Readings, Same
<1> QED BY <1>1, <1>2

LEMMA LettersRead ==
  ASSUME NEW r \in Readings, NEW t \in Text, NEW stop \in 2 .. Len(t) + 1
  PROVE  ReadLetters(r, t, stop) \in Readings /\ Same(ReadLetters(r, t, stop), r)
<1> DEFINE k == stop - 2
           S == {q \in Readings : Same(q, r)}
           Go(q, i) == ReadLetter(q, t[i + 1])
           Result(q, i) == CHOOSE x \in {Go(last, i) : last \in {q}} : TRUE
           IsAcc(g) == g = [i \in 0 .. k |-> IF i = 0 THEN r ELSE Result(g[i - 1], i)]
<1>1. r \in S /\ k \in Int /\ 0 <= k
  BY DEF Same, Text
<1>2. \A q \in S : \A i : Go(q, i) \in S
  <2> SUFFICES ASSUME NEW q \in S, NEW i PROVE Go(q, i) \in S
    OBVIOUS
  <2>1. ReadLetter(q, t[i + 1]) \in Readings /\ Same(ReadLetter(q, t[i + 1]), q)
    BY LetterRead
  <2> QED BY <2>1 DEF Same
<1>3. \A q, i : Result(q, i) = Go(q, i)
  <2> TAKE q, i
  <2> HIDE DEF Go
  <2>1. {Go(last, i) : last \in {q}} = {Go(q, i)}
    OBVIOUS
  <2> QED BY <2>1, Bound
<1>4. \E g : IsAcc(g)
  <2> DEFINE step == [p \in S \X (1 .. k) |-> Go(p[1], p[2])]
  <2> HIDE DEF Result, Go, S, k
  <2>1. step \in [S \X (0 + 1 .. k) -> S]
    BY <1>2
  <2>2. \A q \in S : \A i \in 1 .. k : step[<<q, i>>] = Go(q, i)
    OBVIOUS
  <2> HIDE DEF step
  <2>3. PICK g \in [0 .. k -> S] : Unfolds(g, 0, k, r, step)
    <3>1. 0 \in Int
      OBVIOUS
    <3> QED BY <1>1, <2>1, <3>1, Recursion, Zenon
  <2>4. \A i \in 1 .. k : g[i] = step[<<g[i - 1], i>>] /\ g[i - 1] \in S
    BY <1>1, <2>3 DEF Unfolds
  <2>5. \A i \in 1 .. k : g[i] = Go(g[i - 1], i)
    BY <2>2, <2>4
  <2>6. g = [i \in 0 .. k |-> IF i = 0 THEN r ELSE Go(g[i - 1], i)]
    BY <1>1, <2>3, <2>5 DEF Unfolds
  <2> QED BY <1>3, <2>6
<1>5. PICK acc : IsAcc(acc) /\ ReadLetters(r, t, stop) = acc[k]
  BY <1>4 DEF ReadLetters, Through
<1> DEFINE P == {i \in 0 .. k : acc[i] \in S}
<1> HIDE DEF Result, Go, S, k
<1>6. acc = [i \in 0 .. k |-> IF i = 0 THEN r ELSE Go(acc[i - 1], i)]
  BY <1>3, <1>5
<1>7. 0 .. k \subseteq P
  <2>1. 0 \in P
    BY <1>1, <1>6
  <2>2. \A i \in 0 + 1 .. k : i - 1 \in P => i \in P
    BY <1>1, <1>2, <1>6
  <2> HIDE DEF P
  <2>3. 0 \in Int
    OBVIOUS
  <2> QED BY <1>1, <2>1, <2>2, <2>3, Upwards, Zenon
<1>8. acc[k] \in S
  BY <1>1, <1>7
<1> QED BY <1>5, <1>8 DEF S

LEMMA EqualsSign ==
  ASSUME NEW w \in Text
  PROVE  EqualsAt(w) \in 1 .. Len(w) + 1
<1> DEFINE T == {k \in 1 .. Len(w) + 1 : k <= Len(w) => w[k] = "="}
<1>1. Len(w) \in Nat
  BY LenProperties DEF Text
<1>2. PICK k \in T : \A i \in T : k <= i
  <2>1. T \subseteq Nat /\ Len(w) + 1 \in T
    BY <1>1
  <2> HIDE DEF T
  <2> QED BY <2>1, Least
<1>3. k \in 1 .. Len(w) + 1 /\ (k <= Len(w) => w[k] = "=")
      /\ \A i \in 1 .. k - 1 : w[i] # "="
  BY <1>1, <1>2
<1> QED BY <1>3 DEF EqualsAt

LEMMA TextParts ==
  ASSUME NEW t \in Text, NEW i \in Nat
  PROVE  After(t, i) \in Text
<1>1. Len(t) \in Nat /\ \A j \in 1 .. Len(t) : t[j] \in STRING
  BY LenProperties, ElementOfSeq DEF Text
<1>2. SubSeq(t, i + 1, Len(t)) \in Text
  BY <1>1, SubSeqProperties DEF Text
<1> QED BY <1>2 DEF After

(* After a long option without "=" and with a value, the value comes next. *)
TakesNext(w) ==
  ~ HasValue(w) /\ \E e \in Entries \ Flags : Candidates(Upto(w, EqualsAt(w))) = {e}
ModeAfter(q, r, next) == IF next THEN q.mode \in Entries ELSE q.mode = r.mode

LEMMA LongRead ==
  ASSUME NEW r \in Readings, NEW w \in Text
  PROVE  /\ ReadLong(r, w) \in Readings /\ ReadLong(r, w).operands = r.operands
         /\ ModeAfter(ReadLong(r, w), r, TakesNext(w))
<1> DEFINE found == Candidates(Upto(w, EqualsAt(w)))
           e == CHOOSE e \in found : TRUE
           q == ReadLong(r, w)
<1> SUFFICES q \in Readings /\ q.operands = r.operands /\ ModeAfter(q, r, TakesNext(w))
  OBVIOUS
<1>1. found \subseteq Entries /\ IsFiniteSet(found)
  <2>1. found \subseteq Entries
    BY DEF Candidates
  <2> HIDE DEF found
  <2> QED BY <2>1, EntriesAre, FS_Subset
<1>2. q = IF Cardinality(found) # 1 \/ (e \in Flags /\ HasValue(w))
          THEN [r EXCEPT !.bad = TRUE]
          ELSE IF e \in Flags THEN Add(r, Given(e, <<>>, TRUE))
          ELSE IF HasValue(w) THEN Add(r, Given(e, After(w, EqualsAt(w)), TRUE))
          ELSE [r EXCEPT !.mode = e, !.long = TRUE]
  BY DEF ReadLong
<1>3. TakesNext(w) <=> ~ HasValue(w) /\ \E x \in Entries \ Flags : found = {x}
  BY DEF TakesNext
<1>4. \A x : found = {x} => e = x
  OBVIOUS
<1>5. [r EXCEPT !.bad = TRUE] \in Readings /\ Same([r EXCEPT !.bad = TRUE], r)
  BY DEF Readings, Same
<1> HIDE DEF found, q, e
<1>6. CASE Cardinality(found) # 1
  <2>1. \A x : found # {x}
    BY <1>6, FS_Singleton
  <2> QED BY <1>2, <1>3, <1>5, <1>6, <2>1 DEF Same, ModeAfter
<1>7. CASE Cardinality(found) = 1
  <2>1. PICK x : found = {x}
    BY <1>1, <1>7, FS_Singleton
  <2>2. e \in Entries /\ found = {e}
    BY <1>1, <1>4, <2>1
  <2>3. <<>> \in Text /\ TRUE \in BOOLEAN /\ After(w, EqualsAt(w)) \in Text
    <3>1. EqualsAt(w) \in Nat
      BY EqualsSign, LenProperties DEF Text
    <3> QED BY <3>1, TextParts DEF Text
  <2>4. \A v \in Text : /\ Add(r, Given(e, v, TRUE)) \in Readings
                        /\ Same(Add(r, Given(e, v, TRUE)), r)
    BY <2>2, Added
  <2>5. CASE e \in Flags /\ HasValue(w)
    BY <1>2, <1>3, <1>5, <2>5 DEF Same, ModeAfter
  <2>6. CASE e \in Flags /\ ~ HasValue(w)
    <3>1. q = Add(r, Given(e, <<>>, TRUE))
      BY <1>2, <1>7, <2>6
    <3>2. ~ TakesNext(w)
      BY <1>3, <1>4, <2>6
    <3>3. q \in Readings /\ Same(q, r)
      BY <2>3, <2>4, <3>1
    <3> QED BY <3>2, <3>3 DEF ModeAfter, Same
  <2>7. CASE e \notin Flags /\ HasValue(w)
    <3>1. q = Add(r, Given(e, After(w, EqualsAt(w)), TRUE))
      BY <1>2, <1>7, <2>7
    <3>2. q \in Readings /\ Same(q, r)
      BY <2>3, <2>4, <3>1
    <3> QED BY <1>3, <2>7, <3>2 DEF ModeAfter, Same
  <2>8. CASE e \notin Flags /\ ~ HasValue(w)
    <3>1. q = [r EXCEPT !.mode = e, !.long = TRUE]
      BY <1>2, <1>7, <2>8
    <3>2. q \in Readings /\ q.operands = r.operands /\ q.mode = e
      BY <2>2, <3>1 DEF Readings
    <3>3. TakesNext(w)
      BY <1>3, <2>2, <2>8
    <3> QED BY <2>2, <3>2, <3>3 DEF ModeAfter
  <2> QED BY <2>5, <2>6, <2>7, <2>8
<1> QED BY <1>1, <1>6, <1>7

(* What a token with options in it does, by the letter that decides.       *)
TokenTakesNext(t, stop) ==
  /\ stop <= Len(t)
  /\ IF t[stop] = "-" THEN stop < Len(t) /\ TakesNext(After(t, stop)) ELSE stop = Len(t)

LEMMA DecidingRead ==
  ASSUME NEW r \in Readings, NEW t \in Text, NEW stop \in 2 .. Len(t) + 1,
         stop <= Len(t) => Decides(t[stop])
  PROVE  /\ ReadDeciding(r, t, stop) \in Readings
         /\ ReadDeciding(r, t, stop).operands = r.operands
         /\ ModeAfter(ReadDeciding(r, t, stop), r, TokenTakesNext(t, stop))
<1> DEFINE q == ReadDeciding(r, t, stop)
<1> SUFFICES /\ q \in Readings /\ q.operands = r.operands
             /\ ModeAfter(q, r, TokenTakesNext(t, stop))
  OBVIOUS
<1>1. Len(t) \in Nat /\ stop \in Nat
  BY LenProperties DEF Text
<1>2. After(t, stop) \in Text
  BY <1>1, TextParts
<1>3. q = IF stop > Len(t) THEN r
          ELSE IF t[stop] = "-" /\ stop = Len(t) THEN [r EXCEPT !.endless = TRUE]
          ELSE IF t[stop] = "-" THEN ReadLong(r, After(t, stop))
          ELSE IF stop < Len(t)
          THEN Add(r, Given(Letters[t[stop]], After(t, stop), FALSE))
          ELSE [r EXCEPT !.mode = Letters[t[stop]], !.long = FALSE]
  BY DEF ReadDeciding
<1> HIDE DEF q
<1>4. CASE stop > Len(t)
  BY <1>1, <1>3, <1>4 DEF ModeAfter, TokenTakesNext
<1>5. CASE stop = Len(t) /\ t[stop] = "-"
  <2>1. q = [r EXCEPT !.endless = TRUE]
    BY <1>1, <1>3, <1>5
  <2>2. q \in Readings /\ Same(q, r)
    BY <2>1 DEF Readings, Same
  <2> QED BY <1>1, <1>5, <2>2 DEF Same, ModeAfter, TokenTakesNext
<1>6. CASE stop < Len(t) /\ t[stop] = "-"
  <2>1. q = ReadLong(r, After(t, stop))
    BY <1>1, <1>3, <1>6
  <2>2. TokenTakesNext(t, stop) <=> TakesNext(After(t, stop))
    BY <1>1, <1>6 DEF TokenTakesNext
  <2>3. q \in Readings /\ q.operands = r.operands /\ ModeAfter(q, r, TakesNext(After(t, stop)))
    BY <1>2, <2>1, LongRead
  <2> QED BY <2>2, <2>3 DEF ModeAfter
<1>7. CASE stop <= Len(t) /\ t[stop] # "-"
  <2> DEFINE e == Letters[t[stop]]
  <2>1. e \in Entries
    BY <1>7, LettersAre DEF Decides
  <2> HIDE DEF e
  <2>2. CASE stop < Len(t)
    <3>1. q = Add(r, Given(e, After(t, stop), FALSE))
      <4>1. ~ stop > Len(t)
        BY <1>1, <2>2
      <4> QED BY <1>3, <1>7, <2>2, <4>1, Zenon DEF e
    <3>2. q \in Readings /\ Same(q, r)
      BY <1>2, <2>1, <3>1, Added
    <3> QED BY <1>1, <1>7, <2>2, <3>2 DEF Same, ModeAfter, TokenTakesNext
  <2>3. CASE stop = Len(t)
    <3>1. q = [r EXCEPT !.mode = e, !.long = FALSE]
      BY <1>1, <1>3, <1>7, <2>3 DEF e
    <3>2. q \in Readings /\ q.operands = r.operands /\ q.mode = e
      BY <2>1, <3>1 DEF Readings
    <3> QED BY <1>1, <1>7, <2>1, <2>3, <3>2 DEF ModeAfter, TokenTakesNext
  <2> QED BY <1>1, <1>7, <2>2, <2>3
<1> QED BY <1>1, <1>4, <1>5, <1>6, <1>7

LEMMA SomethingDecides ==
  ASSUME NEW t \in Text, Len(t) # 0
  PROVE  /\ Deciding(t) \in 2 .. Len(t) + 1
         /\ Deciding(t) <= Len(t) => Decides(t[Deciding(t)])
         /\ \A j \in 2 .. Deciding(t) - 1 : ~ Decides(t[j])
<1> DEFINE T == {i \in 2 .. Len(t) + 1 : i <= Len(t) => Decides(t[i])}
<1>1. Len(t) \in Nat
  BY LenProperties DEF Text
<1>2. PICK i \in T : \A j \in T : i <= j
  <2>1. T \subseteq Nat /\ Len(t) + 1 \in T
    BY <1>1
  <2> HIDE DEF T
  <2> QED BY <2>1, Least
<1>3. i \in 2 .. Len(t) + 1 /\ (i <= Len(t) => Decides(t[i]))
      /\ \A j \in 2 .. i - 1 : ~ Decides(t[j])
  BY <1>1, <1>2
<1> QED BY <1>3, Zenon DEF Deciding

LEMMA ItDecides ==
  ASSUME NEW t \in Text, NEW stop \in 2 .. Len(t) + 1,
         stop <= Len(t) => Decides(t[stop]), \A j \in 2 .. stop - 1 : ~ Decides(t[j])
  PROVE  Deciding(t) = stop
<1>1. Len(t) \in Nat /\ Len(t) # 0
  BY LenProperties DEF Text
<1> DEFINE d == Deciding(t)
<1>2. /\ d \in 2 .. Len(t) + 1 /\ (d <= Len(t) => Decides(t[d]))
      /\ \A j \in 2 .. d - 1 : ~ Decides(t[j])
  BY <1>1, SomethingDecides
<1> HIDE DEF d
<1>3. ~ d < stop /\ ~ stop < d
  BY <1>1, <1>2
<1>4. d = stop
  BY <1>1, <1>2, <1>3
<1> QED BY <1>4 DEF d

(* One token more.                                                         *)
TokenRead(q, r, t, i) ==
  /\ r.mode \in Entries => q.mode = "free" /\ q.operands = r.operands
  /\ r.mode = "rest" => q.mode = "rest" /\ q.operands = Append(r.operands, i)
  /\ r.mode = "free" /\ IsOperand(t) =>
       q.mode = "free" /\ q.operands = Append(r.operands, i)
  /\ r.mode = "free" /\ ~ IsOperand(t) =>
       /\ q.operands = r.operands
       /\ IF EndsOptions(t) THEN q.mode = "rest"
          ELSE ModeAfter(q, r, TokenTakesNext(t, Deciding(t)))

LEMMA ClusterRead ==
  ASSUME NEW r \in Readings, NEW t \in Text, ~ IsOperand(t)
  PROVE  /\ ReadCluster(r, t) \in Readings /\ ReadCluster(r, t).operands = r.operands
         /\ ModeAfter(ReadCluster(r, t), r, TokenTakesNext(t, Deciding(t)))
<1> DEFINE stop == Deciding(t)
           before == ReadLetters(r, t, stop)
           q == ReadDeciding(before, t, stop)
<1>1. Len(t) # 0
  BY DEF IsOperand
<1>2. stop \in 2 .. Len(t) + 1 /\ (stop <= Len(t) => Decides(t[stop]))
  BY <1>1, SomethingDecides
<1> HIDE DEF stop
<1>3. before \in Readings /\ Same(before, r)
  BY <1>2, LettersRead
<1> HIDE DEF before
<1>4. /\ q \in Readings /\ q.operands = before.operands
      /\ ModeAfter(q, before, TokenTakesNext(t, stop))
  BY <1>2, <1>3, DecidingRead
<1>5. ReadCluster(r, t) = q
  BY DEF ReadCluster, before, stop
<1> HIDE DEF q
<1>6. ModeAfter(q, r, TokenTakesNext(t, stop))
  BY <1>3, <1>4 DEF Same, ModeAfter
<1> QED BY <1>3, <1>4, <1>5, <1>6 DEF Same, stop

LEMMA ReadTokenReads ==
  ASSUME NEW r \in Readings, NEW t \in Text, NEW i \in Nat
  PROVE  /\ ReadToken(r, t, i) \in Readings
         /\ TokenRead(ReadToken(r, t, i), r, t, i)
<1> DEFINE q == ReadToken(r, t, i)
<1> SUFFICES q \in Readings /\ TokenRead(q, r, t, i)
  OBVIOUS
<1>1. q = CASE r.mode \in Entries ->
                 [Add(r, Given(r.mode, t, r.long)) EXCEPT !.mode = "free"]
            [] r.mode = "rest" \/ (r.mode = "free" /\ IsOperand(t)) ->
                 [r EXCEPT !.operands = Append(r.operands, i)]
            [] r.mode = "free" /\ EndsOptions(t) -> [r EXCEPT !.mode = "rest"]
            [] OTHER -> ReadCluster(r, t)
  BY DEF ReadToken
<1>2. r.mode \in Entries \cup {"free", "rest"} /\ r.long \in BOOLEAN
      /\ r.operands \in Seq(Nat)
  BY DEF Readings
<1>3. "free" \notin Entries /\ "rest" \notin Entries /\ "free" # "rest"
  BY EntriesAre
<1> HIDE DEF q
<1>4. CASE r.mode \in Entries
  <2> DEFINE a == Add(r, Given(r.mode, t, r.long))
  <2>1. a \in Readings /\ Same(a, r)
    BY <1>2, <1>4, Added
  <2>2. q = [a EXCEPT !.mode = "free"]
    BY <1>1, <1>3, <1>4
  <2> HIDE DEF a
  <2>3. q \in Readings /\ q.mode = "free" /\ q.operands = r.operands
    BY <2>1, <2>2 DEF Readings, Same
  <2> QED BY <1>3, <1>4, <2>3 DEF TokenRead
<1>5. CASE r.mode = "rest" \/ (r.mode = "free" /\ IsOperand(t))
  <2>1. q = [r EXCEPT !.operands = Append(r.operands, i)]
    <3>1. EndsOptions(t) => ~ IsOperand(t)
      BY DEF EndsOptions, IsOperand
    <3> QED BY <1>1, <1>3, <1>5, <3>1
  <2>2. Append(r.operands, i) \in Seq(Nat)
    BY <1>2, AppendProperties
  <2>3. q \in Readings /\ q.mode = r.mode /\ q.operands = Append(r.operands, i)
    BY <2>1, <2>2 DEF Readings
  <2> QED BY <1>3, <1>5, <2>3 DEF TokenRead
<1>6. CASE r.mode = "free" /\ ~ IsOperand(t) /\ EndsOptions(t)
  <2>1. q = [r EXCEPT !.mode = "rest"]
    BY <1>1, <1>3, <1>6
  <2>2. q \in Readings /\ q.mode = "rest" /\ q.operands = r.operands
    BY <2>1 DEF Readings
  <2> QED BY <1>3, <1>6, <2>2 DEF TokenRead
<1>7. CASE r.mode = "free" /\ ~ IsOperand(t) /\ ~ EndsOptions(t)
  <2>1. q = ReadCluster(r, t)
    BY <1>1, <1>3, <1>7
  <2>2. /\ q \in Readings /\ q.operands = r.operands
        /\ ModeAfter(q, r, TokenTakesNext(t, Deciding(t)))
    BY <1>7, <2>1, ClusterRead
  <2> QED BY <1>3, <1>7, <2>2 DEF TokenRead
<1> QED BY <1>2, <1>4, <1>5, <1>6, <1>7

(* The readings of all beginnings of the line.                             *)
Reads(acc, l) ==
  /\ acc \in [0 .. Len(l) -> Readings] /\ acc[0] = Unread /\ acc[Len(l)] = Read(l)
  /\ \A i \in 1 .. Len(l) : acc[i] = ReadToken(acc[i - 1], l[i], i)

LEMMA ReadingRuns ==
  ASSUME NEW l \in Seq(Text)
  PROVE  \E acc : Reads(acc, l)
<1> DEFINE n == Len(l)
           Go(r, i) == ReadToken(r, l[i], i)
           Result(r, i) == CHOOSE x \in {Go(last, i) : last \in {r}} : TRUE
           IsAcc(g) ==
             g = [i \in 0 .. n |-> IF i = 0 THEN Unread ELSE Result(g[i - 1], i)]
<1>1. n \in Int /\ 0 <= n /\ 0 \in Int
  BY LenProperties
<1>2. Unread \in Readings
  BY DEF Unread, Readings
<1>3. \A r \in Readings : \A i \in 1 .. n : Go(r, i) \in Readings
  <2> SUFFICES ASSUME NEW r \in Readings, NEW i \in 1 .. n PROVE Go(r, i) \in Readings
    OBVIOUS
  <2>1. l[i] \in Text /\ i \in Nat
    BY <1>1, ElementOfSeq
  <2> QED BY <2>1, ReadTokenReads
<1>4. \A r, i : Result(r, i) = Go(r, i)
  <2> TAKE r, i
  <2> HIDE DEF Go
  <2>1. {Go(last, i) : last \in {r}} = {Go(r, i)}
    OBVIOUS
  <2> QED BY <2>1, Bound
<1>5. \E g : IsAcc(g)
  <2> DEFINE step == [p \in Readings \X (1 .. n) |-> Go(p[1], p[2])]
  <2> HIDE DEF Result, Go, n
  <2>1. step \in [Readings \X (0 + 1 .. n) -> Readings]
    BY <1>3
  <2>2. \A r \in Readings : \A i \in 1 .. n : step[<<r, i>>] = Go(r, i)
    OBVIOUS
  <2> HIDE DEF step
  <2>3. PICK g \in [0 .. n -> Readings] : Unfolds(g, 0, n, Unread, step)
    BY <1>1, <1>2, <2>1, Recursion, Zenon
  <2>4. \A i \in 1 .. n : g[i] = step[<<g[i - 1], i>>] /\ g[i - 1] \in Readings
    BY <1>1, <2>3 DEF Unfolds
  <2>5. \A i \in 1 .. n : g[i] = Go(g[i - 1], i)
    BY <2>2, <2>4
  <2>6. g = [i \in 0 .. n |-> IF i = 0 THEN Unread ELSE Go(g[i - 1], i)]
    BY <1>1, <2>3, <2>5 DEF Unfolds
  <2> QED BY <1>4, <2>6
<1>6. PICK acc : IsAcc(acc) /\ Read(l) = acc[n]
  BY <1>5 DEF Read, Through
<1> DEFINE P == {i \in 0 .. n : acc[i] \in Readings}
<1> HIDE DEF Result, Go, n
<1>7. acc = [i \in 0 .. n |-> IF i = 0 THEN Unread ELSE Go(acc[i - 1], i)]
  BY <1>4, <1>6
<1>8. 0 .. n \subseteq P
  <2>1. 0 \in P
    BY <1>1, <1>2, <1>7
  <2>2. \A i \in 0 + 1 .. n : i - 1 \in P => i \in P
    BY <1>1, <1>3, <1>7
  <2> HIDE DEF P
  <2> QED BY <1>1, <2>1, <2>2, Upwards, Zenon
<1>9. /\ acc \in [0 .. n -> Readings] /\ acc[0] = Unread
      /\ \A i \in 1 .. n : acc[i] = Go(acc[i - 1], i)
  <2>1. \A i \in 0 .. n : acc[i] \in Readings
    BY <1>8
  <2> QED BY <1>1, <1>7, <2>1
<1> QED BY <1>6, <1>9 DEF Reads, Go, n

-----------------------------------------------------------------------------
(* While the parser scans, the tokens from optind on have not been moved,  *)
(* those before it are arranged around the window, and the reading is      *)
(* between two options or inside of one in which no letter decided so far. *)
First == IF start = 0 THEN optind ELSE start
Behind == IF end = 0 THEN optind ELSE end

InToken ==
  place # 0 =>
    /\ optind <= N /\ ~ IsOperand(Tok) /\ place > 2 /\ (start # 0 => end # 0)
    /\ \A i \in 2 .. place - 1 : ~ Decides(Tok[i])

OrderTagged(acc) ==
  /\ optind <= N => acc[optind - 1].mode = "free"
  /\ InToken
  /\ Arranged(argv, acc[optind - 1].operands, First, Behind, optind, N)

OrderDone(acc) ==
  Arranged(argv, acc[N].operands, N + 1 - Len(acc[N].operands), N + 1, N + 1, N)

OrderInv(acc) ==
  IF phase = "tagged" THEN OrderTagged(acc) ELSE OrderDone(acc)

(* Where the parser is, in an order that holds.                            *)
Scans(acc) ==
  /\ ArgvInv /\ ScanInv /\ Reads(acc, line) /\ OrderTagged(acc) /\ phase = "tagged"

LEMMA Here ==
  ASSUME NEW acc, Scans(acc), optind <= N
  PROVE  /\ N \in Nat /\ optind \in 1 .. N /\ Tok \in Text /\ Tok = line[optind]
         /\ acc[optind - 1] \in Readings /\ acc[optind - 1].mode = "free"
         /\ TokenRead(acc[optind], acc[optind - 1], Tok, optind)
<1>1. N \in Nat /\ N = Len(line) /\ line \in Seq(Text) /\ optind \in 1 .. N
  BY Tokens DEF Scans, ScanInv, ArgvInv, N, Text
<1>2. argv[optind] = optind /\ acc[optind - 1].mode = "free"
  BY <1>1 DEF Scans, OrderTagged, Arranged
<1>3. Tok = line[optind] /\ Tok \in Text
  BY <1>1, <1>2, ElementOfSeq DEF Tok, Token
<1>4. acc[optind - 1] \in Readings
      /\ acc[optind] = ReadToken(acc[optind - 1], line[optind], optind)
  <2>1. optind - 1 \in 0 .. Len(line) /\ optind \in 1 .. Len(line)
    BY <1>1
  <2> QED BY <2>1 DEF Scans, Reads
<1>5. TokenRead(acc[optind], acc[optind - 1], Tok, optind)
  <2>1. optind \in Nat
    BY <1>1
  <2> QED BY <1>3, <1>4, <2>1, ReadTokenReads
<1> QED BY <1>1, <1>2, <1>3, <1>4, <1>5

LEMMA There ==
  ASSUME NEW acc, Scans(acc), optind < N, acc[optind].mode \in Entries
  PROVE  acc[optind + 1].mode = "free" /\ acc[optind + 1].operands = acc[optind].operands
<1>1. N \in Nat /\ N = Len(line) /\ line \in Seq(Text) /\ optind \in 1 .. N
  BY Tokens DEF Scans, ScanInv, ArgvInv, N, Text
<1>2. optind + 1 \in 1 .. N /\ optind + 1 - 1 = optind /\ optind \in 0 .. N
  BY <1>1
<1>3. acc[optind] \in Readings
      /\ acc[optind + 1] = ReadToken(acc[optind], line[optind + 1], optind + 1)
  BY <1>1, <1>2 DEF Scans, Reads
<1>4. line[optind + 1] \in Text /\ optind + 1 \in Nat
  BY <1>1, <1>2, ElementOfSeq
<1>5. TokenRead(acc[optind + 1], acc[optind], line[optind + 1], optind + 1)
  BY <1>3, <1>4, ReadTokenReads
<1> QED BY <1>5 DEF TokenRead

(* Inside of an option: what its letter At says.                           *)
LEMMA Inside ==
  ASSUME NEW acc, Scans(acc), InOption
  PROVE  /\ At \in 2 .. Len(Tok) /\ Len(Tok) \in Nat /\ optind <= N /\ ~ IsOperand(Tok)
         /\ \A j \in 2 .. At - 1 : ~ Decides(Tok[j])
<1>1. optind <= N /\ (place = 0 => ~ IsOperand(Tok))
  BY DEF InOption, Scanning
<1>2. ~ IsOperand(Tok) /\ InToken
  BY <1>1 DEF Scans, OrderTagged, InToken
<1>3. Len(Tok) \in Nat /\ Len(Tok) > 1
  BY <1>1, <1>2, Here, LenProperties DEF Text, IsOperand
<1>4. At \in 2 .. Len(Tok)
  BY <1>1, <1>2, <1>3 DEF At, Scans, ScanInv, InToken
<1>5. \A j \in 2 .. At - 1 : ~ Decides(Tok[j])
  BY <1>2 DEF At, InToken
<1> QED BY <1>1, <1>2, <1>3, <1>4, <1>5

LEMMA LetterDecides ==
  ASSUME NEW acc, Scans(acc), InOption, Decides(Symbol),
         Symbol = "-" => At < Len(Tok)
  PROVE  /\ acc[optind].operands = acc[optind - 1].operands
         /\ IF TokenTakesNext(Tok, At) THEN acc[optind].mode \in Entries
            ELSE acc[optind].mode = "free"
<1>1. /\ At \in 2 .. Len(Tok) /\ Len(Tok) \in Nat /\ optind <= N /\ ~ IsOperand(Tok)
      /\ \A j \in 2 .. At - 1 : ~ Decides(Tok[j])
  BY Inside
<1>2. Tok \in Text /\ acc[optind - 1].mode = "free"
      /\ TokenRead(acc[optind], acc[optind - 1], Tok, optind)
  BY <1>1, Here
<1>3. Deciding(Tok) = At
  BY <1>1, <1>2, ItDecides DEF Symbol
<1>4. ~ EndsOptions(Tok)
  <2> SUFFICES ASSUME EndsOptions(Tok) PROVE FALSE
    OBVIOUS
  <2>1. At = Len(Tok) /\ Tok[At] = "-"
    BY <1>1 DEF EndsOptions
  <2>2. Symbol = "-"
    BY <2>1 DEF Symbol
  <2> QED BY <1>1, <2>1, <2>2
<1> QED BY <1>1, <1>2, <1>3, <1>4 DEF TokenRead, ModeAfter

LEMMA NothingDecides ==
  ASSUME NEW acc, Scans(acc), InOption, ~ Decides(Symbol), At = Len(Tok)
  PROVE  acc[optind].operands = acc[optind - 1].operands /\ acc[optind].mode = "free"
<1>1. /\ At \in 2 .. Len(Tok) /\ Len(Tok) \in Nat /\ optind <= N /\ ~ IsOperand(Tok)
      /\ \A j \in 2 .. At - 1 : ~ Decides(Tok[j])
  BY Inside
<1>2. Tok \in Text /\ acc[optind - 1].mode = "free"
      /\ TokenRead(acc[optind], acc[optind - 1], Tok, optind)
  BY <1>1, Here
<1>3. Deciding(Tok) = Len(Tok) + 1
  <2>1. \A j \in 2 .. Len(Tok) + 1 - 1 : ~ Decides(Tok[j])
    BY <1>1 DEF Symbol
  <2>2. Len(Tok) + 1 \in 2 .. Len(Tok) + 1 /\ ~ Len(Tok) + 1 <= Len(Tok)
    BY <1>1
  <2> QED BY <1>2, <2>1, <2>2, ItDecides
<1>4. ~ EndsOptions(Tok)
  BY <1>1 DEF EndsOptions, Symbol, Decides
<1>5. ~ TokenTakesNext(Tok, Len(Tok) + 1)
  BY <1>1 DEF TokenTakesNext
<1> QED BY <1>1, <1>2, <1>3, <1>4, <1>5 DEF TokenRead, ModeAfter

(* The moves within the options keep the order.                            *)
LEMMA WindowsAre ==
  ASSUME NEW acc, Scans(acc)
  PROVE  /\ N \in Nat /\ optind \in 1 .. N + 1 /\ First \in 1 .. optind
         /\ Behind \in First .. optind /\ (start = 0 => First = optind /\ end = 0)
         /\ (end # 0 => start # 0 /\ First = start /\ Behind = end)
BY Tokens DEF Scans, ScanInv, First, Behind

OptionRead(acc, next) ==
  /\ next \in optind + 1 .. optind + 2 /\ next <= N + 1
  /\ acc[next - 1].operands = acc[optind - 1].operands
  /\ next <= N => acc[next - 1].mode = "free"

LEMMA LeftInOrder ==
  ASSUME NEW acc, Scans(acc), InOption, NEW next, OptionRead(acc, next),
         Leave(next), line' = line
  PROVE  OrderTagged(acc)'
<1> USE DEF OptionRead
<1>1. /\ optind' = next /\ place' = 0 /\ end' = Close
      /\ argv' = argv /\ start' = start /\ N' = N
  BY DEF Leave, N
<1>2. optind <= N /\ InToken
  BY DEF InOption, Scanning, Scans, OrderTagged
<1>3. /\ N \in Nat /\ optind \in 1 .. N + 1 /\ First \in 1 .. optind
      /\ Behind \in First .. optind /\ (start = 0 => First = optind /\ end = 0)
  BY WindowsAre
<1> DEFINE ops == acc[optind - 1].operands
<1>4. argv \in Orders(N) /\ Arranged(argv, ops, First, Behind, optind, N)
  BY DEF Scans, ArgvInv, OrderTagged
<1> HIDE DEF ops
<1>5. Arranged(argv, ops, First, Behind, next, N)
  <2>1. Arranged(argv, ops, First, Behind, optind + 1, N)
    BY <1>2, <1>3, <1>4, OptionFollows
  <2>2. CASE next = optind + 1
    BY <2>1, <2>2
  <2>3. CASE next = optind + 2
    <3>1. optind + 1 \in 1 .. N /\ Behind <= optind + 1 /\ optind + 1 + 1 = next
      BY <1>3, <2>3
    <3>2. First \in Int /\ Behind \in Int
      BY <1>3
    <3>3. Arranged(argv, ops, First, Behind, optind + 1 + 1, N)
      BY <1>3, <1>4, <2>1, <3>1, <3>2, OptionFollows
    <3> QED BY <3>1, <3>3
  <2> QED BY <1>3, <2>2, <2>3
<1>6. Arranged(argv, ops, First', Behind', next, N)
  <2>1. CASE start = 0
    <3>1. First' = next /\ Behind' = next /\ First = optind /\ Behind = optind
      BY <1>1, <1>3, <2>1 DEF First, Behind, Close
    <3>2. next \in Int /\ optind \in Int
      BY <1>3
    <3> QED BY <1>3, <1>4, <1>5, <3>1, <3>2, WindowEmpty
  <2>2. CASE start # 0
    <3>1. First' = start /\ First = start
      BY <1>1, <2>2 DEF First
    <3>2. end' = Behind
      BY <1>1, <1>2, <2>2 DEF Behind, Close, InToken
    <3>3. Behind' = Behind
      <4>1. Behind # 0
        BY <1>3
      <4> QED BY <3>2, <4>1 DEF Behind
    <3> QED BY <1>5, <3>1, <3>3
  <2> QED BY <2>1, <2>2
<1>7. InToken'
  BY <1>1 DEF InToken
<1> QED BY <1>1, <1>6, <1>7 DEF OrderTagged, ops

LEMMA AgainInOrder ==
  ASSUME NEW acc, Scans(acc), InOption, Leave(optind), place # 0, line' = line
  PROVE  OrderTagged(acc)'
<1>1. /\ optind' = optind /\ place' = 0 /\ end' = end
      /\ argv' = argv /\ start' = start /\ N' = N
  BY DEF Leave, Close, N
<1>2. First' = First /\ Behind' = Behind /\ InToken'
  BY <1>1 DEF First, Behind, InToken
<1> QED BY <1>1, <1>2 DEF Scans, OrderTagged

LEMMA AdvancedInOrder ==
  ASSUME NEW acc, Scans(acc), InOption, Advance, ~ Decides(Symbol), line' = line
  PROVE  OrderTagged(acc)'
<1>1. /\ At \in 2 .. Len(Tok) /\ Len(Tok) \in Nat /\ optind <= N /\ ~ IsOperand(Tok)
      /\ \A j \in 2 .. At - 1 : ~ Decides(Tok[j])
  BY Inside
<1>2. N \in Nat /\ optind \in 1 .. N
  BY <1>1, Here
<1>3. CASE At = Len(Tok)
  <2>1. Leave(optind + 1)
    BY <1>3 DEF Advance
  <2>2. acc[optind].operands = acc[optind - 1].operands /\ acc[optind].mode = "free"
    BY <1>3, NothingDecides
  <2>3. /\ optind + 1 \in optind + 1 .. optind + 2 /\ optind + 1 <= N + 1
        /\ optind + 1 - 1 = optind
    BY <1>2
  <2>4. OptionRead(acc, optind + 1)
    BY <1>2, <2>2, <2>3 DEF OptionRead
  <2> QED BY <2>1, <2>4, LeftInOrder
<1>4. CASE At # Len(Tok)
  <2>1. /\ place' = At + 1 /\ end' = Close
        /\ UNCHANGED <<argv, optind, start, phase>>
    BY <1>4 DEF Advance
  <2>2. N' = N /\ Tok' = Tok /\ InToken
    BY <2>1 DEF N, Tok, Token, Scans, OrderTagged
  <2>3. First' = First /\ Behind' = Behind /\ (start # 0 => end' # 0)
    <3>1. First' = First
      BY <2>1 DEF First
    <3>2. CASE start = 0
      <4>1. end = 0 /\ end' = 0
        BY <2>1, <3>2, WindowsAre DEF Close
      <4> QED BY <2>1, <3>1, <3>2, <4>1 DEF Behind
    <3>3. CASE start # 0
      <4>1. end' = Behind
        BY <2>1, <2>2, <3>3 DEF Behind, Close, InToken
      <4>2. Behind \in 1 .. optind
        BY <1>2, WindowsAre
      <4>3. Behind # 0
        BY <1>2, <4>2
      <4> QED BY <3>1, <4>1, <4>3 DEF Behind
    <3> QED BY <3>2, <3>3
  <2>4. \A j \in 2 .. place' - 1 : ~ Decides(Tok[j])
    <3> TAKE j \in 2 .. place' - 1
    <3>1. j \in 2 .. At - 1 \/ j = At
      BY <1>1, <2>1
    <3> QED BY <1>1, <3>1 DEF Symbol
  <2>5. place' > 2
    BY <1>1, <2>1
  <2>6. InToken'
    BY <1>1, <2>1, <2>2, <2>3, <2>4, <2>5 DEF InToken
  <2> QED BY <2>1, <2>2, <2>3, <2>6 DEF Scans, OrderTagged
<1> QED BY <1>3, <1>4

(* The actions for one option.                                             *)
LEMMA LongInOrder ==
  ASSUME NEW acc, Scans(acc), line' = line, LongUnknown \/ LongFlag \/ LongValue
  PROVE  OrderTagged(acc)'
<1>1. InOption /\ Symbol = "-" /\ At < Len(Tok)
  BY DEF LongUnknown, LongFlag, LongValue, Long
<1>2. Decides(Symbol)
  BY <1>1 DEF Decides
<1>3. /\ acc[optind].operands = acc[optind - 1].operands
      /\ IF TokenTakesNext(Tok, At) THEN acc[optind].mode \in Entries
         ELSE acc[optind].mode = "free"
  BY <1>1, <1>2, LetterDecides
<1>4. optind <= N /\ At \in 2 .. Len(Tok) /\ Len(Tok) \in Nat
  BY <1>1, Inside
<1>5. N \in Nat /\ optind \in 1 .. N
  BY <1>4, Here
<1>6. TokenTakesNext(Tok, At) <=> TakesNext(Word)
  BY <1>1, <1>4 DEF TokenTakesNext, Symbol, Word
<1>7. TakesNext(Word) <=> ~ HasValue(Word) /\ \E e \in Entries \ Flags : Found = {e}
  BY DEF TakesNext, Found
<1>8. CASE Leave(optind + 1) /\ (~ TakesNext(Word) \/ optind = N)
  <2>1. /\ optind + 1 \in optind + 1 .. optind + 2 /\ optind + 1 <= N + 1
        /\ optind + 1 - 1 = optind
    BY <1>5
  <2>2. optind + 1 <= N => acc[optind].mode = "free"
    BY <1>3, <1>5, <1>6, <1>8
  <2>3. OptionRead(acc, optind + 1)
    BY <1>3, <1>5, <2>1, <2>2 DEF OptionRead
  <2> QED BY <1>1, <1>8, <2>3, LeftInOrder
<1>9. CASE Leave(optind + 2) /\ TakesNext(Word) /\ optind < N
  <2>1. /\ acc[optind + 1].mode = "free"
        /\ acc[optind + 1].operands = acc[optind - 1].operands
    BY <1>3, <1>6, <1>9, There
  <2>2. /\ optind + 2 \in optind + 1 .. optind + 2 /\ optind + 2 <= N + 1
        /\ optind + 2 - 1 = optind + 1
    BY <1>5, <1>9
  <2>3. OptionRead(acc, optind + 2)
    BY <1>5, <2>1, <2>2 DEF OptionRead
  <2> QED BY <1>1, <1>9, <2>3, LeftInOrder
<1>10. \A e : Found = {e} => Cardinality(Found) = 1
  BY FS_Singleton
<1>11. CASE LongUnknown
  <2>1. Leave(optind + 1) /\ ~ TakesNext(Word)
    BY <1>7, <1>10, <1>11 DEF LongUnknown
  <2> QED BY <1>8, <2>1
<1>12. CASE LongFlag
  <2>1. Leave(optind + 1) /\ ~ TakesNext(Word)
    BY <1>7, <1>12 DEF LongFlag
  <2> QED BY <1>8, <2>1
<1>13. CASE LongValue
  <2>1. PICK e \in Entries \ Flags :
          /\ Found = {e}
          /\ \/ HasValue(Word) /\ Leave(optind + 1)
             \/ ~ HasValue(Word) /\ optind < N /\ Leave(optind + 2)
             \/ ~ HasValue(Word) /\ optind = N /\ Leave(optind + 1)
    BY <1>13 DEF LongValue
  <2> QED BY <1>7, <1>8, <1>9, <2>1
<1> QED BY <1>11, <1>12, <1>13

LEMMA ShortInOrder ==
  ASSUME NEW acc, Scans(acc), line' = line, ShortUnknown \/ ShortFlag \/ ShortValue
  PROVE  OrderTagged(acc)'
<1>1. InOption /\ Symbol # "-"
  BY DEF ShortUnknown, ShortFlag, ShortValue, Short
<1>2. CASE ShortUnknown
  <2>1. ~ Decides(Symbol) /\ Advance
    BY <1>1, <1>2 DEF ShortUnknown, Decides
  <2> QED BY <1>1, <2>1, AdvancedInOrder
<1>3. CASE ShortFlag
  <2>1. ~ Decides(Symbol) /\ Advance
    BY <1>1, <1>3, LettersAre DEF ShortFlag, Decides
  <2> QED BY <1>1, <2>1, AdvancedInOrder
<1>4. CASE ShortValue
  <2>1. Decides(Symbol)
    BY <1>4, LettersAre DEF ShortValue, Decides
  <2>2. /\ acc[optind].operands = acc[optind - 1].operands
        /\ IF TokenTakesNext(Tok, At) THEN acc[optind].mode \in Entries
           ELSE acc[optind].mode = "free"
    BY <1>1, <2>1, LetterDecides
  <2>3. optind <= N /\ At \in 2 .. Len(Tok) /\ Len(Tok) \in Nat
    BY <1>1, Inside
  <2>4. N \in Nat /\ optind \in 1 .. N
    BY <2>3, Here
  <2>5. TokenTakesNext(Tok, At) <=> At = Len(Tok)
    BY <1>1, <2>3 DEF TokenTakesNext, Symbol
  <2>6. \/ At < Len(Tok) /\ Leave(optind + 1)
        \/ At = Len(Tok) /\ optind < N /\ Leave(optind + 2)
        \/ At = Len(Tok) /\ optind = N /\ Leave(optind + 1)
    BY <1>4 DEF ShortValue
  <2>7. CASE Leave(optind + 1) /\ (At < Len(Tok) \/ optind = N)
    <3>1. /\ optind + 1 \in optind + 1 .. optind + 2 /\ optind + 1 <= N + 1
          /\ optind + 1 - 1 = optind
      BY <2>4
    <3>2. optind + 1 <= N => acc[optind].mode = "free"
      BY <2>2, <2>3, <2>4, <2>5, <2>7
    <3>3. OptionRead(acc, optind + 1)
      BY <2>2, <2>4, <3>1, <3>2 DEF OptionRead
    <3> QED BY <1>1, <2>7, <3>3, LeftInOrder
  <2>8. CASE Leave(optind + 2) /\ At = Len(Tok) /\ optind < N
    <3>1. /\ acc[optind + 1].mode = "free"
          /\ acc[optind + 1].operands = acc[optind - 1].operands
      BY <2>2, <2>5, <2>8, There
    <3>2. /\ optind + 2 \in optind + 1 .. optind + 2 /\ optind + 2 <= N + 1
          /\ optind + 2 - 1 = optind + 1
      BY <2>4, <2>8
    <3>3. OptionRead(acc, optind + 2)
      BY <2>4, <3>1, <3>2 DEF OptionRead
    <3> QED BY <1>1, <2>8, <3>3, LeftInOrder
  <2> QED BY <2>6, <2>7, <2>8
<1> QED BY <1>2, <1>3, <1>4

(* The steps that move operands.                                           *)
LEMMA SkippedInOrder ==
  ASSUME NEW acc, Scans(acc), SkipOperand, line' = line
  PROVE  OrderTagged(acc)'
<1>1. /\ optind <= N /\ place = 0 /\ IsOperand(Tok)
      /\ argv' = IF end # 0 THEN permute_args(start, end, optind, argv) ELSE argv
      /\ start' = IF start = 0 THEN optind
                  ELSE IF end # 0 THEN optind - (end - start) ELSE start
      /\ end' = 0 /\ optind' = optind + 1 /\ place' = 0 /\ N' = N
  BY DEF SkipOperand, Scanning, N
<1>2. /\ N \in Nat /\ optind \in 1 .. N /\ acc[optind - 1] \in Readings
      /\ acc[optind - 1].mode = "free"
      /\ TokenRead(acc[optind], acc[optind - 1], Tok, optind)
  BY <1>1, Here
<1> DEFINE ops == acc[optind - 1].operands
<1>3. ops \in Seq(Nat) /\ acc[optind].mode = "free"
      /\ acc[optind].operands = Append(ops, optind)
  BY <1>1, <1>2 DEF TokenRead, Readings
<1>4. /\ argv \in Orders(N) /\ Arranged(argv, ops, First, Behind, optind, N)
      /\ First \in 1 .. optind /\ (start = 0 => First = optind /\ end = 0)
      /\ (end # 0 => 1 <= start /\ start < end /\ end < optind
                     /\ start \in Nat /\ end \in Nat /\ First = start /\ Behind = end)
      /\ (end = 0 => Behind = optind)
  BY <1>1, <1>2, WindowsAre DEF Scans, ArgvInv, ScanInv, OrderTagged, Behind
<1> HIDE DEF ops
<1>5. /\ argv' \in Orders(N) /\ start' \in 1 .. optind
      /\ Arranged(argv', ops, start', optind, optind, N)
  <2>1. CASE end = 0
    <3>1. argv' = argv /\ start' = First
      BY <1>1, <1>4, <2>1 DEF First
    <3> QED BY <1>4, <2>1, <3>1
  <2>2. CASE end # 0
    <3>1. /\ argv' = permute_args(start, end, optind, argv)
          /\ start' = optind - (end - start)
      BY <1>1, <1>4, <2>2
    <3>2. optind \in Nat /\ optind <= N + 1 /\ start' \in 1 .. optind
      BY <1>2, <1>4, <2>2, <3>1
    <3>3. permute_args(start, end, optind, argv) \in Orders(N)
      BY <1>2, <1>4, <2>2, <3>2, ArgsPermute
    <3>4. Arranged(permute_args(start, end, optind, argv), ops,
                   optind - (end - start), optind, optind, N)
      BY <1>2, <1>4, <2>2, <3>2, WindowMoved
    <3> QED BY <3>1, <3>2, <3>3, <3>4
  <2> QED BY <2>1, <2>2
<1>6. Arranged(argv', Append(ops, optind), start', optind + 1, optind + 1, N)
  BY <1>2, <1>3, <1>5, OperandFollows
<1>7. First' = start' /\ Behind' = optind + 1
  <2>1. start' # 0
    BY <1>2, <1>5
  <2> QED BY <1>1, <2>1 DEF First, Behind
<1>8. acc[optind' - 1] = acc[optind]
  <2>1. optind' - 1 = optind
    BY <1>1, <1>2
  <2> QED BY <2>1
<1>9. InToken'
  BY <1>1 DEF InToken
<1> QED BY <1>1, <1>3, <1>6, <1>7, <1>8, <1>9 DEF OrderTagged

(* The scan is over: everything from past on is an operand.                *)
LEMMA MovedBehind ==
  ASSUME NEW acc, Scans(acc), NEW e, NEW past \in 1 .. N + 1, NEW ops,
         Finish(e, past), line' = line,
         IF start = 0 THEN e = 0 ELSE e \in start + 1 .. past - 1 \/ (e = 0 /\ past = optind),
         Arranged(argv, ops, IF start = 0 THEN past ELSE start,
                  IF e = 0 THEN past ELSE e, past, N)
  PROVE  /\ argv' \in Orders(N) /\ optind' \in 1 .. past
         /\ Arranged(argv', ops, optind', past, past, N)
<1>1. /\ argv' = IF e # 0 THEN permute_args(start, e, past, argv) ELSE argv
      /\ optind' = IF e # 0 THEN past - (e - start)
                   ELSE IF start # 0 THEN start ELSE past
      /\ argv \in Orders(N) /\ N \in Nat /\ start \in Nat
  BY Tokens DEF Finish, Scans, ArgvInv, ScanInv
<1>2. CASE e = 0
  <2>1. start <= past
    BY <1>1, <1>2 DEF Scans, ScanInv
  <2> QED BY <1>1, <1>2, <2>1
<1>3. CASE e # 0
  <2>1. /\ start # 0 /\ e \in Nat /\ 1 <= start /\ start < e /\ e < past
        /\ past \in Nat /\ past <= N + 1
    BY <1>1, <1>3
  <2>2. Arranged(argv, ops, start, e, past, N)
    BY <1>3, <2>1
  <2>3. argv' = permute_args(start, e, past, argv)
    BY <1>1, <1>3
  <2>4. argv' \in Orders(N)
    BY <1>1, <2>1, <2>3, ArgsPermute
  <2>5. Arranged(argv', ops, past - (e - start), past, past, N)
    BY <1>1, <2>1, <2>2, <2>3, WindowMoved
  <2>6. optind' = past - (e - start) /\ optind' \in 1 .. past
    BY <1>1, <1>3, <2>1
  <2> QED BY <2>4, <2>5, <2>6
<1> QED BY <1>2, <1>3

LEMMA AllArranged ==
  ASSUME NEW k \in Nat, NEW a, NEW ops, NEW s \in 1 .. k + 1,
         Arranged(a, ops, s, k + 1, k + 1, k)
  PROVE  s = k + 1 - Len(ops) /\ Arranged(a, ops, k + 1 - Len(ops), k + 1, k + 1, k)
<1>1. Len(ops) = k + 1 - s
  BY DEF Arranged
<1>2. k + 1 - Len(ops) = s
  BY <1>1
<1> QED BY <1>2

LEMMA EndInOrder ==
  ASSUME NEW acc, Scans(acc), EndOfArgv, line' = line
  PROVE  OrderDone(acc)' /\ optind' = N + 1 - Len(acc[N].operands)
<1>1. optind = N + 1 /\ N \in Nat /\ N' = N /\ optind - 1 = N /\ Finish(end, optind)
  BY Tokens DEF EndOfArgv, Scans, ScanInv, N
<1> DEFINE ops == acc[N].operands
<1>2. Arranged(argv, ops, First, Behind, optind, N)
  BY <1>1 DEF Scans, OrderTagged
<1>3. IF start = 0 THEN end = 0
      ELSE end \in start + 1 .. optind - 1 \/ (end = 0 /\ optind = optind)
  BY <1>1 DEF Scans, ScanInv
<1> HIDE DEF ops
<1>4. PICK s \in 1 .. optind : /\ Arranged(argv', ops, s, optind, optind, N)
                               /\ s = optind'
  BY <1>1, <1>2, <1>3, MovedBehind DEF First, Behind
<1>5. s = N + 1 - Len(ops) /\ Arranged(argv', ops, N + 1 - Len(ops), N + 1, N + 1, N)
  BY <1>1, <1>4, AllArranged
<1> QED BY <1>1, <1>4, <1>5 DEF OrderDone, ops

LEMMA DashesInOrder ==
  ASSUME NEW acc, Scans(acc), DoubleDash, line' = line
  PROVE  OrderDone(acc)' /\ optind' = N + 1 - Len(acc[N].operands)
<1>1. optind <= N /\ place = 0 /\ EndsOptions(Tok) /\ Finish(Close, optind + 1) /\ N' = N
  BY DEF DoubleDash, Scanning, N
<1>2. /\ N \in Nat /\ optind \in 1 .. N /\ acc[optind - 1].mode = "free"
      /\ TokenRead(acc[optind], acc[optind - 1], Tok, optind)
  BY <1>1, Here
<1> DEFINE ops == acc[optind - 1].operands
           past == optind + 1
<1>3. acc[optind].mode = "rest" /\ acc[optind].operands = ops
  BY <1>1, <1>2 DEF TokenRead, EndsOptions, IsOperand
<1>4. /\ argv \in Orders(N) /\ Arranged(argv, ops, First, Behind, optind, N)
      /\ First \in 1 .. optind /\ Behind \in First .. optind
  BY WindowsAre DEF Scans, ArgvInv, OrderTagged
<1> HIDE DEF ops
<1>5. Arranged(argv, ops, First, Behind, past, N)
  BY <1>2, <1>4, OptionFollows
<1>6. /\ IF start = 0 THEN Close = 0
         ELSE Close \in start + 1 .. past - 1 \/ (Close = 0 /\ past = optind)
      /\ Arranged(argv, ops, IF start = 0 THEN past ELSE start,
                  IF Close = 0 THEN past ELSE Close, past, N)
  <2>1. CASE start = 0
    <3>1. Close = 0 /\ First = optind /\ Behind = optind
      BY <2>1, WindowsAre DEF Close, First, Behind
    <3>2. Arranged(argv, ops, past, past, past, N)
      BY <1>2, <1>4, <1>5, <3>1, WindowEmpty
    <3> QED BY <2>1, <3>1, <3>2
  <2>2. CASE start # 0
    <3>1. First = start /\ Close = Behind
      BY <1>1, <2>2 DEF Close, First, Behind
    <3>2. Close \in start + 1 .. past - 1
      BY <1>1, <1>2, <1>4, <2>2 DEF Close, Scans, ScanInv
    <3>3. Close # 0
      BY <1>2, <1>4, <3>1
    <3> QED BY <1>5, <2>2, <3>1, <3>2, <3>3
  <2> QED BY <2>1, <2>2
<1>7. past \in 1 .. N + 1
  BY <1>2
<1>8. PICK s \in 1 .. past : /\ argv' \in Orders(N) /\ s = optind'
                             /\ Arranged(argv', ops, s, past, past, N)
  BY <1>1, <1>6, <1>7, MovedBehind
<1> DEFINE P == {j \in optind .. N : /\ acc[j].mode = "rest"
                                     /\ Arranged(argv', acc[j].operands, s, j + 1, j + 1, N)}
<1>9. optind \in P
  BY <1>2, <1>3, <1>8
<1>10. ASSUME NEW j \in optind + 1 .. N, j - 1 \in P PROVE j \in P
  <2>1. j - 1 + 1 = j /\ j \in 1 .. N /\ j \in optind .. N /\ s <= j /\ j \in Nat
    BY <1>2
  <2>2. /\ acc[j - 1].mode = "rest"
        /\ Arranged(argv', acc[j - 1].operands, s, j, j, N)
    BY <1>10, <2>1
  <2>3. acc[j - 1] \in Readings /\ acc[j] = ReadToken(acc[j - 1], line[j], j)
        /\ line[j] \in Text
    <3>1. Len(line) = N /\ line \in Seq(Text)
      BY DEF N, Scans, ArgvInv, Text
    <3> QED BY <1>2, <2>1, <3>1, ElementOfSeq DEF Scans, Reads
  <2>4. TokenRead(acc[j], acc[j - 1], line[j], j)
    BY <2>1, <2>3, ReadTokenReads
  <2>5. acc[j].mode = "rest" /\ acc[j].operands = Append(acc[j - 1].operands, j)
        /\ acc[j - 1].operands \in Seq(Nat)
    BY <2>2, <2>3, <2>4 DEF TokenRead, Readings
  <2>6. Arranged(argv', acc[j].operands, s, j + 1, j + 1, N)
    BY <1>2, <1>8, <2>1, <2>2, <2>5, OperandFollows
  <2> QED BY <2>1, <2>5, <2>6
<1>11. N \in P
  <2> HIDE DEF P
  <2>1. optind .. N \subseteq P
    BY <1>2, <1>9, <1>10, Upwards
  <2> QED BY <1>2, <2>1
<1>12. /\ s = N + 1 - Len(acc[N].operands)
       /\ Arranged(argv', acc[N].operands, N + 1 - Len(acc[N].operands), N + 1, N + 1, N)
  <2>1. s \in 1 .. N + 1 /\ Arranged(argv', acc[N].operands, s, N + 1, N + 1, N)
    BY <1>2, <1>11
  <2> QED BY <1>2, <2>1, AllArranged
<1> QED BY <1>1, <1>8, <1>12 DEF OrderDone

(* The order holds in every phase.                                         *)
Ordered == \E acc : Reads(acc, line) /\ OrderInv(acc)

LEMMA InitOrdered == Init => Ordered
<1> SUFFICES ASSUME Init PROVE Ordered
  OBVIOUS
<1>1. ArgvInv
  BY InitGood DEF IInv
<1>2. N \in Nat /\ line \in Seq(Text)
  BY <1>1, Tokens DEF ArgvInv, Text
<1>3. PICK acc : Reads(acc, line)
  BY <1>2, ReadingRuns
<1>4. /\ optind = 1 /\ place = 0 /\ start = 0 /\ end = 0 /\ phase = "tagged"
      /\ argv = [i \in 1 .. N |-> i]
  BY DEF Init, N
<1>5. acc[optind - 1].mode = "free" /\ acc[optind - 1].operands = <<>>
  <2>1. optind - 1 = 0
    BY <1>4
  <2> QED BY <1>3, <2>1 DEF Reads, Unread
<1>6. Arranged(argv, <<>>, 1, 1, 1, N)
  BY <1>4 DEF Arranged
<1>7. First = 1 /\ Behind = 1
  BY <1>4 DEF First, Behind
<1>8. OrderTagged(acc)
  BY <1>4, <1>5, <1>6, <1>7 DEF OrderTagged, InToken
<1> QED BY <1>3, <1>4, <1>8 DEF Ordered, OrderInv

LEMMA NextInOrder ==
  ASSUME NEW acc, IInv, Reads(acc, line), OrderInv(acc), [Next]_vars
  PROVE  OrderInv(acc)'
<1>1. Reads(acc, line) /\ OrderInv(acc)
  OBVIOUS
<1>2. line' = line
  BY DEF Next, arg_parse_tagged, arg_parse_untagged, arg_parse_check, main, vars
<1>3. CASE arg_parse_tagged
  <2>1. phase = "tagged"
    BY <1>3 DEF arg_parse_tagged, EndOfArgv, DoubleDash, SkipOperand, LongUnknown,
       LongFlag, LongValue, Long, MalformedDash, ShortUnknown, ShortFlag, ShortValue,
       Short, InOption, Scanning
  <2>2. Scans(acc)
    BY <1>1, <2>1 DEF Scans, IInv, OrderInv
  <2>3. CASE EndOfArgv \/ DoubleDash
    <3>1. OrderDone(acc)'
      BY <1>2, <2>2, <2>3, EndInOrder, DashesInOrder
    <3>2. phase' = "untagged"
      BY <2>3 DEF EndOfArgv, DoubleDash, Finish
    <3> QED BY <3>1, <3>2 DEF OrderInv
  <2>4. CASE SkipOperand
    <3>1. OrderTagged(acc)' /\ phase' = phase
      BY <1>2, <2>2, <2>4, SkippedInOrder DEF SkipOperand
    <3> QED BY <2>1, <3>1 DEF OrderInv
  <2>5. CASE LongUnknown \/ LongFlag \/ LongValue
    <3>1. OrderTagged(acc)'
      BY <1>2, <2>2, <2>5, LongInOrder
    <3>2. phase' = phase
      BY <2>5 DEF LongUnknown, LongFlag, LongValue, Leave
    <3> QED BY <2>1, <3>1, <3>2 DEF OrderInv
  <2>6. CASE MalformedDash
    <3>1. InOption /\ Leave(optind) /\ place # 0
      BY <2>6 DEF MalformedDash
    <3>2. OrderTagged(acc)' /\ phase' = phase
      BY <1>2, <2>2, <3>1, AgainInOrder DEF Leave
    <3> QED BY <2>1, <3>2 DEF OrderInv
  <2>7. CASE ShortUnknown \/ ShortFlag \/ ShortValue
    <3>1. OrderTagged(acc)'
      BY <1>2, <2>2, <2>7, ShortInOrder
    <3>2. phase' = phase
      BY <2>7 DEF ShortUnknown, ShortFlag, ShortValue, Advance, Leave
    <3> QED BY <2>1, <3>1, <3>2 DEF OrderInv
  <2> QED BY <1>3, <2>3, <2>4, <2>5, <2>6, <2>7 DEF arg_parse_tagged
<1>4. CASE arg_parse_untagged \/ arg_parse_check \/ main
  <2>1. phase # "tagged" /\ phase' # "tagged" /\ argv' = argv /\ N' = N
    BY <1>2, <1>4 DEF arg_parse_untagged, arg_parse_check, main, scanning, N
  <2>2. OrderDone(acc)'
    BY <1>1, <2>1 DEF OrderInv, OrderDone
  <2> QED BY <2>1, <2>2 DEF OrderInv
<1>5. CASE UNCHANGED vars
  BY <1>1, <1>5 DEF vars, scanning, OrderInv, OrderDone, OrderTagged, InToken,
     First, Behind, N, Tok, Token
<1> QED BY <1>3, <1>4, <1>5 DEF Next

LEMMA NextOrdered == IInv /\ Ordered /\ [Next]_vars => Ordered'
<1> SUFFICES ASSUME IInv, Ordered, [Next]_vars PROVE Ordered'
  OBVIOUS
<1>1. PICK acc : Reads(acc, line) /\ OrderInv(acc)
  BY DEF Ordered
<1>2. line' = line
  BY DEF Next, arg_parse_tagged, arg_parse_untagged, arg_parse_check, main, vars
<1>3. OrderInv(acc)'
  BY <1>1, NextInOrder
<1> QED BY <1>1, <1>2, <1>3 DEF Ordered

(* However operands and options alternate on a line, and wherever a value  *)
(* or "--" makes a token an operand, getopt_internal() leaves argvcopy     *)
(* with the options first and the operands of the reading last, each in    *)
(* the order in which they were written: permute_args() exchanges two      *)
(* blocks and keeps the order within each.                                 *)
THEOREM OperandsAreLast == Spec => []OperandsLast
<1>1. IInv /\ Ordered => OperandsLast
  <2> SUFFICES ASSUME IInv, Ordered, phase # "tagged" PROVE OperandsLast
    BY DEF OperandsLast
  <2>1. PICK acc : Reads(acc, line) /\ OrderInv(acc)
    BY DEF Ordered
  <2> DEFINE ops == acc[N].operands
             k == N - Len(ops)
  <2>2. N \in Nat /\ acc[N] = Reading /\ acc[N] \in Readings
    <3>1. N \in Nat
      BY Tokens DEF IInv
    <3> QED BY <2>1, <3>1 DEF Reads, Reading, N
  <2>3. ops \in Seq(Nat) /\ Len(ops) \in Nat
    BY <2>2, LenProperties DEF Readings
  <2>4. Arranged(argv, ops, N + 1 - Len(ops), N + 1, N + 1, N)
    BY <2>1 DEF OrderInv, OrderDone
  <2> HIDE DEF ops
  <2>5. k \in Int /\ N - k = Len(ops) /\ k + 1 = N + 1 - Len(ops)
    BY <2>2, <2>3
  <2> HIDE DEF k
  <2>6. \A p \in k + 1 .. N : argv[p] = ops[p - k] /\ argv[p] \in Nat
    <3> TAKE p \in k + 1 .. N
    <3>1. p - (k + 1) + 1 = p - k /\ p - k \in 1 .. Len(ops)
      BY <2>2, <2>5
    <3>2. ops[p - k] \in Nat
      BY <2>3, <3>1, ElementOfSeq
    <3> QED BY <2>2, <2>4, <2>5, <3>1, <3>2 DEF Arranged
  <2>7. SubSeq(argv, k + 1, N) = ops
    <3> DEFINE tail == SubSeq(argv, k + 1, N)
    <3>1. k + 1 \in Int /\ N \in Int /\ \A p \in k + 1 .. N : argv[p] \in Nat
      BY <2>2, <2>5, <2>6
    <3>2. /\ tail \in Seq(Nat)
          /\ Len(tail) = IF k + 1 <= N THEN N - (k + 1) + 1 ELSE 0
          /\ \A i \in 1 .. N - (k + 1) + 1 : tail[i] = argv[k + 1 + i - 1]
      BY <3>1, SubSeqProperties
    <3> HIDE DEF tail
    <3>3. Len(tail) = Len(ops)
      BY <2>2, <2>3, <2>5, <3>2
    <3>4. \A i \in 1 .. Len(tail) : tail[i] = ops[i]
      <4> TAKE i \in 1 .. Len(tail)
      <4> DEFINE p == k + 1 + i - 1
      <4>1. i \in 1 .. N - (k + 1) + 1 /\ p \in k + 1 .. N /\ p - k = i
        BY <2>2, <2>3, <2>5, <3>3
      <4>2. tail[i] = argv[p]
        BY <3>2, <4>1
      <4> HIDE DEF p
      <4> QED BY <2>6, <4>1, <4>2
    <3> QED BY <2>3, <3>2, <3>3, <3>4, SeqEqual DEF tail
  <2>8. \A i, j \in 1 .. k : i < j => argv[i] < argv[j]
    BY <2>2, <2>4, <2>5 DEF Arranged
  <2> QED BY <2>2, <2>7, <2>8 DEF OperandsLast, ops, k
<1>2. Init => IInv /\ Ordered
  BY InitGood, InitOrdered
<1>3. IInv /\ Ordered /\ [Next]_vars => (IInv /\ Ordered)'
  BY NextGood, NextOrdered
<1> QED BY <1>1, <1>2, <1>3, PTL DEF Spec

-----------------------------------------------------------------------------
(* Numbers: the test for an overflow, which divides, is exact, and a       *)
(* number that passes it is not changed by the cast to int.                *)
LEMMA DividedLimit ==
  ASSUME NEW n \in Int, NEW m \in Nat, NEW s \in Nat \ {0}
  PROVE  n > m \div s <=> n * s > m
<1> DEFINE d == m \div s
<1>1. d \in Int /\ m = s * d + (m % s) /\ m % s \in 0 .. s - 1
  <2>1. m % s \in 0 .. s - 1 /\ m \div s \in Int
    OBVIOUS
  <2>2. m = s * (m \div s) + (m % s)
    BY Z3
  <2> QED BY <2>1, <2>2
<1> HIDE DEF d
<1>2. CASE n > d
  <2>1. (n - d - 1) * s >= 0 /\ (n - d - 1) * s = n * s - s * d - s
    BY <1>1, <1>2
  <2> QED BY <1>1, <1>2, <2>1 DEF d
<1>3. CASE n <= d
  <2>1. (d - n) * s >= 0 /\ (d - n) * s = s * d - n * s
    BY <1>1, <1>3
  <2>2. n * s \in Int /\ s * d \in Int
    BY <1>1
  <2>3. ~ n * s > m
    BY <1>1, <2>1, <2>2
  <2> QED BY <1>1, <1>3, <2>3 DEF d
<1> QED BY <1>1, <1>2, <1>3

LEMMA Scales == \A s \in DOMAIN Scale : Scale[s] \in Nat \ {0}
<1>1. \A a, b \in Nat \ {0} : a * b \in Nat \ {0}
  OBVIOUS
<1>2. Kilo \in Nat \ {0} /\ Kilo * Kilo \in Nat \ {0} /\ Kilo * Kilo * Kilo \in Nat \ {0}
  BY <1>1, CommandLineAssumption
<1> QED BY <1>2 DEF Scale

LEMMA CastIs ==
  ASSUME NEW x \in - (IntMax + 1) .. IntMax
  PROVE  AsInt(x) = x
<1>1. IntMax \in Nat
  BY CommandLineAssumption
<1> DEFINE y == x + IntMax + 1
           b == 2 * (IntMax + 1)
<1>2. y \in 0 .. b - 1 /\ b \in Nat \ {0} /\ 0 \in Int /\ y = b * 0 + y /\ y \in Int
  BY <1>1
<1>3. y - (IntMax + 1) = x
  BY <1>1
<1> HIDE DEF y, b
<1>4. y % b = y
  BY <1>2, Remainder
<1> QED BY <1>3, <1>4 DEF AsInt, y, b

Readable(v) ==
  /\ v \in DOMAIN Numerals /\ Numerals[v].suffix \in DOMAIN Scale
  /\ Meaning(v) \in - (IntMax + 1) .. IntMax

LEMMA NumberIsExact ==
  ASSUME NEW v
  PROVE  /\ NumberError(v) = "ok" <=> Readable(v)
         /\ Readable(v) => Scanned("uid", v) = Meaning(v)
<1>1. CASE v \notin DOMAIN Numerals \/ Numerals[v].suffix \notin DOMAIN Scale
  BY <1>1 DEF NumberError, Readable
<1>2. CASE v \in DOMAIN Numerals /\ Numerals[v].suffix \in DOMAIN Scale
  <2> DEFINE n == Numerals[v].value
             s == Scale[Numerals[v].suffix]
             x == n * s
  <2>1. n \in Int /\ s \in Nat \ {0} /\ IntMax \in Nat /\ x \in Int
    BY <1>2, Scales, CommandLineAssumption
  <2>2. Meaning(v) = x /\ Scanned("uid", v) = AsInt(x)
    BY DEF Meaning, Scanned
  <2>3. Overflows(Numerals[v]) <=> n > IntMax \div s \/ n < - ((IntMax + 1) \div s)
    BY DEF Overflows
  <2>4. n > IntMax \div s <=> x > IntMax
    BY <2>1, DividedLimit
  <2>5. n < - ((IntMax + 1) \div s) <=> x < - (IntMax + 1)
    <3>1. -n \in Int /\ IntMax + 1 \in Nat /\ (-n) * s = - x /\ (IntMax + 1) \div s \in Int
      BY <2>1
    <3>2. -n > (IntMax + 1) \div s <=> (-n) * s > IntMax + 1
      BY <2>1, <3>1, DividedLimit
    <3> QED BY <2>1, <3>1, <3>2
  <2>6. NumberError(v) = IF Overflows(Numerals[v]) THEN "OVERFLOW" ELSE "ok"
    BY <1>2 DEF NumberError
  <2> HIDE DEF n, s, x
  <2>7. NumberError(v) = "ok" <=> x \in - (IntMax + 1) .. IntMax
    BY <2>1, <2>3, <2>4, <2>5, <2>6
  <2>8. Readable(v) <=> x \in - (IntMax + 1) .. IntMax
    BY <1>2, <2>2 DEF Readable
  <2> QED BY <2>2, <2>7, <2>8, CastIs
<1> QED BY <1>1, <1>2

-----------------------------------------------------------------------------
(* What a reading has been given so far, and what the parser has stored of *)
(* it. An error is stored as soon as the reading is faulty; until then the *)
(* value of each option is the one that was written.                       *)
Valid(o) ==
  /\ o.long /\ o.entry \notin Flags => o.value # <<>>
  /\ o.entry = "uid" => Readable(o.value)

Fine(r) ==
  /\ ~ r.bad
  /\ \A i, j \in DOMAIN r.opts : r.opts[i].entry = r.opts[j].entry => i = j
  /\ \A i \in DOMAIN r.opts : Valid(r.opts[i])

Value(e, v) == IF e = "uid" THEN Meaning(v) ELSE v

Matches(r) ==
  \A e \in Entries :
    IF TextOf(r, e) = {} THEN got[e] = <<>>
    ELSE \E v : TextOf(r, e) = {v} /\ got[e] = <<Value(e, v)>>

Agrees(r, more) ==
  /\ errors = <<>> <=> Fine(r) /\ more
  /\ errors = <<>> => Matches(r)

(* How the readings of two beginnings differ.                              *)
Kept(q, r) == q.opts = r.opts /\ q.bad = r.bad
Gained(q, r, e, v, long) == q.opts = Append(r.opts, Given(e, v, long)) /\ q.bad = r.bad

LEMMA KeptTexts ==
  ASSUME NEW q, NEW r, Kept(q, r)
  PROVE  (Fine(q) <=> Fine(r)) /\ (Matches(q) <=> Matches(r))
<1>1. \A e : TextOf(q, e) = TextOf(r, e)
  BY DEF TextOf, Kept
<1> QED BY <1>1 DEF Fine, Matches, Kept

LEMMA GainedTexts ==
  ASSUME NEW q, NEW r \in Readings, NEW e, NEW v, NEW long, Gained(q, r, e, v, long)
  PROVE  /\ TextOf(q, e) = TextOf(r, e) \cup {v}
         /\ \A d : d # e => TextOf(q, d) = TextOf(r, d)
         /\ Fine(q) <=> Fine(r) /\ TextOf(r, e) = {} /\ Valid(Given(e, v, long))
<1> DEFINE o == Given(e, v, long)
           n == Len(r.opts)
<1>1. /\ r.opts \in Seq(Givens) /\ n \in Nat /\ DOMAIN r.opts = 1 .. n
  BY LenProperties DEF Readings
<1>2. DOMAIN q.opts = 1 .. n + 1 /\ q.opts[n + 1] = o
      /\ \A i \in 1 .. n : q.opts[i] = r.opts[i]
  BY <1>1 DEF Gained
<1>3. o.entry = e /\ o.value = v
  BY DEF Given
<1> HIDE DEF o, n
<1>4. \A d, x : x \in TextOf(r, d) <=> \E i \in 1 .. n : r.opts[i].entry = d /\ r.opts[i].value = x
  BY <1>1 DEF TextOf
<1>5. \A d, x : x \in TextOf(q, d) <=>
                  x \in TextOf(r, d) \/ (d = e /\ x = v)
  <2>1. \A d, x : x \in TextOf(q, d) <=>
                    \E i \in 1 .. n + 1 : q.opts[i].entry = d /\ q.opts[i].value = x
    BY <1>2 DEF TextOf
  <2>2. \A i : i \in 1 .. n + 1 <=> i \in 1 .. n \/ i = n + 1
    BY <1>1
  <2> QED BY <1>2, <1>3, <1>4, <2>1, <2>2
<1>6. Fine(q) <=> Fine(r) /\ TextOf(r, e) = {} /\ Valid(o)
  <2>1. TextOf(r, e) = {} <=> \A i \in 1 .. n : r.opts[i].entry # e
    <3>1. \A x : x \in TextOf(r, e) <=>
                \E i \in 1 .. n : r.opts[i].entry = e /\ r.opts[i].value = x
      BY <1>4
    <3>2. CASE TextOf(r, e) = {}
      BY <3>1, <3>2
    <3>3. ASSUME NEW x, x \in TextOf(r, e)
          PROVE  ~ \A i \in 1 .. n : r.opts[i].entry # e
      BY <3>1, <3>3
    <3> QED BY <3>2, <3>3
  <2>2. \A i : i \in 1 .. n + 1 <=> i \in 1 .. n \/ i = n + 1
    BY <1>1
  <2>3. n + 1 \notin 1 .. n
    BY <1>1
  <2>4. q.bad = r.bad
    BY DEF Gained
  <2>5. (\A i \in 1 .. n + 1 : Valid(q.opts[i])) <=> (\A i \in 1 .. n : Valid(r.opts[i])) /\ Valid(o)
    BY <1>2, <2>2
  <2>6. (\A i, j \in 1 .. n + 1 : q.opts[i].entry = q.opts[j].entry => i = j)
        <=> (\A i, j \in 1 .. n : r.opts[i].entry = r.opts[j].entry => i = j)
            /\ \A i \in 1 .. n : r.opts[i].entry # e
    BY <1>2, <1>3, <2>2, <2>3
  <2> QED BY <1>1, <1>2, <2>1, <2>4, <2>5, <2>6 DEF Fine
<1>7. TextOf(q, e) = TextOf(r, e) \cup {v}
  BY <1>5
<1>8. ASSUME NEW d, d # e PROVE TextOf(q, d) = TextOf(r, d)
  BY <1>5, <1>8
<1> QED BY <1>6, <1>7, <1>8 DEF o

LEMMA TakeAgrees ==
  ASSUME NEW r \in Readings, NEW q, NEW e \in Entries, NEW v, NEW long, NEW errs,
         ResultInv, Agrees(r, TRUE), Gained(q, r, e, v, long), Take(e, v, errs),
         errs = IF long /\ e \notin Flags THEN MissingIfEmpty(v) ELSE errors
  PROVE  Agrees(q, TRUE)'
<1> DEFINE o == Given(e, v, long)
<1>1. o.entry = e /\ o.value = v /\ o.long = long
  BY DEF Given
<1>2. /\ TextOf(q, e) = TextOf(r, e) \cup {v}
      /\ \A d : d # e => TextOf(q, d) = TextOf(r, d)
      /\ Fine(q) <=> Fine(r) /\ TextOf(r, e) = {} /\ Valid(o)
  BY GainedTexts
<1> HIDE DEF o
<1>3. Stored(errors) /\ Stored(errs) /\ DOMAIN got = Entries
  BY RegisterStores DEF ResultInv, MissingIfEmpty
<1>4. errs = <<>> <=> errors = <<>> /\ (long /\ e \notin Flags => v # <<>>)
  BY <1>3, ErrorStays DEF MissingIfEmpty
<1>5. \/ /\ ScanError(e, v) = "ok" /\ errors' = errs
         /\ got' = [got EXCEPT ![e] = <<Scanned(e, v)>>]
      \/ ScanError(e, v) # "ok" /\ errors' # <<>>
  BY <1>3, ErrorStays DEF Take
<1>6. ScanError(e, v) = "ok" <=> got[e] = <<>> /\ (e = "uid" => Readable(v))
  BY NumberIsExact DEF ScanError
<1>7. Valid(o) <=> /\ long /\ e \notin Flags => v # <<>>
                   /\ e = "uid" => Readable(v)
  BY <1>1 DEF Valid
<1>8. (errors = <<>> <=> Fine(r)) /\ (errors = <<>> => Matches(r))
  BY DEF Agrees
<1>9. errors = <<>> => (got[e] = <<>> <=> TextOf(r, e) = {})
  <2> SUFFICES ASSUME Matches(r) PROVE got[e] = <<>> <=> TextOf(r, e) = {}
    BY <1>8
  <2> QED BY DEF Matches
<1>10. errors' = <<>> <=> Fine(q)
  BY <1>2, <1>4, <1>5, <1>6, <1>7, <1>8, <1>9
<1>11. ASSUME errors' = <<>> PROVE Matches(q)'
  <2>1. errors = <<>> /\ TextOf(r, e) = {} /\ (e = "uid" => Readable(v))
        /\ got' = [got EXCEPT ![e] = <<Scanned(e, v)>>]
    BY <1>2, <1>5, <1>6, <1>7, <1>8, <1>10, <1>11
  <2>2. Scanned(e, v) = Value(e, v)
    BY <2>1, NumberIsExact DEF Value, Scanned
  <2>3. TextOf(q, e) = {v} /\ got'[e] = <<Value(e, v)>>
    BY <1>2, <1>3, <2>1, <2>2
  <2>4. \A d \in Entries : d # e => got'[d] = got[d]
    BY <1>3, <2>1
  <2>5. Matches(r)
    BY <1>8, <2>1
  <2> SUFFICES ASSUME NEW d \in Entries
               PROVE  IF TextOf(q, d) = {} THEN got'[d] = <<>>
                      ELSE \E x : TextOf(q, d) = {x} /\ got'[d] = <<Value(d, x)>>
    BY DEF Matches
  <2>6. CASE d = e
    BY <2>3, <2>6
  <2>7. CASE d # e
    <3>1. TextOf(q, d) = TextOf(r, d) /\ got'[d] = got[d]
      BY <1>2, <2>4, <2>7
    <3> QED BY <2>5, <3>1 DEF Matches
  <2> QED BY <2>6, <2>7
<1> QED BY <1>10, <1>11 DEF Agrees

-----------------------------------------------------------------------------
(* The letters of a cluster are read one after the other.                  *)
LetterRun(f, r, t, k) ==
  /\ f[0] = r
  /\ \A i \in 1 .. k : f[i] = ReadLetter(f[i - 1], t[i + 1])

LEMMA LettersRun ==
  ASSUME NEW r \in Readings, NEW t \in Text, NEW stop \in 2 .. Len(t) + 1
  PROVE  \E f : LetterRun(f, r, t, stop - 2) /\ ReadLetters(r, t, stop) = f[stop - 2]
<1> DEFINE k == stop - 2
           S == Readings
           Go(q, i) == ReadLetter(q, t[i + 1])
           Result(q, i) == CHOOSE x \in {Go(last, i) : last \in {q}} : TRUE
           IsAcc(g) == g = [i \in 0 .. k |-> IF i = 0 THEN r ELSE Result(g[i - 1], i)]
<1>1. r \in S /\ k \in Int /\ 0 <= k
  BY DEF Text
<1>2. \A q \in S : \A i : Go(q, i) \in S
  BY LetterRead
<1>3. \A q, i : Result(q, i) = Go(q, i)
  <2> TAKE q, i
  <2> HIDE DEF Go
  <2>1. {Go(last, i) : last \in {q}} = {Go(q, i)}
    OBVIOUS
  <2> QED BY <2>1, Bound
<1>4. \E g : IsAcc(g)
  <2> DEFINE step == [p \in S \X (1 .. k) |-> Go(p[1], p[2])]
  <2> HIDE DEF Result, Go, S, k
  <2>1. step \in [S \X (0 + 1 .. k) -> S]
    BY <1>2
  <2>2. \A q \in S : \A i \in 1 .. k : step[<<q, i>>] = Go(q, i)
    OBVIOUS
  <2> HIDE DEF step
  <2>3. PICK g \in [0 .. k -> S] : Unfolds(g, 0, k, r, step)
    <3>1. 0 \in Int
      OBVIOUS
    <3> QED BY <1>1, <2>1, <3>1, Recursion, Zenon
  <2>4. \A i \in 1 .. k : g[i] = step[<<g[i - 1], i>>] /\ g[i - 1] \in S
    BY <1>1, <2>3 DEF Unfolds
  <2>5. \A i \in 1 .. k : g[i] = Go(g[i - 1], i)
    BY <2>2, <2>4
  <2>6. g = [i \in 0 .. k |-> IF i = 0 THEN r ELSE Go(g[i - 1], i)]
    BY <1>1, <2>3, <2>5 DEF Unfolds
  <2> QED BY <1>3, <2>6
<1>5. PICK f : IsAcc(f) /\ ReadLetters(r, t, stop) = f[k]
  BY <1>4 DEF ReadLetters, Through
<1> HIDE DEF Result, Go, k
<1>6. f = [i \in 0 .. k |-> IF i = 0 THEN r ELSE Go(f[i - 1], i)]
  BY <1>3, <1>5
<1>7. f[0] = r /\ \A i \in 1 .. k : f[i] = Go(f[i - 1], i)
  BY <1>1, <1>6
<1> QED BY <1>5, <1>7 DEF LetterRun, Go, k

LEMMA NextLetter ==
  ASSUME NEW r \in Readings, NEW t \in Text, NEW at \in 2 .. Len(t)
  PROVE  /\ ReadLetters(r, t, 2) = r
         /\ ReadLetters(r, t, at + 1) = ReadLetter(ReadLetters(r, t, at), t[at])
<1>1. Len(t) \in Nat
  BY LenProperties DEF Text
<1>2. ReadLetters(r, t, 2) = r
  <2>1. 2 \in 2 .. Len(t) + 1 /\ 2 - 2 = 0
    BY <1>1
  <2>2. PICK f : LetterRun(f, r, t, 2 - 2) /\ ReadLetters(r, t, 2) = f[2 - 2]
    BY <2>1, LettersRun
  <2> QED BY <2>1, <2>2 DEF LetterRun
<1> DEFINE k == at - 2
<1>3. at \in 2 .. Len(t) + 1 /\ at + 1 \in 2 .. Len(t) + 1 /\ at + 1 - 2 = k + 1
      /\ k \in Int /\ 0 <= k /\ k + 1 + 1 = at
  BY <1>1
<1>4. PICK f : LetterRun(f, r, t, k) /\ ReadLetters(r, t, at) = f[k]
  BY <1>3, LettersRun
<1>5. PICK g : LetterRun(g, r, t, k + 1) /\ ReadLetters(r, t, at + 1) = g[k + 1]
  <2> DEFINE s == at + 1
  <2>1. s \in 2 .. Len(t) + 1 /\ s - 2 = k + 1
    BY <1>3
  <2> HIDE DEF s
  <2>2. \E g : LetterRun(g, r, t, s - 2) /\ ReadLetters(r, t, s) = g[s - 2]
    BY <2>1, LettersRun
  <2> QED BY <2>1, <2>2 DEF s
<1> HIDE DEF k
<1> DEFINE P == {i \in 0 .. k : f[i] = g[i]}
<1>6. 0 .. k \subseteq P
  <2>1. 0 \in P
    BY <1>3, <1>4, <1>5 DEF LetterRun
  <2>2. ASSUME NEW i \in 0 + 1 .. k, i - 1 \in P PROVE i \in P
    <3>1. i \in 1 .. k /\ i \in 1 .. k + 1 /\ f[i - 1] = g[i - 1] /\ i \in 0 .. k
      BY <1>3, <2>2
    <3>2. f[i] = ReadLetter(f[i - 1], t[i + 1]) /\ g[i] = ReadLetter(g[i - 1], t[i + 1])
      BY <1>4, <1>5, <3>1 DEF LetterRun
    <3> QED BY <3>1, <3>2
  <2> HIDE DEF P
  <2>3. 0 \in Int
    OBVIOUS
  <2> QED BY <1>3, <2>1, <2>2, <2>3, Upwards
<1>7. f[k] = g[k]
  BY <1>3, <1>6
<1>8. g[k + 1] = ReadLetter(g[k], t[at])
  <2>1. k + 1 \in 1 .. k + 1 /\ k + 1 - 1 = k
    BY <1>3
  <2> QED BY <1>3, <1>5, <2>1 DEF LetterRun
<1> QED BY <1>2, <1>4, <1>5, <1>7, <1>8

(* -v is the one letter that a reading goes past.                          *)
LEMMA VerbosityIs == "v" \in DOMAIN Letters /\ Letters["v"] = "verbosity"
<1>1. "v" \in DOMAIN Letters
  BY Table, NoLetter DEF Row, Letters, Shorts
<1>2. \A j \in DOMAIN argtable : argtable[j].short = "v" => j = 7
  BY Table, NoLetter DEF Row
<1>3. find_shortoption("v") = 7
  <2> DEFINE First_(j) == argtable[j].short = "v"
                          /\ \A h \in 1 .. j - 1 : argtable[h].short # "v"
  <2>1. First_(7) /\ 7 \in DOMAIN argtable
    BY <1>2, Table, NoLetter DEF Row
  <2>2. \A j \in DOMAIN argtable : First_(j) => j = 7
    BY <1>2
  <2> QED BY <2>1, <2>2 DEF find_shortoption
<1> QED BY <1>1, <1>3, Table DEF Letters, Row

-----------------------------------------------------------------------------
(* While the parser scans, its errors and values are those of the reading  *)
(* up to the symbol that comes next. In a cluster that a dash ends it goes *)
(* round for ever, storing one error after the other.                      *)
SoFar(acc) ==
  IF place = 0 THEN acc[optind - 1] ELSE ReadLetters(acc[optind - 1], Tok, place)

Endless(t) ==
  ~ IsOperand(t) /\ ~ EndsOptions(t) /\ Deciding(t) = Len(t) /\ t[Len(t)] = "-"

AgreesTagged(acc) ==
  \/ optind <= N /\ Endless(Tok)
  \/ Agrees(SoFar(acc), SoFar(acc).mode \notin Entries)

LEMMA SoFarIs ==
  ASSUME NEW acc, Scans(acc), InOption
  PROVE  /\ SoFar(acc) = ReadLetters(acc[optind - 1], Tok, At)
         /\ SoFar(acc) \in Readings /\ SoFar(acc).mode = "free"
<1>1. /\ At \in 2 .. Len(Tok) /\ Len(Tok) \in Nat /\ optind <= N
  BY Inside
<1>2. Tok \in Text /\ acc[optind - 1] \in Readings /\ acc[optind - 1].mode = "free"
  BY <1>1, Here
<1>3. At \in 2 .. Len(Tok) + 1
  BY <1>1
<1>4. /\ ReadLetters(acc[optind - 1], Tok, At) \in Readings
      /\ ReadLetters(acc[optind - 1], Tok, At).mode = "free"
  BY <1>2, <1>3, LettersRead DEF Same
<1>5. ReadLetters(acc[optind - 1], Tok, 2) = acc[optind - 1]
  BY <1>1, <1>2, NextLetter
<1>6. SoFar(acc) = ReadLetters(acc[optind - 1], Tok, At)
  BY <1>5 DEF SoFar, At
<1> QED BY <1>4, <1>6

LEMMA OptionIs ==
  ASSUME NEW acc, Scans(acc), InOption, ~ EndsOptions(Tok)
  PROVE  acc[optind] = ReadDeciding(ReadLetters(acc[optind - 1], Tok, Deciding(Tok)),
                                    Tok, Deciding(Tok))
<1>1. /\ optind <= N /\ ~ IsOperand(Tok)
  BY Inside
<1>2. /\ N \in Nat /\ optind \in 1 .. N /\ Tok = line[optind]
      /\ acc[optind - 1].mode = "free"
  BY <1>1, Here
<1>3. acc[optind] = ReadToken(acc[optind - 1], Tok, optind)
  BY <1>2 DEF Scans, Reads, N
<1> DEFINE r == acc[optind - 1]
<1>4. r.mode \notin Entries /\ r.mode # "rest" /\ r.mode = "free"
  BY <1>2, EntriesAre
<1> HIDE DEF r
<1>5. ReadToken(r, Tok, optind) = ReadCluster(r, Tok)
  BY <1>1, <1>4 DEF ReadToken
<1> QED BY <1>3, <1>5 DEF r, ReadCluster

LEMMA LetterSays ==
  ASSUME NEW acc, Scans(acc), InOption, Decides(Symbol), Symbol = "-" => At < Len(Tok)
  PROVE  acc[optind] = ReadDeciding(SoFar(acc), Tok, At) /\ ~ Endless(Tok)
<1>1. /\ At \in 2 .. Len(Tok) /\ Len(Tok) \in Nat /\ optind <= N
      /\ \A j \in 2 .. At - 1 : ~ Decides(Tok[j])
  BY Inside
<1>2. Tok \in Text
  BY <1>1, Here
<1>3. Deciding(Tok) = At
  BY <1>1, <1>2, ItDecides DEF Symbol
<1>4. ~ EndsOptions(Tok)
  <2> SUFFICES ASSUME EndsOptions(Tok) PROVE FALSE
    OBVIOUS
  <2>1. At = Len(Tok) /\ Tok[At] = "-"
    BY <1>1 DEF EndsOptions
  <2>2. Symbol = "-"
    BY <2>1 DEF Symbol
  <2> QED BY <1>1, <2>1, <2>2
<1>5. ~ Endless(Tok)
  BY <1>1, <1>3 DEF Endless, Symbol
<1>6. SoFar(acc) = ReadLetters(acc[optind - 1], Tok, At)
  BY SoFarIs
<1>7. acc[optind] = ReadDeciding(ReadLetters(acc[optind - 1], Tok, Deciding(Tok)),
                                 Tok, Deciding(Tok))
  BY <1>4, OptionIs
<1> QED BY <1>3, <1>5, <1>6, <1>7

LEMMA LetterPassed ==
  ASSUME NEW acc, Scans(acc), InOption, ~ Decides(Symbol)
  PROVE  /\ ReadLetters(acc[optind - 1], Tok, At + 1) = ReadLetter(SoFar(acc), Symbol)
         /\ At = Len(Tok) => /\ acc[optind] = ReadLetter(SoFar(acc), Symbol)
                             /\ ~ Endless(Tok)
<1>1. /\ At \in 2 .. Len(Tok) /\ Len(Tok) \in Nat /\ optind <= N
      /\ \A j \in 2 .. At - 1 : ~ Decides(Tok[j])
  BY Inside
<1>2. Tok \in Text /\ acc[optind - 1] \in Readings
  BY <1>1, Here
<1>3. SoFar(acc) = ReadLetters(acc[optind - 1], Tok, At)
  BY SoFarIs
<1>4. ReadLetters(acc[optind - 1], Tok, At + 1) = ReadLetter(SoFar(acc), Symbol)
  BY <1>1, <1>2, <1>3, NextLetter DEF Symbol
<1>5. ASSUME At = Len(Tok)
      PROVE  acc[optind] = ReadLetter(SoFar(acc), Symbol) /\ ~ Endless(Tok)
  <2>1. Deciding(Tok) = Len(Tok) + 1
    <3>1. \A j \in 2 .. Len(Tok) + 1 - 1 : ~ Decides(Tok[j])
      BY <1>1, <1>5 DEF Symbol
    <3>2. Len(Tok) + 1 \in 2 .. Len(Tok) + 1 /\ ~ Len(Tok) + 1 <= Len(Tok)
      BY <1>1
    <3> QED BY <1>2, <3>1, <3>2, ItDecides
  <2>2. ~ EndsOptions(Tok)
    BY <1>1, <1>5 DEF EndsOptions, Symbol, Decides
  <2>3. acc[optind] = ReadDeciding(ReadLetters(acc[optind - 1], Tok, Deciding(Tok)),
                                   Tok, Deciding(Tok))
    BY <2>2, OptionIs
  <2>4. Deciding(Tok) = At + 1 /\ At + 1 > Len(Tok)
    BY <1>1, <1>5, <2>1
  <2>5. acc[optind] = ReadDeciding(ReadLetter(SoFar(acc), Symbol), Tok, At + 1)
    BY <1>4, <2>3, <2>4
  <2>6. acc[optind] = ReadLetter(SoFar(acc), Symbol)
    BY <2>4, <2>5 DEF ReadDeciding
  <2>7. Len(Tok) + 1 # Len(Tok)
    BY <1>1
  <2> QED BY <2>1, <2>6, <2>7 DEF Endless
<1> QED BY <1>4, <1>5

(* The cases of ReadLong.                                                  *)
LEMMA LongIsBad ==
  ASSUME NEW p, NEW w, NEW found, found = Candidates(Upto(w, EqualsAt(w))),
         Cardinality(found) # 1 \/ (found \subseteq Flags /\ HasValue(w))
  PROVE  ReadLong(p, w) = [p EXCEPT !.bad = TRUE]
<1>1. Cardinality(found) = 1 => (CHOOSE e \in found : TRUE) \in found
  <2>1. found = {} => Cardinality(found) = 0
    BY FS_EmptySet
  <2> QED BY <2>1
<1> QED BY <1>1 DEF ReadLong

LEMMA LongIs ==
  ASSUME NEW p, NEW w, NEW e, Candidates(Upto(w, EqualsAt(w))) = {e}
  PROVE  ReadLong(p, w) =
           IF e \in Flags /\ HasValue(w) THEN [p EXCEPT !.bad = TRUE]
           ELSE IF e \in Flags THEN Add(p, Given(e, <<>>, TRUE))
           ELSE IF HasValue(w) THEN Add(p, Given(e, After(w, EqualsAt(w)), TRUE))
           ELSE [p EXCEPT !.mode = e, !.long = TRUE]
<1> DEFINE found == Candidates(Upto(w, EqualsAt(w)))
           c == CHOOSE x \in found : TRUE
           spoilt(x) == [p EXCEPT !.bad = TRUE]
           flag(x) == Add(p, Given(x, <<>>, TRUE))
           given(x) == Add(p, Given(x, After(w, EqualsAt(w)), TRUE))
           waits(x) == [p EXCEPT !.mode = x, !.long = TRUE]
<1>1. ReadLong(p, w) = IF Cardinality(found) # 1 \/ (c \in Flags /\ HasValue(w))
                       THEN spoilt(c) ELSE IF c \in Flags THEN flag(c)
                       ELSE IF HasValue(w) THEN given(c) ELSE waits(c)
  BY DEF ReadLong
<1>2. c = e /\ Cardinality(found) = 1
  BY FS_Singleton
<1> HIDE DEF spoilt, flag, given, waits, c, found
<1>3. ReadLong(p, w) = IF e \in Flags /\ HasValue(w) THEN spoilt(e)
                       ELSE IF e \in Flags THEN flag(e)
                       ELSE IF HasValue(w) THEN given(e) ELSE waits(e)
  BY <1>1, <1>2
<1> QED BY <1>3 DEF spoilt, flag, given, waits

-----------------------------------------------------------------------------
(* The steps of the scan, each with what the reading makes of it.          *)
LEMMA AgreesNext ==
  ASSUME NEW acc, NEW q, place' = 0, q = acc[optind' - 1],
         Agrees(q, q.mode \notin Entries)'
  PROVE  AgreesTagged(acc)'
BY DEF AgreesTagged, SoFar

Unstored(q) == errors' # <<>> /\ ~ (Fine(q) /\ q.mode \notin Entries)

LEMMA Disagreed ==
  ASSUME NEW q, Unstored(q)
  PROVE  Agrees(q, q.mode \notin Entries)'
BY DEF Agrees, Unstored

(* An option is complete in the token itself.                              *)
LEMMA GivenAgrees ==
  ASSUME NEW p \in Readings, p.mode = "free", Agrees(p, TRUE), ResultInv,
         NEW e \in Entries, NEW v, NEW long, NEW errs,
         NEW q, q = Add(p, Given(e, v, long)), Take(e, v, errs),
         errs = IF long /\ e \notin Flags THEN MissingIfEmpty(v) ELSE errors
  PROVE  Agrees(q, q.mode \notin Entries)'
<1>1. Gained(q, p, e, v, long) /\ q.mode = "free"
  BY DEF Add, Gained, Readings
<1>2. Agrees(q, TRUE)'
  BY <1>1, TakeAgrees
<1>3. q.mode \notin Entries
  BY <1>1, EntriesAre
<1> QED BY <1>2, <1>3 DEF Agrees

(* The value of an option is the next token.                               *)
LEMMA ValueAgrees ==
  ASSUME NEW acc, Scans(acc), ResultInv, line' = line, optind <= N,
         NEW p \in Readings, p.mode = "free", Agrees(p, TRUE),
         NEW e \in Entries \ Flags, NEW long \in BOOLEAN,
         acc[optind] = [p EXCEPT !.mode = e, !.long = long],
         \/ /\ optind < N /\ Leave(optind + 2)
            /\ Take(e, Token(optind + 1),
                    IF long THEN MissingIfEmpty(Token(optind + 1)) ELSE errors)
         \/ optind = N /\ Report("EMISSARG") /\ Leave(optind + 1)
  PROVE  AgreesTagged(acc)'
<1>1. N \in Nat /\ N = Len(line) /\ line \in Seq(Text) /\ optind \in 1 .. N
      /\ argv \in Orders(N)
  BY Tokens DEF Scans, ScanInv, ArgvInv, N, Text
<1>2. CASE optind = N /\ Report("EMISSARG") /\ Leave(optind + 1)
  <2>1. PICK q : q = acc[optind]
    OBVIOUS
  <2>2. q.mode = e
    BY <2>1 DEF Readings
  <2>3. errors' # <<>>
    BY <1>2, ErrorStays DEF Report, ResultInv
  <2>4. Agrees(q, q.mode \notin Entries)'
    BY <2>2, <2>3, Disagreed DEF Unstored
  <2>5. place' = 0 /\ optind' - 1 = optind
    BY <1>1, <1>2 DEF Leave
  <2> QED BY <2>1, <2>4, <2>5, AgreesNext
<1>3. CASE /\ optind < N /\ Leave(optind + 2)
           /\ Take(e, Token(optind + 1),
                   IF long THEN MissingIfEmpty(Token(optind + 1)) ELSE errors)
  <2>1. PICK v, q, a : v = Token(optind + 1) /\ q = acc[optind + 1] /\ a = acc[optind]
    OBVIOUS
  <2>2. optind + 1 \in 1 .. N /\ optind + 1 - 1 = optind /\ optind + 1 \in optind .. N
    BY <1>1, <1>3
  <2>3. v = line[optind + 1]
    BY <1>1, <2>1, <2>2 DEF Token, Scans, OrderTagged, Arranged
  <2>4. q = ReadToken(a, v, optind + 1)
    BY <1>1, <2>1, <2>2, <2>3 DEF Scans, Reads
  <2>5. /\ a.mode = e /\ a.long = long /\ a.opts = p.opts /\ a.bad = p.bad
        /\ a \in Readings
    BY <2>1 DEF Readings
  <2>6. q = [Add(a, Given(e, v, long)) EXCEPT !.mode = "free"]
    <3>1. a.mode # "rest" /\ a.mode # "free"
      BY <2>5, EntriesAre
    <3> QED BY <2>4, <2>5, <3>1 DEF ReadToken
  <2>7. Gained(q, p, e, v, long) /\ q.mode = "free"
    BY <2>5, <2>6 DEF Add, Gained, Readings
  <2>8. Agrees(q, TRUE)'
    <3>1. PICK errs : errs = IF long THEN MissingIfEmpty(v) ELSE errors
      OBVIOUS
    <3>2. Take(e, v, errs)
      BY <1>3, <2>1, <3>1
    <3>3. errs = IF long /\ e \notin Flags THEN MissingIfEmpty(v) ELSE errors
      BY <3>1
    <3> QED BY <2>7, <3>2, <3>3, TakeAgrees
  <2>9. Agrees(q, q.mode \notin Entries)'
    BY <2>7, <2>8, EntriesAre DEF Agrees
  <2>10. place' = 0 /\ optind' - 1 = optind + 1
    BY <1>1, <1>3 DEF Leave
  <2> QED BY <2>1, <2>9, <2>10, AgreesNext
<1> QED BY <1>2, <1>3

LEMMA LongAgrees ==
  ASSUME NEW acc, Scans(acc), ResultInv, line' = line, AgreesTagged(acc),
         LongUnknown \/ LongFlag \/ LongValue
  PROVE  AgreesTagged(acc)'
<1>1. InOption /\ Symbol = "-" /\ At < Len(Tok)
  BY DEF LongUnknown, LongFlag, LongValue, Long
<1>2. Decides(Symbol)
  BY <1>1 DEF Decides
<1>3. /\ acc[optind] = ReadDeciding(SoFar(acc), Tok, At) /\ ~ Endless(Tok)
      /\ SoFar(acc) \in Readings /\ SoFar(acc).mode = "free"
  BY <1>1, <1>2, LetterSays, SoFarIs
<1>4. PICK p, q, w, found : /\ p = SoFar(acc) /\ q = acc[optind] /\ w = Word
                            /\ found = Found
  OBVIOUS
<1>5. p \in Readings /\ p.mode = "free" /\ Agrees(p, TRUE)
  BY <1>3, <1>4, EntriesAre DEF AgreesTagged, Agrees
<1>6. optind <= N /\ At \in 2 .. Len(Tok) /\ Len(Tok) \in Nat
  BY <1>1, Inside
<1>7. N \in Nat /\ optind \in 1 .. N
  BY <1>6, Here
<1>8. q = ReadLong(p, w)
  BY <1>1, <1>3, <1>4, <1>6 DEF ReadDeciding, Symbol, Word
<1>9. found = Candidates(Upto(w, EqualsAt(w)))
  BY <1>4 DEF Found
<1>10. ASSUME Leave(optind + 1), Agrees(q, q.mode \notin Entries)'
       PROVE  AgreesTagged(acc)'
  <2>1. place' = 0 /\ optind' - 1 = optind
    BY <1>7, <1>10 DEF Leave
  <2> QED BY <1>4, <1>10, <2>1, AgreesNext
<1>11. CASE LongUnknown
  <2>1. Cardinality(found) # 1 \/ (found \subseteq Flags /\ HasValue(w))
    BY <1>4, <1>11 DEF LongUnknown
  <2>2. q = [p EXCEPT !.bad = TRUE]
    BY <1>8, <1>9, <2>1, LongIsBad
  <2>3. ~ Fine(q)
    BY <1>5, <2>2 DEF Fine, Readings
  <2>4. errors' # <<>>
    BY <1>11, ErrorStays DEF LongUnknown, Report, ResultInv
  <2>5. Agrees(q, q.mode \notin Entries)'
    BY <2>3, <2>4, Disagreed DEF Unstored
  <2> QED BY <1>10, <1>11, <2>5 DEF LongUnknown
<1>12. CASE LongFlag
  <2>1. PICK e \in Flags : found = {e} /\ Take(e, <<>>, errors)
    BY <1>4, <1>12 DEF LongFlag
  <2>2. ~ HasValue(w) /\ Leave(optind + 1)
    BY <1>4, <1>12 DEF LongFlag
  <2>3. q = Add(p, Given(e, <<>>, TRUE))
    BY <1>8, <1>9, <2>1, <2>2, LongIs
  <2>4. PICK errs : errs = errors
    OBVIOUS
  <2>5. e \in Entries /\ errs = IF TRUE /\ e \notin Flags THEN MissingIfEmpty(<<>>) ELSE errors
    BY <2>1, <2>4, EntriesAre
  <2>6. Agrees(q, q.mode \notin Entries)'
    BY <1>5, <2>1, <2>3, <2>4, <2>5, GivenAgrees
  <2> QED BY <1>10, <2>2, <2>6
<1>13. ASSUME NEW e \in Entries \ Flags, found = {e}
       PROVE  IF HasValue(w) THEN q = Add(p, Given(e, After(w, EqualsAt(w)), TRUE))
              ELSE q = [p EXCEPT !.mode = e, !.long = TRUE]
  <2> DEFINE spoilt == [p EXCEPT !.bad = TRUE]
             flag == Add(p, Given(e, <<>>, TRUE))
             given == Add(p, Given(e, After(w, EqualsAt(w)), TRUE))
             waits == [p EXCEPT !.mode = e, !.long = TRUE]
  <2>1. q = IF e \in Flags /\ HasValue(w) THEN spoilt ELSE IF e \in Flags THEN flag
            ELSE IF HasValue(w) THEN given ELSE waits
    <3>1. Candidates(Upto(w, EqualsAt(w))) = {e}
      BY <1>9, <1>13
    <3>2. ReadLong(p, w) =
            IF e \in Flags /\ HasValue(w) THEN [p EXCEPT !.bad = TRUE]
            ELSE IF e \in Flags THEN Add(p, Given(e, <<>>, TRUE))
            ELSE IF HasValue(w) THEN Add(p, Given(e, After(w, EqualsAt(w)), TRUE))
            ELSE [p EXCEPT !.mode = e, !.long = TRUE]
      BY ONLY <3>1, LongIs, Zenon
    <3> QED BY <1>8, <3>2, Zenon
  <2> HIDE DEF spoilt, flag, given, waits
  <2>2. q = IF HasValue(w) THEN given ELSE waits
    BY <2>1
  <2> QED BY <2>2 DEF given, waits
<1>14. CASE LongValue
  <2>1. PICK e \in Entries \ Flags :
          /\ found = {e}
          /\ \/ /\ HasValue(w) /\ Leave(optind + 1)
                /\ Take(e, After(w, EqualsAt(w)), MissingIfEmpty(After(w, EqualsAt(w))))
             \/ /\ ~ HasValue(w) /\ optind < N /\ Leave(optind + 2)
                /\ Take(e, Token(optind + 1), MissingIfEmpty(Token(optind + 1)))
             \/ ~ HasValue(w) /\ optind = N /\ Report("EMISSARG") /\ Leave(optind + 1)
    BY <1>4, <1>14 DEF LongValue
  <2>2. CASE HasValue(w)
    <3>1. PICK v, errs : v = After(w, EqualsAt(w)) /\ errs = MissingIfEmpty(v)
      OBVIOUS
    <3>2. q = Add(p, Given(e, v, TRUE))
      BY <1>13, <2>1, <2>2, <3>1
    <3>3. Take(e, v, errs) /\ errs = IF TRUE /\ e \notin Flags THEN MissingIfEmpty(v) ELSE errors
      BY <2>1, <2>2, <3>1
    <3>4. Agrees(q, q.mode \notin Entries)'
      BY <1>5, <2>1, <3>2, <3>3, GivenAgrees
    <3> QED BY <1>10, <2>1, <2>2, <3>4
  <2>3. CASE ~ HasValue(w)
    <3>1. acc[optind] = [p EXCEPT !.mode = e, !.long = TRUE]
      BY <1>4, <1>13, <2>1, <2>3
    <3>2. \/ /\ optind < N /\ Leave(optind + 2)
             /\ Take(e, Token(optind + 1),
                     IF TRUE THEN MissingIfEmpty(Token(optind + 1)) ELSE errors)
          \/ optind = N /\ Report("EMISSARG") /\ Leave(optind + 1)
      BY <2>1, <2>3
    <3> QED BY <1>5, <1>6, <3>1, <3>2, ValueAgrees
  <2> QED BY <2>2, <2>3
<1> QED BY <1>11, <1>12, <1>14

LEMMA PassedAgrees ==
  ASSUME NEW acc, Scans(acc), line' = line, InOption, ~ Decides(Symbol), Advance,
         ~ Endless(Tok), NEW q, q = ReadLetter(SoFar(acc), Symbol),
         Agrees(q, q.mode \notin Entries)'
  PROVE  AgreesTagged(acc)'
<1>1. /\ ReadLetters(acc[optind - 1], Tok, At + 1) = q
      /\ At = Len(Tok) => acc[optind] = q
  BY LetterPassed
<1>2. optind <= N /\ At \in 2 .. Len(Tok) /\ Len(Tok) \in Nat
  BY Inside
<1>3. N \in Nat /\ optind \in 1 .. N
  BY <1>2, Here
<1>4. CASE At = Len(Tok)
  <2>1. place' = 0 /\ optind' - 1 = optind
    BY <1>3, <1>4 DEF Advance, Leave
  <2> QED BY <1>1, <1>4, <2>1, AgreesNext
<1>5. CASE At # Len(Tok)
  <2>1. place' = At + 1 /\ UNCHANGED <<argv, optind>>
    BY <1>5 DEF Advance
  <2>2. Tok' = Tok
    BY <2>1 DEF Tok, Token
  <2>3. PICK r, t, k : r = acc[optind - 1] /\ t = Tok /\ k = At + 1
    OBVIOUS
  <2>4. SoFar(acc)' = ReadLetters(r, t, k)
    <3>1. k # 0
      BY <1>2, <2>3
    <3>2. SoFar(acc)' = IF place' = 0 THEN acc[optind' - 1]
                        ELSE ReadLetters(acc[optind' - 1], Tok', place')
      BY DEF SoFar
    <3> QED BY <2>1, <2>2, <2>3, <3>1, <3>2
  <2>5. SoFar(acc)' = q
    BY <1>1, <2>3, <2>4
  <2> QED BY <2>5 DEF AgreesTagged
<1> QED BY <1>4, <1>5

LEMMA LetterAdds ==
  ASSUME NEW p \in Readings, NEW letter
  PROVE  /\ letter = "v" => ReadLetter(p, letter) = Add(p, Given("verbosity", <<>>, FALSE))
         /\ letter # "v" => ~ Fine(ReadLetter(p, letter))
         /\ ReadLetter(p, letter).mode = p.mode
<1>1. ReadLetter(p, letter).mode = p.mode
  BY LetterRead DEF Same
<1>2. letter # "v" => ReadLetter(p, letter).bad
  BY DEF ReadLetter, Readings
<1>3. letter = "v" => ReadLetter(p, letter) = Add(p, Given("verbosity", <<>>, FALSE))
  BY DEF ReadLetter
<1> QED BY <1>1, <1>2, <1>3 DEF Fine

LEMMA ShortAgrees ==
  ASSUME NEW acc, Scans(acc), ResultInv, line' = line, AgreesTagged(acc),
         ShortUnknown \/ ShortFlag \/ ShortValue
  PROVE  AgreesTagged(acc)'
<1>1. InOption /\ Symbol # "-"
  BY DEF ShortUnknown, ShortFlag, ShortValue, Short
<1>2. optind <= N /\ At \in 2 .. Len(Tok) /\ Len(Tok) \in Nat
  BY <1>1, Inside
<1>3. N \in Nat /\ optind \in 1 .. N
  BY <1>2, Here
<1>4. SoFar(acc) \in Readings /\ SoFar(acc).mode = "free"
  BY <1>1, SoFarIs
<1>5. PICK p, s : p = SoFar(acc) /\ s = Symbol
  OBVIOUS
<1>6. ~ Endless(Tok) => p \in Readings /\ p.mode = "free" /\ Agrees(p, TRUE)
  BY <1>4, <1>5, EntriesAre DEF AgreesTagged, Agrees
<1>7. CASE Endless(Tok) /\ (ShortUnknown \/ ShortFlag)
  <2>1. ~ Decides(Symbol) /\ Advance
    BY <1>1, <1>7, LettersAre DEF ShortUnknown, ShortFlag, Decides
  <2>2. At # Len(Tok)
    BY <1>1, <1>7, <2>1, LetterPassed
  <2>3. UNCHANGED <<argv, optind>>
    BY <2>1, <2>2 DEF Advance
  <2>4. Tok' = Tok /\ N' = N /\ optind' = optind
    BY <2>3 DEF Tok, Token, N
  <2>5. PICK t : t = Tok
    OBVIOUS
  <2>6. Endless(t) /\ Tok' = t
    BY <1>7, <2>4, <2>5
  <2> QED BY <1>2, <2>4, <2>6 DEF AgreesTagged
<1>8. CASE ~ Endless(Tok) /\ ShortUnknown
  <2>1. ~ Decides(Symbol) /\ Advance /\ s \notin DOMAIN Letters
    BY <1>1, <1>5, <1>8 DEF ShortUnknown, Decides
  <2>2. PICK q : q = ReadLetter(p, s)
    OBVIOUS
  <2>3. ~ Fine(q)
    BY <1>6, <1>8, <2>1, <2>2, VerbosityIs, LetterAdds
  <2>4. errors' # <<>>
    BY <1>8, ErrorStays DEF ShortUnknown, Report, ResultInv
  <2>5. Agrees(q, q.mode \notin Entries)'
    BY <2>3, <2>4, Disagreed DEF Unstored
  <2> QED BY <1>1, <1>5, <1>8, <2>1, <2>2, <2>5, PassedAgrees
<1>9. CASE ~ Endless(Tok) /\ ShortFlag
  <2>1. ~ Decides(Symbol) /\ Advance /\ s = "v"
    BY <1>1, <1>5, <1>9, LettersAre DEF ShortFlag, Decides
  <2>2. Take("verbosity", <<>>, errors) /\ "verbosity" \in Flags
    BY <1>5, <1>9, <2>1, VerbosityIs DEF ShortFlag
  <2>3. PICK q, errs : q = ReadLetter(p, s) /\ errs = errors
    OBVIOUS
  <2>4. q = Add(p, Given("verbosity", <<>>, FALSE))
    BY <1>6, <1>9, <2>1, <2>3, LetterAdds
  <2>5. "verbosity" \in Entries
        /\ errs = IF FALSE /\ "verbosity" \notin Flags THEN MissingIfEmpty(<<>>) ELSE errors
    BY <2>3, EntriesAre
  <2>6. Agrees(q, q.mode \notin Entries)'
    BY <1>6, <1>9, <2>2, <2>3, <2>4, <2>5, GivenAgrees
  <2> QED BY <1>1, <1>5, <1>9, <2>1, <2>3, <2>6, PassedAgrees
<1>10. CASE ShortValue
  <2>1. Decides(Symbol) /\ s \in DOMAIN Letters /\ Letters[s] \in Entries \ Flags
    BY <1>5, <1>10, LettersAre DEF ShortValue, Decides
  <2>2. acc[optind] = ReadDeciding(p, Tok, At) /\ ~ Endless(Tok)
    BY <1>1, <1>5, <2>1, LetterSays
  <2>3. PICK e, q : e = Letters[s] /\ q = acc[optind]
    OBVIOUS
  <2>4. q = IF At < Len(Tok) THEN Add(p, Given(e, Word, FALSE))
            ELSE [p EXCEPT !.mode = e, !.long = FALSE]
    <3> DEFINE waits == [p EXCEPT !.mode = e, !.long = FALSE]
    <3>1. Tok[At] = s /\ ~ At > Len(Tok)
      BY <1>2, <1>5 DEF Symbol
    <3>2. ReadDeciding(p, Tok, At) =
            IF At > Len(Tok) THEN p
            ELSE IF Tok[At] = "-" /\ At = Len(Tok) THEN [p EXCEPT !.endless = TRUE]
            ELSE IF Tok[At] = "-" THEN ReadLong(p, After(Tok, At))
            ELSE IF At < Len(Tok) THEN Add(p, Given(Letters[Tok[At]], After(Tok, At), FALSE))
            ELSE [p EXCEPT !.mode = Letters[Tok[At]], !.long = FALSE]
      BY Zenon DEF ReadDeciding
    <3>3. s # "-"
      BY <1>1, <1>5
    <3> QED BY <2>2, <2>3, <3>1, <3>2, <3>3, Zenon DEF Word
  <2>5. \/ At < Len(Tok) /\ Take(e, Word, errors) /\ Leave(optind + 1)
        \/ At = Len(Tok) /\ optind < N /\ Take(e, Token(optind + 1), errors)
           /\ Leave(optind + 2)
        \/ At = Len(Tok) /\ optind = N /\ Report("EMISSARG") /\ Leave(optind + 1)
    BY <1>5, <1>10, <2>3 DEF ShortValue
  <2>6. CASE At < Len(Tok)
    <3>1. PICK v, errs : v = Word /\ errs = errors
      OBVIOUS
    <3>2. q = Add(p, Given(e, v, FALSE)) /\ Take(e, v, errs)
      BY <1>2, <2>4, <2>5, <2>6, <3>1
    <3>3. e \in Entries
          /\ errs = IF FALSE /\ e \notin Flags THEN MissingIfEmpty(v) ELSE errors
      BY <2>1, <2>3, <3>1
    <3>4. Agrees(q, q.mode \notin Entries)'
      BY <1>6, <2>2, <3>2, <3>3, GivenAgrees
    <3>5. place' = 0 /\ optind' - 1 = optind
      BY <1>2, <1>3, <2>5, <2>6 DEF Leave
    <3> QED BY <2>3, <3>4, <3>5, AgreesNext
  <2>7. CASE At = Len(Tok)
    <3>1. acc[optind] = [p EXCEPT !.mode = e, !.long = FALSE]
      <4>1. ~ At < Len(Tok)
        BY <1>2, <2>7
      <4> QED BY <2>3, <2>4, <4>1, Zenon
    <3>2. \/ /\ optind < N /\ Leave(optind + 2)
             /\ Take(e, Token(optind + 1),
                     IF FALSE THEN MissingIfEmpty(Token(optind + 1)) ELSE errors)
          \/ optind = N /\ Report("EMISSARG") /\ Leave(optind + 1)
      BY <1>2, <2>5, <2>7
    <3>3. e \in Entries \ Flags /\ FALSE \in BOOLEAN
      BY <2>1, <2>3
    <3> QED BY <1>2, <1>6, <2>2, <3>1, <3>2, <3>3, ValueAgrees
  <2> QED BY <1>2, <2>6, <2>7
<1> QED BY <1>7, <1>8, <1>9, <1>10

LEMMA MalformedAgrees ==
  ASSUME NEW acc, Scans(acc), MalformedDash, line' = line
  PROVE  AgreesTagged(acc)'
<1>1. /\ InOption /\ place # 0 /\ Symbol = "-" /\ At = Len(Tok)
      /\ UNCHANGED <<argv, optind>>
  BY DEF MalformedDash, Leave
<1>2. /\ At \in 2 .. Len(Tok) /\ Len(Tok) \in Nat /\ optind <= N /\ ~ IsOperand(Tok)
      /\ \A j \in 2 .. At - 1 : ~ Decides(Tok[j])
  BY <1>1, Inside
<1>3. Tok \in Text
  BY <1>2, Here
<1>4. Deciding(Tok) = At
  BY <1>1, <1>2, <1>3, ItDecides DEF Symbol, Decides
<1>5. ~ EndsOptions(Tok)
  <2>1. At > 2
    BY <1>1, <1>2 DEF Scans, OrderTagged, InToken, At
  <2>2. Len(Tok) # 2
    BY <1>1, <1>2, <2>1
  <2> QED BY <2>2 DEF EndsOptions
<1>6. PICK t : t = Tok
  OBVIOUS
<1>7. Endless(t) /\ Tok' = t /\ N' = N /\ optind' = optind
  BY <1>1, <1>2, <1>4, <1>5, <1>6 DEF Endless, Symbol, Tok, Token, N
<1> QED BY <1>2, <1>7 DEF AgreesTagged

LEMMA OperandIs ==
  ASSUME NEW p \in Readings, NEW t, NEW i,
         p.mode = "rest" \/ (p.mode = "free" /\ IsOperand(t))
  PROVE  Kept(ReadToken(p, t, i), p) /\ ReadToken(p, t, i).mode = p.mode
<1> DEFINE q == ReadToken(p, t, i)
<1>1. q = CASE p.mode \in Entries ->
                 [Add(p, Given(p.mode, t, p.long)) EXCEPT !.mode = "free"]
            [] p.mode = "rest" \/ (p.mode = "free" /\ IsOperand(t)) ->
                 [p EXCEPT !.operands = Append(p.operands, i)]
            [] p.mode = "free" /\ EndsOptions(t) -> [p EXCEPT !.mode = "rest"]
            [] OTHER -> ReadCluster(p, t)
  BY DEF ReadToken
<1>2. EndsOptions(t) => ~ IsOperand(t)
  BY DEF EndsOptions, IsOperand
<1>3. p.mode \notin Entries /\ "free" # "rest"
  BY EntriesAre
<1> HIDE DEF q
<1>4. q = [p EXCEPT !.operands = Append(p.operands, i)]
  BY <1>1, <1>2, <1>3
<1> QED BY <1>4 DEF Kept, Readings, q

LEMMA SkippedAgrees ==
  ASSUME NEW acc, Scans(acc), SkipOperand, line' = line, AgreesTagged(acc)
  PROVE  AgreesTagged(acc)'
<1>1. /\ optind <= N /\ place = 0 /\ IsOperand(Tok) /\ place' = 0 /\ optind' = optind + 1
      /\ got' = got /\ errors' = errors
  BY DEF SkipOperand, Scanning
<1>2. /\ N \in Nat /\ optind \in 1 .. N /\ acc[optind - 1] \in Readings /\ Tok = line[optind]
      /\ acc[optind - 1].mode = "free"
  BY <1>1, Here
<1>3. PICK p, q : p = acc[optind - 1] /\ q = acc[optind]
  OBVIOUS
<1>4. q = ReadToken(p, Tok, optind) /\ p \in Readings /\ p.mode = "free"
  BY <1>2, <1>3 DEF Scans, Reads, N
<1>5. Kept(q, p) /\ q.mode = "free"
  BY <1>1, <1>4, OperandIs
<1>6. Agrees(p, p.mode \notin Entries)
  BY <1>1, <1>3 DEF AgreesTagged, Endless, SoFar
<1>7. Agrees(q, q.mode \notin Entries)
  <2>1. p.mode = "free"
    BY <1>2, <1>3
  <2> QED BY <1>5, <1>6, <2>1, KeptTexts DEF Agrees
<1>8. Agrees(q, q.mode \notin Entries)'
  BY <1>1, <1>7 DEF Agrees, Matches
<1>9. optind' - 1 = optind
  BY <1>1, <1>2
<1> QED BY <1>1, <1>3, <1>8, <1>9, AgreesNext

(* Behind "--" there are only operands.                                    *)
LEMMA RestKept ==
  ASSUME NEW acc, Scans(acc), NEW k \in 1 .. N, acc[k].mode = "rest"
  PROVE  acc[N].mode = "rest" /\ Kept(acc[N], acc[k])
<1>1. N \in Nat /\ N = Len(line) /\ line \in Seq(Text)
  BY Tokens DEF Scans, ArgvInv, N, Text
<1> DEFINE P == {j \in k .. N : acc[j].mode = "rest" /\ Kept(acc[j], acc[k])}
<1>2. k \in P
  BY <1>1 DEF Kept
<1>3. ASSUME NEW j \in k + 1 .. N, j - 1 \in P PROVE j \in P
  <2>1. j \in 1 .. N /\ j \in k .. N /\ j - 1 \in 0 .. N
    BY <1>1
  <2>2. /\ acc[j - 1] \in Readings /\ acc[j] = ReadToken(acc[j - 1], line[j], j)
        /\ acc[j - 1].mode = "rest" /\ Kept(acc[j - 1], acc[k])
    BY <1>1, <1>3, <2>1 DEF Scans, Reads
  <2>3. Kept(acc[j], acc[j - 1]) /\ acc[j].mode = "rest"
    BY <2>2, OperandIs
  <2> QED BY <2>1, <2>2, <2>3 DEF Kept
<1>4. k .. N \subseteq P
  <2> HIDE DEF P
  <2>1. k \in Int /\ N \in Int
    BY <1>1
  <2> QED BY <1>2, <1>3, <2>1, Upwards
<1> QED BY <1>1, <1>4

(* When the scan is over, everything behind optind is an operand of the    *)
(* reading, and in error.                                                  *)
Operands == N + 1 - Len(Reading.operands)

AgreesUntagged ==
  /\ optind \in Operands .. N + 1
  /\ Agrees(Reading, Reading.mode \notin Entries /\ optind = Operands)

LEMMA ScannedAgrees ==
  ASSUME NEW acc, Scans(acc), line' = line, AgreesTagged(acc), EndOfArgv \/ DoubleDash
  PROVE  AgreesUntagged'
<1>1. N \in Nat /\ N = Len(line) /\ N' = N /\ Reading' = Reading /\ acc[N] = Reading
      /\ Operands' = Operands /\ acc[N] \in Readings
  <2>1. N \in Nat /\ N = Len(line) /\ N' = N /\ Reading' = Reading
    BY Tokens DEF Scans, N, Reading
  <2> QED BY <2>1 DEF Scans, Reads, Reading, Operands
<1>2. optind' = Operands /\ optind' \in Operands .. N + 1
      /\ got' = got /\ errors' = errors
  <2>1. optind' = N + 1 - Len(acc[N].operands)
    BY EndInOrder, DashesInOrder
  <2>2. Len(acc[N].operands) \in Nat
    BY <1>1, LenProperties DEF Readings
  <2>3. got' = got /\ errors' = errors
    BY DEF EndOfArgv, DoubleDash, Finish
  <2>4. Operands = N + 1 - Len(acc[N].operands)
    BY <1>1 DEF Operands
  <2>5. N + 1 - Len(acc[N].operands) \in N + 1 - Len(acc[N].operands) .. N + 1
    <3>1. \A m, n \in Nat : n + 1 - m \in n + 1 - m .. n + 1
      OBVIOUS
    <3> QED BY <1>1, <2>2, <3>1
  <2> QED BY <2>1, <2>3, <2>4, <2>5
<1>3. PICK p, q : p = SoFar(acc) /\ q = acc[N]
  OBVIOUS
<1>4. Agrees(q, q.mode \notin Entries)
  <2>1. CASE EndOfArgv
    <3>1. optind = N + 1 /\ optind - 1 = N
      BY <1>1, <2>1 DEF EndOfArgv, Scans, ScanInv
    <3>2. place = 0
      BY <1>1, <3>1 DEF Scans, ScanInv
    <3> QED BY <1>1, <1>3, <3>1, <3>2 DEF AgreesTagged, SoFar
  <2>2. CASE DoubleDash
    <3>1. /\ optind <= N /\ place = 0 /\ EndsOptions(Tok) /\ ~ IsOperand(Tok)
      BY <2>2 DEF DoubleDash, Scanning, EndsOptions, IsOperand
    <3>2. /\ optind \in 1 .. N /\ acc[optind - 1] \in Readings /\ Tok = line[optind]
          /\ acc[optind - 1].mode = "free" /\ p = acc[optind - 1]
      BY <1>3, <3>1, Here DEF SoFar
    <3>3. Agrees(p, p.mode \notin Entries)
      BY <1>3, <3>1 DEF AgreesTagged, Endless
    <3>4. acc[optind] = ReadToken(p, Tok, optind)
      BY <1>1, <3>2 DEF Scans, Reads
    <3>5. acc[optind] = [p EXCEPT !.mode = "rest"]
      <4>1. p.mode = "free" /\ p.mode \notin Entries /\ "free" # "rest"
        BY <3>2, EntriesAre
      <4> QED BY <3>1, <3>4, <4>1 DEF ReadToken
    <3>6. acc[optind].mode = "rest" /\ Kept(acc[optind], p)
      BY <3>2, <3>5 DEF Kept, Readings
    <3>7. q.mode = "rest" /\ Kept(q, p)
      BY <1>3, <3>2, <3>6, RestKept DEF Kept
    <3>8. p.mode \notin Entries /\ q.mode \notin Entries
      BY <3>2, <3>7, EntriesAre
    <3> QED BY <3>3, <3>7, <3>8, KeptTexts DEF Agrees
  <2> QED BY <2>1, <2>2
<1>5. Agrees(q, q.mode \notin Entries)'
  BY <1>2, <1>4 DEF Agrees, Matches
<1>6. Agrees(q, q.mode \notin Entries /\ optind = Operands)'
  BY <1>1, <1>2, <1>5 DEF Agrees
<1>7. Reading' = q
  BY <1>1, <1>3
<1> QED BY <1>1, <1>2, <1>6, <1>7 DEF AgreesUntagged

(* arg_parse_check() finds what is missing.                                *)
Required(r) == \A e \in {"uid", "mnt", "cmd"} : TextOf(r, e) # {}

LEMMA RequiredAre ==
  ASSUME NEW counts, \A e \in Entries : counts[e] \in Nat
  PROVE  Missed(counts) = {} <=> \A e \in {"uid", "mnt", "cmd"} : counts[e] # 0
<1>1. DOMAIN argtable = 1 .. 13
  BY Table
<1>2. \A i \in 1 .. 13 : counts[argtable[i].long] \in Nat
  BY <1>1 DEF Entries
<1>3. /\ argtable[3].long = "uid" /\ argtable[4].long = "mnt" /\ argtable[5].long = "cmd"
  BY Table DEF Row
<1>4. \A i \in 1 .. 13 : argtable[i].mincount = IF i \in 3 .. 5 THEN 1 ELSE 0
  BY MinCounts
<1>5. Missed(counts) = {i \in 1 .. 13 : counts[argtable[i].long] < argtable[i].mincount}
  BY <1>1 DEF Missed
<1>6. Missed(counts) = {i \in 3 .. 5 : counts[argtable[i].long] = 0}
  BY <1>2, <1>4, <1>5
<1>7. 3 .. 5 = {3, 4, 5}
  OBVIOUS
<1> QED BY <1>3, <1>6, <1>7

LEMMA FormIs ==
  ASSUME NEW r
  PROVE  WellFormed(r) <=> /\ Fine(r) /\ r.mode \notin Entries /\ r.operands = <<>>
                           /\ Required(r)
<1>1. Required(r) <=> \A e \in {"uid", "mnt", "cmd"} :
                        \E i \in DOMAIN r.opts : r.opts[i].entry = e
  BY DEF Required, TextOf
<1>2. Fine(r) <=>
        /\ ~ r.bad
        /\ \A i, j \in DOMAIN r.opts : r.opts[i].entry = r.opts[j].entry => i = j
        /\ \A i \in DOMAIN r.opts :
             LET o == r.opts[i] IN
             /\ o.long /\ o.entry \notin Flags => o.value # <<>>
             /\ o.entry = "uid" =>
                  /\ o.value \in DOMAIN Numerals
                  /\ Numerals[o.value].suffix \in DOMAIN Scale
                  /\ Meaning(o.value) \in - (IntMax + 1) .. IntMax
  BY DEF Fine, Valid, Readable
<1> QED BY <1>1, <1>2 DEF WellFormed

AgreesChecked(r) ==
  (errors = <<>> <=> WellFormed(r)) /\ (errors = <<>> => Matches(r))

LEMMA CheckedAgrees ==
  ASSUME IInv, arg_parse_check, NEW r,
         Agrees(r, r.mode \notin Entries /\ r.operands = <<>>)
  PROVE  AgreesChecked(r)'
<1> DEFINE counts == [e \in Entries |-> Len(got[e])]
           k == Cardinality(Missed(counts))
<1>1. /\ errors' = IF errors # <<>> THEN errors ELSE MissingErrors(k)
      /\ got' = got
  BY DEF arg_parse_check
<1>2. k \in Nat /\ (k = 0 <=> Missed(counts) = {})
  <2> HIDE DEF counts
  <2> QED BY MissedAreFinite
<1>3. MissingErrors(k) = <<>> <=> k = 0
  <2> HIDE DEF k
  <2> QED BY <1>2, CheckStores
<1>4. errors = <<>> => (Missed(counts) = {} <=> Required(r))
  <2> SUFFICES ASSUME errors = <<>> PROVE Missed(counts) = {} <=> Required(r)
    OBVIOUS
  <2>1. Matches(r)
    BY DEF Agrees
  <2>2. \A e \in Entries : counts[e] = IF TextOf(r, e) = {} THEN 0 ELSE 1
    <3> TAKE e \in Entries
    <3>1. CASE TextOf(r, e) = {}
      BY <2>1, <3>1 DEF Matches
    <3>2. CASE TextOf(r, e) # {}
      <4>1. PICK v : got[e] = <<Value(e, v)>>
        BY <2>1, <3>2 DEF Matches
      <4> QED BY <3>2, <4>1
    <3> QED BY <3>1, <3>2
  <2>3. \A e \in {"uid", "mnt", "cmd"} : e \in Entries
    BY Table DEF Row, Entries
  <2> HIDE DEF counts
  <2>4. Missed(counts) = {} <=> \A e \in {"uid", "mnt", "cmd"} : counts[e] # 0
    BY <2>2, RequiredAre
  <2> QED BY <2>2, <2>3, <2>4 DEF Required
<1> HIDE DEF k, counts
<1>5. errors' = <<>> <=> WellFormed(r)
  BY <1>1, <1>2, <1>3, <1>4, FormIs DEF Agrees
<1>6. errors' = <<>> => Matches(r)'
  BY <1>1 DEF Agrees, Matches
<1> QED BY <1>5, <1>6 DEF AgreesChecked

LEMMA Names ==
  {"uid", "help", "dns", "veth", "container-ip"} \cup NetOptions \subseteq Entries
BY Table DEF Row, Entries, NetOptions

(* What the errors and values of every phase have to do with the reading.  *)
StoredInv(acc) ==
  /\ phase = "tagged" => AgreesTagged(acc)
  /\ phase = "untagged" => AgreesUntagged
  /\ phase = "check" =>
       Agrees(Reading, Reading.mode \notin Entries /\ Reading.operands = <<>>)
  /\ phase = "main" => AgreesChecked(Reading)
  /\ phase = "done" => AcceptedAsWritten /\ ValueExact
  /\ phase # "done" => outcome = "none"

LEMMA MainAgrees ==
  ASSUME line' = line, main, AgreesChecked(Reading)
  PROVE  AcceptedAsWritten' /\ ValueExact'
<1>1. PICK r : r = Reading
  OBVIOUS
<1>2. Reading' = r
  BY <1>1 DEF Reading
<1>3. /\ outcome' = IF errors # <<>> THEN "refused"
                    ELSE IF got["help"] # <<>> THEN "usage" ELSE "run"
      /\ outcome' = "run" => config' = Filled
  BY DEF main
<1>4. (errors = <<>> <=> WellFormed(r)) /\ (errors = <<>> => Matches(r))
  BY <1>1 DEF AgreesChecked
<1>5. errors = <<>> => \A e \in Entries :
        /\ got[e] = <<>> <=> TextOf(r, e) = {}
        /\ ToSet(got[e]) = {Value(e, v) : v \in TextOf(r, e)}
  <2> SUFFICES ASSUME Matches(r), NEW e \in Entries
               PROVE  /\ got[e] = <<>> <=> TextOf(r, e) = {}
                      /\ ToSet(got[e]) = {Value(e, v) : v \in TextOf(r, e)}
    BY <1>4
  <2>1. CASE TextOf(r, e) = {}
    BY <2>1 DEF Matches, ToSet
  <2>2. CASE TextOf(r, e) # {}
    <3>1. PICK v : TextOf(r, e) = {v} /\ got[e] = <<Value(e, v)>>
      BY <2>2 DEF Matches
    <3>2. ToSet(<<Value(e, v)>>) = {Value(e, v)}
      BY DEF ToSet
    <3> QED BY <3>1, <3>2
  <2> QED BY <2>1, <2>2
<1>6. errors = <<>> => \A e \in Entries : e # "uid" => ToSet(got[e]) = TextOf(r, e)
  BY <1>5 DEF Value
<1> DEFINE net == TextOf(r, "veth") # {} /\ TextOf(r, "container-ip") # {}
           Expected(e) == IF e \in NetOptions /\ ~ net THEN {}
                          ELSE IF e = "dns" /\ TextOf(r, e) = {} THEN {DefaultDns}
                          ELSE TextOf(r, e)
<1>7. errors = <<>> => (WithNetwork <=> net)
  BY <1>5, Names DEF WithNetwork
<1>8. ASSUME outcome' = "run"
      PROVE  /\ \A e \in DOMAIN config' \ {"uid"} : ToSet(config'[e]) = Expected(e)
             /\ ToSet(config'["uid"]) = {Meaning(v) : v \in TextOf(r, "uid")}
  <2>1. errors = <<>> /\ config' = Filled
    BY <1>3, <1>8
  <2>2. /\ DOMAIN config' = Entries \ {"help", "version", "verbosity"}
        /\ \A e \in DOMAIN config' :
             config'[e] = IF e \in NetOptions /\ ~ net THEN <<>>
                          ELSE IF e = "dns" /\ got[e] = <<>> THEN <<DefaultDns>>
                          ELSE got[e]
    BY <1>7, <2>1 DEF Filled
  <2>3. ASSUME NEW e \in DOMAIN config' \ {"uid"} PROVE ToSet(config'[e]) = Expected(e)
    <3> HIDE DEF net
    <3>1. e \in Entries /\ e # "uid"
      BY <2>2
    <3>2. (got[e] = <<>> <=> TextOf(r, e) = {}) /\ ToSet(got[e]) = TextOf(r, e)
      BY <1>5, <1>6, <2>1, <3>1
    <3>3. ToSet(<<DefaultDns>>) = {DefaultDns} /\ ToSet(<<>>) = {}
      BY DEF ToSet
    <3> QED BY <2>2, <3>2, <3>3
  <2>4. "uid" \in DOMAIN config' /\ "uid" \notin NetOptions /\ "uid" # "dns"
    BY <2>2, Names DEF NetOptions
  <2>5. config'["uid"] = got["uid"]
    BY <2>2, <2>4
  <2>6. ToSet(got["uid"]) = {Value("uid", v) : v \in TextOf(r, "uid")}
    BY <1>5, <2>1, Names
  <2> QED BY <2>3, <2>5, <2>6 DEF Value
<1>9. outcome' # "refused" <=> WellFormed(r)
  BY <1>3, <1>4
<1>10. outcome' = "usage" <=> WellFormed(r) /\ TextOf(r, "help") # {}
  BY <1>3, <1>4, <1>5, Names
<1>11. AcceptedAsWritten'
  BY <1>2, <1>8, <1>9, <1>10 DEF AcceptedAsWritten
<1>12. ValueExact'
  BY <1>2, <1>8 DEF ValueExact
<1> QED BY <1>11, <1>12

LEMMA UntaggedAgrees ==
  ASSUME IInv, arg_parse_untagged, line' = line, AgreesUntagged
  PROVE  IF phase' = "untagged" THEN AgreesUntagged'
         ELSE phase' = "check"
              /\ Agrees(Reading, Reading.mode \notin Entries /\ Reading.operands = <<>>)'
<1>1. PICK r, m : r = Reading /\ m = Operands
  OBVIOUS
<1>2. N' = N /\ Reading' = r /\ Operands' = m /\ N \in Nat /\ r \in Readings
  <2>1. N' = N /\ Reading' = Reading /\ N \in Nat
    BY Tokens DEF N, Reading, IInv
  <2>2. Reading \in Readings
    <3>1. line \in Seq(Text) /\ N = Len(line)
      BY DEF IInv, ArgvInv, Text, N
    <3>2. PICK acc : Reads(acc, line)
      BY <3>1, ReadingRuns
    <3> QED BY <2>1, <3>1, <3>2 DEF Reads, Reading
  <2> QED BY <1>1, <2>1, <2>2 DEF Operands
<1>3. m = N + 1 - Len(r.operands) /\ r.operands \in Seq(Nat) /\ Len(r.operands) \in Nat
  BY <1>1, <1>2, LenProperties DEF Operands, Readings
<1>4. optind \in m .. N + 1 /\ Agrees(r, r.mode \notin Entries /\ optind = m)
  BY <1>1 DEF AgreesUntagged
<1> DEFINE len == Len(r.operands)
<1>5. m \in Int /\ optind \in Int /\ m <= optind /\ optind <= N + 1 /\ len \in Nat
      /\ m = N + 1 - len
  <2> HIDE DEF len
  <2>1. m \in Int
    <3>1. m = N + 1 - len /\ len \in Nat
      BY <1>3 DEF len
    <3> QED BY <1>2, <3>1
  <2>2. optind \in m .. N + 1 /\ N + 1 \in Int
    BY <1>2, <1>4
  <2>3. optind \in Int /\ m <= optind /\ optind <= N + 1
    BY <2>1, <2>2
  <2> QED BY <1>3, <2>1, <2>3 DEF len
<1> HIDE DEF len
<1>6. CASE optind <= N
  <2>1. Report("ENOMATCH") /\ optind' = optind + 1 /\ phase' = "untagged"
    BY <1>6 DEF arg_parse_untagged
  <2>2. errors' # <<>>
    BY <2>1, ErrorStays DEF Report, IInv, ResultInv
  <2>3. optind' \in m .. N + 1 /\ optind' # m
    BY <1>2, <1>6, <1>5, <2>1
  <2>4. Agrees(r, r.mode \notin Entries /\ optind = m)'
    BY <2>2, <2>3 DEF Agrees
  <2>5. AgreesUntagged'
    BY <1>2, <2>3, <2>4 DEF AgreesUntagged
  <2> QED BY <2>1, <2>5
<1>7. CASE ~ optind <= N
  <2>1. phase' = "check" /\ got' = got /\ errors' = errors
    BY <1>7 DEF arg_parse_untagged
  <2>2. optind = m <=> r.operands = <<>>
    <3>1. optind = N + 1
      BY <1>2, <1>7, <1>5
    <3>2. optind = m <=> len = 0
      BY <1>2, <1>5, <3>1
    <3> QED BY <1>3, <3>2, EmptySeq DEF len
  <2>3. Agrees(r, r.mode \notin Entries /\ r.operands = <<>>)
    BY <1>4, <2>2 DEF Agrees
  <2>4. Agrees(r, r.mode \notin Entries /\ r.operands = <<>>)'
    BY <2>1, <2>3 DEF Agrees, Matches
  <2>5. Agrees(Reading, Reading.mode \notin Entries /\ Reading.operands = <<>>)'
    BY <1>2, <2>4
  <2> QED BY <2>1, <2>5
<1> QED BY <1>6, <1>7

(* All of it together.                                                     *)
Agreed == \E acc : Reads(acc, line) /\ OrderInv(acc) /\ StoredInv(acc)

LEMMA InitAgreed == Init => Agreed
<1> SUFFICES ASSUME Init PROVE Agreed
  OBVIOUS
<1>1. PICK acc : Reads(acc, line) /\ OrderInv(acc)
  BY InitOrdered DEF Ordered
<1>2. /\ optind = 1 /\ place = 0 /\ phase = "tagged" /\ errors = <<>> /\ outcome = "none"
      /\ got = [e \in Entries |-> <<>>]
  BY DEF Init
<1>3. SoFar(acc) = Unread
  <2>1. optind - 1 = 0
    BY <1>2
  <2> QED BY <1>1, <1>2, <2>1 DEF SoFar, Reads
<1>4. Fine(Unread) /\ Unread.mode \notin Entries /\ Matches(Unread)
  <2>1. Unread.opts = <<>> /\ ~ Unread.bad /\ Unread.mode = "free"
    BY DEF Unread
  <2>2. \A e : TextOf(Unread, e) = {}
    BY <2>1 DEF TextOf
  <2> QED BY <1>2, <2>1, <2>2, EntriesAre DEF Fine, Matches
<1>5. AgreesTagged(acc)
  BY <1>2, <1>3, <1>4 DEF AgreesTagged, Agrees
<1> QED BY <1>1, <1>2, <1>5 DEF Agreed, StoredInv

LEMMA NextAgreed == IInv /\ Agreed /\ [Next]_vars => Agreed'
<1> SUFFICES ASSUME IInv, Agreed, [Next]_vars PROVE Agreed'
  OBVIOUS
<1>1. PICK acc : Reads(acc, line) /\ OrderInv(acc) /\ StoredInv(acc)
  BY DEF Agreed
<1>2. line' = line
  BY DEF Next, arg_parse_tagged, arg_parse_untagged, arg_parse_check, main, vars
<1>3. OrderInv(acc)'
  BY <1>1, NextInOrder
<1> SUFFICES StoredInv(acc)'
  BY <1>1, <1>2, <1>3 DEF Agreed
<1>4. CASE arg_parse_tagged
  <2>1. phase = "tagged" /\ outcome' = outcome
    BY <1>4 DEF arg_parse_tagged, EndOfArgv, DoubleDash, SkipOperand, LongUnknown,
       LongFlag, LongValue, Long, MalformedDash, ShortUnknown, ShortFlag, ShortValue,
       Short, InOption, Scanning
  <2>2. Scans(acc) /\ ResultInv /\ AgreesTagged(acc) /\ outcome = "none"
    BY <1>1, <2>1 DEF Scans, IInv, OrderInv, StoredInv
  <2>3. CASE EndOfArgv \/ DoubleDash
    <3>1. AgreesUntagged'
      BY <1>2, <2>2, <2>3, ScannedAgrees
    <3>2. phase' = "untagged"
      BY <2>3 DEF EndOfArgv, DoubleDash, Finish
    <3> QED BY <2>1, <2>2, <3>1, <3>2 DEF StoredInv
  <2>4. CASE ~ (EndOfArgv \/ DoubleDash)
    <3>1. \/ SkipOperand \/ LongUnknown \/ LongFlag \/ LongValue \/ MalformedDash
          \/ ShortUnknown \/ ShortFlag \/ ShortValue
      BY <1>4, <2>4 DEF arg_parse_tagged
    <3>2. AgreesTagged(acc)'
      BY <1>2, <2>2, <3>1, SkippedAgrees, LongAgrees, MalformedAgrees, ShortAgrees
    <3>3. phase' = phase
      BY <3>1 DEF SkipOperand, LongUnknown, LongFlag, LongValue, MalformedDash,
         ShortUnknown, ShortFlag, ShortValue, Advance, Leave
    <3> QED BY <2>1, <2>2, <3>2, <3>3 DEF StoredInv
  <2> QED BY <2>3, <2>4
<1>5. CASE arg_parse_untagged
  <2>1. phase = "untagged" /\ outcome' = outcome /\ phase' \in {"untagged", "check"}
    BY <1>5 DEF arg_parse_untagged
  <2>2. AgreesUntagged /\ outcome = "none"
    BY <1>1, <2>1 DEF StoredInv
  <2>3. IF phase' = "untagged" THEN AgreesUntagged'
        ELSE phase' = "check"
             /\ Agrees(Reading, Reading.mode \notin Entries /\ Reading.operands = <<>>)'
    BY <1>2, <1>5, <2>2, UntaggedAgrees
  <2> QED BY <2>1, <2>2, <2>3 DEF StoredInv
<1>6. CASE arg_parse_check
  <2>1. phase = "check" /\ outcome' = outcome /\ phase' = "main"
    BY <1>6 DEF arg_parse_check
  <2>2. PICK r : r = Reading
    OBVIOUS
  <2>3. Agrees(r, r.mode \notin Entries /\ r.operands = <<>>) /\ outcome = "none"
    BY <1>1, <2>1, <2>2 DEF StoredInv
  <2>4. AgreesChecked(r)'
    BY <1>6, <2>3, CheckedAgrees
  <2>5. Reading' = r
    BY <1>2, <2>2 DEF Reading
  <2>6. AgreesChecked(Reading)'
    BY <2>4, <2>5
  <2> QED BY <2>1, <2>3, <2>6 DEF StoredInv
<1>7. CASE main
  <2>1. phase = "main" /\ phase' = "done"
    BY <1>7 DEF main
  <2>2. AcceptedAsWritten' /\ ValueExact'
    BY <1>1, <1>2, <1>7, <2>1, MainAgrees DEF StoredInv
  <2> QED BY <2>1, <2>2 DEF StoredInv
<1>8. CASE UNCHANGED vars
  <2>1. /\ line' = line /\ argv' = argv /\ optind' = optind /\ place' = place
        /\ phase' = phase /\ got' = got /\ errors' = errors /\ outcome' = outcome
        /\ config' = config
    BY <1>8 DEF vars, scanning
  <2>2. N' = N /\ Tok' = Tok /\ Reading' = Reading
    BY <2>1 DEF N, Tok, Token, Reading
  <2>3. /\ AgreesTagged(acc)' <=> AgreesTagged(acc)
        /\ AgreesUntagged' <=> AgreesUntagged
    BY <2>1, <2>2 DEF AgreesTagged, AgreesUntagged, Agrees, Matches, SoFar, Operands
  <2>4. AgreesChecked(Reading)' <=> AgreesChecked(Reading)
    BY <2>1, <2>2 DEF AgreesChecked, Matches
  <2>5. Agrees(Reading, Reading.mode \notin Entries /\ Reading.operands = <<>>)'
        <=> Agrees(Reading, Reading.mode \notin Entries /\ Reading.operands = <<>>)
    BY <2>1, <2>2 DEF Agrees, Matches
  <2>6. /\ AcceptedAsWritten' <=> AcceptedAsWritten
        /\ ValueExact' <=> ValueExact
    BY <2>1, <2>2 DEF AcceptedAsWritten, ValueExact
  <2> QED BY <1>1, <2>1, <2>3, <2>4, <2>5, <2>6 DEF StoredInv
<1> QED BY <1>4, <1>5, <1>6, <1>7, <1>8 DEF Next

(* main() goes on, or shows the help, exactly when the line is well formed *)
(* by the reading, and goes on with what was written: whatever a prefix,   *)
(* a cluster or an "=" made of an option, however often it was repeated    *)
(* and whatever getopt_internal() moved before it came to it.              *)
THEOREM LinesMeanWhatTheySay == Spec => []AcceptedAsWritten
<1>1. Init => IInv /\ Agreed
  BY InitGood, InitAgreed
<1>2. IInv /\ Agreed /\ [Next]_vars => (IInv /\ Agreed)'
  BY NextGood, NextAgreed
<1>3. Agreed => AcceptedAsWritten
  BY DEF Agreed, StoredInv, AcceptedAsWritten
<1> QED BY <1>1, <1>2, <1>3, PTL DEF Spec

(* The id of a run is the number that was written, times its suffix: what  *)
(* arg_int_scanfn() lets pass does not wrap in the product or the cast.    *)
THEOREM IdsAreExact == Spec => []ValueExact
<1>1. Init => IInv /\ Agreed
  BY InitGood, InitAgreed
<1>2. IInv /\ Agreed /\ [Next]_vars => (IInv /\ Agreed)'
  BY NextGood, NextAgreed
<1>3. Agreed => ValueExact
  BY DEF Agreed, StoredInv, ValueExact
<1> QED BY <1>1, <1>2, <1>3, PTL DEF Spec
-----------------------------------------------------------------------------
(* Lines with a cluster that a dash ends: what the reading says of them is *)
(* what getopt_internal() meets.                                           *)
LEMMA LettersKeep ==
  ASSUME NEW r \in Readings, NEW t \in Text, NEW stop \in 2 .. Len(t) + 1
  PROVE  ReadLetters(r, t, stop).endless = r.endless
<1> DEFINE k == stop - 2
<1>1. k \in Int /\ 0 <= k /\ 0 \in Int
  BY LenProperties DEF Text
<1>2. PICK f : LetterRun(f, r, t, k) /\ ReadLetters(r, t, stop) = f[k]
  BY LettersRun
<1> HIDE DEF k
<1> DEFINE P == {i \in 0 .. k : f[i] \in Readings /\ f[i].endless = r.endless}
<1>3. 0 \in P
  BY <1>1, <1>2 DEF LetterRun
<1>4. ASSUME NEW i \in 0 + 1 .. k, i - 1 \in P PROVE i \in P
  <2> DEFINE q == f[i - 1]
  <2>1. i \in 1 .. k /\ i \in 0 .. k /\ f[i] = ReadLetter(q, t[i + 1])
    BY <1>1, <1>2 DEF LetterRun
  <2>2. q \in Readings /\ q.endless = r.endless
    BY <1>4
  <2> HIDE DEF q
  <2>3. ReadLetter(q, t[i + 1]) \in Readings
    BY <2>2, LetterRead
  <2>4. ReadLetter(q, t[i + 1]).endless = q.endless
    BY <2>2 DEF ReadLetter, Add, Readings
  <2> QED BY <2>1, <2>2, <2>3, <2>4
<1>5. 0 .. k \subseteq P
  <2> HIDE DEF P
  <2> QED BY <1>1, <1>3, <1>4, Upwards
<1> QED BY <1>1, <1>2, <1>5

LEMMA EndlessRead ==
  ASSUME NEW r \in Readings, NEW t \in Text, NEW i
  PROVE  ReadToken(r, t, i).endless <=> r.endless \/ (r.mode = "free" /\ Endless(t))
<1> DEFINE q == ReadToken(r, t, i)
<1>1. q = CASE r.mode \in Entries ->
                 [Add(r, Given(r.mode, t, r.long)) EXCEPT !.mode = "free"]
            [] r.mode = "rest" \/ (r.mode = "free" /\ IsOperand(t)) ->
                 [r EXCEPT !.operands = Append(r.operands, i)]
            [] r.mode = "free" /\ EndsOptions(t) -> [r EXCEPT !.mode = "rest"]
            [] OTHER -> ReadCluster(r, t)
  BY DEF ReadToken
<1>2. "free" \notin Entries /\ "rest" \notin Entries /\ "free" # "rest"
  BY EntriesAre
<1>3. EndsOptions(t) => ~ IsOperand(t)
  BY DEF EndsOptions, IsOperand
<1>4. r.mode \in Entries \cup {"free", "rest"} /\ r.endless \in BOOLEAN
  BY DEF Readings
<1> HIDE DEF q
<1>5. CASE r.mode \in Entries
  <2>1. q = [Add(r, Given(r.mode, t, r.long)) EXCEPT !.mode = "free"]
    BY <1>1, <1>2, <1>5
  <2>2. q.endless = r.endless
    BY <2>1 DEF Add, Readings
  <2> QED BY <1>2, <1>5, <2>2 DEF q
<1>6. CASE r.mode = "rest" \/ (r.mode = "free" /\ IsOperand(t))
  <2>1. q = [r EXCEPT !.operands = Append(r.operands, i)]
    BY <1>1, <1>2, <1>3, <1>6
  <2>2. q.endless = r.endless
    BY <2>1 DEF Readings
  <2> QED BY <1>2, <1>6, <2>2 DEF q, Endless
<1>7. CASE r.mode = "free" /\ EndsOptions(t)
  <2>1. q = [r EXCEPT !.mode = "rest"]
    BY <1>1, <1>2, <1>3, <1>7
  <2>2. q.endless = r.endless
    BY <2>1 DEF Readings
  <2> QED BY <1>7, <2>2 DEF q, Endless
<1>8. CASE r.mode = "free" /\ ~ IsOperand(t) /\ ~ EndsOptions(t)
  <2> DEFINE stop == Deciding(t)
             p == ReadLetters(r, t, stop)
  <2>1. q = ReadCluster(r, t)
    BY <1>1, <1>2, <1>8
  <2>2. q = ReadDeciding(p, t, stop)
    BY <2>1 DEF ReadCluster
  <2>3. Len(t) \in Nat /\ Len(t) # 0
    BY <1>8, LenProperties DEF IsOperand, Text
  <2>4. stop \in 2 .. Len(t) + 1
    BY <2>3, SomethingDecides
  <2> HIDE DEF stop
  <2>5. p \in Readings /\ p.endless = r.endless
    BY <2>4, LettersKeep, LettersRead
  <2> HIDE DEF p
  <2>6. Endless(t) <=> stop = Len(t) /\ t[stop] = "-"
    BY <1>8 DEF Endless, stop
  <2>7. q = IF stop > Len(t) THEN p
            ELSE IF t[stop] = "-" /\ stop = Len(t) THEN [p EXCEPT !.endless = TRUE]
            ELSE IF t[stop] = "-" THEN ReadLong(p, After(t, stop))
            ELSE IF stop < Len(t)
            THEN Add(p, Given(Letters[t[stop]], After(t, stop), FALSE))
            ELSE [p EXCEPT !.mode = Letters[t[stop]], !.long = FALSE]
    BY <2>2 DEF ReadDeciding
  <2>8. CASE Endless(t)
    <3>0. stop = Len(t) /\ t[stop] = "-" /\ ~ stop > Len(t)
      <4>1. stop = Len(t) /\ t[stop] = "-"
        BY <2>6, <2>8, Zenon
      <4>2. ~ stop > Len(t)
        BY <2>3, <4>1
      <4> QED BY <4>1, <4>2
    <3>1. q = [p EXCEPT !.endless = TRUE]
      BY <2>7, <3>0, Zenon
    <3>2. q.endless = TRUE
      BY <2>5, <3>1 DEF Readings
    <3> QED BY <1>8, <2>8, <3>2 DEF q
  <2>9. CASE ~ Endless(t)
    <3>1. \A w : ReadLong(p, w).endless = p.endless
      BY <2>5 DEF ReadLong, Add, Readings
    <3>2. \A x : Add(p, x).endless = p.endless
      BY <2>5 DEF Add, Readings
    <3>3. \A e : [p EXCEPT !.mode = e, !.long = FALSE].endless = p.endless
      BY <2>5 DEF Readings
    <3>4. q.endless = p.endless
      BY <2>6, <2>7, <2>9, <3>1, <3>2, <3>3
    <3> QED BY <2>5, <2>9, <3>4 DEF q
  <2> QED BY <2>8, <2>9
<1> QED BY <1>4, <1>5, <1>6, <1>7, <1>8

(* Of the readings of two beginnings the later one is endless if the       *)
(* earlier one is, and only then when nothing but operands came between.   *)
LEMMA EndlessStays ==
  ASSUME NEW acc, Scans(acc), NEW k \in 0 .. N
  PROVE  /\ acc[k].endless => acc[N].endless
         /\ acc[k].mode = "rest" /\ acc[N].endless => acc[k].endless
<1>1. N \in Nat /\ N = Len(line) /\ line \in Seq(Text)
  BY Tokens DEF Scans, ArgvInv, N, Text
<1>2. /\ \A j \in 0 .. N : acc[j] \in Readings
      /\ \A j \in 1 .. N : acc[j] = ReadToken(acc[j - 1], line[j], j)
  BY <1>1 DEF Scans, Reads
<1>3. ASSUME NEW j \in k + 1 .. N
      PROVE  /\ j \in 1 .. N /\ j - 1 \in 0 .. N /\ j \in k .. N
             /\ acc[j].endless <=>
                  acc[j - 1].endless \/ (acc[j - 1].mode = "free" /\ Endless(line[j]))
  <2>1. j \in 1 .. N /\ j - 1 \in 0 .. N /\ j \in k .. N
    BY <1>1
  <2>2. line[j] \in Text
    BY <1>1, <2>1, ElementOfSeq
  <2> QED BY <1>2, <2>1, <2>2, EndlessRead
<1>4. k \in Int /\ N \in Int /\ k \in k .. N /\ N \in k .. N
  BY <1>1
<1>5. ASSUME acc[k].endless PROVE acc[N].endless
  <2> DEFINE P == {j \in k .. N : acc[j].endless}
  <2>1. k \in P /\ \A j \in k + 1 .. N : j - 1 \in P => j \in P
    BY <1>3, <1>4, <1>5
  <2>2. k .. N \subseteq P
    <3> HIDE DEF P
    <3> QED BY <1>4, <2>1, Upwards
  <2> QED BY <1>4, <2>2
<1>6. ASSUME acc[k].mode = "rest" PROVE acc[N].endless => acc[k].endless
  <2> DEFINE P == {j \in k .. N : acc[j].mode = "rest" /\ (acc[j].endless => acc[k].endless)}
  <2>1. k \in P
    BY <1>4, <1>6
  <2>2. ASSUME NEW j \in k + 1 .. N, j - 1 \in P PROVE j \in P
    <3>1. acc[j].mode = acc[j - 1].mode
      BY <1>2, <1>3, <2>2, OperandIs
    <3>2. "rest" # "free"
      OBVIOUS
    <3> QED BY <1>3, <2>2, <3>1, <3>2
  <2>3. k .. N \subseteq P
    <3> HIDE DEF P
    <3> QED BY <1>4, <2>1, <2>2, Upwards
  <2> QED BY <1>4, <2>3
<1> QED BY <1>5, <1>6

(* Where the parser is, nothing endless has been read yet: it leaves every *)
(* token but such a cluster.                                               *)
NotEndless(acc) == IF phase = "tagged" THEN ~ acc[optind - 1].endless ELSE ~ Reading.endless

LEMMA TokenEndless ==
  ASSUME NEW acc, Scans(acc), optind <= N
  PROVE  /\ acc[optind].endless <=> acc[optind - 1].endless \/ Endless(Tok)
         /\ optind < N /\ acc[optind].mode \in Entries =>
              (acc[optind + 1].endless <=> acc[optind].endless)
<1>1. /\ N \in Nat /\ optind \in 1 .. N /\ Tok \in Text /\ Tok = line[optind]
      /\ acc[optind - 1] \in Readings /\ acc[optind - 1].mode = "free"
  BY Here
<1>2. N = Len(line) /\ line \in Seq(Text)
  BY DEF Scans, ArgvInv, N, Text
<1>3. acc[optind] = ReadToken(acc[optind - 1], Tok, optind) /\ acc[optind] \in Readings
  BY <1>1, <1>2 DEF Scans, Reads
<1>4. acc[optind].endless <=> acc[optind - 1].endless \/ Endless(Tok)
  BY <1>1, <1>3, EndlessRead
<1>5. ASSUME optind < N, acc[optind].mode \in Entries
      PROVE  acc[optind + 1].endless <=> acc[optind].endless
  <2>1. N \in Nat /\ N = Len(line) /\ line \in Seq(Text) /\ optind \in 1 .. N
    BY <1>1, <1>2
  <2>2. optind + 1 \in 1 .. N /\ optind + 1 - 1 = optind /\ optind \in 0 .. N
    BY <1>5, <2>1
  <2>3. acc[optind] \in Readings
        /\ acc[optind + 1] = ReadToken(acc[optind], line[optind + 1], optind + 1)
    BY <2>1, <2>2 DEF Scans, Reads
  <2>4. line[optind + 1] \in Text
    BY <2>1, <2>2, ElementOfSeq
  <2>5. acc[optind].mode # "free"
    BY <1>5, EntriesAre
  <2> QED BY <2>3, <2>4, <2>5, EndlessRead
<1> QED BY <1>4, <1>5

(* What is left: the symbol that decides, or the last of the token.        *)
LEMMA NoDashAtEnd ==
  ASSUME NEW acc, Scans(acc), InOption, Symbol = "-" => At < Len(Tok),
         Decides(Symbol) \/ At = Len(Tok)
  PROVE  ~ Endless(Tok)
<1> SUFFICES ASSUME Endless(Tok) PROVE FALSE
  OBVIOUS
<1>1. /\ At \in 2 .. Len(Tok) /\ Len(Tok) \in Nat /\ optind <= N
      /\ \A j \in 2 .. At - 1 : ~ Decides(Tok[j])
  BY Inside
<1>2. Deciding(Tok) = Len(Tok) /\ Tok[Len(Tok)] = "-"
  BY DEF Endless
<1>3. CASE At = Len(Tok)
  BY <1>1, <1>2, <1>3 DEF Symbol
<1>4. CASE Decides(Symbol)
  <2>1. Deciding(Tok) = At
    <3>1. Tok \in Text /\ At \in 2 .. Len(Tok) + 1
      BY <1>1, Here
    <3> QED BY <1>1, <1>4, <3>1, ItDecides DEF Symbol
  <2> QED BY <1>2, <1>3, <2>1
<1> QED BY <1>3, <1>4

LEMMA OptionLeft ==
  ASSUME NEW acc, Scans(acc), InOption, Symbol = "-" => At < Len(Tok),
         ~ acc[optind - 1].endless,
         \/ optind' = optind
         \/ optind' = optind + 1 /\ (Decides(Symbol) \/ At = Len(Tok))
         \/ optind' = optind + 2 /\ Decides(Symbol) /\ TokenTakesNext(Tok, At) /\ optind < N
  PROVE  ~ acc[optind' - 1].endless
<1>1. optind <= N
  BY Inside
<1>2. optind \in Nat
  BY <1>1, Here
<1>3. CASE optind' = optind
  BY <1>3
<1>4. CASE optind' # optind
  <2>1. ~ acc[optind].endless
    BY <1>1, <1>4, NoDashAtEnd, TokenEndless
  <2>2. CASE optind' = optind + 1
    <3>1. optind' - 1 = optind
      BY <1>2, <2>2
    <3> QED BY <2>1, <3>1
  <2>3. CASE optind' = optind + 2 /\ Decides(Symbol) /\ TokenTakesNext(Tok, At) /\ optind < N
    <3>1. optind' - 1 = optind + 1
      BY <1>2, <2>3
    <3>2. acc[optind].mode \in Entries
      BY <2>3, LetterDecides
    <3> QED BY <1>1, <2>1, <2>3, <3>1, <3>2, TokenEndless
  <2> QED BY <1>4, <2>2, <2>3
<1> QED BY <1>3, <1>4

(* The step from one place to the next.                                    *)
LEMMA OptionMoves ==
  ASSUME NEW acc, Scans(acc),
         LongUnknown \/ LongFlag \/ LongValue \/ ShortUnknown \/ ShortFlag \/ ShortValue
  PROVE  /\ InOption /\ (Symbol = "-" => At < Len(Tok)) /\ phase' = phase
         /\ \/ optind' = optind /\ place' = At + 1 /\ At # Len(Tok)
            \/ optind' = optind + 1 /\ (Decides(Symbol) \/ At = Len(Tok))
            \/ optind' = optind + 2 /\ Decides(Symbol) /\ TokenTakesNext(Tok, At) /\ optind < N
<1>1. CASE LongUnknown \/ LongFlag \/ LongValue
  <2>1. InOption /\ Symbol = "-" /\ At < Len(Tok)
    BY <1>1 DEF LongUnknown, LongFlag, LongValue, Long
  <2>2. Decides(Symbol)
    BY <2>1 DEF Decides
  <2>3. At \in 2 .. Len(Tok) /\ Len(Tok) \in Nat
    BY <2>1, Inside
  <2>4. TokenTakesNext(Tok, At) <=>
          ~ HasValue(Word) /\ \E e \in Entries \ Flags : Found = {e}
    BY <2>1, <2>3 DEF TokenTakesNext, TakesNext, Found, Symbol, Word
  <2>5. \/ Leave(optind + 1)
        \/ Leave(optind + 2) /\ optind < N /\ TokenTakesNext(Tok, At)
    BY <1>1, <2>4 DEF LongUnknown, LongFlag, LongValue
  <2> QED BY <2>1, <2>2, <2>5 DEF Leave
<1>2. CASE ShortUnknown \/ ShortFlag \/ ShortValue
  <2>1. InOption /\ Symbol # "-"
    BY <1>2 DEF ShortUnknown, ShortFlag, ShortValue, Short
  <2>2. At \in 2 .. Len(Tok) /\ Len(Tok) \in Nat
    BY <2>1, Inside
  <2>3. CASE ShortUnknown \/ ShortFlag
    <3>1. Advance
      BY <2>3 DEF ShortUnknown, ShortFlag
    <3> QED BY <2>1, <3>1 DEF Advance, Leave
  <2>4. CASE ShortValue
    <3>1. Decides(Symbol)
      BY <2>4, LettersAre DEF ShortValue, Decides
    <3>2. TokenTakesNext(Tok, At) <=> At = Len(Tok)
      BY <2>1, <2>2 DEF TokenTakesNext, Symbol
    <3>3. \/ Leave(optind + 1)
          \/ Leave(optind + 2) /\ optind < N /\ TokenTakesNext(Tok, At)
      BY <2>4, <3>2 DEF ShortValue
    <3> QED BY <2>1, <3>1, <3>3 DEF Leave
  <2> QED BY <1>2, <2>3, <2>4
<1> QED BY <1>1, <1>2

LEMMA DashIsEndless ==
  ASSUME NEW acc, Scans(acc), MalformedDash
  PROVE  Reading.endless
<1>1. InOption /\ place # 0 /\ Symbol = "-" /\ At = Len(Tok)
  BY DEF MalformedDash
<1>2. /\ At \in 2 .. Len(Tok) /\ Len(Tok) \in Nat /\ optind <= N /\ ~ IsOperand(Tok)
      /\ \A j \in 2 .. At - 1 : ~ Decides(Tok[j])
  BY <1>1, Inside
<1>3. Tok \in Text /\ N \in Nat /\ optind \in 1 .. N
  BY <1>2, Here
<1>4. Deciding(Tok) = At
  BY <1>1, <1>2, <1>3, ItDecides DEF Symbol, Decides
<1>5. ~ EndsOptions(Tok)
  <2>1. At > 2
    BY <1>1, <1>2 DEF Scans, OrderTagged, InToken, At
  <2>2. Len(Tok) # 2
    BY <1>1, <1>2, <2>1
  <2> QED BY <2>2 DEF EndsOptions
<1>6. Endless(Tok)
  BY <1>1, <1>2, <1>4, <1>5 DEF Endless, Symbol
<1>7. acc[optind].endless
  BY <1>2, <1>6, TokenEndless
<1>8. acc[N].endless
  <2>1. optind \in 0 .. N
    BY <1>3
  <2> QED BY <1>7, <2>1, EndlessStays
<1>9. acc[N] = Reading
  BY DEF Scans, Reads, Reading, N
<1> QED BY <1>8, <1>9
Unended == \E acc : Reads(acc, line) /\ OrderInv(acc) /\ NotEndless(acc)

LEMMA InitUnended == Init => Unended
<1> SUFFICES ASSUME Init PROVE Unended
  OBVIOUS
<1>1. PICK acc : Reads(acc, line) /\ OrderInv(acc)
  BY InitOrdered DEF Ordered
<1>2. optind = 1 /\ phase = "tagged" /\ optind - 1 = 0
  BY DEF Init
<1>3. acc[0] = Unread
  BY <1>1 DEF Reads
<1>4. NotEndless(acc)
  BY <1>2, <1>3 DEF NotEndless, Unread
<1> QED BY <1>1, <1>4 DEF Unended

LEMMA TaggedUnended ==
  ASSUME NEW acc, Scans(acc), arg_parse_tagged, ~ acc[optind - 1].endless
  PROVE  NotEndless(acc)'
<1>1. /\ N \in Nat /\ optind \in 1 .. N + 1 /\ acc[N] = Reading /\ Reading' = Reading
      /\ phase = "tagged"
  BY Tokens DEF Scans, ScanInv, Reads, Reading, N, arg_parse_tagged
<1>2. CASE EndOfArgv
  <2>1. phase' = "untagged" /\ optind - 1 = N
    BY <1>1, <1>2 DEF EndOfArgv, Finish
  <2> QED BY <1>1, <2>1 DEF NotEndless
<1>3. CASE DoubleDash
  <2>1. phase' = "untagged" /\ optind <= N /\ EndsOptions(Tok)
    BY <1>3 DEF DoubleDash, Scanning, Finish
  <2>2. ~ acc[optind].endless
    BY <2>1, TokenEndless DEF Endless
  <2>3. acc[optind].mode = "rest"
    <3>1. ~ IsOperand(Tok)
      BY <2>1 DEF EndsOptions, IsOperand
    <3> QED BY <2>1, <3>1, Here DEF TokenRead
  <2>4. optind \in 0 .. N
    BY <1>1, <2>1
  <2>5. ~ acc[N].endless
    BY <2>2, <2>3, <2>4, EndlessStays
  <2> QED BY <1>1, <2>1, <2>5 DEF NotEndless
<1>4. CASE SkipOperand
  <2>1. phase' = phase /\ optind <= N /\ IsOperand(Tok) /\ optind' = optind + 1
    BY <1>4 DEF SkipOperand, Scanning
  <2>2. ~ acc[optind].endless
    BY <2>1, TokenEndless DEF Endless
  <2>3. optind' - 1 = optind
    BY <1>1, <2>1
  <2> QED BY <1>1, <2>1, <2>2, <2>3 DEF NotEndless
<1>5. CASE MalformedDash
  <2>1. phase' = phase /\ optind' = optind
    BY <1>5 DEF MalformedDash, Leave
  <2> QED BY <1>1, <2>1 DEF NotEndless
<1>6. CASE LongUnknown \/ LongFlag \/ LongValue \/ ShortUnknown \/ ShortFlag \/ ShortValue
  <2>1. phase' = phase /\ ~ acc[optind' - 1].endless
    BY <1>6, OptionMoves, OptionLeft
  <2> QED BY <1>1, <2>1 DEF NotEndless
<1> QED BY <1>2, <1>3, <1>4, <1>5, <1>6 DEF arg_parse_tagged

LEMMA NextUnended == IInv /\ Unended /\ [Next]_vars => Unended'
<1> SUFFICES ASSUME IInv, Unended, [Next]_vars PROVE Unended'
  OBVIOUS
<1>1. PICK acc : Reads(acc, line) /\ OrderInv(acc) /\ NotEndless(acc)
  BY DEF Unended
<1>2. line' = line
  BY DEF Next, arg_parse_tagged, arg_parse_untagged, arg_parse_check, main, vars
<1>3. OrderInv(acc)'
  BY <1>1, NextInOrder
<1>4. Reading' = Reading
  BY <1>2 DEF Reading
<1> SUFFICES NotEndless(acc)'
  BY <1>1, <1>2, <1>3 DEF Unended
<1>5. CASE arg_parse_tagged
  <2>1. phase = "tagged"
    BY <1>5 DEF arg_parse_tagged, EndOfArgv, DoubleDash, SkipOperand, LongUnknown,
       LongFlag, LongValue, Long, MalformedDash, ShortUnknown, ShortFlag, ShortValue,
       Short, InOption, Scanning
  <2>2. Scans(acc) /\ ~ acc[optind - 1].endless
    BY <1>1, <2>1 DEF Scans, IInv, OrderInv, NotEndless
  <2> QED BY <1>5, <2>2, TaggedUnended
<1>6. CASE arg_parse_untagged \/ arg_parse_check \/ main
  <2>1. phase # "tagged" /\ phase' # "tagged"
    BY <1>6 DEF arg_parse_untagged, arg_parse_check, main
  <2> QED BY <1>1, <1>4, <2>1 DEF NotEndless
<1>7. CASE UNCHANGED vars
  <2>1. phase' = phase /\ optind' = optind
    BY <1>7 DEF vars, scanning
  <2> QED BY <1>1, <1>4, <2>1 DEF NotEndless
<1> QED BY <1>5, <1>6, <1>7 DEF Next

LEMMA NeverPast == Spec => [](IInv /\ Unended)
<1>1. Init => IInv /\ Unended
  BY InitGood, InitUnended
<1>2. IInv /\ Unended /\ [Next]_vars => (IInv /\ Unended)'
  BY NextGood, NextUnended
<1> QED BY <1>1, <1>2, PTL DEF Spec

(* arg_parse() does not come to an end of a line with a cluster that a     *)
(* dash ends, such as "-v-": getopt_internal() returns ':' for the dash    *)
(* and leaves optind where it is, so that the token is taken once more.    *)
THEOREM DashIsNotPassed == Spec => [](Reading.endless => phase = "tagged")
<1>1. IInv /\ Unended => (Reading.endless => phase = "tagged")
  BY DEF Unended, NotEndless
<1> QED BY <1>1, NeverPast, PTL

(* Forward: to a later phase, a later token, or a later symbol of a token. *)
Phases == <<"tagged", "untagged", "check", "main", "done">>
Onward ==
  \/ \E i, j \in 1 .. 5 : i < j /\ phase = Phases[i] /\ phase' = Phases[j]
  \/ phase' = phase /\ optind' > optind
  \/ UNCHANGED <<phase, optind, argv>> /\ place' > place

LEMMA TaggedOnward ==
  ASSUME NEW acc, Scans(acc), arg_parse_tagged, ~ MalformedDash
  PROVE  Onward
<1>1. optind \in Nat /\ place \in Nat /\ phase = "tagged"
  BY Tokens DEF Scans, ScanInv, ArgvInv, Tok
<1>2. CASE EndOfArgv \/ DoubleDash
  <2>1. phase' = "untagged"
    BY <1>2 DEF EndOfArgv, DoubleDash, Finish
  <2>2. 1 \in 1 .. 5 /\ 2 \in 1 .. 5 /\ 1 < 2 /\ phase = Phases[1] /\ phase' = Phases[2]
    BY <1>1, <2>1 DEF Phases
  <2> QED BY <2>2 DEF Onward
<1>3. CASE SkipOperand
  BY <1>1, <1>3 DEF SkipOperand, Onward
<1>4. CASE LongUnknown \/ LongFlag \/ LongValue \/ ShortUnknown \/ ShortFlag \/ ShortValue
  <2>1. /\ InOption /\ phase' = phase
        /\ \/ optind' = optind /\ place' = At + 1 /\ At # Len(Tok)
           \/ optind' = optind + 1 \/ optind' = optind + 2
    BY <1>4, OptionMoves
  <2>2. optind' = optind \/ optind' > optind
    BY <1>1, <2>1
  <2>3. ASSUME optind' = optind PROVE UNCHANGED argv /\ place' > place
    <3>1. place' = At + 1
      BY <1>1, <2>1, <2>3
    <3>2. At + 1 > place
      BY <1>1 DEF At
    <3>3. UNCHANGED argv
      BY <1>4 DEF LongUnknown, LongFlag, LongValue, ShortUnknown, ShortFlag,
         ShortValue, Advance, Leave
    <3> QED BY <3>1, <3>2, <3>3
  <2> QED BY <2>1, <2>2, <2>3 DEF Onward
<1> QED BY <1>2, <1>3, <1>4 DEF arg_parse_tagged

(* On every other line each step of arg_parse() and main() goes forward,   *)
(* whatever permute_args() moves: nothing but that dash makes              *)
(* getopt_internal() look at the same symbol twice.                        *)
THEOREM OtherLinesGoOn == Spec => [][~ Reading.endless => Onward]_vars
<1>1. ASSUME IInv, Unended, Next, ~ Reading.endless PROVE Onward
  <2>1. CASE arg_parse_tagged
    <3>1. PICK acc : Reads(acc, line) /\ OrderInv(acc)
      BY <1>1 DEF Unended
    <3>2. phase = "tagged"
      BY <2>1 DEF arg_parse_tagged, EndOfArgv, DoubleDash, SkipOperand, LongUnknown,
         LongFlag, LongValue, Long, MalformedDash, ShortUnknown, ShortFlag,
         ShortValue, Short, InOption, Scanning
    <3>3. Scans(acc)
      BY <1>1, <3>1, <3>2 DEF Scans, IInv, OrderInv
    <3> QED BY <1>1, <2>1, <3>3, DashIsEndless, TaggedOnward
  <2>2. CASE arg_parse_untagged
    <3>1. CASE optind <= N
      <4>1. optind \in Nat
        BY <1>1, Tokens DEF IInv, ScanInv
      <4> QED BY <2>2, <3>1, <4>1 DEF arg_parse_untagged, Onward
    <3>2. CASE ~ optind <= N
      <4>1. 2 \in 1 .. 5 /\ 3 \in 1 .. 5 /\ 2 < 3 /\ phase = Phases[2] /\ phase' = Phases[3]
        BY <2>2, <3>2 DEF arg_parse_untagged, Phases
      <4> QED BY <4>1 DEF Onward
    <3> QED BY <3>1, <3>2
  <2>3. CASE arg_parse_check
    <3>1. 3 \in 1 .. 5 /\ 4 \in 1 .. 5 /\ 3 < 4 /\ phase = Phases[3] /\ phase' = Phases[4]
      BY <2>3 DEF arg_parse_check, Phases
    <3> QED BY <3>1 DEF Onward
  <2>4. CASE main
    <3>1. 4 \in 1 .. 5 /\ 5 \in 1 .. 5 /\ 4 < 5 /\ phase = Phases[4] /\ phase' = Phases[5]
      BY <2>4 DEF main, Phases
    <3> QED BY <3>1 DEF Onward
  <2> QED BY <1>1, <2>1, <2>2, <2>3, <2>4 DEF Next
<1>2. IInv /\ Unended /\ [Next]_vars => [~ Reading.endless => Onward]_vars
  BY <1>1
<1> QED BY <1>2, NeverPast, PTL DEF Spec
=============================================================================
