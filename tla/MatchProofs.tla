----------------------------- MODULE MatchProofs -----------------------------
(***************************************************************************)
(* The decoder stays inside its buffers and returns what was encoded, and  *)
(* each of the three searches answers whether a rule occurs, for texts and *)
(* rules of any length.                                                    *)
(***************************************************************************)
EXTENDS Match, StreamProofs
LOCAL INSTANCE FiniteSetsExt

-----------------------------------------------------------------------------
(* Texts.                                                                   *)

\* A text is cut at its first NUL.
LEMMA CStringIs ==
    ASSUME NEW s \in Seq(Int)
    PROVE  /\ CString(s) \in Seq(Int) /\ Len(CString(s)) <= Len(s)
           /\ \A i \in 1 .. Len(CString(s)) : CString(s)[i] = s[i]
<1> DEFINE T == {i \in 0 .. Len(s) : i = Len(s) \/ s[i + 1] = 0}
<1>1. Len(s) \in T /\ T \in SUBSET Nat
  BY LenProperties
<1>2. Min(T) \in T
  BY <1>1, MinOf
<1>3. Min(T) \in 0 .. Len(s)
  BY <1>2
<1> HIDE DEF T
<1>4. CString(s) = SubSeq(s, 1, Min(T))
  BY DEF CString, T
<1> QED
  BY <1>3, <1>4, Beginning, LenProperties

\* The text matchlist gets is the beginning of what its buffer holds.
LEMMA InputIs ==
    ASSUME tmpbuf \in Seq(Int)
    PROVE  /\ input \in Seq(Int) /\ Len(input) \in Nat
           /\ Len(input) <= Len(CString(tmpbuf))
           /\ \A k \in Nat : InputAt(k) \in Int
           /\ \A k \in 0 .. Len(input) - 1 : InputAt(k) = input[k + 1]
<1>1. PICK s \in Seq(Int) : s = CString(tmpbuf)
  BY CStringIs
<1>2. PICK n \in 0 .. Len(s) : n = Min({Len(s), ScanLimit})
  <2>1. Len(s) \in Nat /\ ScanLimit \in Nat
    BY LenProperties, MatchAssumption
  <2>2. /\ Min({Len(s), ScanLimit}) \in {Len(s), ScanLimit}
        /\ Min({Len(s), ScanLimit}) <= Len(s)
    BY <2>1, MinOfTwo
  <2> QED
    BY <2>1, <2>2
<1>3. input = SubSeq(s, 1, n)
  BY <1>1, <1>2 DEF input
<1>4. /\ input \in Seq(Int) /\ Len(input) = n
      /\ \A i \in 1 .. n : input[i] = s[i]
  BY <1>3, Beginning
<1>5. \A k \in Nat : InputAt(k) = IF k < Len(s) THEN s[k + 1] ELSE 0
  BY <1>1 DEF InputAt
<1>6. Len(s) \in Nat /\ \A i \in 1 .. Len(s) : s[i] \in Int
  BY LenProperties, ElementOfSeq
<1>7. /\ \A k \in Nat : InputAt(k) \in Int
      /\ \A k \in 0 .. Len(input) - 1 : InputAt(k) = input[k + 1]
  <2>1. ASSUME NEW k \in Nat PROVE InputAt(k) \in Int
    <3>1. CASE k < Len(s)
      BY <1>5, <1>6, <3>1
    <3> QED
      BY <1>5, <1>6, <3>1
  <2>2. ASSUME NEW k \in 0 .. n - 1 PROVE InputAt(k) = input[k + 1]
    <3>1. k \in Nat /\ k + 1 \in 1 .. n /\ k < Len(s)
      BY <1>6
    <3> QED
      BY <1>4, <1>5, <3>1
  <2> QED
    BY <1>4, <2>1, <2>2
<1>8. Len(input) \in Nat /\ Len(input) <= Len(CString(tmpbuf))
  <2>1. n \in Nat /\ n <= Len(s)
    BY <1>6
  <2> QED
    BY <1>1, <1>4, <2>1
<1> QED
  BY <1>4, <1>7, <1>8

\* What is cut off a rule.
LEMMA PatternIs ==
    ASSUME NEW r \in Seq(Int)
    PROVE  /\ IsRule(r) <=> Len(r) > 4
           /\ IsRule(r) => /\ Pattern(r) \in Seq(Int)
                           /\ Len(Pattern(r)) \in Nat /\ Len(Pattern(r)) > 2
<1>1. PICK n \in 0 .. Len(r) : n = LineLen(r) /\ n \in {Len(r), LineLimit}
  BY MinOfTwo, LenProperties, MatchAssumption DEF LineLen
<1>2. LineLen(r) <= LineLimit /\ LineLimit > 4 /\ LineLimit \in Nat
  BY MinOfTwo, LenProperties, MatchAssumption DEF LineLen
<1>3. n > 4 => /\ SubSeq(r, 1, n - 2) \in Seq(Int)
               /\ Len(SubSeq(r, 1, n - 2)) = n - 2
  BY Beginning
<1> QED
  BY <1>1, <1>2, <1>3, LenProperties DEF IsRule, Pattern

-----------------------------------------------------------------------------
(* Powers of two.                                                           *)

Doubling(f, k) == f = [i \in 0 .. k |-> IF i = 0 THEN 1 ELSE 2 * f[i - 1]]

LEMMA DoublingExists ==
    ASSUME NEW k \in Nat
    PROVE  \E f : Doubling(f, k)
<1> DEFINE step == [w \in (1 .. k) \X Nat |-> 2 * w[2]]
<1>1. step \in [(1 .. k) \X Nat -> Nat]
  OBVIOUS
<1>2. \A i \in 1 .. k, v \in Nat : step[<<i, v>>] = 2 * v
  OBVIOUS
<1> HIDE DEF step
<1>3. PICK f \in [0 .. k -> Nat] : Recursive(f, k, 1, step)
  BY <1>1, RecursionExists
<1>4. ASSUME NEW i \in 1 .. k PROVE f[i] = 2 * f[i - 1]
  <2>1. f[i - 1] \in Nat /\ f[i] = step[<<i, f[i - 1]>>]
    BY <1>3 DEF Recursive
  <2> QED
    BY <1>2, <2>1
<1>5. f[0] = 1
  BY <1>3 DEF Recursive
<1>6. \A i \in 0 .. k : f[i] = IF i = 0 THEN 1 ELSE 2 * f[i - 1]
  BY <1>4, <1>5
<1>7. f = [i \in 0 .. k |-> IF i = 0 THEN 1 ELSE 2 * f[i - 1]]
  BY <1>6
<1> QED
  BY <1>7 DEF Doubling

LEMMA DoublingValues ==
    ASSUME NEW k \in Nat, NEW f, Doubling(f, k)
    PROVE  /\ f[0] = 1
           /\ \A i \in 1 .. k : f[i] = 2 * f[i - 1]
<1>1. \A i \in 0 .. k : f[i] = IF i = 0 THEN 1 ELSE 2 * f[i - 1]
  BY DEF Doubling
<1> QED
  BY <1>1

LEMMA TwoToDoubled ==
    ASSUME NEW k \in Nat
    PROVE  \E f : Doubling(f, k) /\ TwoTo(k) = f[k]
<1> DEFINE f == CHOOSE g : Doubling(g, k)
<1>1. Doubling(f, k)
  BY DoublingExists
<1>2. TwoTo(k) = f[k]
  BY DEF TwoTo, Doubling
<1> QED
  BY <1>1, <1>2

\* The place in the function does not matter.
LEMMA TwoToAt ==
    ASSUME NEW k \in Nat, NEW f, Doubling(f, k)
    PROVE  \A i \in 0 .. k : f[i] = TwoTo(i)
<1> TAKE j \in 0 .. k
<1>0. j \in Nat
  OBVIOUS
<1>1. PICK g : Doubling(g, j) /\ TwoTo(j) = g[j]
  BY <1>0, TwoToDoubled
<1>2. /\ f[0] = 1 /\ \A i \in 1 .. k : f[i] = 2 * f[i - 1]
      /\ g[0] = 1 /\ \A i \in 1 .. j : g[i] = 2 * g[i - 1]
  BY <1>0, <1>1, DoublingValues
<1> DEFINE I == {i \in 0 .. j : f[i] = g[i]}
<1>3. 0 \in I
  BY <1>2
<1>4. ASSUME NEW i \in 0 .. j - 1, i \in I PROVE i + 1 \in I
  <2>1. i + 1 \in 1 .. j /\ i + 1 \in 1 .. k /\ (i + 1) - 1 = i
    OBVIOUS
  <2>2. f[i + 1] = 2 * f[i] /\ g[i + 1] = 2 * g[i]
    BY <1>2, <2>1
  <2> QED
    BY <1>4, <2>1, <2>2
<1>5. \A i \in 0 .. j : i \in I
  <2> HIDE DEF I
  <2> QED
    BY <1>0, <1>3, <1>4, IntervalInduction
<1> QED
  BY <1>1, <1>5

LEMMA TwoToIs ==
    /\ TwoTo(0) = 1
    /\ \A k \in Nat : /\ TwoTo(k) \in Nat /\ TwoTo(k) > 0
                      /\ TwoTo(k + 1) = 2 * TwoTo(k)
<1>1. TwoTo(0) = 1
  <2>1. PICK f : Doubling(f, 0) /\ TwoTo(0) = f[0]
    BY TwoToDoubled
  <2> QED
    BY <2>1, DoublingValues
<1>2. \A k \in Nat : TwoTo(k + 1) = 2 * TwoTo(k)
  <2> TAKE k \in Nat
  <2>1. k + 1 \in Nat /\ k + 1 \in 1 .. k + 1 /\ (k + 1) - 1 = k
        /\ k \in 0 .. k + 1 /\ k + 1 \in 0 .. k + 1
    OBVIOUS
  <2>2. PICK f : Doubling(f, k + 1)
    BY <2>1, DoublingExists
  <2>3. f[k + 1] = 2 * f[k]
    BY <2>1, <2>2, DoublingValues
  <2>4. f[k + 1] = TwoTo(k + 1) /\ f[k] = TwoTo(k)
    BY <2>1, <2>2, TwoToAt
  <2> QED
    BY <2>3, <2>4
<1> DEFINE I == {k \in Nat : TwoTo(k) \in Nat /\ TwoTo(k) > 0}
<1>3. 0 \in I /\ \A k \in I : k + 1 \in I
  BY <1>1, <1>2
<1>4. \A k \in Nat : k \in I
  <2>1. I \in SUBSET Nat
    OBVIOUS
  <2> HIDE DEF I
  <2> QED
    BY <1>3, <2>1, NaturalInduction
<1> QED
  BY <1>1, <1>2, <1>4

-----------------------------------------------------------------------------
(* Arithmetic of an int.                                                    *)

\* x and y differ by a multiple of m.
Congruent(x, y, m) == \E k \in Int : x = y + k * m

LEMMA SameRemainder ==
    ASSUME NEW m \in Nat, m > 0, NEW x \in Int, NEW y \in Int,
           Congruent(x, y, m)
    PROVE  x % m = y % m
<1>1. PICK k \in Int : x = y + k * m
  BY DEF Congruent
<1>2. /\ x % m \in 0 .. m - 1 /\ x = m * (x \div m) + (x % m)
      /\ y % m \in 0 .. m - 1 /\ y = m * (y \div m) + (y % m)
      /\ x \div m \in Int /\ y \div m \in Int
  OBVIOUS
<1> DEFINE r == x % m
           s == y % m
           c == x \div m
           d == y \div m
<1>3. r - s = m * ((d + k) - c)
  <2>1. x = m * c + r /\ y = m * d + s
    BY <1>2
  <2>2. c \in Int /\ d \in Int /\ r \in Int /\ s \in Int
    BY <1>2
  <2> HIDE DEF r, s, c, d
  <2>3. m * ((d + k) - c) = m * d + k * m - m * c
    BY <2>2
  <2> QED
    BY <1>1, <2>1, <2>2, <2>3
<1>4. PICK e \in Int : e = (d + k) - c
  BY <1>2
<1>5. r - s = m * e /\ r \in 0 .. m - 1 /\ s \in 0 .. m - 1
  BY <1>2, <1>3, <1>4
<1> HIDE DEF r, s
<1>6. e = 0
  <2>1. CASE e >= 1
    <3>1. m * e >= m
      BY <2>1
    <3> QED
      BY <1>5, <3>1
  <2>2. CASE e <= -1
    <3>1. m * e <= -m
      BY <2>2
    <3> QED
      BY <1>5, <3>1
  <2> QED
    BY <2>1, <2>2
<1>7. r = s
  BY <1>5, <1>6
<1> QED
  BY <1>7 DEF r, s

Modulus == TwoTo(IntBits)

LEMMA ModulusIs == Modulus \in Nat /\ Modulus > 0
BY TwoToIs, MatchAssumption DEF Modulus

LEMMA WrapIs ==
    ASSUME NEW n \in Int
    PROVE  Wrap(n) \in Int /\ Congruent(Wrap(n), n, Modulus)
<1>1. PICK m \in Nat : m = Modulus /\ m > 0
  BY ModulusIs
<1>2. n % m \in Int /\ n \div m \in Int /\ n = m * (n \div m) + (n % m)
  BY <1>1
<1>3. PICK r \in Int, d \in Int : r = n % m /\ d = n \div m /\ n = m * d + r
  BY <1>2
<1>4. Wrap(n) = r \/ Wrap(n) = r - m
  BY <1>1, <1>3 DEF Wrap, Modulus
<1>5. r = n + (-d) * m /\ r - m = n + (-d - 1) * m
  BY <1>3
<1>6. -d \in Int /\ -d - 1 \in Int /\ r - m \in Int
  OBVIOUS
<1>7. Congruent(r, n, m) /\ Congruent(r - m, n, m)
  BY <1>5, <1>6 DEF Congruent
<1> QED
  BY <1>1, <1>4, <1>6, <1>7

LEMMA WrapSame ==
    ASSUME NEW x \in Int, NEW y \in Int, Congruent(x, y, Modulus)
    PROVE  Wrap(x) = Wrap(y)
BY ModulusIs, SameRemainder DEF Wrap, Modulus

-----------------------------------------------------------------------------
(* Hashes.                                                                  *)

Hashing(f, s) ==
    f = [i \in 0 .. Len(s) |-> IF i = 0 THEN 0 ELSE Wrap(2 * f[i - 1]) + s[i]]

LEMMA HashingExists ==
    ASSUME NEW s \in Seq(Int)
    PROVE  \E f \in [0 .. Len(s) -> Int] : Hashing(f, s)
<1> DEFINE n == Len(s)
           step == [w \in (1 .. n) \X Int |-> Wrap(2 * w[2]) + s[w[1]]]
<1>0. n \in Nat /\ \A i \in 1 .. n : s[i] \in Int
  BY LenProperties, ElementOfSeq
<1>1. step \in [(1 .. n) \X Int -> Int]
  <2>1. ASSUME NEW i \in 1 .. n, NEW v \in Int PROVE Wrap(2 * v) + s[i] \in Int
    <3>1. 2 * v \in Int /\ s[i] \in Int
      BY <1>0
    <3>2. Wrap(2 * v) \in Int
      BY <3>1, WrapIs
    <3> QED
      BY <3>1, <3>2
  <2> HIDE DEF n
  <2> QED
    BY <2>1
<1>2. \A i \in 1 .. n, v \in Int : step[<<i, v>>] = Wrap(2 * v) + s[i]
  OBVIOUS
<1> HIDE DEF step, n
<1>3. PICK f \in [0 .. n -> Int] : Recursive(f, n, 0, step)
  <2>1. n \in Nat /\ 0 \in Int
    BY <1>0
  <2> QED
    BY <1>1, <2>1, RecursionExists
<1>4. ASSUME NEW i \in 1 .. n PROVE f[i] = Wrap(2 * f[i - 1]) + s[i]
  <2>1. i - 1 \in 0 .. n
    BY <1>0
  <2>2. f[i - 1] \in Int /\ f[i] = step[<<i, f[i - 1]>>]
    BY <1>3, <2>1 DEF Recursive
  <2> QED
    BY <1>2, <2>2
<1>5. f[0] = 0
  BY <1>3 DEF Recursive
<1>6. \A i \in 0 .. n : f[i] = IF i = 0 THEN 0 ELSE Wrap(2 * f[i - 1]) + s[i]
  BY <1>0, <1>4, <1>5
<1>7. f = [i \in 0 .. n |-> IF i = 0 THEN 0 ELSE Wrap(2 * f[i - 1]) + s[i]]
  BY <1>6
<1> QED
  BY <1>7 DEF Hashing, n

LEMMA HashingValues ==
    ASSUME NEW s, Len(s) \in Nat, NEW f, Hashing(f, s)
    PROVE  /\ f[0] = 0
           /\ \A i \in 1 .. Len(s) : f[i] = Wrap(2 * f[i - 1]) + s[i]
<1>1. \A i \in 0 .. Len(s) :
          f[i] = IF i = 0 THEN 0 ELSE Wrap(2 * f[i - 1]) + s[i]
  BY DEF Hashing
<1> QED
  BY <1>1

\* There is only one.
LEMMA HashingSame ==
    ASSUME NEW s, Len(s) \in Nat, NEW f, Hashing(f, s), NEW g, Hashing(g, s)
    PROVE  f = g
<1> DEFINE n == Len(s)
           I == {i \in 0 .. n : f[i] = g[i]}
<1>1. /\ f[0] = 0 /\ \A i \in 1 .. n : f[i] = Wrap(2 * f[i - 1]) + s[i]
      /\ g[0] = 0 /\ \A i \in 1 .. n : g[i] = Wrap(2 * g[i - 1]) + s[i]
  BY HashingValues
<1>2. 0 \in I
  BY <1>1
<1>3. ASSUME NEW i \in 0 .. n - 1, i \in I PROVE i + 1 \in I
  <2>1. i + 1 \in 1 .. n /\ (i + 1) - 1 = i
    OBVIOUS
  <2>2. /\ f[i + 1] = Wrap(2 * f[i]) + s[i + 1]
        /\ g[i + 1] = Wrap(2 * g[i]) + s[i + 1]
    BY <1>1, <2>1
  <2> QED
    BY <1>3, <2>1, <2>2
<1>4. \A i \in 0 .. n : i \in I
  <2>1. n \in Nat
    OBVIOUS
  <2> HIDE DEF I, n
  <2> QED
    BY <1>2, <1>3, <2>1, IntervalInduction
<1>5. f = [i \in 0 .. n |-> f[i]] /\ g = [i \in 0 .. n |-> g[i]]
  BY DEF Hashing
<1>6. \A i \in 0 .. n : f[i] = g[i]
  BY <1>4
<1> QED
  BY <1>5, <1>6

LEMMA HashesIs ==
    ASSUME NEW s \in Seq(Int)
    PROVE  /\ Hashes(s) \in [0 .. Len(s) -> Int]
           /\ Hashes(s)[0] = 0
           /\ \A i \in 1 .. Len(s) :
                  Hashes(s)[i] = Wrap(2 * Hashes(s)[i - 1]) + s[i]
           /\ Hash(s) = Hashes(s)[Len(s)] /\ Hash(s) \in Int
<1>1. Len(s) \in Nat
  BY LenProperties
<1>2. PICK f \in [0 .. Len(s) -> Int] : Hashing(f, s)
  BY HashingExists
<1> DEFINE g == CHOOSE h : Hashing(h, s)
<1>3. Hashing(g, s)
  BY <1>2
<1>4. Hashes(s) = g
  BY DEF Hashes, Hashing
<1>5. Hashes(s) = f /\ Hashing(Hashes(s), s)
  BY <1>1, <1>2, <1>3, <1>4, HashingSame
<1>6. /\ Hashes(s)[0] = 0
      /\ \A i \in 1 .. Len(s) :
             Hashes(s)[i] = Wrap(2 * Hashes(s)[i - 1]) + s[i]
  BY <1>1, <1>5, HashingValues
<1> QED
  BY <1>1, <1>2, <1>5, <1>6 DEF Hash

LEMMA CongruentSelf ==
    ASSUME NEW m \in Int, NEW x \in Int
    PROVE  Congruent(x, x, m)
<1>1. x = x + 0 * m /\ 0 \in Int
  OBVIOUS
<1> QED
  BY <1>1 DEF Congruent

LEMMA CongruentSum ==
    ASSUME NEW m \in Int, NEW x \in Int, NEW y \in Int,
           NEW u \in Int, NEW v \in Int,
           Congruent(x, y, m), Congruent(u, v, m)
    PROVE  Congruent(x + u, y + v, m)
<1>1. PICK k \in Int : x = y + k * m
  BY DEF Congruent
<1>2. PICK l \in Int : u = v + l * m
  BY DEF Congruent
<1>3. x + u = (y + v) + (k + l) * m /\ k + l \in Int
  BY <1>1, <1>2
<1> QED
  BY <1>3 DEF Congruent

\* A window without its first character has the hash less that character's
\* weight, but for the bits that were dropped.
LEMMA HashTail ==
    ASSUME NEW w \in Seq(Int), NEW u \in Seq(Int), NEW n \in Nat,
           Len(w) = n + 1, n <= Len(u), \A i \in 1 .. n : u[i] = w[i + 1]
    PROVE  Congruent(Hash(w), Hashes(u)[n] + w[1] * TwoTo(n), Modulus)
<1>1. PICK f \in [0 .. n + 1 -> Int] :
          /\ f = Hashes(w) /\ f[0] = 0 /\ Hash(w) = f[n + 1]
          /\ \A i \in 1 .. n + 1 : f[i] = Wrap(2 * f[i - 1]) + w[i]
  <2>1. PICK f : f = Hashes(w)
    OBVIOUS
  <2>2. /\ f \in [0 .. Len(w) -> Int] /\ f[0] = 0 /\ Hash(w) = f[Len(w)]
        /\ \A i \in 1 .. Len(w) : f[i] = Wrap(2 * f[i - 1]) + w[i]
    BY <2>1, HashesIs
  <2>3. /\ f \in [0 .. n + 1 -> Int] /\ f[0] = 0 /\ Hash(w) = f[n + 1]
        /\ \A i \in 1 .. n + 1 : f[i] = Wrap(2 * f[i - 1]) + w[i]
    BY <2>2
  <2> QED
    BY <2>1, <2>3
<1>2. PICK g \in [0 .. Len(u) -> Int] :
          /\ g = Hashes(u) /\ g[0] = 0
          /\ \A i \in 1 .. Len(u) : g[i] = Wrap(2 * g[i - 1]) + u[i]
  BY HashesIs
<1>3. PICK m \in Nat : m = Modulus
  BY ModulusIs
<1>4. /\ \A i \in 1 .. n + 1 : w[i] \in Int
      /\ \A k \in 0 .. n : TwoTo(k) \in Int
      /\ Len(u) \in Nat
  <2>1. \A i \in 1 .. Len(w) : w[i] \in Int
    BY ElementOfSeq
  <2>2. \A k \in 0 .. n : TwoTo(k) \in Int
    <3> TAKE k \in 0 .. n
    <3>1. k \in Nat
      OBVIOUS
    <3>2. TwoTo(k) \in Nat
      BY <3>1, TwoToIs
    <3> QED
      BY <3>2
  <2>3. Len(u) \in Nat
    BY LenProperties
  <2> QED
    BY <2>1, <2>2, <2>3
<1> DEFINE A(k) == f[k + 1]
           B(k) == g[k] + w[1] * TwoTo(k)
           I == {k \in 0 .. n : Congruent(A(k), B(k), m)}
<1>5. 0 \in I
  <2>1. w[1] \in Int /\ f[1] = Wrap(2 * f[0]) + w[1]
    BY <1>1, <1>4
  <2>2. f[1] = Wrap(0) + w[1] /\ B(0) = 0 + w[1]
    BY <1>1, <1>2, <2>1, TwoToIs
  <2>3. Wrap(0) \in Int /\ Congruent(Wrap(0), 0, m) /\ Congruent(w[1], w[1], m)
    BY <1>3, <2>1, WrapIs, CongruentSelf
  <2>4. Congruent(Wrap(0) + w[1], 0 + w[1], m)
    BY <2>1, <2>3, CongruentSum
  <2> QED
    BY <2>2, <2>4
<1>6. ASSUME NEW k \in 0 .. n - 1, k \in I PROVE k + 1 \in I
  <2>1. /\ k + 1 \in 1 .. n /\ k + 2 \in 1 .. n + 1 /\ k + 1 \in 1 .. Len(u)
        /\ k \in 0 .. Len(u) /\ k + 1 \in 0 .. n + 1 /\ k \in Nat
        /\ (k + 2) - 1 = k + 1 /\ (k + 1) - 1 = k
    BY <1>4
  <2>2. PICK a \in Int, c \in Int, t \in Int, x \in Int, y \in Int :
          /\ a = f[k + 1] /\ c = g[k] /\ t = TwoTo(k)
          /\ x = w[1] /\ y = w[k + 2]
    <3>1. f[k + 1] \in Int
      BY <2>1
    <3>3. g[k] \in Int
      BY <2>1
    <3>4. TwoTo(k) \in Int
      BY <1>4, <2>1
    <3>2. w[1] \in Int /\ w[k + 2] \in Int
      BY <1>4, <2>1
    <3> QED
      BY <3>1, <3>2, <3>3, <3>4
  <2>3. f[k + 2] = Wrap(2 * a) + y
    BY <1>1, <2>1, <2>2
  <2>4. g[k + 1] = Wrap(2 * c) + y
    <3>1. u[k + 1] = w[k + 2]
      <4>1. PICK j \in 1 .. n : j = k + 1 /\ j + 1 = k + 2
        BY <2>1
      <4>2. u[j] = w[j + 1]
        OBVIOUS
      <4> QED
        BY <4>1, <4>2
    <3> QED
      BY <1>2, <2>1, <2>2, <3>1
  <2>5. TwoTo(k + 1) = 2 * t
    BY <2>1, <2>2, TwoToIs
  <2>6. Congruent(a, c + x * t, m)
    BY <1>6, <2>2
  <2>7. PICK wa \in Int, wc \in Int :
          /\ wa = Wrap(2 * a) /\ wc = Wrap(2 * c)
          /\ Congruent(wa, 2 * a, m) /\ Congruent(wc, 2 * c, m)
    BY <1>3, WrapIs, 2 * a \in Int, 2 * c \in Int
  <2>8. Congruent(wa, wc + x * (2 * t), m)
    <3>1. PICK k1 \in Int : wa = 2 * a + k1 * m
      BY <2>7 DEF Congruent
    <3>2. PICK k2 \in Int : wc = 2 * c + k2 * m
      BY <2>7 DEF Congruent
    <3>3. PICK k3 \in Int : a = c + x * t + k3 * m
      BY <2>6 DEF Congruent
    <3>4. PICK xt \in Int, q1 \in Int, q2 \in Int, q3 \in Int :
              xt = x * t /\ q1 = k1 * m /\ q2 = k2 * m /\ q3 = k3 * m
      OBVIOUS
    <3>5. wa = wc + 2 * xt + (2 * q3 + q1 - q2)
      BY <3>1, <3>2, <3>3, <3>4
    <3>6. 2 * q3 + q1 - q2 = (2 * k3 + k1 - k2) * m /\ 2 * xt = x * (2 * t)
      BY <3>4
    <3>7. 2 * k3 + k1 - k2 \in Int
      OBVIOUS
    <3> QED
      BY <3>5, <3>6, <3>7 DEF Congruent
  <2>9. Congruent(wa + y, (wc + x * (2 * t)) + y, m)
    <3>1. wc + x * (2 * t) \in Int /\ m \in Int
      OBVIOUS
    <3>2. Congruent(y, y, m)
      BY <3>1, CongruentSelf
    <3> QED
      BY <2>8, <3>1, <3>2, CongruentSum
  <2>10. (wc + x * (2 * t)) + y = (wc + y) + x * (2 * t)
    OBVIOUS
  <2>11. A(k + 1) = wa + y /\ B(k + 1) = (wc + y) + x * (2 * t)
    <3>1. (k + 1) + 1 = k + 2
      BY <2>1
    <3> QED
      BY <2>2, <2>3, <2>4, <2>5, <2>7, <3>1
  <2> QED
    BY <2>1, <2>9, <2>10, <2>11
<1>7. \A k \in 0 .. n : k \in I
  <2> HIDE DEF I
  <2> QED
    BY <1>5, <1>6, IntervalInduction
<1> QED
  BY <1>1, <1>2, <1>3, <1>7

\* The hash of the next window.
LEMMA HashRolls ==
    ASSUME NEW w \in Seq(Int), NEW u \in Seq(Int), NEW n \in Nat,
           Len(w) = n + 1, Len(u) = n + 1, \A i \in 1 .. n : u[i] = w[i + 1]
    PROVE  Hash(u) = Wrap(2 * (Hash(w) - w[1] * Wrap(TwoTo(n)))) + u[n + 1]
<1>1. /\ Hashes(u)[n] \in Int /\ Hash(w) \in Int
      /\ Hash(u) = Wrap(2 * Hashes(u)[n]) + u[n + 1]
  <2>1. n \in 0 .. Len(u) /\ n + 1 \in 1 .. Len(u) /\ (n + 1) - 1 = n
    OBVIOUS
  <2> QED
    BY <2>1, HashesIs
<1>2. PICK h \in Int, g \in Int, x \in Int, t \in Int, m \in Nat :
        /\ h = Hash(w) /\ g = Hashes(u)[n] /\ x = w[1] /\ t = TwoTo(n)
        /\ m = Modulus
  <2>1. 1 \in 1 .. Len(w)
    OBVIOUS
  <2>2. w[1] \in Int
    BY <2>1, ElementOfSeq
  <2>3. TwoTo(n) \in Int /\ Modulus \in Nat
    BY TwoToIs, ModulusIs
  <2> QED
    BY <1>1, <2>2, <2>3
<1>3. PICK v \in Int : v = Wrap(t) /\ Congruent(v, t, m)
  BY <1>2, WrapIs
<1>4. Congruent(h, g + x * t, m)
  <2>1. n <= Len(u)
    OBVIOUS
  <2>2. Congruent(Hash(w), Hashes(u)[n] + w[1] * TwoTo(n), Modulus)
    BY <2>1, HashTail
  <2> QED
    BY <1>2, <2>2
<1>5. Congruent(2 * (h - x * v), 2 * g, m)
  <2>1. PICK k1 \in Int : h = g + x * t + k1 * m
    BY <1>4 DEF Congruent
  <2>2. PICK k2 \in Int : v = t + k2 * m
    BY <1>3 DEF Congruent
  <2>3. x * v = x * t + (x * k2) * m
    BY <2>2
  <2>4. PICK xt \in Int, xv \in Int, q1 \in Int, q2 \in Int :
          xt = x * t /\ xv = x * v /\ q1 = k1 * m /\ q2 = (x * k2) * m
    OBVIOUS
  <2>5. 2 * (h - xv) = 2 * g + 2 * (q1 - q2)
    BY <2>1, <2>3, <2>4
  <2>6. 2 * (q1 - q2) = (2 * (k1 - x * k2)) * m
    BY <2>4
  <2>7. 2 * (k1 - x * k2) \in Int
    OBVIOUS
  <2> QED
    BY <2>4, <2>5, <2>6, <2>7 DEF Congruent
<1>6. 2 * (h - x * v) \in Int /\ 2 * g \in Int
  OBVIOUS
<1>7. Wrap(2 * (h - x * v)) = Wrap(2 * g)
  BY <1>2, <1>5, <1>6, WrapSame
<1> QED
  BY <1>1, <1>2, <1>3, <1>7

-----------------------------------------------------------------------------
(* The specification, from any texts and files of chars.                    *)

Byte == -128 .. 127

WellFormed(texts, files) ==
    /\ \A t \in texts : t[1] \in Seq(Byte)
    /\ \A a \in 1 .. 4 : files[a] \subseteq Seq(Seq(Byte))

Spec(texts, files) == Init(texts, files) /\ [][Next]_vars

DecodeType ==
    /\ data \in Seq(Byte) /\ pstr \in Nat /\ tmpbuf \in Seq(Byte)
    /\ Len(tmpbuf) <= pstr /\ pstr <= Len(data)

RulesType ==
    /\ alg \in 1 .. 4 /\ rules \in Seq(Seq(Byte)) /\ line \in 0 .. Len(rules)
    /\ at_list \in BOOLEAN

Searching == pc \in {"dfa", "horspool", "hash", "karp"}

\* What each search has in hand.
SearchType ==
    /\ pc = "decode" => line = 0 /\ ~at_list
    /\ pc = "pcre" => alg = 4
    /\ Searching => /\ line >= 1 /\ IsRule(rules[line])
                    /\ pat = Pattern(rules[line])
                    /\ pos \in Nat /\ ~at_list
    /\ pc = "dfa" => /\ alg = 1 /\ state \in 0 .. Len(pat) - 1
                     /\ pos <= Len(input)
    /\ pc = "horspool" => alg = 2 /\ nInd \in -1 .. Len(pat) - 1
    /\ pc \in {"hash", "karp"} => alg = 3
    /\ pc = "hash" => pos = 0

MatchInv == DecodeType /\ RulesType /\ SearchType

LEMMA ByteSeqs ==
    /\ Byte \subseteq Int /\ Seq(Byte) \subseteq Seq(Int)
    /\ \A s \in Seq(Byte) : Len(s) \in Nat /\ \A i \in 1 .. Len(s) : s[i] \in Byte
<1>1. Byte \subseteq Int
  BY DEF Byte
<1>2. Seq(Byte) \subseteq Seq(Int)
  BY <1>1, SeqMonotonic
<1> QED
  BY <1>1, <1>2, LenProperties, ElementOfSeq

\* What a search compares.
LEMMA SearchFacts ==
    ASSUME MatchInv
    PROVE  /\ tmpbuf \in Seq(Int) /\ input \in Seq(Int) /\ Len(input) \in Nat
           /\ Searching => /\ pat \in Seq(Int) /\ Len(pat) \in Nat /\ Len(pat) > 2
                           /\ \A i \in 1 .. Len(pat) : pat[i] \in Int
<1>1. tmpbuf \in Seq(Int)
  BY ByteSeqs DEF MatchInv, DecodeType
<1>2. input \in Seq(Int) /\ Len(input) \in Nat
  BY <1>1, InputIs
<1>3. ASSUME Searching
      PROVE  /\ pat \in Seq(Int) /\ Len(pat) \in Nat /\ Len(pat) > 2
             /\ \A i \in 1 .. Len(pat) : pat[i] \in Int
  <2>1. /\ line \in 1 .. Len(rules) /\ rules \in Seq(Seq(Byte))
        /\ IsRule(rules[line]) /\ pat = Pattern(rules[line])
    BY <1>3 DEF MatchInv, RulesType, SearchType
  <2>2. PICK r \in Seq(Int) : r = rules[line]
    BY <2>1, ByteSeqs, ElementOfSeq
  <2>3. Pattern(r) \in Seq(Int) /\ Len(Pattern(r)) \in Nat /\ Len(Pattern(r)) > 2
    BY <2>1, <2>2, PatternIs
  <2>4. pat \in Seq(Int) /\ Len(pat) \in Nat /\ Len(pat) > 2
    BY <2>1, <2>2, <2>3
  <2> QED
    BY <2>4, ElementOfSeq
<1> QED
  BY <1>1, <1>2, <1>3

\* As long as the text stays, so does what is read of it.
LEMMA SameInput ==
    ASSUME tmpbuf' = tmpbuf
    PROVE  /\ input' = input /\ \A k : InputAt(k)' = InputAt(k)
           /\ AsciiInput' = AsciiInput
<1>1. input' = input
  BY DEF input
<1> QED
  BY <1>1 DEF InputAt, AsciiInput

\* A decoded char is a char.
LEMMA EscapeIs ==
    ASSUME NEW a \in Int, NEW c \in Int
    PROVE  Escape(a, c) \in Byte
<1>1. ASSUME NEW n \in Int PROVE SignedChar(n) \in Byte
  <2>1. n % 256 \in 0 .. 255
    OBVIOUS
  <2> QED
    BY <2>1 DEF SignedChar, Byte
<1> DEFINE bit(weight) ==
               IF Bit(16 * from_hex(a), weight) + Bit(from_hex(c), weight) > 0
               THEN weight ELSE 0
<1>2. \A weight \in Int : bit(weight) \in Int
  OBVIOUS
<1>3. Escape(a, c) = SignedChar(bit(1) + bit(2) + bit(4) + bit(8)
                                + bit(16) + bit(32) + bit(64) + bit(128))
  BY DEF Escape
<1> HIDE DEF bit
<1>4. bit(1) + bit(2) + bit(4) + bit(8) + bit(16) + bit(32) + bit(64) + bit(128)
      \in Int
  BY <1>2
<1> QED
  BY <1>1, <1>3, <1>4

-----------------------------------------------------------------------------
(* The tables.                                                              *)

\* badCharHtable has the last place of a char in the pattern.
LEMMA BadTable ==
    ASSUME pat \in Seq(Int), NEW c \in Int
    PROVE  /\ badCharHtable(c) \in -1 .. Len(pat) - 1
           /\ \A i \in 1 .. Len(pat) : pat[i] = c => i - 1 <= badCharHtable(c)
<1>1. PICK n \in Nat : n = Len(pat)
  BY LenProperties
<1> DEFINE places == {i - 1 : i \in {i \in 1 .. n : pat[i] = c}}
           T == {-1} \cup places
<1>2. T \in SUBSET (-1 .. n - 1) /\ T # {}
  OBVIOUS
<1>3. \A i \in 1 .. n : pat[i] = c => i - 1 \in T
  OBVIOUS
<1>4. badCharHtable(c) = Max(T)
  BY <1>1 DEF badCharHtable
<1> HIDE DEF T
<1>5. T \in SUBSET Int /\ n \in Int /\ \A t \in T : t <= n
  BY <1>2
<1>6. Max(T) \in T /\ \A t \in T : t <= Max(T)
  BY <1>2, <1>5, MaxOf
<1> QED
  BY <1>1, <1>2, <1>3, <1>4, <1>6

\* Where NextMachineState looks after a mismatch.
Fallbacks(q, x) ==
    {fix \in 1 .. q : /\ pat[fix] = x
                      /\ \A i \in 1 .. fix - 1 : pat[i] = pat[q - fix + 1 + i]}

LEMMA FallbackIs ==
    ASSUME NEW q \in Nat, NEW x
    PROVE  /\ Max({0} \cup Fallbacks(q, x)) \in {0} \cup Fallbacks(q, x)
           /\ \A f \in Fallbacks(q, x) : f <= Max({0} \cup Fallbacks(q, x))
<1> DEFINE T == {0} \cup Fallbacks(q, x)
<1>1. T \in SUBSET (0 .. q) /\ T # {}
  BY DEF Fallbacks
<1> HIDE DEF T
<1>2. T \in SUBSET Int /\ q \in Int /\ \A t \in T : t <= q
  BY <1>1
<1>3. Max(T) \in T /\ \A t \in T : t <= Max(T)
  BY <1>1, <1>2, MaxOf
<1> QED
  BY <1>3 DEF T

\* No row of the automaton leads out of the table.
LEMMA NextInTable ==
    ASSUME Len(pat) \in Nat, NEW q \in 0 .. Len(pat) - 1, NEW x
    PROVE  NextMachineState(q, x) \in 0 .. Len(pat)
<1>1. Max({0} \cup Fallbacks(q, x)) \in 0 .. q
  <2>1. {0} \cup Fallbacks(q, x) \subseteq 0 .. q
    BY DEF Fallbacks
  <2> QED
    BY <2>1, FallbackIs
<1>2. NextMachineState(q, x) =
          IF q < Len(pat) /\ x = pat[q + 1] THEN q + 1
          ELSE Max({0} \cup Fallbacks(q, x))
  BY DEF NextMachineState, Fallbacks
<1> QED
  BY <1>1, <1>2

-----------------------------------------------------------------------------
(* Every step keeps the types.                                              *)

LEMMA InitType ==
    ASSUME NEW texts, NEW files, WellFormed(texts, files), Init(texts, files)
    PROVE  MatchInv
<1>1. data \in Seq(Byte) /\ alg \in 1 .. 4 /\ rules \in Seq(Seq(Byte))
  BY DEF WellFormed, Init
<1>2. Len(data) \in Nat /\ Len(rules) \in Nat /\ <<>> \in Seq(Byte)
  BY <1>1, LenProperties, EmptySeq
<1>3. pstr = 0 /\ tmpbuf = <<>> /\ line = 0 /\ at_list = FALSE /\ pc = "decode"
  BY DEF Init
<1>4. DecodeType
  <2>1. Len(tmpbuf) = 0 /\ tmpbuf \in Seq(Byte)
    BY <1>2, <1>3, LenProperties
  <2> QED
    BY <1>1, <1>2, <1>3, <2>1 DEF DecodeType
<1>5. RulesType
  <2>1. line \in 0 .. Len(rules)
    BY <1>2, <1>3
  <2>2. at_list \in BOOLEAN
    BY <1>3
  <2> QED
    BY <1>1, <2>1, <2>2 DEF RulesType
<1>6. SearchType
  BY <1>3 DEF SearchType, Searching
<1> QED
  BY <1>4, <1>5, <1>6 DEF MatchInv

LEMMA DecodeCharType ==
    ASSUME MatchInv, DecodeChar
    PROVE  MatchInv'
<1>1. /\ data' = data /\ alg' = alg /\ rules' = rules /\ line' = line
      /\ at_list' = at_list /\ pc' = pc /\ pc = "decode"
  BY DEF DecodeChar
<1>2. /\ data \in Seq(Byte) /\ Len(data) \in Nat /\ pstr \in Nat
      /\ tmpbuf \in Seq(Byte) /\ Len(tmpbuf) <= pstr /\ pstr < Len(data)
      /\ Len(tmpbuf) \in Nat
  BY LenProperties DEF MatchInv, DecodeType, DecodeChar
<1>3. \A k \in 0 .. 2 : DataAt(k) \in Byte
  <2> TAKE k \in 0 .. 2
  <2>1. CASE pstr + k < Len(data)
    <3>1. pstr + k + 1 \in 1 .. Len(data)
      BY <1>2, <2>1
    <3> QED
      BY <1>2, <2>1, <3>1, ByteSeqs DEF DataAt
  <2> QED
    BY <2>1 DEF DataAt, Byte
<1>4. ASSUME NEW e \in Byte
      PROVE  /\ Append(tmpbuf, e) \in Seq(Byte)
             /\ Len(Append(tmpbuf, e)) = Len(tmpbuf) + 1
  BY <1>2, AppendProperties
<1>5. /\ tmpbuf' \in Seq(Byte) /\ pstr' \in Nat
      /\ Len(tmpbuf') <= pstr' /\ pstr' <= Len(data)
  <2>1. CASE /\ HasTwoMore /\ pstr' = pstr + 3
             /\ tmpbuf' = Append(tmpbuf, Escape(DataAt(1), DataAt(2)))
    <3>1. Escape(DataAt(1), DataAt(2)) \in Byte
      <4>1. DataAt(1) \in Int /\ DataAt(2) \in Int
        BY <1>3 DEF Byte
      <4> QED
        BY <4>1, EscapeIs
    <3>2. pstr + 3 <= Len(data)
      BY <2>1 DEF HasTwoMore
    <3>3. tmpbuf' \in Seq(Byte) /\ Len(tmpbuf') = Len(tmpbuf) + 1
      BY <1>4, <2>1, <3>1
    <3> QED
      BY <1>2, <2>1, <3>2, <3>3
  <2>2. CASE pstr' = pstr + 1 /\ UNCHANGED tmpbuf
    BY <1>2, <2>2
  <2>3. CASE /\ pstr' = pstr + 1
             /\ tmpbuf' = Append(tmpbuf, IF DataAt(0) = Plus THEN Blank
                                                             ELSE DataAt(0))
    <3>1. (IF DataAt(0) = Plus THEN Blank ELSE DataAt(0)) \in Byte
      BY <1>3 DEF Blank, Byte
    <3>2. tmpbuf' \in Seq(Byte) /\ Len(tmpbuf') = Len(tmpbuf) + 1
      BY <1>4, <2>3, <3>1
    <3> QED
      BY <1>2, <2>3, <3>2
  <2> QED
    BY <2>1, <2>2, <2>3 DEF DecodeChar
<1>6. DecodeType'
  BY <1>1, <1>2, <1>5 DEF DecodeType
<1>7. RulesType'
  BY <1>1 DEF MatchInv, RulesType
<1>8. SearchType'
  BY <1>1 DEF MatchInv, SearchType, Searching
<1> QED
  BY <1>6, <1>7, <1>8 DEF MatchInv

\* The types after a step that leaves the text, the rules and the line.
LEMMA SameTextType ==
    ASSUME MatchInv, UNCHANGED text, UNCHANGED <<alg, rules, line>>,
           at_list' \in BOOLEAN
    PROVE  DecodeType' /\ RulesType' /\ input' = input
<1>1. DecodeType'
  BY DEF MatchInv, DecodeType, text
<1>2. RulesType'
  BY DEF MatchInv, RulesType
<1> QED
  BY <1>1, <1>2, SameInput DEF text

\* A search that is over leaves nothing to say of.
LEMMA ReturnType ==
    ASSUME MatchInv, NEW r, Return(r), at_list' \in BOOLEAN
    PROVE  MatchInv'
<1>1. DecodeType' /\ RulesType'
  BY SameTextType DEF Return
<1>2. SearchType'
  BY DEF Return, SearchType, Searching
<1> QED
  BY <1>1, <1>2 DEF MatchInv

\* Nor does the end of the process.
LEMMA StopType ==
    ASSUME MatchInv, NEW p \in {"crashed", "trapped", "exited"}, Continue(p)
    PROVE  MatchInv'
<1>1. DecodeType' /\ RulesType'
  BY SameTextType DEF Continue, MatchInv, RulesType
<1>2. SearchType'
  BY DEF Continue, SearchType, Searching
<1> QED
  BY <1>1, <1>2 DEF MatchInv

\* The pattern of the next rule.
LEMMA NextPattern ==
    ASSUME MatchInv, NextLine, IsRule(rules[line'])
    PROVE  pat' \in Seq(Int) /\ Len(pat') \in Nat /\ Len(pat') > 2
<1>1. line' \in 1 .. Len(rules) /\ rules \in Seq(Seq(Byte))
  BY LenProperties DEF MatchInv, RulesType, NextLine
<1>2. PICK r \in Seq(Int) : r = rules[line']
  BY <1>1, ByteSeqs, ElementOfSeq
<1>3. pat' = Pattern(r)
  BY <1>2 DEF NextLine
<1> QED
  BY <1>2, <1>3, PatternIs

\* matchlist: the loop, and the start of a search.
LEMMA NextLineType ==
    ASSUME MatchInv, NextLine
    PROVE  MatchInv'
<1>1. /\ UNCHANGED <<alg, rules, at_list>> /\ UNCHANGED text
      /\ line' = line + 1 /\ line < Len(rules) /\ ~at_list /\ pc = "rule"
  BY DEF NextLine
<1>2. DecodeType' /\ input' = input
  BY <1>1, SameInput DEF MatchInv, DecodeType, text
<1>3. RulesType' /\ line' \in 1 .. Len(rules) /\ rules \in Seq(Seq(Byte))
  BY <1>1, LenProperties DEF MatchInv, RulesType
<1>4. SearchType'
  <2>1. CASE IsRule(rules[line'])
    <3>1. /\ pc' = SearchState /\ pat' = Pattern(rules[line'])
          /\ pos' = 0 /\ state' = 0 /\ nInd' = Len(pat') - 1
      BY <2>1 DEF NextLine
    <3>2. Len(pat') \in Nat /\ Len(pat') > 2
      BY <2>1, NextPattern
    <3>3. Len(input) \in Nat
      BY SearchFacts
    <3>4. alg \in 1 .. 4 /\ alg' = alg /\ rules' = rules
      BY <1>1 DEF MatchInv, RulesType
    <3>5. \/ pc' = "dfa" /\ alg = 1
          \/ pc' = "horspool" /\ alg = 2
          \/ pc' = "hash" /\ alg = 3
          \/ pc' = "pcre" /\ alg = 4
      <4>1. alg = 1 \/ alg = 2 \/ alg = 3 \/ alg = 4
        BY <3>4
      <4> QED
        BY <3>1, <4>1 DEF SearchState
    <3> QED
      BY <1>1, <1>2, <1>3, <2>1, <3>1, <3>2, <3>3, <3>4, <3>5
      DEF SearchType, Searching
  <2>2. CASE ~IsRule(rules[line'])
    <3>1. pc' = "rule"
      BY <1>1, <2>2 DEF NextLine
    <3> QED
      BY <3>1 DEF SearchType, Searching
  <2> QED
    BY <2>1, <2>2
<1> QED
  BY <1>2, <1>3, <1>4 DEF MatchInv

\* DFA_Search.
LEMMA DfaStepType ==
    ASSUME MatchInv, DfaStep
    PROVE  MatchInv' /\ state' \in 0 .. Len(pat)
<1>1. /\ pc = "dfa" /\ pos \in Nat /\ pos < Len(input) /\ ~at_list
      /\ state \in 0 .. Len(pat) - 1 /\ line >= 1 /\ alg = 1
      /\ IsRule(rules[line]) /\ pat = Pattern(rules[line])
  BY DEF DfaStep, MatchInv, SearchType, Searching
<1>2. Len(pat) \in Nat /\ Len(input) \in Nat
  BY <1>1, SearchFacts DEF Searching
<1>3. \A k \in Nat : InputAt(k) \in Int
  BY SearchFacts, InputIs
<1>4. state' \in 0 .. Len(pat)
  <2>1. CASE OutsideTable
    BY <2>1 DEF DfaStep
  <2>2. CASE ~OutsideTable
    <3>1. state' = TF
      BY <2>2 DEF DfaStep
    <3>2. CASE InputAt(pos) >= 0
      BY <1>1, <1>2, <3>1, <3>2, NextInTable DEF TF
    <3>3. CASE ~(InputAt(pos) >= 0)
      <4>1. InputAt(pos) < 0
        BY <1>1, <1>3, <3>3
      <4>2. state - 1 \in 0 .. Len(pat) - 1
        BY <1>1, <1>2, <2>2, <4>1 DEF OutsideTable
      <4> QED
        BY <1>2, <3>1, <3>3, <4>2, NextInTable DEF TF
    <3> QED
      BY <3>2, <3>3
  <2> QED
    BY <2>1, <2>2
<1>5. CASE state' = Len(pat)
  <2>1. Return(TRUE)
    BY <1>5 DEF DfaStep
  <2>2. at_list' \in BOOLEAN
    BY <2>1 DEF Return
  <2> QED
    BY <1>4, <2>1, <2>2, ReturnType
<1>6. CASE state' # Len(pat)
  <2>1. Continue("dfa") /\ pos' = pos + 1 /\ UNCHANGED <<pat, nInd, var2>>
    <3>1. PICK q : /\ state' = q
                   /\ IF q = Len(pat) THEN Return(TRUE) /\ pos' = pos
                                      ELSE Continue("dfa") /\ pos' = pos + 1
      BY DEF DfaStep
    <3>2. UNCHANGED <<pat, nInd, var2>>
      BY DEF DfaStep
    <3> QED
      BY <1>6, <3>1, <3>2
  <2>2. DecodeType' /\ RulesType' /\ input' = input
    BY <2>1, SameTextType DEF Continue, MatchInv, RulesType
  <2>3. SearchType'
    BY <1>1, <1>2, <1>4, <1>6, <2>1, <2>2 DEF Continue, SearchType, Searching
  <2> QED
    BY <1>4, <2>2, <2>3 DEF MatchInv
<1> QED
  BY <1>5, <1>6

\* horspool_search.
LEMMA ShiftIs ==
    ASSUME nInd \in Int, NEW bad \in Int
    PROVE  /\ Shift(bad) \in Int /\ Shift(bad) >= 1
           /\ Shift(bad) = 1 \/ Shift(bad) = nInd - bad
<1>1. PICK d \in Int : d = nInd - bad
  OBVIOUS
<1>2. Max({1, d}) \in {1, d} /\ 1 <= Max({1, d})
  <2>1. 1 \in Int
    OBVIOUS
  <2> QED
    BY <2>1, MaxOfTwo, Zenon
<1> QED
  BY <1>1, <1>2 DEF Shift

LEMMA HorspoolFacts ==
    ASSUME MatchInv, pc = "horspool", pos <= Len(input) - Len(pat), nInd >= 0
    PROVE  /\ pos \in Nat /\ nInd \in 0 .. Len(pat) - 1 /\ ~at_list
           /\ pat \in Seq(Int) /\ Len(pat) \in Nat /\ Len(pat) > 2
           /\ input \in Seq(Int) /\ Len(input) \in Nat
           /\ pos + nInd \in 0 .. Len(input) - 1
           /\ InputAt(pos + nInd) = input[pos + nInd + 1]
           /\ InputAt(pos + nInd) \in Int
           /\ pat[nInd + 1] \in Int
<1>1. /\ pos \in Nat /\ nInd \in -1 .. Len(pat) - 1 /\ ~at_list
  BY DEF MatchInv, SearchType, Searching
<1>2. /\ pat \in Seq(Int) /\ Len(pat) \in Nat /\ Len(pat) > 2
      /\ \A i \in 1 .. Len(pat) : pat[i] \in Int
      /\ input \in Seq(Int) /\ Len(input) \in Nat /\ tmpbuf \in Seq(Int)
  BY SearchFacts DEF Searching
<1>3. nInd \in 0 .. Len(pat) - 1 /\ nInd + 1 \in 1 .. Len(pat)
      /\ pos + nInd \in 0 .. Len(input) - 1 /\ pos + nInd \in Nat
  BY <1>1, <1>2
<1>4. /\ InputAt(pos + nInd) = input[pos + nInd + 1]
      /\ InputAt(pos + nInd) \in Int
  BY <1>2, <1>3, InputIs
<1> QED
  BY <1>1, <1>2, <1>3, <1>4

LEMMA HorspoolShiftIs ==
    ASSUME MatchInv, HorspoolShift
    PROVE  pos' \in Nat /\ pos' > pos
<1>1. /\ pos \in Nat /\ nInd \in 0 .. Len(pat) - 1 /\ pat \in Seq(Int)
      /\ Len(input) \in Nat /\ InputAt(pos + nInd) \in Int
  BY HorspoolFacts DEF HorspoolShift
<1>2. CASE InputAt(pos + nInd) >= 0
  <2>1. PICK bad \in Int : bad = badCharHtable(InputAt(pos + nInd))
    <3>1. PICK c \in Int : c = InputAt(pos + nInd)
      BY <1>1
    <3>2. badCharHtable(c) \in -1 .. Len(pat) - 1
      BY <1>1, BadTable
    <3>3. Len(pat) \in Nat
      BY <1>1, LenProperties
    <3>4. badCharHtable(c) \in Int
      BY <3>2, <3>3
    <3> QED
      BY <3>1, <3>4
  <2>2. pos' = pos + Shift(bad)
    BY <1>2, <2>1 DEF HorspoolShift
  <2>3. Shift(bad) \in Int /\ Shift(bad) >= 1
    <3>1. nInd \in Int
      BY <1>1
    <3> QED
      BY <3>1, ShiftIs
  <2> QED
    BY <1>1, <2>2, <2>3
<1>3. CASE ~(InputAt(pos + nInd) >= 0)
  <2>1. pos' \in pos + 1 .. Len(input) + 1
    BY <1>3 DEF HorspoolShift
  <2> QED
    BY <1>1, <2>1
<1> QED
  BY <1>2, <1>3

\* The types after a step of a search that goes on.
LEMMA GoesOnType ==
    ASSUME MatchInv, Searching, pat' = pat, pos' \in Nat,
           NEW p \in {"horspool", "karp"}, Continue(p),
           p = "horspool" => alg = 2 /\ nInd' \in -1 .. Len(pat) - 1,
           p = "karp" => alg = 3
    PROVE  MatchInv'
<1>1. DecodeType' /\ RulesType' /\ input' = input
  BY SameTextType DEF Continue, MatchInv, RulesType
<1>2. /\ pc' = p /\ UNCHANGED <<alg, rules, line, at_list>>
  BY DEF Continue
<1>3. /\ line >= 1 /\ IsRule(rules[line]) /\ pat = Pattern(rules[line])
      /\ ~at_list
  BY DEF MatchInv, SearchType
<1>4. SearchType'
  BY <1>2, <1>3 DEF SearchType, Searching
<1> QED
  BY <1>1, <1>4 DEF MatchInv

LEMMA HorspoolType ==
    ASSUME MatchInv, HorspoolCompare \/ HorspoolShift
    PROVE  MatchInv'
<1>1. /\ pos \in Nat /\ nInd \in 0 .. Len(pat) - 1 /\ Len(pat) \in Nat
      /\ Len(pat) > 2 /\ alg = 2 /\ Searching
  BY HorspoolFacts
  DEF HorspoolCompare, HorspoolShift, MatchInv, SearchType, Searching
<1>2. pat' = pat /\ Continue("horspool")
  BY DEF HorspoolCompare, HorspoolShift
<1>3. pos' \in Nat
  BY <1>1, HorspoolShiftIs DEF HorspoolCompare
<1>4. nInd' \in -1 .. Len(pat) - 1
  BY <1>1 DEF HorspoolCompare, HorspoolShift
<1> QED
  BY <1>1, <1>2, <1>3, <1>4, GoesOnType

\* Rabin_Karp_search.
LEMMA KarpType ==
    ASSUME MatchInv, HashFirst \/ KarpRoll
    PROVE  MatchInv'
<1>1. pos \in Nat /\ alg = 3 /\ Searching
  BY DEF HashFirst, KarpRoll, KarpWindow, MatchInv, SearchType, Searching
<1>2. CASE Continue("trapped")
  BY <1>2, StopType
<1>3. CASE ~Continue("trapped")
  <2>1. pat' = pat /\ Continue("karp") /\ (pos' = pos \/ pos' = pos + 1)
    BY <1>3 DEF HashFirst, KarpRoll
  <2> QED
    BY <1>1, <2>1, GoesOnType
<1> QED
  BY <1>2, <1>3

LEMMA TypeStep ==
    ASSUME MatchInv, [Next]_vars
    PROVE  MatchInv'
<1>1. CASE DecodeChar
  BY <1>1, DecodeCharType
<1>2. CASE DecodeEnd \/ matchlist_returns
  <2>1. /\ UNCHANGED text /\ UNCHANGED <<alg, rules, line, at_list>>
        /\ pc' \in {"rule", "crashed", "done"}
    BY <1>2 DEF DecodeEnd, matchlist_returns
  <2>2. DecodeType' /\ RulesType'
    BY <2>1, SameTextType DEF MatchInv, RulesType
  <2>3. SearchType'
    BY <2>1 DEF SearchType, Searching
  <2> QED
    BY <2>2, <2>3 DEF MatchInv
<1>3. CASE NextLine
  BY <1>3, NextLineType
<1>4. CASE DfaStep
  BY <1>4, DfaStepType
<1>5. CASE DfaLost \/ HorspoolLost
  BY <1>5, StopType DEF DfaLost, HorspoolLost
<1>6. CASE DfaEnd \/ HorspoolFound \/ HorspoolEnd \/ KarpFound \/ KarpEnd
  <2>1. Return(TRUE) \/ Return(FALSE)
    BY <1>6 DEF DfaEnd, HorspoolFound, HorspoolEnd, KarpFound, KarpEnd
  <2>2. at_list' \in BOOLEAN
    BY <2>1 DEF Return
  <2> QED
    BY <2>1, <2>2, ReturnType
<1>7. CASE HorspoolCompare \/ HorspoolShift
  BY <1>7, HorspoolType
<1>8. CASE HashFirst \/ KarpRoll
  BY <1>8, KarpType
<1>9. CASE PcreSearch
  <2>1. CASE Return(<<rules[line], input>> \in PcreMatches)
    <3>1. at_list' = (<<rules[line], input>> \in PcreMatches)
      BY <2>1 DEF Return
    <3>2. at_list' \in BOOLEAN
      BY <3>1
    <3> QED
      BY <2>1, <3>2, ReturnType
  <2>2. CASE Continue("exited")
    BY <2>2, StopType
  <2> QED
    BY <1>9, <2>1, <2>2 DEF PcreSearch
<1>10. CASE UNCHANGED vars
  <2>1. UNCHANGED text /\ UNCHANGED <<alg, rules, line, at_list>>
        /\ UNCHANGED <<pc, pat, pos, state, nInd>>
    BY <1>10 DEF vars, text
  <2>2. DecodeType' /\ RulesType' /\ input' = input
    BY <2>1, SameTextType DEF MatchInv, RulesType
  <2>3. SearchType'
    BY <2>1, <2>2 DEF MatchInv, SearchType, Searching
  <2> QED
    BY <2>2, <2>3 DEF MatchInv
<1> QED
  BY <1>1, <1>2, <1>3, <1>4, <1>5, <1>6, <1>7, <1>8, <1>9, <1>10 DEF Next, Ended

LEMMA AlwaysTyped ==
    ASSUME NEW texts, NEW files, WellFormed(texts, files)
    PROVE  Spec(texts, files) => []MatchInv
<1>1. Init(texts, files) => MatchInv
  BY InitType
<1>2. MatchInv /\ [Next]_vars => MatchInv'
  BY TypeStep
<1> QED
  BY <1>1, <1>2, PTL DEF Spec

\* urldecode reads no further than the text, and writes no more than the text's
\* length: the '%' that has no two characters after it is dropped.
THEOREM DecoderInBounds ==
    ASSUME NEW texts, NEW files, WellFormed(texts, files)
    PROVE  Spec(texts, files) => []DecodeInBounds
<1>1. MatchInv => DecodeInBounds
  <2> SUFFICES ASSUME MatchInv PROVE DecodeInBounds
    OBVIOUS
  <2>1. /\ Len(tmpbuf) \in Nat /\ Len(data) \in Nat /\ pstr \in Nat
        /\ Len(tmpbuf) <= pstr /\ pstr <= Len(data)
    BY LenProperties DEF MatchInv, DecodeType
  <2> QED
    BY <2>1 DEF DecodeInBounds
<1>2. Spec(texts, files) => []MatchInv
  BY AlwaysTyped
<1> QED
  BY <1>1, <1>2, PTL

\* horspool_search never shifts the pattern back or leaves it where it is, for
\* any pattern and whatever is read outside its table.
THEOREM HorspoolAdvances ==
    ASSUME NEW texts, NEW files, WellFormed(texts, files)
    PROVE  Spec(texts, files) => SearchAdvances
<1> DEFINE A == pc = "horspool" /\ nInd' > nInd /\ line' = line => pos' > pos
<1>1. MatchInv /\ [Next]_vars => [A]_vars
  <2> SUFFICES ASSUME MatchInv, Next, pc = "horspool", nInd' > nInd
               PROVE  pos' > pos
    OBVIOUS
  <2>1. nInd \in Int
    BY DEF MatchInv, SearchType
  <2>2. CASE HorspoolShift
    BY <2>2, HorspoolShiftIs
  <2>3. CASE HorspoolCompare
    BY <2>1, <2>3 DEF HorspoolCompare
  <2>4. CASE HorspoolFound \/ HorspoolLost \/ HorspoolEnd
    <3>1. nInd' = nInd
      BY <2>4 DEF HorspoolFound, HorspoolLost, HorspoolEnd, search
    <3> QED
      BY <2>1, <3>1
  <2> QED
    BY <2>2, <2>3, <2>4
    DEF Next, DecodeChar, DecodeEnd, NextLine, matchlist_returns, DfaStep,
        DfaLost, DfaEnd, HashFirst, KarpFound, KarpRoll, KarpEnd, KarpWindow,
        PcreSearch, Ended
<1>2. Spec(texts, files) => []MatchInv
  BY AlwaysTyped
<1> QED
  BY <1>1, <1>2, PTL DEF Spec, SearchAdvances

-----------------------------------------------------------------------------
(* Occurrences.                                                             *)

At(p, t, k) == \A i \in 1 .. Len(p) : t[k + i] = p[i]

LEMMA OccursAtIs ==
    ASSUME NEW p \in Seq(Int), NEW t \in Seq(Int), NEW k \in Nat
    PROVE  OccursAt(p, t, k) <=> k + Len(p) <= Len(t) /\ At(p, t, k)
<1>0. /\ Len(p) \in Nat /\ Len(t) \in Nat /\ k + 1 \in Int /\ k + Len(p) \in Int
      /\ \A i \in 1 .. Len(t) : t[i] \in Int
  BY LenProperties, ElementOfSeq
<1>1. CASE k + Len(p) <= Len(t)
  <2>1. \A i \in k + 1 .. k + Len(p) : t[i] \in Int
    BY <1>0, <1>1
  <2>2. PICK m \in Int, n \in Int : m = k + 1 /\ n = k + Len(p)
    BY <1>0
  <2>3. PICK w \in Seq(Int) : w = SubSeq(t, m, n) /\ Len(w) = Len(p)
                              /\ \A i \in 1 .. Len(p) : w[i] = t[k + i]
    <3>1. PICK w : w = SubSeq(t, m, n)
      OBVIOUS
    <3>2. /\ w \in Seq(Int) /\ Len(w) = IF m <= n THEN n - m + 1 ELSE 0
          /\ \A i \in 1 .. n - m + 1 : w[i] = t[m + i - 1]
      BY <2>1, <2>2, <3>1, SubSeqProperties
    <3>3. n - m + 1 = Len(p) /\ \A i \in Int : m + i - 1 = k + i
      BY <1>0, <2>2
    <3>4. Len(w) = Len(p)
      BY <1>0, <3>2, <3>3
    <3>5. \A i \in 1 .. Len(p) : w[i] = t[k + i]
      <4> TAKE i \in 1 .. Len(p)
      <4>1. i \in 1 .. n - m + 1 /\ m + i - 1 = k + i
        BY <1>0, <3>3
      <4>2. w[i] = t[m + i - 1]
        BY <3>2, <4>1
      <4> QED
        BY <4>1, <4>2
    <3> QED
      BY <3>1, <3>2, <3>4, <3>5
  <2>4. w = p <=> \A i \in 1 .. Len(p) : w[i] = p[i]
    BY <2>3, SeqEqual
  <2>5. w = p <=> At(p, t, k)
    BY <2>3, <2>4 DEF At
  <2> QED
    BY <1>1, <2>2, <2>3, <2>5 DEF OccursAt
<1> QED
  BY <1>1 DEF OccursAt

LEMMA OccursIs ==
    ASSUME NEW p \in Seq(Int), NEW t \in Seq(Int)
    PROVE  Occurs(p, t) <=> \E k \in Nat : OccursAt(p, t, k)
<1>1. Len(p) \in Nat /\ Len(t) \in Nat
  BY LenProperties
<1>2. ASSUME NEW k \in Nat, OccursAt(p, t, k)
      PROVE  k \in 0 .. Len(t) - Len(p)
  <2>1. k + Len(p) <= Len(t)
    BY <1>2 DEF OccursAt
  <2> QED
    BY <1>1, <2>1
<1>3. \A k \in 0 .. Len(t) - Len(p) : k \in Nat
  BY <1>1
<1> QED
  BY <1>2, <1>3 DEF Occurs

\* No occurrence begins before place n of the text.
NoneBefore(n) == \A k \in 0 .. n - 1 : ~OccursAt(pat, input, k)

LEMMA NoneLeft ==
    ASSUME pat \in Seq(Int), input \in Seq(Int), NEW n \in Nat,
           NoneBefore(n), n > Len(input) - Len(pat)
    PROVE  ~Occurs(pat, input)
<1>1. Len(pat) \in Nat /\ Len(input) \in Nat
  BY LenProperties
<1>2. \A k \in 0 .. Len(input) - Len(pat) : k \in 0 .. n - 1
  BY <1>1
<1> QED
  BY <1>2 DEF NoneBefore, Occurs

-----------------------------------------------------------------------------
(* horspool_search steps over no occurrence.                                *)

\* A shift by the table: c, which the pattern has at bad last, is at n in the
\* text, where the pattern has something else.
LEMMA BadCharacter ==
    ASSUME NEW p \in Seq(Int), NEW t \in Seq(Int), NEW from \in Nat,
           NEW n \in 0 .. Len(p) - 1, NEW bad \in -1 .. Len(p) - 1,
           p[n + 1] # t[from + n + 1],
           \A i \in 1 .. Len(p) : p[i] = t[from + n + 1] => i - 1 <= bad,
           NEW k \in Nat, k >= from, k = from \/ k < from + (n - bad)
    PROVE  ~OccursAt(p, t, k)
<1> SUFFICES ASSUME At(p, t, k) PROVE FALSE
  BY OccursAtIs
<1>1. PICK m \in Nat : m = Len(p)
  BY LenProperties
<1>2. n \in 0 .. m - 1 /\ bad \in -1 .. m - 1
  BY <1>1
<1>3. PICK i \in Int : i = (from + n + 1) - k
  BY <1>2
<1>4. i \in 1 .. m
  BY <1>2, <1>3
<1>5. p[i] = t[from + n + 1]
  <2>1. t[k + i] = p[i]
    BY <1>1, <1>4 DEF At
  <2>2. k + i = from + n + 1
    BY <1>2, <1>3
  <2> QED
    BY <2>1, <2>2
<1>6. CASE k = from
  <2>1. i = n + 1
    BY <1>2, <1>3, <1>6
  <2> QED
    BY <1>5, <2>1
<1>7. CASE k < from + (n - bad)
  <2>1. i - 1 <= bad
    BY <1>1, <1>4, <1>5
  <2> QED
    BY <1>2, <1>3, <1>7, <2>1
<1> QED
  BY <1>6, <1>7

\* What was compared agrees.
Compared == \A i \in nInd + 2 .. Len(pat) : InputAt(pos + i - 1) = pat[i]

HorspoolInv ==
    pc = "horspool" => Compared /\ (AsciiInput => NoneBefore(pos))

LEMMA CompareKeeps ==
    ASSUME MatchInv, HorspoolInv, HorspoolCompare
    PROVE  HorspoolInv'
<1>1. /\ pc = "horspool" /\ pat' = pat /\ pos' = pos /\ nInd' = nInd - 1
      /\ pat[nInd + 1] = InputAt(pos + nInd) /\ tmpbuf' = tmpbuf
  BY DEF HorspoolCompare, Continue, text
<1>2. /\ pos \in Nat /\ nInd \in 0 .. Len(pat) - 1 /\ Len(pat) \in Nat
  BY HorspoolFacts DEF HorspoolCompare
<1>3. Compared'
  <2>1. ASSUME NEW i \in nInd + 1 .. Len(pat) PROVE InputAt(pos + i - 1) = pat[i]
    <3>1. CASE i = nInd + 1
      <4>1. pos + i - 1 = pos + nInd
        BY <1>2, <3>1
      <4> QED
        BY <1>1, <3>1, <4>1
    <3>2. CASE i # nInd + 1
      <4>1. i \in nInd + 2 .. Len(pat)
        BY <1>2, <3>2
      <4> QED
        BY <1>1, <4>1 DEF HorspoolInv, Compared
    <3> QED
      BY <3>1, <3>2
  <2>2. nInd' + 2 = nInd + 1
    BY <1>1, <1>2
  <2> QED
    BY <1>1, <2>1, <2>2 DEF Compared, InputAt
<1>4. AsciiInput' => NoneBefore(pos)'
  BY <1>1, SameInput DEF HorspoolInv, NoneBefore
<1> QED
  BY <1>3, <1>4 DEF HorspoolInv

LEMMA FoundIs ==
    ASSUME MatchInv, HorspoolInv, HorspoolFound
    PROVE  Occurs(pat, input)
<1>1. pos \in Nat /\ nInd = -1 /\ pos <= Len(input) - Len(pat)
  BY DEF HorspoolFound, MatchInv, SearchType, Searching
<1>2. /\ pat \in Seq(Int) /\ input \in Seq(Int) /\ Len(pat) \in Nat
      /\ Len(input) \in Nat /\ tmpbuf \in Seq(Int)
  BY SearchFacts DEF HorspoolFound, Searching
<1>3. ASSUME NEW i \in 1 .. Len(pat) PROVE input[pos + i] = pat[i]
  <2>1. InputAt(pos + i - 1) = pat[i]
    <3>1. i \in nInd + 2 .. Len(pat)
      BY <1>1, <1>2
    <3> QED
      BY <3>1 DEF HorspoolFound, HorspoolInv, Compared
  <2>2. pos + i - 1 \in 0 .. Len(input) - 1 /\ (pos + i - 1) + 1 = pos + i
    BY <1>1, <1>2
  <2>3. InputAt(pos + i - 1) = input[(pos + i - 1) + 1]
    BY <1>2, <2>2, InputIs
  <2> QED
    BY <2>1, <2>2, <2>3
<1>4. OccursAt(pat, input, pos)
  <2>1. pos + Len(pat) <= Len(input)
    BY <1>1, <1>2
  <2> QED
    BY <1>1, <1>2, <1>3, <2>1, OccursAtIs DEF At
<1> QED
  BY <1>1, <1>2, <1>4, OccursIs

LEMMA ShiftKeeps ==
    ASSUME MatchInv, HorspoolInv, HorspoolShift
    PROVE  HorspoolInv'
<1>1. /\ pc = "horspool" /\ pos \in Nat /\ nInd \in 0 .. Len(pat) - 1
      /\ pat \in Seq(Int) /\ Len(pat) \in Nat /\ input \in Seq(Int)
      /\ Len(input) \in Nat /\ pos + nInd \in 0 .. Len(input) - 1
      /\ InputAt(pos + nInd) = input[pos + nInd + 1]
      /\ InputAt(pos + nInd) \in Int
  BY HorspoolFacts DEF HorspoolShift
<1>2. /\ pat' = pat /\ nInd' = Len(pat) - 1 /\ tmpbuf' = tmpbuf
      /\ pat[nInd + 1] # InputAt(pos + nInd)
  BY DEF HorspoolShift, Continue, text
<1>3. input' = input /\ AsciiInput' = AsciiInput
  BY <1>2, SameInput
<1>4. Compared'
  BY <1>1, <1>2 DEF Compared
<1>5. ASSUME AsciiInput PROVE NoneBefore(pos')
  <2>1. InputAt(pos + nInd) >= 0
    BY <1>1, <1>5 DEF AsciiInput
  <2>2. PICK bad \in -1 .. Len(pat) - 1 :
          /\ bad = badCharHtable(InputAt(pos + nInd))
          /\ \A i \in 1 .. Len(pat) :
                 pat[i] = InputAt(pos + nInd) => i - 1 <= bad
    BY <1>1, BadTable
  <2>3. pos' = pos + 1 \/ pos' = pos + (nInd - bad)
    <3>1. pos' = pos + Shift(bad)
      BY <2>1, <2>2 DEF HorspoolShift
    <3>2. Shift(bad) = 1 \/ Shift(bad) = nInd - bad
      BY <1>1, ShiftIs
    <3> QED
      BY <3>1, <3>2
  <2>4. ASSUME NEW k \in 0 .. pos' - 1 PROVE ~OccursAt(pat, input, k)
    <3>1. pos' \in Nat
      BY HorspoolShiftIs
    <3>2. CASE k < pos
      BY <1>1, <1>5, <3>1, <3>2 DEF HorspoolInv, NoneBefore
    <3>3. CASE k >= pos
      <4>1. k \in Nat /\ (k = pos \/ k < pos + (nInd - bad))
        <5>1. PICK a \in Nat, q \in Nat, d \in Int :
                  a = pos /\ q = pos' /\ d = nInd - bad
          BY <1>1, <3>1
        <5>2. (q = a + 1 \/ q = a + d) /\ k \in 0 .. q - 1 /\ k >= a
          BY <2>3, <3>3, <5>1
        <5>3. k \in Nat /\ (k = a \/ k < a + d)
          BY <5>2
        <5> QED
          BY <5>1, <5>3
      <4> QED
        BY <1>1, <1>2, <2>2, <3>3, <4>1, BadCharacter
    <3> QED
      BY <1>1, <3>1, <3>2, <3>3
  <2> QED
    BY <2>4 DEF NoneBefore
<1> QED
  BY <1>2, <1>3, <1>4, <1>5 DEF HorspoolInv, NoneBefore

-----------------------------------------------------------------------------
(* Rabin_Karp_search has the window's hash, and steps over no occurrence.   *)

LEMMA WindowIs ==
    ASSUME tmpbuf \in Seq(Int), Len(pat) \in Nat, NEW k \in Nat
    PROVE  /\ Window(k) \in Seq(Int) /\ Len(Window(k)) = Len(pat)
           /\ \A i \in 1 .. Len(pat) : Window(k)[i] = InputAt(k + i - 1)
<1>1. PICK n \in Nat : n = Len(pat)
  OBVIOUS
<1>2. \A i \in 1 .. n : InputAt(k + i - 1) \in Int
  <2> TAKE i \in 1 .. n
  <2>1. k + i - 1 \in Nat
    OBVIOUS
  <2> QED
    BY <2>1, InputIs
<1>3. PICK w : w = Window(k)
  OBVIOUS
<1>4. w = [i \in 1 .. n |-> InputAt(k + i - 1)]
  BY <1>1, <1>3 DEF Window
<1>5. w \in [1 .. n -> Int] /\ \A i \in 1 .. n : w[i] = InputAt(k + i - 1)
  BY <1>2, <1>4
<1>6. w \in Seq(Int) /\ Len(w) = n
  BY <1>5, IsASeq, LenProperties
<1> QED
  BY <1>1, <1>3, <1>5, <1>6

LEMMA WindowOccurs ==
    ASSUME tmpbuf \in Seq(Int), pat \in Seq(Int), NEW k \in Nat,
           k + Len(pat) <= Len(input)
    PROVE  Window(k) = pat <=> OccursAt(pat, input, k)
<1>1. /\ Len(pat) \in Nat /\ input \in Seq(Int) /\ Len(input) \in Nat
  BY InputIs, LenProperties
<1>2. PICK w \in Seq(Int) :
        /\ w = Window(k) /\ Len(w) = Len(pat)
        /\ \A i \in 1 .. Len(pat) : w[i] = InputAt(k + i - 1)
  BY <1>1, WindowIs
<1>3. \A i \in 1 .. Len(pat) : w[i] = input[k + i]
  <2> TAKE i \in 1 .. Len(pat)
  <2>1. k + i - 1 \in 0 .. Len(input) - 1 /\ (k + i - 1) + 1 = k + i
    BY <1>1
  <2>2. InputAt(k + i - 1) = input[(k + i - 1) + 1]
    BY <2>1, InputIs
  <2> QED
    BY <1>2, <2>1, <2>2
<1>4. w = pat <=> \A i \in 1 .. Len(pat) : w[i] = pat[i]
  BY <1>2, SeqEqual
<1>5. w = pat <=> At(pat, input, k)
  BY <1>3, <1>4 DEF At
<1> QED
  BY <1>1, <1>2, <1>5, OccursAtIs

KarpInv ==
    pc = "karp" => /\ KarpWindow => var2 = Hash(Window(pos))
                   /\ NoneBefore(pos)

LEMMA KarpFacts ==
    ASSUME MatchInv, pc \in {"hash", "karp"}
    PROVE  /\ pos \in Nat /\ pat \in Seq(Int) /\ Len(pat) \in Nat /\ Len(pat) > 2
           /\ tmpbuf \in Seq(Int) /\ input \in Seq(Int) /\ Len(input) \in Nat
           /\ \A k \in Nat : InputAt(k) \in Int
<1>1. pos \in Nat
  BY DEF MatchInv, SearchType, Searching
<1>2. /\ pat \in Seq(Int) /\ Len(pat) \in Nat /\ Len(pat) > 2
      /\ tmpbuf \in Seq(Int) /\ input \in Seq(Int) /\ Len(input) \in Nat
  BY SearchFacts DEF Searching
<1> QED
  BY <1>1, <1>2, InputIs

\* The first hash is that of the first window, if the text is long enough for
\* one: what follows the text is then not read.
LEMMA HashFirstKeeps ==
    ASSUME MatchInv, HashFirst
    PROVE  KarpInv'
<1>1. /\ pos = 0 /\ pos' = 0 /\ pat' = pat /\ tmpbuf' = tmpbuf /\ pc = "hash"
  BY DEF HashFirst, Continue, text, MatchInv, SearchType
<1>2. /\ Len(pat) \in Nat /\ tmpbuf \in Seq(Int) /\ Len(input) \in Nat
  BY <1>1, KarpFacts
<1>3. input' = input
  BY <1>1, SameInput
<1>4. NoneBefore(pos)'
  BY <1>1 DEF NoneBefore
<1>5. ASSUME pc' = "karp", KarpWindow' PROVE var2' = Hash(Window(pos))'
  <2>1. PICK window \in FirstWindows : var2' = Hash(window)
    BY <1>5 DEF HashFirst, Continue
  <2>2. Len(pat) <= Len(CString(tmpbuf))
    <3>1. 0 <= Len(input) - Len(pat)
      BY <1>1, <1>3, <1>5 DEF KarpWindow
    <3>2. Len(input) <= Len(CString(tmpbuf)) /\ Len(CString(tmpbuf)) \in Nat
      BY <1>2, InputIs, CStringIs, LenProperties
    <3> QED
      BY <1>2, <3>1, <3>2
  <2>3. PICK m \in Nat : m = Len(CString(tmpbuf))
    BY <1>2, CStringIs, LenProperties
  <2>4. PICK n \in Nat : n = Len(pat)
    BY <1>2
  <2>5. PICK beyond :
          window = [k \in 1 .. n |-> IF k <= m + 1 THEN InputAt(k - 1)
                                                    ELSE beyond[k]]
    BY <2>1, <2>3, <2>4 DEF FirstWindows
  <2>6. \A k \in 1 .. n : k <= m + 1 /\ 0 + k - 1 = k - 1
    BY <2>2, <2>3, <2>4
  <2>7. window = [k \in 1 .. n |-> InputAt(0 + k - 1)]
    BY <2>5, <2>6
  <2>8. Window(pos)' = [k \in 1 .. n |-> InputAt(0 + k - 1)]
    BY <1>1, <2>4 DEF Window, InputAt
  <2>9. window = Window(pos)'
    BY <2>7, <2>8
  <2> QED
    BY <2>1, <2>9
<1> QED
  BY <1>4, <1>5 DEF KarpInv

\* The rolled hash is that of the next window.
LEMMA RolledIs ==
    ASSUME MatchInv, KarpInv, KarpWindow
    PROVE  Rolled = Hash(Window(pos + 1))
<1>1. /\ pos \in Nat /\ Len(pat) \in Nat /\ Len(pat) > 2 /\ tmpbuf \in Seq(Int)
  BY KarpFacts DEF KarpWindow
<1>2. PICK n \in Nat : Len(pat) = n + 1 /\ Len(pat) - 1 = n
  <2>1. Len(pat) - 1 \in Nat /\ Len(pat) = (Len(pat) - 1) + 1
    BY <1>1
  <2> QED
    BY <2>1
<1>3. PICK w \in Seq(Int) :
        /\ w = Window(pos) /\ Len(w) = n + 1
        /\ \A i \in 1 .. n + 1 : w[i] = InputAt(pos + i - 1)
  BY <1>1, <1>2, WindowIs
<1>4. PICK u \in Seq(Int) :
        /\ u = Window(pos + 1) /\ Len(u) = n + 1
        /\ \A i \in 1 .. n + 1 : u[i] = InputAt((pos + 1) + i - 1)
  <2>1. pos + 1 \in Nat
    BY <1>1
  <2> QED
    BY <1>1, <1>2, <2>1, WindowIs
<1>5. \A i \in 1 .. n : u[i] = w[i + 1]
  <2> TAKE i \in 1 .. n
  <2>1. /\ i \in 1 .. n + 1 /\ i + 1 \in 1 .. n + 1
        /\ (pos + 1) + i - 1 = pos + i /\ pos + (i + 1) - 1 = pos + i
    BY <1>1
  <2>2. u[i] = InputAt((pos + 1) + i - 1) /\ w[i + 1] = InputAt(pos + (i + 1) - 1)
    BY <1>3, <1>4, <2>1
  <2> QED
    BY <2>1, <2>2
<1>6. Hash(u) = Wrap(2 * (Hash(w) - w[1] * Wrap(TwoTo(n)))) + u[n + 1]
  BY <1>3, <1>4, <1>5, HashRolls
<1>7. w[1] = InputAt(pos) /\ u[n + 1] = InputAt(pos + Len(pat))
  <2>1. /\ 1 \in 1 .. n + 1 /\ n + 1 \in 1 .. n + 1 /\ pos + 1 - 1 = pos
        /\ (pos + 1) + (n + 1) - 1 = pos + Len(pat)
    BY <1>1, <1>2
  <2> QED
    BY <1>3, <1>4, <2>1
<1>8. var2 = Hash(w) /\ z = Wrap(TwoTo(n))
  BY <1>2, <1>3 DEF KarpInv, KarpWindow, z
<1> QED
  BY <1>4, <1>6, <1>7, <1>8 DEF Rolled

LEMMA KarpRollKeeps ==
    ASSUME MatchInv, KarpInv, KarpRoll
    PROVE  KarpInv'
<1>1. /\ KarpWindow /\ ~KarpHit /\ pat' = pat /\ tmpbuf' = tmpbuf
      /\ pc' = "karp" => pos' = pos + 1 /\ var2' = Rolled
  BY DEF KarpRoll, Continue, text
<1>2. /\ pos \in Nat /\ pat \in Seq(Int) /\ Len(pat) \in Nat
      /\ tmpbuf \in Seq(Int) /\ input \in Seq(Int) /\ Len(input) \in Nat
      /\ pc = "karp" /\ pos <= Len(input) - Len(pat)
  BY <1>1, KarpFacts DEF KarpWindow
<1>3. input' = input
  BY <1>1, SameInput
<1>4. ~OccursAt(pat, input, pos)
  <2>1. var2 = Hash(Window(pos))
    BY <1>1, <1>2 DEF KarpInv
  <2>2. Window(pos) # pat
    BY <1>1, <2>1 DEF KarpHit
  <2>3. pos + Len(pat) <= Len(input)
    BY <1>2
  <2> QED
    BY <1>2, <2>2, <2>3, WindowOccurs
<1>5. ASSUME pc' = "karp" PROVE KarpInv'
  <2>1. pos' = pos + 1
    BY <1>1, <1>5
  <2>2. ASSUME NEW k \in 0 .. pos' - 1 PROVE ~OccursAt(pat, input, k)
    <3>1. k \in 0 .. pos - 1 \/ k = pos
      BY <1>2, <2>1
    <3> QED
      BY <1>2, <1>4, <3>1 DEF KarpInv, NoneBefore
  <2>3. NoneBefore(pos)'
    BY <1>1, <1>3, <2>2 DEF NoneBefore
  <2>4. var2' = Hash(Window(pos + 1))
    BY <1>1, <1>5, RolledIs
  <2>5. Window(pos)' = Window(pos + 1)
    BY <1>1, <2>1 DEF Window, InputAt
  <2> QED
    BY <2>3, <2>4, <2>5 DEF KarpInv
<1> QED
  BY <1>5 DEF KarpInv

LEMMA KarpFoundIs ==
    ASSUME MatchInv, KarpFound
    PROVE  Occurs(pat, input)
<1>1. /\ pos \in Nat /\ pat \in Seq(Int) /\ Len(pat) \in Nat
      /\ tmpbuf \in Seq(Int) /\ input \in Seq(Int) /\ Len(input) \in Nat
      /\ pos <= Len(input) - Len(pat) /\ Window(pos) = pat
  BY KarpFacts DEF KarpFound, KarpWindow, KarpHit
<1>2. pos + Len(pat) <= Len(input)
  BY <1>1
<1>3. OccursAt(pat, input, pos)
  BY <1>1, <1>2, WindowOccurs
<1> QED
  BY <1>1, <1>3, OccursIs

-----------------------------------------------------------------------------
(* DFA_Search is in the state of the longest beginning, and finds the first *)
(* occurrence.                                                              *)

\* The first n chars of t end with the first q of p.
Ends(p, t, q, n) == q <= n /\ \A i \in 1 .. q : t[n - q + i] = p[i]

Longest(p, t, q, n) ==
    /\ q \in 0 .. Len(p) /\ Ends(p, t, q, n)
    /\ \A r \in 0 .. Len(p) : Ends(p, t, r, n) => r <= q

LEMMA EndsNone ==
    ASSUME NEW p, NEW t, NEW n \in Nat
    PROVE  Ends(p, t, 0, n)
BY DEF Ends

\* The provers find an instance of EndsGrows by this.
Follows(r, q) == r = q + 1

LEMMA EndsGrows ==
    ASSUME NEW p, NEW t, NEW q \in Nat, NEW n \in Nat,
           NEW r, Follows(r, q), NEW m, Follows(m, n)
    PROVE  Ends(p, t, r, m) <=> Ends(p, t, q, n) /\ t[m] = p[r]
<1> SUFFICES Ends(p, t, q + 1, n + 1)
             <=> Ends(p, t, q, n) /\ t[n + 1] = p[q + 1]
  BY DEF Follows
<1>1. \A i \in Int : (n + 1) - (q + 1) + i = n - q + i
  OBVIOUS
<1>2. n - q + (q + 1) = n + 1 /\ (q + 1 <= n + 1 <=> q <= n)
  OBVIOUS
<1>3. ASSUME Ends(p, t, q + 1, n + 1)
      PROVE  Ends(p, t, q, n) /\ t[n + 1] = p[q + 1]
  <2>1. \A i \in 1 .. q + 1 : t[n - q + i] = p[i]
    BY <1>1, <1>3 DEF Ends
  <2>2. t[n - q + (q + 1)] = p[q + 1]
    BY <2>1
  <2>3. \A i \in 1 .. q : t[n - q + i] = p[i]
    BY <2>1
  <2> QED
    BY <1>2, <1>3, <2>2, <2>3 DEF Ends
<1>4. ASSUME Ends(p, t, q, n), t[n + 1] = p[q + 1]
      PROVE  Ends(p, t, q + 1, n + 1)
  <2>1. ASSUME NEW i \in 1 .. q + 1 PROVE t[n - q + i] = p[i]
    <3>1. CASE i = q + 1
      BY <1>2, <1>4, <3>1
    <3>2. CASE i # q + 1
      <4>1. i \in 1 .. q
        BY <3>2
      <4> QED
        BY <1>4, <4>1 DEF Ends
    <3> QED
      BY <3>1, <3>2
  <2> QED
    BY <1>1, <1>2, <1>4, <2>1 DEF Ends
<1> QED
  BY <1>3, <1>4

\* The pattern begins with f chars that end its first q.
Repeats(p, q, f) == \A i \in 1 .. f : p[i] = p[q - f + i]

\* What the text ends with is read off the pattern itself.
LEMMA EndsInside ==
    ASSUME NEW p, NEW t, NEW n \in Nat, NEW q \in Nat, Ends(p, t, q, n),
           NEW f \in 0 .. q
    PROVE  Ends(p, t, f, n) <=> Repeats(p, q, f)
<1>1. q <= n /\ \A j \in 1 .. q : t[n - q + j] = p[j]
  BY DEF Ends
<1>2. ASSUME NEW i \in 1 .. f PROVE t[n - f + i] = p[q - f + i]
  <2>1. q - f + i \in 1 .. q /\ n - q + (q - f + i) = n - f + i
    OBVIOUS
  <2>2. t[n - q + (q - f + i)] = p[q - f + i]
    BY <1>1, <2>1
  <2> QED
    BY <2>1, <2>2
<1>3. f <= n
  BY <1>1
<1> QED
  BY <1>2, <1>3 DEF Ends, Repeats

\* NextMachineState goes from the longest beginning to the longest beginning.
LEMMA NextIsLongest ==
    ASSUME Len(pat) \in Nat, NEW t, NEW n \in Nat, NEW q, Longest(pat, t, q, n)
    PROVE  Longest(pat, t, NextMachineState(q, t[n + 1]), n + 1)
<1>0. PICK e \in Nat : e = n + 1
  OBVIOUS
<1> DEFINE x == t[e]
<1> SUFFICES Longest(pat, t, NextMachineState(q, x), e)
  BY <1>0
<1>1. PICK m \in Nat : m = Len(pat)
  OBVIOUS
<1>2. /\ q \in 0 .. m /\ q \in Nat /\ Ends(pat, t, q, n)
      /\ \A r \in 0 .. m : Ends(pat, t, r, n) => r <= q
  BY <1>1 DEF Longest
<1>3. NextMachineState(q, x) =
          IF q < m /\ x = pat[q + 1] THEN q + 1
          ELSE Max({0} \cup Fallbacks(q, x))
  BY <1>1 DEF NextMachineState, Fallbacks
<1>9. ASSUME NEW f \in Nat
      PROVE  Ends(pat, t, f + 1, e) <=> Ends(pat, t, f, n) /\ x = pat[f + 1]
  <2>1. PICK g \in Nat : g = f + 1
    OBVIOUS
  <2>2. Follows(g, f) /\ Follows(e, n)
    BY <1>0, <2>1 DEF Follows
  <2>3. Ends(pat, t, g, e) <=> Ends(pat, t, f, n) /\ x = pat[g]
    BY <2>2, EndsGrows
  <2> QED
    BY <2>1, <2>3
<1>4. ASSUME NEW r \in 1 .. m, Ends(pat, t, r, e)
      PROVE  r - 1 \in 0 .. q /\ Ends(pat, t, r - 1, n) /\ x = pat[r]
  <2>1. PICK s \in Nat : r = s + 1 /\ r - 1 = s /\ s \in 0 .. m
    <3>1. r - 1 \in Nat /\ r = (r - 1) + 1 /\ r - 1 \in 0 .. m
      OBVIOUS
    <3> QED
      BY <3>1
  <2>2. Ends(pat, t, s, n) /\ x = pat[r]
    <3>1. Ends(pat, t, s + 1, e)
      BY <1>4, <2>1
    <3>2. Ends(pat, t, s, n) /\ x = pat[s + 1]
      BY <1>9, <3>1
    <3> QED
      BY <2>1, <3>2
  <2>3. s <= q
    BY <1>2, <2>1, <2>2
  <2> QED
    BY <1>2, <2>1, <2>2, <2>3
<1>5. CASE q < m /\ x = pat[q + 1]
  <2>1. Ends(pat, t, q + 1, e)
    BY <1>2, <1>5, <1>9
  <2>2. q + 1 \in 0 .. m
    BY <1>2, <1>5
  <2>3. ASSUME NEW r \in 0 .. m, Ends(pat, t, r, e) PROVE r <= q + 1
    <3>1. CASE r = 0
      BY <1>2, <3>1
    <3>2. CASE r # 0
      <4>1. r \in 1 .. m
        BY <3>2
      <4>2. r - 1 \in 0 .. q
        BY <1>4, <2>3, <4>1
      <4> QED
        BY <1>2, <4>1, <4>2
    <3> QED
      BY <3>1, <3>2
  <2> QED
    BY <1>1, <1>3, <1>5, <2>1, <2>2, <2>3 DEF Longest
<1>6. CASE ~(q < m /\ x = pat[q + 1])
  <2>1. \A fix \in 1 .. q : fix \in Fallbacks(q, x) <=> Ends(pat, t, fix, e)
    <3> TAKE fix \in 1 .. q
    <3>1. PICK f \in Nat : /\ fix = f + 1 /\ fix - 1 = f /\ f \in 0 .. q
                           /\ \A i \in Int : q - fix + 1 + i = q - f + i
      <4>1. /\ fix - 1 \in Nat /\ fix = (fix - 1) + 1 /\ fix - 1 \in 0 .. q
            /\ \A i \in Int : q - fix + 1 + i = q - (fix - 1) + i
        BY <1>2
      <4> QED
        BY <4>1
    <3>2. Ends(pat, t, f, n) <=> Repeats(pat, q, f)
      BY <1>2, <3>1, EndsInside
    <3>3. Ends(pat, t, fix, e) <=> Ends(pat, t, f, n) /\ x = pat[fix]
      BY <1>9, <3>1
    <3>4. fix \in Fallbacks(q, x) <=>
            pat[fix] = x /\ Repeats(pat, q, f)
      <4>1. fix \in Fallbacks(q, x) <=>
              /\ pat[fix] = x
              /\ \A i \in 1 .. fix - 1 : pat[i] = pat[q - fix + 1 + i]
        BY DEF Fallbacks
      <4>2. \A i \in 1 .. f : pat[q - fix + 1 + i] = pat[q - f + i]
        BY <3>1
      <4> QED
        BY <3>1, <4>1, <4>2 DEF Repeats
    <3> QED
      BY <3>1, <3>2, <3>3, <3>4
  <2>2. PICK b : /\ b = Max({0} \cup Fallbacks(q, x))
                 /\ b \in {0} \cup Fallbacks(q, x)
                 /\ \A f \in Fallbacks(q, x) : f <= b
    BY <1>2, FallbackIs
  <2>3. b \in 0 .. q /\ (b = 0 \/ b \in Fallbacks(q, x))
    <3>1. Fallbacks(q, x) \subseteq 1 .. q
      BY DEF Fallbacks
    <3>2. b = 0 \/ b \in Fallbacks(q, x)
      BY <2>2
    <3> QED
      BY <1>2, <3>1, <3>2
  <2>4. Ends(pat, t, b, e)
    <3>1. CASE b = 0
      <4>1. n + 1 \in Nat
        OBVIOUS
      <4> QED
        BY <3>1, <4>1, EndsNone
    <3>2. CASE b # 0
      <4>1. b \in 1 .. q
        BY <1>2, <2>3, <3>2
      <4> QED
        BY <2>1, <2>3, <3>2, <4>1
    <3> QED
      BY <3>1, <3>2
  <2>5. ASSUME NEW r \in 0 .. m, Ends(pat, t, r, e) PROVE r <= b
    <3>1. CASE r = 0
      BY <1>2, <2>3, <3>1
    <3>2. CASE r # 0
      <4>1. r \in 1 .. m
        BY <3>2
      <4>2. r - 1 \in 0 .. q /\ x = pat[r]
        BY <1>4, <2>5, <4>1
      <4>3. r # q + 1
        BY <1>2, <1>6, <4>1, <4>2
      <4>4. r \in 1 .. q
        BY <1>2, <4>1, <4>2, <4>3
      <4> QED
        BY <2>1, <2>2, <2>5, <4>4
    <3> QED
      BY <3>1, <3>2
  <2>6. b \in 0 .. m
    BY <1>2, <2>3
  <2> QED
    BY <1>1, <1>3, <1>6, <2>2, <2>4, <2>5, <2>6 DEF Longest
<1> QED
  BY <1>5, <1>6

DfaInv ==
    pc = "dfa" /\ AsciiInput =>
        /\ Longest(pat, input, state, pos)
        /\ \A n \in 0 .. pos : ~Ends(pat, input, Len(pat), n)

LEMMA DfaFacts ==
    ASSUME MatchInv, pc = "dfa"
    PROVE  /\ pos \in Nat /\ state \in 0 .. Len(pat) - 1 /\ pos <= Len(input)
           /\ pat \in Seq(Int) /\ Len(pat) \in Nat /\ Len(pat) > 2
           /\ tmpbuf \in Seq(Int) /\ input \in Seq(Int) /\ Len(input) \in Nat
<1>1. pos \in Nat /\ state \in 0 .. Len(pat) - 1 /\ pos <= Len(input)
  BY DEF MatchInv, SearchType, Searching
<1>2. /\ pat \in Seq(Int) /\ Len(pat) \in Nat /\ Len(pat) > 2
      /\ tmpbuf \in Seq(Int) /\ input \in Seq(Int) /\ Len(input) \in Nat
  BY SearchFacts DEF Searching
<1> QED
  BY <1>1, <1>2

\* A step that ends in the last state is at the end of an occurrence.
LEMMA DfaStepIs ==
    ASSUME MatchInv, DfaInv, DfaStep, AsciiInput
    PROVE  /\ Longest(pat, input, state', pos + 1)
           /\ state' = Len(pat) => Occurs(pat, input)
           /\ state' # Len(pat) => DfaInv'
<1>1. /\ pos \in Nat /\ state \in 0 .. Len(pat) - 1 /\ pos < Len(input)
      /\ pat \in Seq(Int) /\ Len(pat) \in Nat /\ Len(pat) > 2 /\ pc = "dfa"
      /\ tmpbuf \in Seq(Int) /\ input \in Seq(Int) /\ Len(input) \in Nat
  BY DfaFacts DEF DfaStep
<1>2. /\ Longest(pat, input, state, pos)
      /\ \A n \in 0 .. pos : ~Ends(pat, input, Len(pat), n)
  BY <1>1 DEF DfaInv
<1>3. InputAt(pos) = input[pos + 1] /\ InputAt(pos) > 0 /\ InputAt(pos) \in Int
  <2>1. pos \in 0 .. Len(input) - 1 /\ pos + 1 \in 1 .. Len(input)
    BY <1>1
  <2>2. InputAt(pos) = input[pos + 1] /\ InputAt(pos) \in Int
    BY <1>1, <2>1, InputIs
  <2> QED
    BY <2>1, <2>2 DEF AsciiInput
<1>4. state' = NextMachineState(state, input[pos + 1])
  <2>1. ~OutsideTable /\ InputAt(pos) >= 0
    BY <1>3 DEF OutsideTable
  <2> QED
    BY <1>3, <2>1 DEF DfaStep, TF
<1>5. Longest(pat, input, state', pos + 1)
  BY <1>1, <1>2, <1>4, NextIsLongest
<1>6. ASSUME state' = Len(pat) PROVE Occurs(pat, input)
  <2>1. Ends(pat, input, Len(pat), pos + 1)
    BY <1>5, <1>6 DEF Longest
  <2>2. PICK l \in Nat, n \in Nat : l = Len(pat) /\ n = pos + 1
    BY <1>1
  <2>3. l <= n /\ \A i \in 1 .. l : input[n - l + i] = pat[i]
    BY <2>1, <2>2 DEF Ends
  <2>4. PICK k \in Nat : k = n - l
    BY <2>3
  <2>5. At(pat, input, k)
    BY <2>2, <2>3, <2>4 DEF At
  <2>6. k + Len(pat) <= Len(input)
    BY <1>1, <2>2, <2>4
  <2>7. OccursAt(pat, input, k)
    BY <1>1, <2>5, <2>6, OccursAtIs
  <2> QED
    BY <1>1, <2>7, OccursIs
<1>7. ASSUME state' # Len(pat) PROVE DfaInv'
  <2>1. pos' = pos + 1 /\ pat' = pat /\ tmpbuf' = tmpbuf
    <3>1. PICK q : /\ state' = q
                   /\ IF q = Len(pat) THEN Return(TRUE) /\ pos' = pos
                                      ELSE Continue("dfa") /\ pos' = pos + 1
      BY DEF DfaStep
    <3>2. UNCHANGED <<pat, nInd, var2>>
      BY DEF DfaStep
    <3> QED
      BY <1>7, <3>1, <3>2 DEF Continue, text
  <2>2. input' = input
    BY <2>1, SameInput
  <2>3. ~Ends(pat, input, Len(pat), pos + 1)
    <3>1. /\ state' \in 0 .. Len(pat)
          /\ Ends(pat, input, Len(pat), pos + 1) => Len(pat) <= state'
      BY <1>1, <1>5 DEF Longest
    <3> QED
      BY <1>1, <1>7, <3>1
  <2>4. ASSUME NEW n \in 0 .. pos + 1 PROVE ~Ends(pat, input, Len(pat), n)
    <3>1. n \in 0 .. pos \/ n = pos + 1
      BY <1>1
    <3> QED
      BY <1>2, <2>3, <3>1
  <2> QED
    BY <1>5, <2>1, <2>2, <2>4 DEF DfaInv
<1> QED
  BY <1>5, <1>6, <1>7

LEMMA DfaBegins ==
    ASSUME MatchInv, NextLine
    PROVE  DfaInv'
<1> SUFFICES ASSUME pc' = "dfa" PROVE DfaInv'
  BY DEF DfaInv
<1>1. state' = 0 /\ pos' = 0
  BY DEF NextLine
<1>2. pc # "dfa" /\ IsRule(rules[line'])
  BY DEF NextLine
<1>3. Len(pat') \in Nat /\ Len(pat') > 2
  BY <1>2, NextPattern
<1>4. \A r \in 0 .. Len(pat') : Ends(pat', input', r, 0) => r <= 0
  BY DEF Ends
<1>5. \A n \in 0 .. 0 : ~Ends(pat', input', Len(pat'), n)
  BY <1>3 DEF Ends
<1>6. Ends(pat', input', 0, 0)
  BY EndsNone
<1> QED
  BY <1>1, <1>3, <1>4, <1>5, <1>6 DEF DfaInv, Longest

-----------------------------------------------------------------------------
(* The searches, over all their steps.                                      *)

SearchInv == MatchInv /\ HorspoolInv /\ KarpInv /\ DfaInv

\* Out of a search there is nothing to keep.
LEMMA OutOfSearch ==
    ASSUME pc' \notin {"dfa", "horspool", "karp"}
    PROVE  HorspoolInv' /\ KarpInv' /\ DfaInv'
BY DEF HorspoolInv, KarpInv, KarpWindow, DfaInv

LEMMA SearchStep ==
    ASSUME SearchInv, [Next]_vars
    PROVE  SearchInv'
<1>0. MatchInv /\ HorspoolInv /\ KarpInv /\ DfaInv
  BY DEF SearchInv
<1>1. MatchInv'
  BY <1>0, TypeStep
<1>2. ASSUME \/ DecodeChar \/ DecodeEnd \/ matchlist_returns
             \/ DfaLost \/ DfaEnd \/ HorspoolFound \/ HorspoolLost
             \/ HorspoolEnd \/ KarpFound \/ KarpEnd \/ PcreSearch
      PROVE  HorspoolInv' /\ KarpInv' /\ DfaInv'
  <2>1. pc' \notin {"dfa", "horspool", "karp"}
    <3>1. CASE DecodeChar \/ DecodeEnd \/ matchlist_returns
      BY <3>1 DEF DecodeChar, DecodeEnd, matchlist_returns
    <3>2. CASE DfaLost \/ HorspoolLost \/ PcreSearch
      BY <3>2 DEF DfaLost, HorspoolLost, PcreSearch, Continue, Return
    <3>3. CASE DfaEnd \/ HorspoolFound \/ HorspoolEnd \/ KarpFound \/ KarpEnd
      BY <3>3
      DEF DfaEnd, HorspoolFound, HorspoolEnd, KarpFound, KarpEnd, Return
    <3> QED
      BY <1>2, <3>1, <3>2, <3>3
  <2> QED
    BY <2>1, OutOfSearch
<1>3. ASSUME NextLine
      PROVE  HorspoolInv' /\ KarpInv' /\ DfaInv'
  <2>1. DfaInv'
    BY <1>0, <1>3, DfaBegins
  <2>2. pc' # "karp"
    <3>1. pc' = pc \/ pc' = SearchState
      BY <1>3 DEF NextLine
    <3>2. pc = "rule" /\ alg \in 1 .. 4
      BY <1>0, <1>3 DEF NextLine, MatchInv, RulesType
    <3>3. alg = 1 \/ alg = 2 \/ alg = 3 \/ alg = 4
      BY <3>2
    <3> QED
      BY <3>1, <3>2, <3>3 DEF SearchState
  <2>3. ASSUME pc' = "horspool" PROVE HorspoolInv'
    <3>1. IsRule(rules[line']) /\ pos' = 0 /\ nInd' = Len(pat') - 1
      BY <1>3, <2>3 DEF NextLine
    <3>2. Len(pat') \in Nat
      BY <1>0, <1>3, <3>1, NextPattern
    <3>3. \A i \in nInd' + 2 .. Len(pat') : FALSE
      BY <3>1, <3>2
    <3>4. \A k \in 0 .. pos' - 1 : FALSE
      BY <3>1
    <3> QED
      BY <3>3, <3>4 DEF HorspoolInv, Compared, NoneBefore
  <2> QED
    BY <2>1, <2>2, <2>3 DEF HorspoolInv, KarpInv, KarpWindow
<1>4. ASSUME DfaStep
      PROVE  HorspoolInv' /\ KarpInv' /\ DfaInv'
  <2>1. pc' \in {"dfa", "rule"} /\ (pc' = "dfa" => state' # Len(pat))
        /\ tmpbuf' = tmpbuf
    <3>1. PICK q : /\ state' = q
                   /\ IF q = Len(pat) THEN Return(TRUE) /\ pos' = pos
                                      ELSE Continue("dfa") /\ pos' = pos + 1
      BY <1>4 DEF DfaStep
    <3> QED
      BY <3>1 DEF Return, Continue, text
  <2>2. AsciiInput' = AsciiInput
    BY <2>1, SameInput
  <2>3. pc' = "dfa" /\ AsciiInput => DfaInv'
    BY <1>0, <1>4, <2>1, DfaStepIs
  <2> QED
    BY <2>1, <2>2, <2>3 DEF HorspoolInv, KarpInv, KarpWindow, DfaInv
<1>5. ASSUME HorspoolCompare \/ HorspoolShift
      PROVE  HorspoolInv' /\ KarpInv' /\ DfaInv'
  <2>1. pc' = "horspool"
    BY <1>5 DEF HorspoolCompare, HorspoolShift, Continue
  <2>2. HorspoolInv'
    BY <1>0, <1>5, CompareKeeps, ShiftKeeps
  <2> QED
    BY <2>1, <2>2 DEF KarpInv, KarpWindow, DfaInv
<1>6. ASSUME HashFirst \/ KarpRoll
      PROVE  HorspoolInv' /\ KarpInv' /\ DfaInv'
  <2>1. pc' \in {"karp", "trapped"}
    BY <1>6 DEF HashFirst, KarpRoll, Continue
  <2>2. KarpInv'
    BY <1>0, <1>6, HashFirstKeeps, KarpRollKeeps
  <2> QED
    BY <2>1, <2>2 DEF HorspoolInv, DfaInv
<1>7. ASSUME UNCHANGED vars
      PROVE  HorspoolInv' /\ KarpInv' /\ DfaInv'
  <2>1. /\ tmpbuf' = tmpbuf /\ pat' = pat /\ pos' = pos /\ state' = state
        /\ nInd' = nInd /\ var2' = var2 /\ pc' = pc
    BY <1>7 DEF vars
  <2>2. input' = input /\ AsciiInput' = AsciiInput
    BY <2>1, SameInput
  <2>3. Compared' = Compared /\ NoneBefore(pos)' = NoneBefore(pos)
    BY <2>1, <2>2 DEF Compared, NoneBefore, InputAt
  <2>4. Window(pos)' = Window(pos) /\ KarpWindow' = KarpWindow
    BY <2>1, <2>2 DEF Window, KarpWindow, InputAt
  <2>5. HorspoolInv'
    BY <1>0, <2>1, <2>2, <2>3 DEF HorspoolInv
  <2>6. KarpInv'
    BY <1>0, <2>1, <2>3, <2>4 DEF KarpInv
  <2>7. DfaInv'
    BY <1>0, <2>1, <2>2 DEF DfaInv
  <2> QED
    BY <2>5, <2>6, <2>7
<1>8. HorspoolInv' /\ KarpInv' /\ DfaInv'
  BY <1>2, <1>3, <1>4, <1>5, <1>6, <1>7 DEF Next, Ended
<1> QED
  BY <1>1, <1>8 DEF SearchInv

LEMMA AlwaysSearching ==
    ASSUME NEW texts, NEW files, WellFormed(texts, files)
    PROVE  Spec(texts, files) => []SearchInv
<1>1. Init(texts, files) => SearchInv
  <2> SUFFICES ASSUME Init(texts, files) PROVE SearchInv
    OBVIOUS
  <2>1. pc = "decode"
    BY DEF Init
  <2> QED
    BY <2>1, InitType DEF SearchInv, HorspoolInv, KarpInv, KarpWindow, DfaInv
<1>2. SearchInv /\ [Next]_vars => SearchInv'
  BY SearchStep
<1> QED
  BY <1>1, <1>2, PTL DEF Spec

\* Rabin_Karp_search's rolled hash is the hash of the window it stands for,
\* though the shifts drop bits: what is dropped is a multiple of 2^IntBits, and
\* stays one.
THEOREM WindowIsHashed ==
    ASSUME NEW texts, NEW files, WellFormed(texts, files)
    PROVE  Spec(texts, files) => []RollingHash
<1>1. SearchInv => RollingHash
  BY DEF SearchInv, KarpInv, KarpWindow, RollingHash
<1>2. Spec(texts, files) => []SearchInv
  BY AlwaysSearching
<1> QED
  BY <1>1, <1>2, PTL

\* No occurrence of the pattern ends where the automaton has been.
LEMMA NoneEnded ==
    ASSUME SearchInv, pc = "dfa", AsciiInput, NEW k \in Nat,
           k + Len(pat) <= pos
    PROVE  ~At(pat, input, k)
<1>1. pos \in Nat /\ Len(pat) \in Nat
  BY DfaFacts DEF SearchInv
<1>2. PICK n \in 0 .. pos, l \in Nat : n = k + l /\ l = Len(pat)
  <2>1. k + Len(pat) \in 0 .. pos
    BY <1>1
  <2> QED
    BY <1>1, <2>1
<1>3. ~Ends(pat, input, l, n)
  BY <1>2 DEF SearchInv, DfaInv
<1>4. l <= n /\ \A i \in 1 .. l : n - l + i = k + i
  BY <1>2
<1> QED
  BY <1>2, <1>3, <1>4 DEF Ends, At

\* horspool_search and Rabin_Karp_search pass over no occurrence, DFA_Search
\* over no end of one, for any pattern and any text of ASCII characters (for
\* Rabin_Karp_search any text at all).
THEOREM NothingIsSkipped ==
    ASSUME NEW texts, NEW files, WellFormed(texts, files)
    PROVE  Spec(texts, files) => []NoneSkipped
<1>1. SearchInv => NoneSkipped
  <2> SUFFICES ASSUME SearchInv PROVE NoneSkipped
    OBVIOUS
  <2>1. pc = "horspool" /\ AsciiInput =>
            \A k \in 0 .. pos - 1 : ~OccursAt(pat, input, k)
    BY DEF SearchInv, HorspoolInv, NoneBefore
  <2>2. pc = "karp" => \A k \in 0 .. pos - 1 : ~OccursAt(pat, input, k)
    BY DEF SearchInv, KarpInv, NoneBefore
  <2>3. ASSUME pc = "dfa", AsciiInput
        PROVE  ~Occurs(pat, SubSeq(input, 1, pos))
    <3>1. /\ pos \in Nat /\ pos <= Len(input) /\ pat \in Seq(Int)
          /\ Len(pat) \in Nat /\ input \in Seq(Int) /\ Len(input) \in Nat
      BY <2>3, DfaFacts DEF SearchInv
    <3>2. PICK t \in Seq(Int) : /\ t = SubSeq(input, 1, pos) /\ Len(t) = pos
                                /\ \A i \in 1 .. pos : t[i] = input[i]
      <4>1. pos \in 0 .. Len(input)
        BY <3>1
      <4>2. /\ SubSeq(input, 1, pos) \in Seq(Int)
            /\ Len(SubSeq(input, 1, pos)) = pos
            /\ \A i \in 1 .. pos : SubSeq(input, 1, pos)[i] = input[i]
        BY <3>1, <4>1, Beginning
      <4> QED
        BY <4>2, Zenon
    <3>3. ASSUME NEW k \in Nat, OccursAt(pat, t, k) PROVE FALSE
      <4>1. k + Len(pat) <= pos /\ At(pat, t, k)
        BY <3>1, <3>2, <3>3, OccursAtIs
      <4>2. \A i \in 1 .. Len(pat) : k + i \in 1 .. pos
        BY <3>1, <4>1
      <4>3. At(pat, input, k)
        BY <3>2, <4>1, <4>2 DEF At
      <4> QED
        BY <2>3, <4>1, <4>3, NoneEnded
    <3> QED
      BY <3>1, <3>2, <3>3, OccursIs
  <2> QED
    BY <2>1, <2>2, <2>3 DEF NoneSkipped
<1>2. Spec(texts, files) => []SearchInv
  BY AlwaysSearching
<1> QED
  BY <1>1, <1>2, PTL

\* DFA_Search's state is the length of the longest beginning of the pattern that
\* the text read so far ends with: NextMachineState's table is the automaton.
THEOREM StateIsLongest ==
    ASSUME NEW texts, NEW files, WellFormed(texts, files)
    PROVE  Spec(texts, files) => []LongestPrefix
<1>1. SearchInv => LongestPrefix
  <2> SUFFICES ASSUME SearchInv, pc = "dfa", AsciiInput PROVE LongestPrefix
    BY DEF LongestPrefix
  <2>1. /\ pos \in Nat /\ pos <= Len(input) /\ pat \in Seq(Int)
        /\ Len(pat) \in Nat /\ input \in Seq(Int) /\ Len(input) \in Nat
    BY DfaFacts DEF SearchInv
  <2>2. Longest(pat, input, state, pos)
    BY DEF SearchInv, DfaInv
  <2>3. PICK t \in Seq(Int) : /\ t = SubSeq(input, 1, pos) /\ Len(t) = pos
                              /\ \A i \in 1 .. pos : t[i] = input[i]
    <3>1. pos \in 0 .. Len(input)
      BY <2>1
    <3>2. /\ SubSeq(input, 1, pos) \in Seq(Int)
          /\ Len(SubSeq(input, 1, pos)) = pos
          /\ \A i \in 1 .. pos : SubSeq(input, 1, pos)[i] = input[i]
      BY <2>1, <3>1, Beginning
    <3> QED
      BY <3>2, Zenon
  <2>4. ASSUME NEW q \in 0 .. Len(pat), q <= pos
        PROVE  OccursAt(SubSeq(pat, 1, q), t, pos - q) <=> Ends(pat, input, q, pos)
    <3>1. PICK p \in Seq(Int) : /\ p = SubSeq(pat, 1, q) /\ Len(p) = q
                                /\ \A i \in 1 .. q : p[i] = pat[i]
      <4>1. /\ SubSeq(pat, 1, q) \in Seq(Int) /\ Len(SubSeq(pat, 1, q)) = q
            /\ \A i \in 1 .. q : SubSeq(pat, 1, q)[i] = pat[i]
        BY <2>1, Beginning
      <4> QED
        BY <4>1, Zenon
    <3>2. PICK k \in Nat : k = pos - q
      BY <2>1, <2>4
    <3>3. OccursAt(p, t, k) <=> k + Len(p) <= Len(t) /\ At(p, t, k)
      BY OccursAtIs
    <3>4. k + Len(p) <= Len(t) /\ \A i \in 1 .. q : k + i \in 1 .. pos
      BY <2>1, <2>3, <2>4, <3>1, <3>2
    <3>5. At(p, t, k) <=> \A i \in 1 .. q : input[k + i] = pat[i]
      BY <2>3, <3>1, <3>4 DEF At
    <3>6. Ends(pat, input, q, pos) <=> \A i \in 1 .. q : input[k + i] = pat[i]
      BY <2>4, <3>2 DEF Ends
    <3> QED
      BY <3>1, <3>2, <3>3, <3>4, <3>5, <3>6
  <2> DEFINE T == {q \in 0 .. Len(pat) :
                       q <= pos /\ OccursAt(SubSeq(pat, 1, q), t, pos - q)}
  <2>5. \A q \in 0 .. Len(pat) : q \in T <=> Ends(pat, input, q, pos)
    BY <2>4 DEF Ends
  <2>6. T \in SUBSET Int /\ \A q \in T : q \in 0 .. Len(pat)
    BY <2>1
  <2> HIDE DEF T
  <2>7. state \in T /\ state \in Int /\ \A q \in T : q <= state
    BY <2>1, <2>2, <2>5, <2>6 DEF Longest
  <2>8. Max(T) \in T /\ \A q \in T : q <= Max(T)
    BY <2>6, <2>7, MaxOf
  <2>9. state = Max(T)
    <3>1. PICK x \in Int, y \in Int : x = Max(T) /\ y = state
      BY <2>6, <2>7, <2>8
    <3>2. x <= y /\ y <= x
      BY <2>7, <2>8, <3>1
    <3> QED
      BY <3>1, <3>2
  <2> QED
    BY <2>3, <2>9 DEF LongestPrefix, T
<1>2. Spec(texts, files) => []SearchInv
  BY AlwaysSearching
<1> QED
  BY <1>1, <1>2, PTL

-----------------------------------------------------------------------------
(* The verdict.                                                             *)

\* Rule i is one that is searched for, and it is in the text.
Hit(i) == Len(rules[i]) > 4 /\ Occurs(Pattern(rules[i]), input)

\* The three searches can tell.
Judged == alg \in 1 .. 3 /\ (alg = 3 \/ AsciiInput)

VerdictInv ==
    Judged =>
        /\ at_list => \E i \in 1 .. Len(rules) : Hit(i)
        /\ pc = "rule" /\ ~at_list => \A i \in 1 .. line : ~Hit(i)
        /\ Searching => \A i \in 1 .. line - 1 : ~Hit(i)
        /\ pc = "done" /\ ~at_list => \A i \in 1 .. Len(rules) : ~Hit(i)

\* What is said of the rules does not change with the place in them.
LEMMA SameHits ==
    ASSUME tmpbuf' = tmpbuf, rules' = rules, alg' = alg
    PROVE  Judged' = Judged /\ \A i : Hit(i)' = Hit(i)
<1>1. input' = input /\ AsciiInput' = AsciiInput
  BY SameInput
<1> QED
  BY <1>1 DEF Judged, Hit

\* The pattern in hand is that of the rule in hand.
LEMMA PatternInHand ==
    ASSUME MatchInv, Searching
    PROVE  /\ line \in 1 .. Len(rules) /\ Len(rules) \in Nat /\ ~at_list
           /\ Hit(line) <=> Occurs(pat, input)
<1>1. /\ line \in 0 .. Len(rules) /\ line >= 1 /\ rules \in Seq(Seq(Byte))
      /\ IsRule(rules[line]) /\ pat = Pattern(rules[line]) /\ ~at_list
  BY DEF MatchInv, RulesType, SearchType
<1>2. Len(rules) \in Nat /\ line \in 1 .. Len(rules)
  BY <1>1, LenProperties
<1>3. rules[line] \in Seq(Int)
  BY <1>1, <1>2, ElementOfSeq, ByteSeqs
<1>4. Len(rules[line]) > 4
  BY <1>1, <1>3, PatternIs
<1> QED
  BY <1>1, <1>2, <1>4 DEF Hit

LEMMA FoundKeeps ==
    ASSUME MatchInv, Searching, Return(TRUE), Judged => Occurs(pat, input)
    PROVE  VerdictInv'
<1>1. /\ tmpbuf' = tmpbuf /\ rules' = rules /\ alg' = alg
      /\ at_list' = TRUE /\ pc' = "rule"
  BY DEF Return, text
<1>2. ASSUME Judged PROVE \E i \in 1 .. Len(rules) : Hit(i)
  BY <1>2, PatternInHand
<1>3. Judged' => \E i \in 1 .. Len(rules') : Hit(i)'
  BY <1>1, <1>2, SameHits
<1> QED
  BY <1>1, <1>3 DEF VerdictInv, Searching

LEMMA LostKeeps ==
    ASSUME MatchInv, VerdictInv, Searching, Return(FALSE),
           Judged => ~Occurs(pat, input)
    PROVE  VerdictInv'
<1>1. /\ tmpbuf' = tmpbuf /\ rules' = rules /\ alg' = alg /\ line' = line
      /\ at_list' = FALSE /\ pc' = "rule"
  BY DEF Return, text
<1>2. line \in 1 .. Len(rules) /\ Len(rules) \in Nat
  BY PatternInHand
<1>3. ASSUME Judged, NEW i \in 1 .. line PROVE ~Hit(i)
  <2>1. i \in 1 .. line - 1 \/ i = line
    BY <1>2
  <2> QED
    BY <1>3, <2>1, PatternInHand DEF VerdictInv
<1>4. Judged' => \A i \in 1 .. line' : ~Hit(i)'
  BY <1>1, <1>3, SameHits
<1> QED
  BY <1>1, <1>4 DEF VerdictInv, Searching

\* A search that goes on, or ends the process, leaves the verdict open.
LEMMA ContinueKeeps ==
    ASSUME MatchInv, VerdictInv, Searching, NEW next, Continue(next),
           next \notin {"rule", "done"}
    PROVE  VerdictInv'
<1>1. /\ tmpbuf' = tmpbuf /\ rules' = rules /\ alg' = alg /\ line' = line
      /\ at_list' = at_list /\ pc' \notin {"rule", "done"}
  BY DEF Continue, text
<1>2. ~at_list
  BY PatternInHand
<1>3. Judged => \A i \in 1 .. line - 1 : ~Hit(i)
  BY DEF VerdictInv
<1>4. Judged' => \A i \in 1 .. line' - 1 : ~Hit(i)'
  BY <1>1, <1>3, SameHits
<1> QED
  BY <1>1, <1>2, <1>4 DEF VerdictInv

LEMMA DfaEndIs ==
    ASSUME SearchInv, DfaEnd, AsciiInput
    PROVE  ~Occurs(pat, input)
<1>1. /\ pc = "dfa" /\ pos \in Nat /\ pos = Len(input) /\ pat \in Seq(Int)
      /\ Len(pat) \in Nat /\ input \in Seq(Int) /\ Len(input) \in Nat
  BY DfaFacts DEF DfaEnd, SearchInv
<1>2. ASSUME NEW k \in Nat, OccursAt(pat, input, k) PROVE FALSE
  <2>1. k + Len(pat) <= pos /\ At(pat, input, k)
    BY <1>1, <1>2, OccursAtIs
  <2> QED
    BY <1>1, <2>1, NoneEnded
<1> QED
  BY <1>1, <1>2, OccursIs

LEMMA HorspoolEndIs ==
    ASSUME SearchInv, HorspoolEnd, AsciiInput
    PROVE  ~Occurs(pat, input)
<1>1. /\ pc = "horspool" /\ pos \in Nat /\ pos > Len(input) - Len(pat)
      /\ NoneBefore(pos)
  BY DEF HorspoolEnd, SearchInv, MatchInv, SearchType, Searching, HorspoolInv
<1>2. pat \in Seq(Int) /\ input \in Seq(Int)
  BY <1>1, SearchFacts DEF Searching, SearchInv
<1> QED
  BY <1>1, <1>2, NoneLeft

LEMMA KarpEndIs ==
    ASSUME SearchInv, KarpEnd
    PROVE  ~Occurs(pat, input)
<1>1. /\ pos \in Nat /\ pat \in Seq(Int) /\ Len(pat) \in Nat
      /\ input \in Seq(Int) /\ Len(input) \in Nat
      /\ NoneBefore(pos) /\ ~(pos <= Len(input) - Len(pat))
  BY KarpFacts DEF KarpEnd, KarpWindow, SearchInv, KarpInv
<1>2. pos > Len(input) - Len(pat)
  BY <1>1
<1> QED
  BY <1>1, <1>2, NoneLeft

\* The loop over the rules.
LEMMA LoopKeeps ==
    ASSUME MatchInv, VerdictInv, NextLine \/ matchlist_returns
    PROVE  VerdictInv'
<1>1. /\ tmpbuf' = tmpbuf /\ rules' = rules /\ alg' = alg
      /\ at_list' = at_list /\ pc = "rule"
  BY DEF NextLine, matchlist_returns, text
<1>2. /\ line \in 0 .. Len(rules) /\ Len(rules) \in Nat
      /\ rules \in Seq(Seq(Byte)) /\ alg \in 1 .. 4
  BY LenProperties DEF MatchInv, RulesType
<1>3. /\ Judged' = Judged
      /\ at_list => (Judged => \E i \in 1 .. Len(rules) : Hit(i))
      /\ ~at_list => (Judged => \A i \in 1 .. line : ~Hit(i))
      /\ \A i : Hit(i)' = Hit(i)
  BY <1>1, SameHits DEF VerdictInv
<1>4. CASE NextLine
  <2>1. ~at_list /\ line' = line + 1 /\ line < Len(rules)
    BY <1>4 DEF NextLine
  <2>2. ASSUME Judged PROVE \A i \in 1 .. line' - 1 : ~Hit(i)
    BY <1>2, <1>3, <2>1, <2>2
  <2>3. CASE IsRule(rules[line'])
    <3>1. pc' = SearchState
      BY <1>4, <2>3 DEF NextLine
    <3>2. pc' \notin {"rule", "done"}
      <4>1. alg = 1 \/ alg = 2 \/ alg = 3 \/ alg = 4
        BY <1>2
      <4> QED
        BY <3>1, <4>1 DEF SearchState
    <3> QED
      BY <1>1, <1>3, <2>1, <2>2, <3>2 DEF VerdictInv
  <2>4. CASE ~IsRule(rules[line'])
    <3>1. pc' = "rule"
      BY <1>1, <1>4, <2>4 DEF NextLine
    <3>2. ~Hit(line')
      <4>1. line' \in 1 .. Len(rules)
        BY <1>2, <2>1
      <4>2. PICK r \in Seq(Int) : r = rules[line']
        BY <1>2, <4>1, ElementOfSeq, ByteSeqs
      <4> QED
        BY <2>4, <4>2, PatternIs DEF Hit
    <3>3. ASSUME Judged, NEW i \in 1 .. line' PROVE ~Hit(i)
      <4>1. i \in 1 .. line' - 1 \/ i = line'
        BY <1>2, <2>1
      <4> QED
        BY <2>2, <3>2, <3>3, <4>1
    <3> QED
      BY <1>1, <1>3, <2>1, <3>1, <3>3 DEF VerdictInv, Searching
  <2> QED
    BY <2>3, <2>4
<1>5. CASE matchlist_returns
  <2>1. pc' = "done" /\ (at_list \/ line = Len(rules))
    BY <1>5 DEF matchlist_returns
  <2> QED
    BY <1>1, <1>3, <2>1 DEF VerdictInv, Searching
<1> QED
  BY <1>4, <1>5

LEMMA VerdictStep ==
    ASSUME SearchInv, VerdictInv, [Next]_vars
    PROVE  VerdictInv'
<1>0. MatchInv /\ HorspoolInv /\ DfaInv /\ KarpInv
  BY DEF SearchInv
<1>1. CASE DecodeChar \/ DecodeEnd
  <2>1. /\ pc' \in {"decode", "rule", "crashed"} /\ at_list' = FALSE
        /\ line' = 0
    BY <1>0, <1>1 DEF DecodeChar, DecodeEnd, MatchInv, SearchType, search
  <2>2. \A i \in 1 .. line' : FALSE
    BY <2>1
  <2> QED
    BY <2>1, <2>2 DEF VerdictInv, Searching
<1>2. CASE NextLine \/ matchlist_returns
  BY <1>0, <1>2, LoopKeeps
<1>3. CASE DfaStep
  <2>1. PICK q : /\ state' = q
                 /\ IF q = Len(pat) THEN Return(TRUE) /\ pos' = pos
                                    ELSE Continue("dfa") /\ pos' = pos + 1
    BY <1>3 DEF DfaStep
  <2>2. pc = "dfa" /\ alg = 1 /\ Searching
    BY <1>0, <1>3 DEF DfaStep, MatchInv, SearchType, Searching
  <2>3. CASE state' = Len(pat)
    <3>1. Judged => Occurs(pat, input)
      BY <1>0, <1>3, <2>2, <2>3, DfaStepIs DEF Judged
    <3> QED
      BY <1>0, <2>1, <2>2, <2>3, <3>1, FoundKeeps
  <2>4. CASE state' # Len(pat)
    BY <1>0, <2>1, <2>2, <2>4, ContinueKeeps
  <2> QED
    BY <2>3, <2>4
<1>4. CASE DfaLost \/ HorspoolLost \/ HorspoolCompare \/ HorspoolShift
           \/ HashFirst \/ KarpRoll
  <2>1. Searching
    BY <1>4 DEF Searching, DfaLost, HorspoolLost, HorspoolCompare,
                HorspoolShift, HashFirst, KarpRoll, KarpWindow
  <2>2. \/ Continue("crashed") \/ Continue("horspool") \/ Continue("karp")
        \/ Continue("trapped")
    BY <1>4 DEF DfaLost, HorspoolLost, HorspoolCompare, HorspoolShift,
                HashFirst, KarpRoll
  <2> QED
    BY <1>0, <2>1, <2>2, ContinueKeeps
<1>5. CASE HorspoolFound \/ KarpFound
  <2>1. Searching /\ Return(TRUE)
    BY <1>5 DEF Searching, HorspoolFound, KarpFound, KarpWindow
  <2>2. Occurs(pat, input)
    BY <1>0, <1>5, FoundIs, KarpFoundIs
  <2> QED
    BY <1>0, <2>1, <2>2, FoundKeeps
<1>6. CASE DfaEnd \/ HorspoolEnd \/ KarpEnd
  <2>1. Searching /\ Return(FALSE)
    BY <1>6 DEF Searching, DfaEnd, HorspoolEnd, KarpEnd
  <2>2. Judged => ~Occurs(pat, input)
    <3>1. /\ pc = "dfa" => alg = 1
          /\ pc = "horspool" => alg = 2
      BY <1>0 DEF MatchInv, SearchType
    <3>2. CASE DfaEnd
      <4>1. pc = "dfa"
        BY <3>2 DEF DfaEnd
      <4>2. alg = 1
        BY <3>1, <4>1
      <4> QED
        BY <3>2, <4>2, DfaEndIs DEF Judged
    <3>3. CASE HorspoolEnd
      <4>1. pc = "horspool"
        BY <3>3 DEF HorspoolEnd
      <4>2. alg = 2
        BY <3>1, <4>1
      <4> QED
        BY <3>3, <4>2, HorspoolEndIs DEF Judged
    <3> QED
      BY <1>6, <3>2, <3>3, KarpEndIs
  <2> QED
    BY <1>0, <2>1, <2>2, LostKeeps
<1>7. CASE PcreSearch
  <2>1. alg' = 4
    BY <1>0, <1>7
    DEF PcreSearch, MatchInv, SearchType, Return, Continue
  <2> QED
    BY <2>1 DEF VerdictInv, Judged
<1>8. CASE UNCHANGED vars
  <2>1. /\ tmpbuf' = tmpbuf /\ rules' = rules /\ alg' = alg /\ line' = line
        /\ at_list' = at_list /\ pc' = pc
    BY <1>8 DEF vars
  <2>2. Judged' = Judged /\ \A i : Hit(i)' = Hit(i)
    BY <2>1, SameHits
  <2> QED
    BY <2>1, <2>2 DEF VerdictInv, Searching
<1> QED
  BY <1>1, <1>2, <1>3, <1>4, <1>5, <1>6, <1>7, <1>8 DEF Next, Ended

\* matchlist answers TRUE exactly when one of the rules, cut as it cuts them, is
\* in the text: with three different searches, for every file and every text.
THEOREM VerdictIsRight ==
    ASSUME NEW texts, NEW files, WellFormed(texts, files)
    PROVE  Spec(texts, files) => []VerdictIsOccurrence
<1>1. Init(texts, files) => VerdictInv
  BY DEF Init, VerdictInv, Searching
<1>2. SearchInv /\ VerdictInv /\ [Next]_vars => VerdictInv'
  BY VerdictStep
<1>3. VerdictInv => VerdictIsOccurrence
  BY DEF VerdictInv, VerdictIsOccurrence, Judged, Hit
<1>4. Spec(texts, files) => []SearchInv
  BY AlwaysSearching
<1> QED
  BY <1>1, <1>2, <1>3, <1>4, PTL DEF Spec

-----------------------------------------------------------------------------
(* Short patterns.                                                          *)

LEMMA TwoToGrows ==
    ASSUME NEW k \in Nat, NEW l \in Nat, k <= l
    PROVE  TwoTo(k) <= TwoTo(l)
<1> DEFINE I == {n \in Nat : TwoTo(k) <= TwoTo(k + n)}
<1>1. 0 \in I
  <2>1. k + 0 = k /\ TwoTo(k) \in Nat
    BY TwoToIs
  <2> QED
    BY <2>1
<1>2. ASSUME NEW n \in I PROVE n + 1 \in I
  <2>1. k + n \in Nat /\ k + (n + 1) = (k + n) + 1
    OBVIOUS
  <2>2. /\ TwoTo(k) \in Nat /\ TwoTo(k + n) \in Nat
        /\ TwoTo((k + n) + 1) = 2 * TwoTo(k + n)
    BY <2>1, TwoToIs
  <2>3. TwoTo(k) <= TwoTo((k + n) + 1)
    BY <1>2, <2>2
  <2> QED
    BY <2>1, <2>3
<1>3. \A n \in Nat : n \in I
  <2>1. I \in SUBSET Nat
    OBVIOUS
  <2> HIDE DEF I
  <2> QED
    BY <1>1, <1>2, <2>1, NaturalInduction
<1>4. l - k \in Nat /\ k + (l - k) = l
  OBVIOUS
<1> QED
  BY <1>3, <1>4

\* A character's width.
LEMMA TwoToByte ==
    ASSUME NEW k \in Nat
    PROVE  TwoTo(k + 7) = 128 * TwoTo(k)
<1>1. /\ TwoTo(k) \in Nat /\ TwoTo(k + 1) = 2 * TwoTo(k)
      /\ TwoTo((k + 1) + 1) = 2 * TwoTo(k + 1)
      /\ TwoTo((k + 2) + 1) = 2 * TwoTo(k + 2)
      /\ TwoTo((k + 3) + 1) = 2 * TwoTo(k + 3)
      /\ TwoTo((k + 4) + 1) = 2 * TwoTo(k + 4)
      /\ TwoTo((k + 5) + 1) = 2 * TwoTo(k + 5)
      /\ TwoTo((k + 6) + 1) = 2 * TwoTo(k + 6)
  BY TwoToIs
<1>2. /\ (k + 1) + 1 = k + 2 /\ (k + 2) + 1 = k + 3 /\ (k + 3) + 1 = k + 4
      /\ (k + 4) + 1 = k + 5 /\ (k + 5) + 1 = k + 6 /\ (k + 6) + 1 = k + 7
  OBVIOUS
<1>3. /\ TwoTo(k + 2) = 4 * TwoTo(k) /\ TwoTo(k + 3) = 8 * TwoTo(k)
      /\ TwoTo(k + 4) = 16 * TwoTo(k)
  BY <1>1, <1>2
<1>4. TwoTo(k + 5) = 32 * TwoTo(k) /\ TwoTo(k + 6) = 64 * TwoTo(k)
  BY <1>1, <1>2, <1>3
<1> QED
  BY <1>1, <1>2, <1>4

\* Numbers that differ by a multiple of m, and by less than m, are the same.
LEMMA CloseSame ==
    ASSUME NEW m \in Nat, NEW x \in Int, NEW y \in Int,
           Congruent(x, y, m), x - y < m, y - x < m
    PROVE  x = y
<1>1. PICK k \in Int : x = y + k * m
  BY DEF Congruent
<1>2. CASE k >= 1
  <2>1. k * m >= m
    BY <1>2
  <2> QED
    BY <1>1, <2>1
<1>3. CASE k <= -1
  <2>1. k * m <= -m
    BY <1>3
  <2> QED
    BY <1>1, <2>1
<1>4. CASE k = 0
  BY <1>1, <1>4
<1> QED
  BY <1>2, <1>3, <1>4

\* A number that fits loses nothing.
LEMMA WrapFits ==
    ASSUME NEW n \in Int, Fits(n)
    PROVE  Wrap(n) = n
<1>1. PICK h \in Nat : /\ h = TwoTo(IntBits - 1) /\ h > 0
                       /\ Modulus = 2 * h
  <2>1. IntBits - 1 \in Nat /\ (IntBits - 1) + 1 = IntBits
    BY MatchAssumption
  <2> QED
    BY <2>1, TwoToIs DEF Modulus
<1>2. PICK m \in Nat : m = Modulus /\ m = 2 * h /\ m > 0
  BY <1>1
<1>3. PICK r \in 0 .. m - 1 : r = n % m
  BY <1>2
<1>4. Wrap(n) = IF r < h THEN r ELSE r - m
  BY <1>1, <1>2, <1>3 DEF Wrap, Modulus
<1>5. Wrap(n) \in Int /\ -h <= Wrap(n) /\ Wrap(n) < h
  BY <1>2, <1>3, <1>4
<1>6. -h <= n /\ n < h
  BY <1>1 DEF Fits
<1>7. PICK v \in Int : /\ v = Wrap(n) /\ v - n < m /\ n - v < m
                       /\ Congruent(v, n, m)
  BY <1>2, <1>5, <1>6, WrapIs
<1> QED
  BY <1>7, CloseSame

Bytes(s) == s \in Seq(Int) /\ \A i \in 1 .. Len(s) : s[i] \in Byte

LEMMA FitsBetween ==
    ASSUME NEW x \in Nat, TwoTo(IntBits - 1) = x, NEW n \in Int, -x <= n, n < x
    PROVE  Fits(n)
BY DEF Fits

\* One more character in a hash that never wrapped.
LEMMA HornerStep ==
    ASSUME NEW t \in Nat, NEW g \in Int, NEW c \in Byte, NEW x \in Nat, t > 0,
           -128 * (t - 1) <= g, g <= 128 * (t - 1), x >= 256 * t
    PROVE  /\ -x <= 2 * g /\ 2 * g < x
           /\ -128 * (2 * t - 1) <= 2 * g + c
           /\ 2 * g + c <= 128 * (2 * t - 1)
BY DEF Byte

\* The hash of k characters is less than 2^(k + 7).
LEMMA HashSmall ==
    ASSUME NEW s, Bytes(s), Len(s) + 8 <= IntBits
    PROVE  \A k \in 0 .. Len(s) :
               /\ Hashes(s)[k] \in Int
               /\ -128 * (TwoTo(k) - 1) <= Hashes(s)[k]
               /\ Hashes(s)[k] <= 128 * (TwoTo(k) - 1)
<1>1. PICK n \in Nat, b \in Nat : /\ n = Len(s) /\ b = IntBits /\ n + 8 <= b
                                  /\ \A i \in 1 .. n : s[i] \in Byte
  BY MatchAssumption, LenProperties DEF Bytes
<1>2. PICK f \in [0 .. n -> Int] :
          /\ f = Hashes(s) /\ f[0] = 0
          /\ \A i \in 1 .. n : f[i] = Wrap(2 * f[i - 1]) + s[i]
  BY <1>1, HashesIs DEF Bytes
<1> DEFINE I == {k \in 0 .. n : /\ -128 * (TwoTo(k) - 1) <= f[k]
                                /\ f[k] <= 128 * (TwoTo(k) - 1)}
<1>3. 0 \in I
  <2>1. TwoTo(0) = 1 /\ f[0] = 0 /\ 0 \in 0 .. n
    BY <1>1, <1>2, TwoToIs
  <2> QED
    BY <2>1
<1>4. ASSUME NEW k \in 0 .. n - 1, k \in I PROVE k + 1 \in I
  <2>1. k + 1 \in 1 .. n /\ k + 1 \in 0 .. n /\ (k + 1) - 1 = k /\ k \in Nat
    BY <1>1
  <2>2. PICK t \in Nat, g \in Int, c \in Byte :
            /\ t = TwoTo(k) /\ g = f[k] /\ c = s[k + 1]
            /\ TwoTo(k + 1) = 2 * t /\ t > 0
            /\ -128 * (t - 1) <= g /\ g <= 128 * (t - 1)
    <3>1. TwoTo(k) \in Nat /\ TwoTo(k + 1) = 2 * TwoTo(k) /\ TwoTo(k) > 0
      BY <2>1, TwoToIs
    <3>2. s[k + 1] \in Byte /\ f[k] \in Int
      BY <1>1, <1>2, <2>1
    <3>3. /\ -128 * (TwoTo(k) - 1) <= f[k]
          /\ f[k] <= 128 * (TwoTo(k) - 1)
      BY <1>4
    <3> HIDE DEF I
    <3> QED
      BY <3>1, <3>2, <3>3, Zenon
  <2>3. f[k + 1] = Wrap(2 * g) + c
    BY <1>2, <2>1, <2>2
  <2>4. TwoTo(IntBits - 1) \in Nat /\ TwoTo(IntBits - 1) >= 256 * t
    <3>1. /\ k + 1 \in Nat /\ (k + 1) + 7 \in Nat /\ IntBits - 1 \in Nat
          /\ (k + 1) + 7 <= IntBits - 1
      BY <1>1, <2>1
    <3>2. TwoTo((k + 1) + 7) = 128 * TwoTo(k + 1)
      BY <3>1, TwoToByte
    <3>3. TwoTo((k + 1) + 7) <= TwoTo(IntBits - 1) /\ TwoTo(IntBits - 1) \in Nat
      BY <3>1, TwoToGrows, TwoToIs
    <3> QED
      BY <2>2, <3>2, <3>3
  <2>5. PICK x \in Nat : x = TwoTo(IntBits - 1) /\ x >= 256 * t
    BY <2>2, <2>4
  <2>6. /\ -x <= 2 * g /\ 2 * g < x
        /\ -128 * (2 * t - 1) <= 2 * g + c
        /\ 2 * g + c <= 128 * (2 * t - 1)
    <3>1. t > 0 /\ x >= 256 * t
      BY <2>2, <2>5
    <3>2. -128 * (t - 1) <= g /\ g <= 128 * (t - 1)
      BY <2>2
    <3> QED
      BY <3>1, <3>2, HornerStep
  <2>7. f[k + 1] = 2 * g + c
    <3>1. 2 * g \in Int /\ Fits(2 * g)
      <4>1. PICK n2 \in Int : n2 = 2 * g
        BY <2>2
      <4> QED
        BY <2>5, <2>6, <4>1, FitsBetween
    <3> QED
      BY <2>3, <3>1, WrapFits
  <2>8. /\ -128 * (TwoTo(k + 1) - 1) <= f[k + 1]
        /\ f[k + 1] <= 128 * (TwoTo(k + 1) - 1)
    BY <2>2, <2>6, <2>7
  <2> QED
    BY <2>1, <2>8
<1>5. \A k \in 0 .. n : k \in I
  <2> HIDE DEF I
  <2> QED
    BY <1>3, <1>4, IntervalInduction
<1> QED
  BY <1>1, <1>2, <1>5

LEMMA ByteTimes ==
    ASSUME NEW a \in Byte, NEW t \in Nat
    PROVE  a * t \in Int /\ -(128 * t) <= a * t /\ a * t <= 128 * t
<1>1. a \in Int /\ -128 <= a /\ a <= 128
  BY DEF Byte
<1>2. CASE a >= 0
  <2>1. 0 <= a * t /\ a * t <= 128 * t
    BY <1>1, <1>2
  <2> QED
    BY <1>1, <2>1
<1>3. CASE a < 0
  <2>1. PICK b \in Nat : b = -a /\ b <= 128
    BY <1>1, <1>3
  <2>2. 0 <= b * t /\ b * t <= 128 * t /\ a * t = -(b * t)
    BY <2>1, <1>1
  <2> QED
    BY <1>1, <2>1, <2>2
<1> QED
  BY <1>1, <1>2, <1>3

\* No hash of so few characters overflows.
LEMMA HashFits ==
    ASSUME NEW s, Bytes(s), Len(s) + 8 <= IntBits
    PROVE  ~HashTraps(s)
<1> SUFFICES ASSUME NEW k \in 1 .. Len(s) PROVE Fits(Hashes(s)[k])
  BY DEF HashTraps
<1>1. Len(s) \in Nat /\ IntBits \in Nat
  BY LenProperties, MatchAssumption DEF Bytes
<1>2. /\ k \in Nat /\ k + 7 \in Nat /\ IntBits - 1 \in Nat
      /\ k + 7 <= IntBits - 1 /\ k \in 0 .. Len(s)
  BY <1>1
<1>3. PICK t \in Nat, h \in Int :
          /\ t = TwoTo(k) /\ h = Hashes(s)[k]
          /\ -128 * (t - 1) <= h /\ h <= 128 * (t - 1)
  <2>1. TwoTo(k) \in Nat
    BY <1>2, TwoToIs
  <2>2. /\ Hashes(s)[k] \in Int
        /\ -128 * (TwoTo(k) - 1) <= Hashes(s)[k]
        /\ Hashes(s)[k] <= 128 * (TwoTo(k) - 1)
    BY <1>2, HashSmall
  <2> QED
    BY <2>1, <2>2, Zenon
<1>4. PICK x \in Nat : x = TwoTo(IntBits - 1) /\ x >= 128 * t
  <2>1. TwoTo(k + 7) = 128 * t
    BY <1>2, <1>3, TwoToByte
  <2>2. TwoTo(k + 7) <= TwoTo(IntBits - 1) /\ TwoTo(IntBits - 1) \in Nat
    BY <1>2, TwoToGrows, TwoToIs
  <2> QED
    BY <2>1, <2>2
<1>5. -x <= h /\ h < x
  BY <1>3, <1>4
<1> QED
  BY <1>3, <1>4, <1>5, FitsBetween

\* Of bytes a pattern and a window are made.
LEMMA SearchBytes ==
    ASSUME MatchInv
    PROVE  /\ \A k \in Nat : InputAt(k) \in Byte
           /\ Searching => Bytes(pat)
<1>1. \A k \in Nat : InputAt(k) \in Byte
  <2>1. PICK s \in Seq(Int) :
            /\ s = CString(tmpbuf) /\ Len(s) <= Len(tmpbuf)
            /\ \A i \in 1 .. Len(s) : s[i] = tmpbuf[i]
    BY SearchFacts, CStringIs
  <2>2. /\ Len(s) \in Nat /\ Len(tmpbuf) \in Nat
        /\ \A i \in 1 .. Len(tmpbuf) : tmpbuf[i] \in Byte
    BY LenProperties, ByteSeqs DEF MatchInv, DecodeType
  <2>3. \A k \in Nat : InputAt(k) = IF k < Len(s) THEN s[k + 1] ELSE 0
    BY <2>1 DEF InputAt
  <2>4. 0 \in Byte
    BY DEF Byte
  <2> TAKE k \in Nat
  <2>5. CASE k < Len(s)
    <3>1. k + 1 \in 1 .. Len(s) /\ k + 1 \in 1 .. Len(tmpbuf)
      BY <2>1, <2>2, <2>5
    <3> QED
      BY <2>1, <2>2, <2>3, <2>5, <3>1
  <2> QED
    BY <2>3, <2>4, <2>5
<1>2. ASSUME Searching PROVE Bytes(pat)
  <2>1. /\ line \in 1 .. Len(rules) /\ rules \in Seq(Seq(Byte))
        /\ IsRule(rules[line]) /\ pat = Pattern(rules[line])
    BY <1>2 DEF MatchInv, RulesType, SearchType
  <2>2. PICK r \in Seq(Byte) : r = rules[line]
    BY <2>1, ElementOfSeq
  <2>3. PICK n \in 0 .. Len(r) : n = LineLen(r) /\ n > 4
    <3>1. Len(r) \in Nat /\ LineLimit \in Nat
      BY LenProperties, MatchAssumption
    <3>2. /\ LineLen(r) \in {Len(r), LineLimit}
          /\ LineLen(r) <= Len(r)
      BY <3>1, MinOfTwo DEF LineLen
    <3>3. LineLen(r) > 4
      BY <2>1, <2>2 DEF IsRule
    <3> QED
      BY <3>1, <3>2, <3>3
  <2>4. PICK m \in 0 .. Len(r) : m = LineLen(r) - 2
    BY <2>3, LenProperties
  <2>5. pat = SubSeq(r, 1, m)
    BY <2>1, <2>2, <2>4 DEF Pattern
  <2>6. pat \in Seq(Byte)
    BY <2>5, Beginning
  <2> QED
    BY <2>6, ByteSeqs DEF Bytes
<1> QED
  BY <1>1, <1>2

\* The text's first window overflows no more than the pattern does.
LEMMA FirstFits ==
    ASSUME MatchInv, pc = "hash", Len(pat) + 8 <= IntBits,
           NEW window \in FirstWindows
    PROVE  ~HashTraps(window)
<1>1. (\A k \in Nat : InputAt(k) \in Byte) /\ Len(pat) \in Nat
  BY SearchBytes, KarpFacts
<1>2. PICK n \in Nat, m \in Nat : n = Len(pat) /\ m = Len(CString(tmpbuf))
  BY <1>1, KarpFacts, CStringIs, LenProperties
<1>3. PICK beyond \in [m + 2 .. n -> Chars] :
          window = [k \in 1 .. n |-> IF k <= m + 1 THEN InputAt(k - 1)
                                                    ELSE beyond[k]]
  BY <1>2 DEF FirstWindows
<1>4. Chars \subseteq Byte
  BY MatchAssumption DEF Byte
<1>5. \A k \in 1 .. n : window[k] \in Byte
  <2> TAKE k \in 1 .. n
  <2>1. window[k] = IF k <= m + 1 THEN InputAt(k - 1) ELSE beyond[k]
    BY <1>3
  <2>2. CASE k <= m + 1
    <3>1. k - 1 \in Nat
      OBVIOUS
    <3> QED
      BY <1>1, <2>1, <2>2, <3>1
  <2>3. CASE ~(k <= m + 1)
    <3>1. k \in m + 2 .. n
      BY <2>3
    <3>2. beyond[k] \in Chars
      BY <3>1
    <3> QED
      BY <1>4, <2>1, <2>3, <3>2
  <2> QED
    BY <2>2, <2>3
<1>6. window = [k \in 1 .. n |-> window[k]]
  BY <1>3
<1>7. window \in [1 .. n -> Byte]
  BY <1>5, <1>6
<1>8. window \in Seq(Byte) /\ Len(window) = n
  BY <1>7, IsASeq, LenProperties
<1>9. Bytes(window) /\ Len(window) + 8 <= IntBits
  BY <1>2, <1>5, <1>8, ByteSeqs DEF Bytes
<1> QED
  BY <1>9, HashFits

\* Where the parts of the next hash are.
LEMMA RollBetween ==
    ASSUME NEW t \in Nat, NEW x \in Nat, NEW h \in Int, NEW g \in Int, NEW y \in Int,
           t > 0, x >= 256 * t,
           -128 * (2 * t - 1) <= h, h <= 128 * (2 * t - 1),
           -128 * (t - 1) <= g, g <= 128 * (t - 1),
           -(128 * t) <= y, y <= 128 * t
    PROVE  /\ h - (g + y) < 2 * x /\ (g + y) - h < 2 * x
           /\ -x <= y /\ y < x /\ -x <= g /\ g < x
OBVIOUS

\* Rolling a hash that never wrapped leaves exactly the hash of what remains.
LEMMA RollFits ==
    ASSUME MatchInv, KarpInv, KarpWindow, Len(pat) + 8 <= IntBits
    PROVE  ~RollTraps
<1>1. /\ pos \in Nat /\ pos + 1 \in Nat /\ Len(pat) \in Nat /\ Len(pat) > 2
      /\ tmpbuf \in Seq(Int) /\ \A k \in Nat : InputAt(k) \in Byte
  <2>1. pc = "karp"
    BY DEF KarpWindow
  <2>2. \A k \in Nat : InputAt(k) \in Byte
    BY SearchBytes
  <2>3. /\ pos \in Nat /\ Len(pat) \in Nat /\ Len(pat) > 2 /\ tmpbuf \in Seq(Int)
    BY <2>1, KarpFacts
  <2> QED
    BY <2>2, <2>3
<1>2. PICK n \in Nat : Len(pat) = n + 1 /\ Len(pat) - 1 = n
  <2>1. Len(pat) - 1 \in Nat /\ Len(pat) = (Len(pat) - 1) + 1
    BY <1>1
  <2> QED
    BY <2>1
<1>3. PICK w \in Seq(Int) :
        /\ w = Window(pos) /\ Len(w) = n + 1
        /\ \A i \in 1 .. n + 1 : w[i] = InputAt(pos + i - 1)
  BY <1>1, <1>2, WindowIs
<1>4. PICK u \in Seq(Int) :
        /\ u = Window(pos + 1) /\ Len(u) = n + 1
        /\ \A i \in 1 .. n + 1 : u[i] = InputAt((pos + 1) + i - 1)
  BY <1>1, <1>2, WindowIs
<1>5. Bytes(w) /\ Bytes(u) /\ \A i \in 1 .. n : u[i] = w[i + 1]
  <2>1. \A i \in 1 .. n + 1 : pos + i - 1 \in Nat /\ (pos + 1) + i - 1 \in Nat
    BY <1>1
  <2>2. Bytes(w) /\ Bytes(u)
    BY <1>1, <1>3, <1>4, <2>1 DEF Bytes
  <2>3. ASSUME NEW i \in 1 .. n PROVE u[i] = w[i + 1]
    <3>1. /\ i \in 1 .. n + 1 /\ i + 1 \in 1 .. n + 1
          /\ (pos + 1) + i - 1 = pos + i /\ pos + (i + 1) - 1 = pos + i
      BY <1>1
    <3>2. u[i] = InputAt((pos + 1) + i - 1) /\ w[i + 1] = InputAt(pos + (i + 1) - 1)
      BY <1>3, <1>4, <3>1
    <3> QED
      BY <3>1, <3>2
  <2> QED
    BY <2>2, <2>3
<1>6. PICK a \in Byte : a = InputAt(pos) /\ a = w[1]
  <2>1. 1 \in 1 .. n + 1 /\ pos + 1 - 1 = pos
    BY <1>1
  <2> QED
    BY <1>1, <1>3, <2>1
<1>7. PICK t \in Nat, x \in Nat :
        /\ t = TwoTo(n) /\ t > 0 /\ x = TwoTo(IntBits - 1) /\ x >= 256 * t
        /\ Modulus = 2 * x /\ TwoTo(n + 1) = 2 * t
  <2>1. /\ n + 1 \in Nat /\ (n + 1) + 7 \in Nat /\ IntBits - 1 \in Nat
        /\ (n + 1) + 7 <= IntBits - 1 /\ (IntBits - 1) + 1 = IntBits
    BY <1>2, MatchAssumption
  <2>2. /\ TwoTo(n) \in Nat /\ TwoTo(n) > 0 /\ TwoTo(n + 1) = 2 * TwoTo(n)
        /\ TwoTo(IntBits - 1) \in Nat /\ Modulus = 2 * TwoTo(IntBits - 1)
    BY <2>1, TwoToIs DEF Modulus
  <2>3. TwoTo((n + 1) + 7) = 128 * TwoTo(n + 1)
    BY <2>1, TwoToByte
  <2>4. TwoTo((n + 1) + 7) <= TwoTo(IntBits - 1)
    BY <2>1, TwoToGrows
  <2>5. TwoTo(IntBits - 1) >= 256 * TwoTo(n)
    BY <2>2, <2>3, <2>4
  <2> QED
    BY <2>2, <2>5, Zenon
<1>8. PICK h \in Int : /\ h = var2 /\ h = Hash(w)
                       /\ -128 * (2 * t - 1) <= h /\ h <= 128 * (2 * t - 1)
  <2>1. var2 = Hash(w) /\ Hash(w) = Hashes(w)[n + 1] /\ Hash(w) \in Int
    BY <1>3, HashesIs DEF KarpInv, KarpWindow
  <2>2. n + 1 \in 0 .. Len(w) /\ Len(w) + 8 <= IntBits
    BY <1>2, <1>3
  <2>3. /\ -128 * (TwoTo(n + 1) - 1) <= Hashes(w)[n + 1]
        /\ Hashes(w)[n + 1] <= 128 * (TwoTo(n + 1) - 1)
    BY <1>5, <2>2, HashSmall
  <2> QED
    BY <1>7, <2>1, <2>3
<1>9. PICK g \in Int : /\ g = Hashes(u)[n]
                       /\ -128 * (t - 1) <= g /\ g <= 128 * (t - 1)
  <2>1. n \in 0 .. Len(u) /\ Len(u) + 8 <= IntBits
    BY <1>2, <1>4
  <2>2. /\ Hashes(u)[n] \in Int
        /\ -128 * (TwoTo(n) - 1) <= Hashes(u)[n]
        /\ Hashes(u)[n] <= 128 * (TwoTo(n) - 1)
    BY <1>5, <2>1, HashSmall
  <2> QED
    BY <1>7, <2>2
<1>10. z = t
  <2>1. -x <= t /\ t < x /\ t \in Int
    <3>1. t > 0 /\ x >= 256 * t
      BY <1>7
    <3> QED
      BY <3>1
  <2>2. Wrap(t) = t
    BY <1>7, <2>1, FitsBetween, WrapFits
  <2> QED
    BY <1>2, <1>7, <2>2 DEF z
<1>11. PICK y \in Int : y = a * t /\ -(128 * t) <= y /\ y <= 128 * t
  BY ByteTimes
<1>12. /\ h - (g + y) < 2 * x /\ (g + y) - h < 2 * x
      /\ -x <= y /\ y < x /\ -x <= g /\ g < x
  <2>1. t > 0 /\ x >= 256 * t
    BY <1>7
  <2>2. -128 * (2 * t - 1) <= h /\ h <= 128 * (2 * t - 1)
    BY <1>8
  <2>3. -128 * (t - 1) <= g /\ g <= 128 * (t - 1)
    BY <1>9
  <2>4. -(128 * t) <= y /\ y <= 128 * t
    BY <1>11
  <2> QED
    BY <2>1, <2>2, <2>3, <2>4, RollBetween
<1>13. h = g + y
  <2>1. Congruent(h, g + y, Modulus)
    <3>1. n <= Len(u)
      BY <1>4
    <3>2. Congruent(Hash(w), Hashes(u)[n] + w[1] * TwoTo(n), Modulus)
      BY <1>3, <1>5, <3>1, HashTail
    <3> QED
      BY <1>6, <1>7, <1>8, <1>9, <1>11, <3>2
  <2>3. PICK m \in Nat, k \in Int : m = Modulus /\ m = 2 * x /\ k = g + y
    BY <1>7
  <2>4. Congruent(h, k, m) /\ h - k < m /\ k - h < m
    BY <1>12, <2>1, <2>3
  <2>5. h = k
    BY <2>4, CloseSame
  <2> QED
    BY <2>3, <2>5
<1>14. Fits(InputAt(pos) * z) /\ Fits(var2 - InputAt(pos) * z)
  <2>1. InputAt(pos) * z = y /\ var2 - InputAt(pos) * z = g
    BY <1>6, <1>8, <1>10, <1>11, <1>13
  <2> QED
    BY <1>7, <1>12, <2>1, FitsBetween
<1>15. Fits(Rolled)
  <2>1. Rolled = Hashes(u)[n + 1]
    BY <1>4, RolledIs, HashesIs
  <2>2. ~HashTraps(u) /\ n + 1 \in 1 .. Len(u)
    BY <1>2, <1>4, <1>5, HashFits
  <2> QED
    BY <2>1, <2>2 DEF HashTraps
<1> QED
  BY <1>14, <1>15 DEF RollTraps

LEMMA ShortStep ==
    ASSUME SearchInv, ShortNeverTraps, [Next]_vars
    PROVE  ShortNeverTraps'
<1> SUFFICES ASSUME pc' = "trapped", Len(pat') + 8 <= IntBits PROVE FALSE
  BY DEF ShortNeverTraps
<1>0. MatchInv /\ KarpInv
  BY DEF SearchInv
<1>1. CASE HashFirst
  <2>1. pat' = pat /\ pc = "hash" /\ Searching
    BY <1>1 DEF HashFirst, Searching
  <2>2. PICK window \in FirstWindows : HashTraps(pat) \/ HashTraps(window)
    BY <1>1 DEF HashFirst, Continue
  <2>3. ~HashTraps(pat)
    BY <1>0, <2>1, SearchBytes, HashFits
  <2> QED
    BY <1>0, <2>1, <2>2, <2>3, FirstFits
<1>2. CASE KarpRoll
  <2>1. pat' = pat /\ KarpWindow /\ RollTraps
    BY <1>2 DEF KarpRoll, Continue
  <2> QED
    BY <1>0, <2>1, RollFits
<1>3. CASE UNCHANGED vars \/ Ended
  BY <1>3 DEF vars, search, Ended, ShortNeverTraps
<1>4. CASE DecodeChar \/ DecodeEnd \/ matchlist_returns \/ PcreSearch
  <2>1. pc # "trapped" /\ pc' \in {"decode", "rule", "crashed", "done", "exited"}
    BY <1>4 DEF DecodeChar, DecodeEnd, matchlist_returns, PcreSearch, Return,
                Continue
  <2> QED
    BY <2>1
<1>8. CASE NextLine
  <2>1. alg \in 1 .. 4
    BY <1>0 DEF MatchInv, RulesType
  <2>2. SearchState \in {"dfa", "horspool", "hash", "pcre"}
    BY <2>1 DEF SearchState
  <2>3. pc = "rule" /\ (pc' = SearchState \/ pc' = pc)
    BY <1>8 DEF NextLine
  <2> QED
    BY <2>2, <2>3
<1>5. CASE DfaStep \/ DfaLost \/ DfaEnd
  BY <1>5 DEF DfaStep, DfaLost, DfaEnd, Return, Continue
<1>6. CASE \/ HorspoolCompare \/ HorspoolFound \/ HorspoolShift
           \/ HorspoolLost \/ HorspoolEnd
  BY <1>6 DEF HorspoolCompare, HorspoolFound, HorspoolShift, HorspoolLost,
              HorspoolEnd, Return, Continue
<1>7. CASE KarpFound \/ KarpEnd
  BY <1>7 DEF KarpFound, KarpEnd, Return
<1> QED
  BY <1>1, <1>2, <1>3, <1>4, <1>5, <1>6, <1>7, <1>8 DEF Next

\* Rabin_Karp_search of a pattern whose bits leave eight of an int's over never
\* aborts, whatever text it searches and whatever lies behind the text: the
\* shipped build's trap (src/Makefile:9) needs 25 characters.
THEOREM ShortIsSafe ==
    ASSUME NEW texts, NEW files, WellFormed(texts, files)
    PROVE  Spec(texts, files) => []ShortNeverTraps
<1>1. Init(texts, files) => ShortNeverTraps
  BY DEF Init, ShortNeverTraps
<1>2. SearchInv /\ ShortNeverTraps /\ [Next]_vars => ShortNeverTraps'
  BY ShortStep
<1>3. Spec(texts, files) => []SearchInv
  BY AlwaysSearching
<1> QED
  BY <1>1, <1>2, <1>3, PTL DEF Spec

-----------------------------------------------------------------------------
(* What is decoded is what was encoded.                                     *)

\* The digits for n, in either case.
HexDigits(n) == IF n < 10 THEN {48 + n} ELSE {55 + n, 87 + n}

\* The part of the text d that ends at j and begins after i stands for c.
StandsFor(d, i, j, c) ==
    \/ j = i + 1 /\ d[j] = c /\ c \notin {Percent, Plus}
    \/ j = i + 1 /\ d[j] = Plus /\ c = Blank
    \/ /\ j = i + 3 /\ d[i + 1] = Percent
       /\ \E high, low \in 0 .. 15 :
              /\ d[i + 2] \in HexDigits(high) /\ d[i + 3] \in HexDigits(low)
              /\ c = SignedChar(16 * high + low)

\* The chars of s are encoded by the parts of d that end at the places at[1], ...
EncodedAt(at, d, s) ==
    /\ at \in [0 .. Len(s) -> 0 .. Len(d)]
    /\ at[0] = 0 /\ at[Len(s)] = Len(d)
    /\ \A i, j \in 0 .. Len(s) : i < j => at[i] < at[j]
    /\ \A k \in 1 .. Len(s) : StandsFor(d, at[k - 1], at[k], s[k])

\* d is an encoding of s.
Encodes(d, s) == s \in Seq(Byte) /\ \E at : EncodedAt(at, d, s)

\* How far urldecode is, and what it has written.
DecodeInv ==
    /\ pc = "decode" => \A s \in plain :
           /\ s \in Seq(Byte)
           /\ \E at : /\ EncodedAt(at, data, s)
                      /\ \E k \in 0 .. Len(s) :
                             pstr = at[k] /\ tmpbuf = SubSeq(s, 1, k)
    /\ pc # "decode" => \A s \in plain : tmpbuf = s

LEMMA HexDigitIs ==
    ASSUME NEW n \in 0 .. 15, NEW c \in HexDigits(n)
    PROVE  from_hex(c) = n
<1>1. SignedChar(n) = n
  <2>1. n % 256 = n
    OBVIOUS
  <2> QED
    BY <2>1 DEF SignedChar
<1>2. CASE n < 10
  <2>1. c \in 48 .. 57 /\ c - 48 = n
    BY <1>2 DEF HexDigits
  <2> QED
    BY <1>1, <2>1 DEF from_hex
<1>3. CASE n >= 10 /\ c = 55 + n
  <2>1. c \notin 48 .. 57 /\ c \in 65 .. 90 /\ c + 32 - 97 + 10 = n
    BY <1>3
  <2> QED
    BY <1>1, <2>1 DEF from_hex
<1>4. CASE n >= 10 /\ c = 87 + n
  <2>1. c \notin 48 .. 57 /\ c \notin 65 .. 90 /\ c - 97 + 10 = n
    BY <1>4
  <2> QED
    BY <1>1, <2>1 DEF from_hex
<1> QED
  BY <1>2, <1>3, <1>4 DEF HexDigits

\* The four bits of a digit.
LEMMA DigitBits ==
    ASSUME NEW n \in 0 .. 15
    PROVE  /\ \A w \in {1, 2, 4, 8, 16, 32, 64, 128} : Bit(n, w) \in {0, 1}
           /\ Bit(n, 1) + 2 * Bit(n, 2) + 4 * Bit(n, 4) + 8 * Bit(n, 8) = n
           /\ Bit(n, 16) = 0 /\ Bit(n, 32) = 0 /\ Bit(n, 64) = 0 /\ Bit(n, 128) = 0
           /\ Bit(16 * n, 16) = Bit(n, 1) /\ Bit(16 * n, 32) = Bit(n, 2)
           /\ Bit(16 * n, 64) = Bit(n, 4) /\ Bit(16 * n, 128) = Bit(n, 8)
           /\ Bit(16 * n, 1) = 0 /\ Bit(16 * n, 2) = 0
           /\ Bit(16 * n, 4) = 0 /\ Bit(16 * n, 8) = 0
<1>1. \/ n = 0 \/ n = 1 \/ n = 2 \/ n = 3 \/ n = 4 \/ n = 5 \/ n = 6 \/ n = 7
      \/ n = 8 \/ n = 9 \/ n = 10 \/ n = 11 \/ n = 12 \/ n = 13 \/ n = 14 \/ n = 15
  OBVIOUS
<1> QED
  BY <1>1 DEF Bit

\* Two digits are or-ed to the char they stand for.
LEMMA EscapeValue ==
    ASSUME NEW high \in 0 .. 15, NEW low \in 0 .. 15,
           NEW a \in HexDigits(high), NEW c \in HexDigits(low)
    PROVE  Escape(a, c) = SignedChar(16 * high + low)
<1>1. from_hex(a) = high /\ from_hex(c) = low
  BY HexDigitIs
<1> DEFINE bit(weight) ==
               IF Bit(16 * from_hex(a), weight) + Bit(from_hex(c), weight) > 0
               THEN weight ELSE 0
<1>2. bit(1) + bit(2) + bit(4) + bit(8) + bit(16) + bit(32) + bit(64) + bit(128)
      = 16 * high + low
  <2>1. /\ bit(1) = Bit(low, 1) /\ bit(2) = 2 * Bit(low, 2)
        /\ bit(4) = 4 * Bit(low, 4) /\ bit(8) = 8 * Bit(low, 8)
    BY <1>1, DigitBits
  <2>2. /\ bit(16) = 16 * Bit(high, 1) /\ bit(32) = 32 * Bit(high, 2)
        /\ bit(64) = 64 * Bit(high, 4) /\ bit(128) = 128 * Bit(high, 8)
    BY <1>1, DigitBits
  <2>3. /\ Bit(low, 1) + 2 * Bit(low, 2) + 4 * Bit(low, 4) + 8 * Bit(low, 8) = low
        /\ Bit(high, 1) + 2 * Bit(high, 2) + 4 * Bit(high, 4) + 8 * Bit(high, 8) = high
        /\ \A w \in {1, 2, 4, 8} : Bit(low, w) \in {0, 1} /\ Bit(high, w) \in {0, 1}
    BY DigitBits
  <2> HIDE DEF bit
  <2> QED
    BY <2>1, <2>2, <2>3
<1> QED
  BY <1>2 DEF Escape

\* One part of the encoding is decoded.
LEMMA PartDecoded ==
    ASSUME MatchInv, DecodeChar, NEW s \in Seq(Byte), NEW at,
           EncodedAt(at, data, s), NEW k \in 0 .. Len(s),
           pstr = at[k], tmpbuf = SubSeq(s, 1, k)
    PROVE  \E m \in 0 .. Len(s) : pstr' = at[m] /\ tmpbuf' = SubSeq(s, 1, m)
<1>1. /\ Len(s) \in Nat /\ Len(data) \in Nat /\ pstr \in Nat /\ pstr < Len(data)
      /\ data \in Seq(Byte)
  BY LenProperties DEF MatchInv, DecodeType, DecodeChar
<1>2. /\ at \in [0 .. Len(s) -> 0 .. Len(data)] /\ at[Len(s)] = Len(data)
      /\ \A i, j \in 0 .. Len(s) : i < j => at[i] < at[j]
      /\ \A i \in 1 .. Len(s) : StandsFor(data, at[i - 1], at[i], s[i])
  BY DEF EncodedAt
<1>3. k < Len(s) /\ k + 1 \in 1 .. Len(s) /\ k + 1 \in 0 .. Len(s)
  <2>1. k # Len(s)
    BY <1>1, <1>2
  <2> QED
    BY <1>1, <2>1
<1>4. StandsFor(data, pstr, at[k + 1], s[k + 1])
  <2>1. (k + 1) - 1 = k
    OBVIOUS
  <2> QED
    BY <1>2, <1>3, <2>1
<1>5. at[k + 1] \in 0 .. Len(data)
  BY <1>2, <1>3
<1>6. SubSeq(s, 1, k + 1) = Append(tmpbuf, s[k + 1])
  BY <1>1, <1>3
<1>7. DataAt(0) = data[pstr + 1] /\ Percent = 37 /\ Plus = 43 /\ Blank = 32
  BY <1>1 DEF DataAt, Percent, Plus, Blank
<1>8. tmpbuf' = Append(tmpbuf, s[k + 1]) /\ pstr' = at[k + 1]
  <2>1. CASE /\ at[k + 1] = pstr + 1 /\ data[at[k + 1]] = s[k + 1]
             /\ s[k + 1] \notin {Percent, Plus}
    BY <1>7, <2>1 DEF DecodeChar
  <2>2. CASE /\ at[k + 1] = pstr + 1 /\ data[at[k + 1]] = Plus
             /\ s[k + 1] = Blank
    BY <1>7, <2>2 DEF DecodeChar
  <2>3. CASE /\ at[k + 1] = pstr + 3 /\ data[pstr + 1] = Percent
             /\ \E high, low \in 0 .. 15 :
                    /\ data[pstr + 2] \in HexDigits(high)
                    /\ data[pstr + 3] \in HexDigits(low)
                    /\ s[k + 1] = SignedChar(16 * high + low)
    <3>1. pstr + 3 <= Len(data) /\ pstr + 1 < Len(data) /\ pstr + 2 < Len(data)
      <4>1. at[k + 1] = pstr + 3
        BY <2>3
      <4>2. pstr \in Nat /\ Len(data) \in Nat /\ at[k + 1] <= Len(data)
        BY <1>1, <1>5, LenProperties
      <4> QED
        BY <4>1, <4>2
    <3>2. DataAt(1) = data[pstr + 2] /\ DataAt(2) = data[pstr + 3] /\ HasTwoMore
      BY <1>1, <3>1 DEF DataAt, HasTwoMore
    <3>3. Escape(DataAt(1), DataAt(2)) = s[k + 1]
      BY <2>3, <3>2, EscapeValue
    <3> QED
      BY <1>7, <2>3, <3>2, <3>3 DEF DecodeChar
  <2> QED
    BY <1>4, <2>1, <2>2, <2>3 DEF StandsFor
<1> QED
  BY <1>3, <1>6, <1>8

LEMMA DecodeStep ==
    ASSUME MatchInv, DecodeInv, [Next]_vars
    PROVE  DecodeInv'
<1>1. CASE DecodeChar
  <2>1. pc = "decode" /\ pc' = "decode" /\ plain' = plain /\ data' = data
    BY <1>1 DEF DecodeChar
  <2>2. ASSUME NEW s \in plain
        PROVE  /\ s \in Seq(Byte)
               /\ \E at : /\ EncodedAt(at, data, s)
                          /\ \E m \in 0 .. Len(s) :
                                 pstr' = at[m] /\ tmpbuf' = SubSeq(s, 1, m)
    <3>1. s \in Seq(Byte)
      BY <2>1, <2>2 DEF DecodeInv
    <3>2. PICK at : /\ EncodedAt(at, data, s)
                    /\ \E k \in 0 .. Len(s) : pstr = at[k] /\ tmpbuf = SubSeq(s, 1, k)
      BY <2>1, <2>2 DEF DecodeInv
    <3> QED
      BY <1>1, <3>1, <3>2, PartDecoded
  <2> QED
    BY <2>1, <2>2 DEF DecodeInv
<1>2. CASE DecodeEnd
  <2>1. /\ pc = "decode" /\ pc' # "decode" /\ plain' = plain /\ tmpbuf' = tmpbuf
        /\ pstr >= Len(data)
    BY <1>2 DEF DecodeEnd, text
  <2>2. ASSUME NEW s \in plain PROVE tmpbuf = s
    <3>1. s \in Seq(Byte) /\ Len(s) \in Nat /\ Len(data) \in Nat
      BY <2>1, <2>2, LenProperties DEF DecodeInv, MatchInv, DecodeType
    <3>2. PICK at, k : /\ EncodedAt(at, data, s) /\ k \in 0 .. Len(s)
                       /\ pstr = at[k] /\ tmpbuf = SubSeq(s, 1, k)
      BY <2>1, <2>2 DEF DecodeInv
    <3>3. /\ at \in [0 .. Len(s) -> 0 .. Len(data)] /\ at[Len(s)] = Len(data)
          /\ \A i, j \in 0 .. Len(s) : i < j => at[i] < at[j]
      BY <3>2 DEF EncodedAt
    <3>4. k = Len(s)
      <4>1. k < Len(s) => at[k] < Len(data)
        BY <3>1, <3>2, <3>3
      <4> QED
        BY <2>1, <3>1, <3>2, <3>3, <4>1
    <3> QED
      BY <3>1, <3>2, <3>4
  <2> QED
    BY <2>1, <2>2 DEF DecodeInv
<1>3. CASE UNCHANGED text /\ pc # "decode" /\ pc' # "decode"
  BY <1>3 DEF DecodeInv, text
<1>4. CASE NextLine \/ matchlist_returns
  <2>1. UNCHANGED text /\ pc = "rule" /\ pc' # "decode"
    BY <1>4 DEF NextLine, matchlist_returns, SearchState, MatchInv, RulesType
  <2> QED
    BY <1>3, <2>1
<1>5. CASE DfaStep \/ DfaLost \/ DfaEnd
  <2>1. UNCHANGED text /\ pc = "dfa" /\ pc' # "decode"
    BY <1>5 DEF DfaStep, DfaLost, DfaEnd, Return, Continue
  <2> QED
    BY <1>3, <2>1
<1>6. CASE \/ HorspoolCompare \/ HorspoolFound \/ HorspoolShift \/ HorspoolLost
           \/ HorspoolEnd
  <2>1. UNCHANGED text /\ pc = "horspool" /\ pc' # "decode"
    BY <1>6 DEF HorspoolCompare, HorspoolFound, HorspoolShift, HorspoolLost,
                HorspoolEnd, Return, Continue
  <2> QED
    BY <1>3, <2>1
<1>7. CASE HashFirst \/ KarpFound \/ KarpRoll \/ KarpEnd
  <2>1. UNCHANGED text /\ pc \in {"hash", "karp"} /\ pc' # "decode"
    BY <1>7 DEF HashFirst, KarpFound, KarpRoll, KarpEnd, KarpWindow, Return, Continue
  <2> QED
    BY <1>3, <2>1
<1>8. CASE PcreSearch
  <2>1. UNCHANGED text /\ pc = "pcre" /\ pc' # "decode"
    BY <1>8 DEF PcreSearch, Return, Continue
  <2> QED
    BY <1>3, <2>1
<1>9. CASE UNCHANGED vars
  BY <1>9 DEF DecodeInv, vars
<1> QED
  BY <1>1, <1>2, <1>4, <1>5, <1>6, <1>7, <1>8, <1>9 DEF Next, Ended

\* Whatever is escaped in a text, and in whatever case the digits are, urldecode
\* hands matchlist the text that was meant.
THEOREM EncodingIsDecoded ==
    ASSUME NEW texts, NEW files, WellFormed(texts, files),
           \A t \in texts : \A s \in t[2] : Encodes(t[1], s)
    PROVE  Spec(texts, files) => []DecodesEncoding
<1>1. Init(texts, files) => DecodeInv
  <2> SUFFICES ASSUME Init(texts, files) PROVE DecodeInv
    OBVIOUS
  <2>1. pstr = 0 /\ tmpbuf = <<>> /\ pc = "decode"
    BY DEF Init
  <2>2. PICK t \in texts : data = t[1] /\ plain = t[2]
    BY DEF Init
  <2>3. ASSUME NEW s \in plain
        PROVE  /\ s \in Seq(Byte)
               /\ \E at : /\ EncodedAt(at, data, s)
                          /\ \E k \in 0 .. Len(s) :
                                 pstr = at[k] /\ tmpbuf = SubSeq(s, 1, k)
    <3>1. s \in Seq(Byte) /\ \E at : EncodedAt(at, data, s)
      BY <2>2, <2>3 DEF Encodes
    <3>2. PICK at : EncodedAt(at, data, s)
      BY <3>1
    <3>3. 0 \in 0 .. Len(s) /\ at[0] = 0 /\ SubSeq(s, 1, 0) = <<>>
      BY <3>1, <3>2, LenProperties DEF EncodedAt
    <3> QED
      BY <2>1, <3>1, <3>2, <3>3
  <2> QED
    BY <2>1, <2>3 DEF DecodeInv
<1>2. MatchInv /\ DecodeInv /\ [Next]_vars => DecodeInv'
  BY DecodeStep
<1>3. DecodeInv => DecodesEncoding
  BY DEF DecodeInv, DecodesEncoding
<1> QED
  BY <1>1, <1>2, <1>3, AlwaysTyped, PTL DEF Spec
=============================================================================
