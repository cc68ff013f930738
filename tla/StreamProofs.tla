---------------------------- MODULE StreamProofs ----------------------------
(***************************************************************************)
(* What holds of sequences of any length: induction, recursive functions,  *)
(* and what Without leaves of a stream.                                    *)
(***************************************************************************)
EXTENDS Streams, SequenceTheorems, WellFoundedInduction, TLAPS
LOCAL INSTANCE FiniteSetsExt

-----------------------------------------------------------------------------
(* Induction.                                                               *)

\* Every non-empty set of naturals has a least element.
LEMMA LeastNatural ==
    ASSUME NEW T \in SUBSET Nat, T # {}
    PROVE  \E n \in T : \A m \in T : n <= m
<1> DEFINE R == {ss \in Nat \X Nat : ss[1] < ss[2]}
<1>1. IsWellFoundedOn(R, Nat)
  BY NatLessThanWellFounded DEF OpToRel
<1>2. PICK n \in T : \A y \in T : ~(<<y, n>> \in R)
  BY <1>1, WFMin
<1>3. ASSUME NEW m \in T PROVE n <= m
  <2>1. n \in Nat /\ m \in Nat /\ ~(<<m, n>> \in R)
    BY <1>2
  <2>2. <<m, n>> \in Nat \X Nat /\ <<m, n>>[1] = m /\ <<m, n>>[2] = n
    BY <2>1
  <2>3. ~(m < n)
    BY <2>1, <2>2
  <2> QED
    BY <2>1, <2>3
<1> QED
  BY <1>2, <1>3

\* A set of naturals that holds 0 and every successor holds them all.
LEMMA NaturalInduction ==
    ASSUME NEW I \in SUBSET Nat, 0 \in I, \A n \in I : n + 1 \in I
    PROVE  \A n \in Nat : n \in I
<1> SUFFICES ASSUME Nat \ I # {} PROVE FALSE
  OBVIOUS
<1>1. PICK n \in Nat \ I : \A m \in Nat \ I : n <= m
  BY LeastNatural
<1>2. n - 1 \in Nat /\ n - 1 \notin Nat \ I
  BY <1>1
<1> QED
  BY <1>1, <1>2

\* The same up to a bound.
LEMMA IntervalInduction ==
    ASSUME NEW k \in Nat, NEW I, 0 \in I,
           \A n \in 0 .. k - 1 : n \in I => n + 1 \in I
    PROVE  \A n \in 0 .. k : n \in I
<1> DEFINE J == {n \in Nat : n <= k => n \in I}
<1>1. 0 \in J
  OBVIOUS
<1>2. ASSUME NEW n \in J PROVE n + 1 \in J
  OBVIOUS
<1>3. \A n \in Nat : n \in J
  <2> HIDE DEF J
  <2> QED
    BY <1>1, <1>2, NaturalInduction, J \in SUBSET Nat DEF J
<1> QED
  BY <1>3

\* A set of sequences that holds the empty one, and with a sequence every one
\* longer by an element, holds them all.
LEMMA SequenceInduction ==
    ASSUME NEW S, NEW I, <<>> \in I,
           \A s \in Seq(S), e \in S : s \in I => Append(s, e) \in I
    PROVE  \A s \in Seq(S) : s \in I
<1> DEFINE J == {n \in Nat : \A s \in Seq(S) : Len(s) = n => s \in I}
<1>1. 0 \in J
  BY EmptySeq
<1>2. ASSUME NEW n \in J PROVE n + 1 \in J
  <2>1. ASSUME NEW s \in Seq(S), Len(s) = n + 1 PROVE s \in I
    <3>1. s # <<>>
      BY <2>1, <1>2
    <3>2. PICK t \in Seq(S), e \in S : s = Append(t, e)
      BY <3>1, SequenceEmptyOrAppend
    <3>3. Len(t) = n
      BY <2>1, <3>2, <1>2, AppendProperties, LenProperties
    <3> QED
      BY <3>2, <3>3
  <2> QED
    BY <2>1
<1>3. \A n \in Nat : n \in J
  <2>1. J \in SUBSET Nat
    OBVIOUS
  <2> HIDE DEF J
  <2> QED
    BY <1>1, <1>2, <2>1, NaturalInduction
<1> QED
  BY <1>3, LenProperties

-----------------------------------------------------------------------------
(* Recursion.                                                               *)

\* f takes the first value base and the given steps up to k.
Recursive(f, k, base, step) ==
    /\ f[0] = base
    /\ \A i \in 1 .. k : f[i] = step[<<i, f[i - 1]>>]

\* A first value and a step define a function on 0 .. n.
LEMMA RecursionExists ==
    ASSUME NEW T, NEW n \in Nat, NEW base \in T,
           NEW step \in [(1 .. n) \X T -> T]
    PROVE  \E f \in [0 .. n -> T] : Recursive(f, n, base, step)
<1> DEFINE I == {k \in 0 .. n : \E f \in [0 .. k -> T] :
                                    Recursive(f, k, base, step)}
<1>1. 0 \in I
  <2>1. /\ [i \in 0 .. 0 |-> base] \in [0 .. 0 -> T]
        /\ Recursive([i \in 0 .. 0 |-> base], 0, base, step)
    BY DEF Recursive
  <2> QED
    BY <2>1
<1>2. ASSUME NEW k \in 0 .. n - 1, k \in I PROVE k + 1 \in I
  <2>1. PICK f \in [0 .. k -> T] : Recursive(f, k, base, step)
    BY <1>2
  <2> DEFINE last == step[<<k + 1, f[k]>>]
             g == [i \in 0 .. k + 1 |-> IF i <= k THEN f[i] ELSE last]
  <2>2. f[k] \in T /\ k + 1 \in 1 .. n /\ k \in Nat
    BY <1>2
  <2>3. last \in T
    BY <2>2
  <2>4. /\ g \in [0 .. k + 1 -> T]
        /\ \A i \in 0 .. k : g[i] = f[i]
        /\ g[k + 1] = last
    <3> HIDE DEF last
    <3> QED
      BY <2>2, <2>3
  <2> HIDE DEF g
  <2>5. ASSUME NEW i \in 1 .. k + 1 PROVE g[i] = step[<<i, g[i - 1]>>]
    <3>1. CASE i = k + 1
      <4>1. i - 1 = k /\ g[i - 1] = f[k]
        BY <3>1, <2>2, <2>4
      <4> QED
        BY <3>1, <4>1, <2>4
    <3>2. CASE i <= k
      <4>1. i \in 1 .. k /\ g[i] = f[i] /\ g[i - 1] = f[i - 1]
        BY <3>2, <2>2, <2>4
      <4> QED
        BY <4>1, <2>1 DEF Recursive
    <3> QED
      BY <3>1, <3>2, <2>2
  <2>6. Recursive(g, k + 1, base, step)
    BY <2>1, <2>2, <2>4, <2>5 DEF Recursive
  <2> QED
    BY <2>2, <2>4, <2>6
<1>3. \A k \in 0 .. n : k \in I
  <2> HIDE DEF I
  <2> QED
    BY <1>1, <1>2, IntervalInduction
<1> QED
  BY <1>3

-----------------------------------------------------------------------------
(* Without.                                                                 *)

\* The function by which Without is computed.
Kept(f, s, x) ==
    f = [i \in 0 .. Len(s) |->
            IF i = 0 THEN <<>>
            ELSE IF s[i] = x THEN f[i - 1] ELSE Append(f[i - 1], s[i])]

LEMMA KeptExists ==
    ASSUME NEW S, NEW s \in Seq(S), NEW x
    PROVE  \E f : Kept(f, s, x)
<1> DEFINE n == Len(s)
           step == [w \in (1 .. n) \X Seq(S) |->
                        IF s[w[1]] = x THEN w[2] ELSE Append(w[2], s[w[1]])]
<1>1. n \in Nat /\ \A i \in 1 .. n : s[i] \in S
  BY LenProperties, ElementOfSeq
<1>2. step \in [(1 .. n) \X Seq(S) -> Seq(S)]
  BY <1>1, AppendProperties
<1>3. <<>> \in Seq(S)
  BY EmptySeq
<1>4. \A i \in 1 .. n, q \in Seq(S) :
         step[<<i, q>>] = IF s[i] = x THEN q ELSE Append(q, s[i])
  OBVIOUS
<1> HIDE DEF n, step
<1>5. PICK f \in [0 .. n -> Seq(S)] : Recursive(f, n, <<>>, step)
  BY <1>1, <1>2, <1>3, RecursionExists
<1>6. ASSUME NEW i \in 1 .. n
      PROVE  f[i] = IF s[i] = x THEN f[i - 1] ELSE Append(f[i - 1], s[i])
  <2>1. i - 1 \in 0 .. n
    BY <1>1
  <2>2. f[i - 1] \in Seq(S)
    BY <2>1
  <2>3. f[i] = step[<<i, f[i - 1]>>]
    BY <1>5 DEF Recursive
  <2> QED
    BY <2>2, <2>3, <1>4
<1>7. f[0] = <<>>
  BY <1>5 DEF Recursive
<1> DEFINE v(i) == IF i = 0 THEN <<>>
                   ELSE IF s[i] = x THEN f[i - 1] ELSE Append(f[i - 1], s[i])
<1>8. ASSUME NEW i \in 0 .. n PROVE f[i] = v(i)
  <2>1. CASE i = 0
    BY <2>1, <1>7
  <2>2. CASE i # 0
    <3>1. i \in 1 .. n
      BY <2>2, <1>1
    <3> QED
      BY <2>2, <3>1, <1>6
  <2> QED
    BY <2>1, <2>2
<1>9. Kept(f, s, x)
  <2> HIDE DEF v
  <2>1. f = [i \in 0 .. n |-> v(i)]
    BY <1>8
  <2> QED
    BY <2>1 DEF Kept, n, v
<1> QED
  BY <1>9

\* Its values.
LEMMA KeptValues ==
    ASSUME NEW f, NEW s, NEW x, Len(s) \in Nat, Kept(f, s, x)
    PROVE  /\ f[0] = <<>>
           /\ \A i \in 1 .. Len(s) :
                  f[i] = IF s[i] = x THEN f[i - 1] ELSE Append(f[i - 1], s[i])
<1> DEFINE v(i) == IF i = 0 THEN <<>>
                   ELSE IF s[i] = x THEN f[i - 1] ELSE Append(f[i - 1], s[i])
<1>1. f = [i \in 0 .. Len(s) |-> v(i)]
  BY DEF Kept
<1>2. \A i \in 0 .. Len(s) : f[i] = v(i)
  <2> HIDE DEF v
  <2> QED
    BY <1>1
<1>3. f[0] = v(0) /\ v(0) = <<>>
  BY <1>2
<1>4. ASSUME NEW i \in 1 .. Len(s)
      PROVE  f[i] = IF s[i] = x THEN f[i - 1] ELSE Append(f[i - 1], s[i])
  <2>1. i \in 0 .. Len(s) /\ i # 0
    OBVIOUS
  <2>2. f[i] = v(i)
    BY <2>1, <1>2
  <2> QED
    BY <2>1, <2>2
<1> QED
  BY <1>3, <1>4

\* Without is the last value of such a function.
LEMMA WithoutKept ==
    ASSUME NEW S, NEW s \in Seq(S), NEW x
    PROVE  \E f : Kept(f, s, x) /\ Without(s, x) = f[Len(s)]
<1> DEFINE f == CHOOSE g : Kept(g, s, x)
<1>1. Kept(f, s, x)
  BY KeptExists
<1>2. Without(s, x) = f[Len(s)]
  BY DEF Without, Kept
<1> QED
  BY <1>1, <1>2

\* One element more.
LEMMA WithoutAppend ==
    ASSUME NEW S, NEW s \in Seq(S), NEW e \in S, NEW x
    PROVE  Without(Append(s, e), x) =
               IF e = x THEN Without(s, x) ELSE Append(Without(s, x), e)
<1> DEFINE t == Append(s, e)
           n == Len(s)
<1>1. /\ t \in Seq(S) /\ Len(t) = n + 1 /\ n \in Nat
      /\ \A i \in 1 .. n : t[i] = s[i]
      /\ t[n + 1] = e
  BY AppendProperties, LenProperties
<1> HIDE DEF t
<1>2. PICK f : Kept(f, s, x) /\ Without(s, x) = f[n]
  BY WithoutKept
<1>3. PICK g : Kept(g, t, x) /\ Without(t, x) = g[n + 1]
  BY <1>1, WithoutKept
<1> HIDE DEF n
<1>4. /\ f[0] = <<>>
      /\ \A i \in 1 .. n :
            f[i] = IF s[i] = x THEN f[i - 1] ELSE Append(f[i - 1], s[i])
  BY <1>1, <1>2, KeptValues DEF n
<1>5. /\ g[0] = <<>>
      /\ \A i \in 1 .. n + 1 :
            g[i] = IF t[i] = x THEN g[i - 1] ELSE Append(g[i - 1], t[i])
  BY <1>1, <1>3, KeptValues
<1> DEFINE I == {i \in 0 .. n : f[i] = g[i]}
<1>6. \A i \in 0 .. n : i \in I
  <2>1. 0 \in I
    BY <1>1, <1>4, <1>5
  <2>2. ASSUME NEW i \in 0 .. n - 1, i \in I PROVE i + 1 \in I
    <3>1. i + 1 \in 1 .. n /\ i + 1 \in 1 .. n + 1 /\ (i + 1) - 1 = i
      BY <1>1
    <3>2. f[i] = g[i] /\ t[i + 1] = s[i + 1]
      BY <2>2, <3>1, <1>1
    <3>3. f[i + 1] = g[i + 1]
      BY <3>1, <3>2, <1>4, <1>5
    <3> QED
      BY <3>1, <3>3, <1>1
  <2> HIDE DEF I
  <2> QED
    BY <2>1, <2>2, <1>1, IntervalInduction
<1>7. f[n] = g[n]
  BY <1>1, <1>6
<1>8. g[n + 1] = IF e = x THEN g[n] ELSE Append(g[n], e)
  BY <1>1, <1>5
<1> QED
  BY <1>2, <1>3, <1>7, <1>8 DEF t

LEMMA WithoutEmpty ==
    ASSUME NEW x
    PROVE  Without(<<>>, x) = <<>>
<1>1. <<>> \in Seq({}) /\ Len(<<>>) = 0
  BY EmptySeq
<1>2. PICK f : Kept(f, <<>>, x) /\ Without(<<>>, x) = f[0]
  BY <1>1, WithoutKept
<1> QED
  BY <1>1, <1>2, KeptValues

\* What is left has no x and nothing that was not there.
LEMMA WithoutType ==
    ASSUME NEW S, NEW s \in Seq(S), NEW x
    PROVE  Without(s, x) \in Seq(S \ {x})
<1> DEFINE I == {t \in Seq(S) : Without(t, x) \in Seq(S \ {x})}
<1>1. <<>> \in I
  BY WithoutEmpty, EmptySeq
<1>2. ASSUME NEW t \in Seq(S), NEW e \in S, t \in I
      PROVE  Append(t, e) \in I
  <2>1. Without(t, x) \in Seq(S \ {x}) /\ Append(t, e) \in Seq(S)
    BY <1>2, AppendProperties
  <2>2. CASE e = x
    BY <2>1, <2>2, WithoutAppend
  <2>3. CASE e # x
    <3>1. e \in S \ {x}
      BY <2>3
    <3>2. Append(Without(t, x), e) \in Seq(S \ {x})
      BY <2>1, <3>1, AppendProperties
    <3>3. Without(Append(t, e), x) = Append(Without(t, x), e)
      BY <2>3, WithoutAppend
    <3> QED
      BY <2>1, <3>2, <3>3
  <2> QED
    BY <2>2, <2>3
<1> HIDE DEF I
<1>3. s \in I
  BY <1>1, <1>2, SequenceInduction
<1> QED
  BY <1>3 DEF I

\* A sequence without x is left as it is.
LEMMA WithoutNone ==
    ASSUME NEW S, NEW s \in Seq(S), NEW x, x \notin S
    PROVE  Without(s, x) = s
<1> DEFINE I == {t \in Seq(S) : Without(t, x) = t}
<1>1. <<>> \in I
  BY WithoutEmpty, EmptySeq
<1>2. ASSUME NEW t \in Seq(S), NEW e \in S, t \in I
      PROVE  Append(t, e) \in I
  BY <1>2, WithoutAppend, AppendProperties
<1> HIDE DEF I
<1>3. s \in I
  BY <1>1, <1>2, SequenceInduction
<1> QED
  BY <1>3 DEF I

LEMMA AppendConcat ==
    ASSUME NEW S, NEW s \in Seq(S), NEW t \in Seq(S), NEW e \in S
    PROVE  Append(s \o t, e) = s \o Append(t, e)
<1>1. s \o t \in Seq(S) /\ <<e>> \in Seq(S)
  BY ConcatProperties
<1>2. Append(s \o t, e) = (s \o t) \o <<e>>
  BY <1>1, AppendIsConcat
<1>3. Append(t, e) = t \o <<e>>
  BY AppendIsConcat
<1>4. (s \o t) \o <<e>> = s \o (t \o <<e>>)
  BY <1>1, ConcatAssociative
<1> QED
  BY <1>2, <1>3, <1>4

\* The same for sequences that are expressions: the provers find an instance of
\* an equation between sequences when it is under a name.
Equal(x, y) == x = y

LEMMA AppendConcats ==
    \A S : \A s \in Seq(S), t \in Seq(S), e \in S :
       Equal(Append(s \o t, e), s \o Append(t, e))
<1> TAKE S
<1> TAKE s \in Seq(S), t \in Seq(S), e \in S
<1>1. Append(s \o t, e) = s \o Append(t, e)
  OBVIOUS
<1> QED
  BY <1>1 DEF Equal

\* Without goes through a concatenation.
LEMMA WithoutConcat ==
    ASSUME NEW S, NEW s \in Seq(S), NEW u \in Seq(S), NEW x
    PROVE  Without(s \o u, x) = Without(s, x) \o Without(u, x)
<1> DEFINE W(t) == Without(t, x)
           I == {t \in Seq(S) : W(s \o t) = W(s) \o W(t)}
<1>0. \A t \in Seq(S) : W(t) \in Seq(S)
  <2> TAKE t \in Seq(S)
  <2>1. Without(t, x) \in Seq(S \ {x}) /\ S \ {x} \subseteq S
    BY WithoutType
  <2> QED
    BY <2>1, SeqMonotonic
<1>1. <<>> \in I
  BY <1>0, WithoutEmpty, EmptySeq, ConcatEmptySeq
<1>2. ASSUME NEW t \in Seq(S), NEW e \in S, t \in I
      PROVE  Append(t, e) \in I
  <2>1. W(s \o t) = W(s) \o W(t)
    BY <1>2
  <2>2. s \o Append(t, e) = Append(s \o t, e)
    BY AppendConcat
  <2>3. s \o t \in Seq(S)
    BY ConcatProperties
  <2>4. W(Append(s \o t, e)) = IF e = x THEN W(s \o t) ELSE Append(W(s \o t), e)
    <3>1. PICK q \in Seq(S) : q = s \o t
      BY <2>3
    <3>2. W(Append(q, e)) = IF e = x THEN W(q) ELSE Append(W(q), e)
      BY WithoutAppend
    <3> QED
      BY <3>1, <3>2
  <2>5. W(Append(t, e)) = IF e = x THEN W(t) ELSE Append(W(t), e)
    BY WithoutAppend
  <2> DEFINE w == W(s)
             v == W(t)
  <2>6. w \in Seq(S) /\ v \in Seq(S)
    BY <1>0
  <2> HIDE DEF W, w, v
  <2>9. Append(w \o v, e) = w \o Append(v, e)
    <3>1. Equal(Append(w \o v, e), w \o Append(v, e))
      BY <2>6, AppendConcats, Zenon
    <3> QED
      BY <3>1 DEF Equal
  <2>7. Append(W(s) \o W(t), e) = W(s) \o Append(W(t), e)
    BY <2>9 DEF w, v
  <2>8. W(s \o Append(t, e)) = W(s) \o W(Append(t, e))
    BY <2>1, <2>2, <2>4, <2>5, <2>7
  <2> QED
    BY <2>8, AppendProperties
<1> HIDE DEF I
<1>3. u \in I
  BY <1>1, <1>2, SequenceInduction
<1> QED
  BY <1>3 DEF I

-----------------------------------------------------------------------------
(* Minimum and maximum.                                                     *)

LEMMA MinOf ==
    ASSUME NEW T \in SUBSET Nat, T # {}
    PROVE  Min(T) \in T /\ \A t \in T : Min(T) <= t
BY LeastNatural DEF Min

LEMMA MaxOf ==
    ASSUME NEW n \in Int, NEW T \in SUBSET Int, T # {}, \A t \in T : t <= n
    PROVE  Max(T) \in T /\ \A t \in T : t <= Max(T)
<1> DEFINE D == {n - t : t \in T}
<1>0. \A t \in T : n - t \in Nat /\ n - t \in D
  OBVIOUS
<1>1. D \in SUBSET Nat /\ D # {}
  <2>1. PICK t \in T : TRUE
    OBVIOUS
  <2>2. n - t \in D
    BY <1>0
  <2> QED
    BY <1>0, <2>2
<1>2. PICK d \in D : \A e \in D : d <= e
  BY <1>1, LeastNatural
<1>3. PICK t \in T : d = n - t
  BY <1>2
<1>4. ASSUME NEW u \in T PROVE u <= t
  <2>1. n - t <= n - u
    BY <1>0, <1>2, <1>3
  <2> HIDE DEF D
  <2>2. n \in Int /\ t \in Int /\ u \in Int
    OBVIOUS
  <2> QED
    BY <2>1, <2>2
<1>5. \E x \in T : \A y \in T : x >= y
  BY <1>3, <1>4
<1> QED
  BY <1>5 DEF Max

LEMMA MinOfTwo ==
    ASSUME NEW a \in Nat, NEW c \in Nat
    PROVE  /\ Min({a, c}) \in {a, c}
           /\ Min({a, c}) <= a /\ Min({a, c}) <= c
BY MinOf, {a, c} \in SUBSET Nat, {a, c} # {}

LEMMA MaxOfTwo ==
    ASSUME NEW a \in Int, NEW c \in Int
    PROVE  /\ Max({a, c}) \in {a, c}
           /\ a <= Max({a, c}) /\ c <= Max({a, c})
<1>1. \E n \in {a, c} : \A t \in {a, c} : t <= n
  OBVIOUS
<1> QED
  BY <1>1, MaxOf

\* The beginning of a sequence.
LEMMA Beginning ==
    ASSUME NEW S, NEW s \in Seq(S), NEW n \in 0 .. Len(s)
    PROVE  /\ SubSeq(s, 1, n) \in Seq(S) /\ Len(SubSeq(s, 1, n)) = n
           /\ \A i \in 1 .. n : SubSeq(s, 1, n)[i] = s[i]
OBVIOUS
=============================================================================
