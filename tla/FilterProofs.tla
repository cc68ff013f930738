----------------------------- MODULE FilterProofs -----------------------------
(***************************************************************************)
(* What inspection makes of text of any length: what a C string keeps, what *)
(* urldecode makes of more text, and what more text cannot undo.            *)
(***************************************************************************)
EXTENDS Filter, StreamProofs, FiniteSetTheorems
LOCAL INSTANCE SequencesExt

-----------------------------------------------------------------------------
(* Text that goes on.                                                       *)

\* t goes on where s ends.
Extends(t, s) ==
    /\ Len(s) <= Len(t)
    /\ \A i \in 1 .. Len(s) : t[i] = s[i]

LEMMA ExtendsConcat ==
    ASSUME NEW S, NEW s \in Seq(S), NEW u \in Seq(S)
    PROVE  Extends(s \o u, s)
<1>1. /\ Len(s \o u) = Len(s) + Len(u) /\ Len(s) \in Nat /\ Len(u) \in Nat
      /\ \A i \in 1 .. Len(s) : (s \o u)[i] = s[i]
  BY ConcatProperties, LenProperties
<1> QED
  BY <1>1 DEF Extends

-----------------------------------------------------------------------------
(* C strings.                                                               *)

\* No line of s holds a NUL byte.
NulFree(s) == \A i \in 1 .. Len(s) : s[i] \notin NulLines

\* The first of s's NUL bytes is in line m.
FirstNul(s, m) ==
    /\ m \in 1 .. Len(s) /\ s[m] \in NulLines
    /\ \A j \in 1 .. m - 1 : s[j] \notin NulLines

LEMMA NulFreeOrFirst ==
    ASSUME NEW S, NEW s \in Seq(S)
    PROVE  NulFree(s) \/ \E m : FirstNul(s, m)
<1> DEFINE T == {i \in 1 .. Len(s) : s[i] \in NulLines}
<1>1. Len(s) \in Nat
  BY LenProperties
<1>2. CASE T = {}
  BY <1>2 DEF NulFree
<1>3. CASE T # {}
  <2>1. T \in SUBSET Nat
    BY <1>1
  <2>2. PICK m \in T : \A j \in T : m <= j
    <3> HIDE DEF T
    <3> QED
      BY <1>3, <2>1, LeastNatural
  <2>3. \A j \in 1 .. m - 1 : s[j] \notin NulLines
    BY <1>1, <2>2
  <2> QED
    BY <2>2, <2>3 DEF FirstNul
<1> QED
  BY <1>2, <1>3

\* Where a C string ends.
LEMMA CStringLength ==
    ASSUME NEW S, NEW s \in Seq(S)
    PROVE  /\ NulFree(s) => CString(s) = s
           /\ \A m : FirstNul(s, m) => CString(s) = SubSeq(s, 1, m)
<1> DEFINE T == {i \in DOMAIN s : \A j \in 1 .. i - 1 : s[j] \notin NulLines}
<1>1. Len(s) \in Nat /\ DOMAIN s = 1 .. Len(s)
  BY LenProperties
<1>2. CString(s) = SubSeq(s, 1, Cardinality(T))
  BY DEF CString
<1>3. \A m \in Nat : Cardinality(1 .. m) = m
  <2> TAKE m \in Nat
  <2>1. Cardinality(1 .. m) = IF 1 > m THEN 0 ELSE m - 1 + 1
    BY FS_Interval
  <2> QED
    BY <2>1
<1>4. ASSUME NulFree(s) PROVE CString(s) = s
  <2>1. T = 1 .. Len(s)
    BY <1>1, <1>4 DEF NulFree
  <2> HIDE DEF T
  <2>2. CString(s) = SubSeq(s, 1, Len(s))
    BY <1>1, <1>2, <1>3, <2>1
  <2> QED
    BY <2>2, SubSeqFull
<1>5. ASSUME NEW m, FirstNul(s, m) PROVE CString(s) = SubSeq(s, 1, m)
  <2>1. m \in Nat /\ m \in 1 .. Len(s) /\ s[m] \in NulLines
    BY <1>1, <1>5 DEF FirstNul
  <2>2. T = 1 .. m
    <3>1. ASSUME NEW i \in T PROVE i \in 1 .. m
      <4>1. ~(m \in 1 .. i - 1)
        BY <2>1
      <4> QED
        BY <1>1, <2>1, <4>1
    <3>2. ASSUME NEW i \in 1 .. m PROVE i \in T
      BY <1>1, <1>5, <2>1 DEF FirstNul
    <3> QED
      BY <3>1, <3>2
  <2> HIDE DEF T
  <2> QED
    BY <1>2, <1>3, <2>1, <2>2
<1> QED
  BY <1>4, <1>5

\* More text makes a C string go on, unless it has ended.
LEMMA CStringExtends ==
    ASSUME NEW S, NEW s \in Seq(S), NEW t \in Seq(S), Extends(t, s)
    PROVE  /\ Extends(CString(t), CString(s))
           /\ ~NulFree(s) => CString(t) = CString(s)
<1>1. Len(s) \in Nat /\ Len(t) \in Nat
  BY LenProperties
<1>2. CASE NulFree(s)
  <2>1. CString(s) = s
    BY <1>2, CStringLength
  <2>2. CASE NulFree(t)
    <3>1. CString(t) = t
      BY <2>2, CStringLength
    <3> QED
      BY <1>2, <2>1, <3>1
  <2>3. CASE ~NulFree(t)
    <3>1. PICK m : FirstNul(t, m)
      BY <2>3, NulFreeOrFirst
    <3>2. m \in 1 .. Len(t) /\ m \in Nat /\ ~(m \in 1 .. Len(s))
      BY <1>1, <1>2, <3>1 DEF FirstNul, NulFree, Extends
    <3>3. CString(t) = SubSeq(t, 1, m)
      BY <3>1, CStringLength
    <3>4. /\ Len(SubSeq(t, 1, m)) = m
          /\ \A i \in 1 .. m : SubSeq(t, 1, m)[i] = t[i]
      BY <1>1, <3>2, SubSeqProperties
    <3> QED
      BY <1>1, <1>2, <2>1, <3>2, <3>3, <3>4 DEF Extends
  <2> QED
    BY <2>2, <2>3
<1>3. CASE ~NulFree(s)
  <2>1. PICK m : FirstNul(s, m)
    BY <1>3, NulFreeOrFirst
  <2>2. FirstNul(t, m) /\ m \in 1 .. Len(s) /\ m \in Nat
    BY <1>1, <2>1 DEF FirstNul, Extends
  <2>3. CString(s) = SubSeq(s, 1, m) /\ CString(t) = SubSeq(t, 1, m)
    BY <2>1, <2>2, CStringLength
  <2>4. SubSeq(s, 1, m) = SubSeq(t, 1, m)
    BY <1>1, <2>2 DEF Extends
  <2>5. Len(SubSeq(s, 1, m)) = m
    BY <1>1, <2>2, SubSeqProperties
  <2> QED
    BY <1>1, <1>3, <2>2, <2>3, <2>4, <2>5 DEF Extends
<1> QED
  BY <1>2, <1>3

-----------------------------------------------------------------------------
(* FlattenSeq.                                                              *)

\* The function by which FlattenSeq is computed.
Flat(f, q) ==
    f = [i \in 1 .. Len(q) |-> IF i = 1 THEN q[i] ELSE f[i - 1] \o q[i]]

LEMMA FlatExists ==
    ASSUME NEW S, NEW q \in Seq(Seq(S))
    PROVE  \E f : Flat(f, q)
<1> DEFINE n == Len(q)
           step == [w \in (1 .. n) \X Seq(S) |-> w[2] \o q[w[1]]]
<1>1. n \in Nat /\ \A i \in 1 .. n : q[i] \in Seq(S)
  BY LenProperties, ElementOfSeq
<1>2. step \in [(1 .. n) \X Seq(S) -> Seq(S)]
  BY <1>1, ConcatProperties
<1>3. <<>> \in Seq(S)
  BY EmptySeq
<1>4. \A i \in 1 .. n, r \in Seq(S) : step[<<i, r>>] = r \o q[i]
  OBVIOUS
<1> HIDE DEF n, step
<1>5. PICK f \in [0 .. n -> Seq(S)] : Recursive(f, n, <<>>, step)
  BY <1>1, <1>2, <1>3, RecursionExists
<1>6. ASSUME NEW i \in 1 .. n PROVE f[i] = f[i - 1] \o q[i]
  <2>1. i - 1 \in 0 .. n
    BY <1>1
  <2>2. f[i - 1] \in Seq(S)
    BY <2>1
  <2>3. f[i] = step[<<i, f[i - 1]>>]
    BY <1>5 DEF Recursive
  <2> QED
    BY <2>2, <2>3, <1>4
<1> DEFINE g == [i \in 1 .. n |-> f[i]]
           v(i) == IF i = 1 THEN q[i] ELSE g[i - 1] \o q[i]
<1>7. ASSUME NEW i \in 1 .. n PROVE g[i] = v(i)
  <2>1. CASE i = 1
    <3>3. i - 1 = 0 /\ f[0] = <<>>
      BY <1>5, <2>1 DEF Recursive
    <3>1. f[i] = <<>> \o q[i]
      BY <1>6, <3>3
    <3>2. <<>> \o q[i] = q[i]
      BY <1>1, ConcatEmptySeq
    <3> QED
      BY <2>1, <3>1, <3>2
  <2>2. CASE i # 1
    <3>1. i - 1 \in 1 .. n
      BY <1>1, <2>2
    <3> QED
      BY <1>6, <2>2, <3>1
  <2> QED
    BY <2>1, <2>2
<1>8. Flat(g, q)
  <2> HIDE DEF v
  <2>1. g = [i \in 1 .. n |-> v(i)]
    BY <1>7
  <2> QED
    BY <2>1 DEF Flat, n, v
<1> QED
  BY <1>8

\* Its values, and the last of them.
LEMMA FlattenFlat ==
    ASSUME NEW S, NEW q \in Seq(Seq(S)), q # <<>>
    PROVE  \E f : /\ FlattenSeq(q) = f[Len(q)]
                  /\ f[1] = q[1]
                  /\ \A i \in 2 .. Len(q) : f[i] = f[i - 1] \o q[i]
<1> DEFINE f == CHOOSE g : Flat(g, q)
           v(i) == IF i = 1 THEN q[i] ELSE f[i - 1] \o q[i]
<1>1. Flat(f, q)
  BY FlatExists
<1>2. Len(q) \in Nat /\ Len(q) # 0
  BY LenProperties, EmptySeq
<1>3. FlattenSeq(q) = f[Len(q)]
  BY <1>2 DEF FlattenSeq, Flat
<1> HIDE DEF f
<1>4. f = [i \in 1 .. Len(q) |-> v(i)]
  BY <1>1 DEF Flat
<1>5. \A i \in 1 .. Len(q) : f[i] = v(i)
  <2> HIDE DEF v
  <2> QED
    BY <1>4
<1>6. f[1] = q[1]
  BY <1>2, <1>5
<1>7. ASSUME NEW i \in 2 .. Len(q) PROVE f[i] = f[i - 1] \o q[i]
  <2>1. i \in 1 .. Len(q) /\ i # 1
    OBVIOUS
  <2> QED
    BY <2>1, <1>5
<1> QED
  BY <1>3, <1>6, <1>7

LEMMA FlattenEmpty == FlattenSeq(<<>>) = <<>>
<1>1. Len(<<>>) = 0
  BY EmptySeq
<1> QED
  BY <1>1 DEF FlattenSeq

\* One sequence more.
LEMMA FlattenAppend ==
    ASSUME NEW S, NEW q \in Seq(Seq(S)), NEW e \in Seq(S)
    PROVE  FlattenSeq(Append(q, e)) = FlattenSeq(q) \o e
<1> DEFINE t == Append(q, e)
           n == Len(q)
<1>1. /\ t \in Seq(Seq(S)) /\ Len(t) = n + 1 /\ n \in Nat
      /\ \A i \in 1 .. n : t[i] = q[i]
      /\ t[n + 1] = e
  BY AppendProperties, LenProperties
<1> HIDE DEF t
<1>2. t # <<>>
  BY <1>1, EmptySeq
<1>6. PICK g : /\ FlattenSeq(t) = g[Len(t)]
               /\ g[1] = t[1]
               /\ \A i \in 2 .. Len(t) : g[i] = g[i - 1] \o t[i]
  BY <1>1, <1>2, FlattenFlat
<1>3. /\ FlattenSeq(t) = g[n + 1]
      /\ g[1] = t[1]
      /\ \A i \in 2 .. n + 1 : g[i] = g[i - 1] \o t[i]
  BY <1>1, <1>6
<1>4. CASE q = <<>>
  <2>1. n = 0 /\ FlattenSeq(q) = <<>>
    BY <1>4, EmptySeq, FlattenEmpty
  <2>2. <<>> \o e = e
    BY ConcatEmptySeq
  <2> QED
    BY <1>1, <1>3, <2>1, <2>2 DEF t
<1>5. CASE q # <<>>
  <2>1. n # 0
    BY <1>5, EmptySeq
  <2>2. PICK f : /\ FlattenSeq(q) = f[n]
                 /\ f[1] = q[1]
                 /\ \A i \in 2 .. n : f[i] = f[i - 1] \o q[i]
    BY <1>5, FlattenFlat
  <2> HIDE DEF n
  <2> DEFINE I == {i \in 0 .. n - 1 : f[i + 1] = g[i + 1]}
  <2>3. 0 \in I
    BY <1>1, <1>3, <2>1, <2>2
  <2>4. ASSUME NEW i \in 0 .. (n - 1) - 1, i \in I PROVE i + 1 \in I
    <3>1. i + 2 \in 2 .. n /\ i + 2 \in 2 .. n + 1 /\ (i + 2) - 1 = i + 1
          /\ i + 2 \in 1 .. n /\ (i + 1) + 1 = i + 2 /\ i + 1 \in 0 .. n - 1
      BY <1>1, <2>1
    <3>2. f[i + 1] = g[i + 1] /\ t[i + 2] = q[i + 2]
      BY <2>4, <3>1, <1>1
    <3>3. f[i + 2] = g[i + 2]
      BY <3>1, <3>2, <1>3, <2>2
    <3> QED
      BY <3>1, <3>3
  <2>5. \A i \in 0 .. n - 1 : i \in I
    <3>1. n - 1 \in Nat
      BY <1>1, <2>1
    <3> HIDE DEF I
    <3> QED
      BY <2>3, <2>4, <3>1, IntervalInduction
  <2>6. f[n] = g[n]
    <3>2. n - 1 \in 0 .. n - 1 /\ (n - 1) + 1 = n
      BY <1>1, <2>1
    <3>1. n - 1 \in I /\ (n - 1) + 1 = n
      BY <2>5, <3>2
    <3> QED
      BY <3>1
  <2>7. n + 1 \in 2 .. n + 1 /\ (n + 1) - 1 = n
    BY <1>1, <2>1
  <2>8. g[n + 1] = g[n] \o t[n + 1]
    BY <1>3, <2>7
  <2> QED
    BY <1>1, <1>3, <2>2, <2>6, <2>8 DEF t
<1> QED
  BY <1>4, <1>5

-----------------------------------------------------------------------------
(* urldecode.                                                               *)

\* The decoded text with its NUL bytes.
Decoded(text) == FlattenSeq([i \in DOMAIN text |-> Urldecode[text[i]]])

LEMMA DecodedEmpty == Decoded(<<>>) = <<>>
<1>1. [i \in DOMAIN <<>> |-> Urldecode[<<>>[i]]] = <<>>
  OBVIOUS
<1> QED
  BY <1>1, FlattenEmpty DEF Decoded

\* One line more.
LEMMA DecodedAppend ==
    ASSUME NEW s \in Seq(Lines), NEW e \in Lines
    PROVE  Decoded(Append(s, e)) = Decoded(s) \o Urldecode[e]
<1> DEFINE d(t) == [i \in DOMAIN t |-> Urldecode[t[i]]]
<1>1. Urldecode \in [Lines -> Seq(Lines)]
  BY FilterAssumption
<1>2. ASSUME NEW t \in Seq(Lines)
      PROVE  /\ d(t) \in Seq(Seq(Lines)) /\ Len(d(t)) = Len(t)
             /\ \A i \in 1 .. Len(t) : d(t)[i] = Urldecode[t[i]]
  <2>1. Len(t) \in Nat /\ DOMAIN t = 1 .. Len(t)
        /\ \A i \in 1 .. Len(t) : t[i] \in Lines
    BY LenProperties, ElementOfSeq
  <2>2. d(t) \in [1 .. Len(t) -> Seq(Lines)]
    BY <1>1, <2>1
  <2> QED
    BY <2>1, <2>2
<1>3. /\ Append(s, e) \in Seq(Lines) /\ Len(Append(s, e)) = Len(s) + 1
      /\ \A i \in 1 .. Len(s) : Append(s, e)[i] = s[i]
      /\ Append(s, e)[Len(s) + 1] = e
      /\ Len(s) \in Nat
  BY AppendProperties, LenProperties
<1>4. d(Append(s, e)) = Append(d(s), Urldecode[e])
  <2> DEFINE x == d(Append(s, e))
             q == d(s)
             y == Append(q, Urldecode[e])
             n == Len(s)
  <2>1. /\ x \in Seq(Seq(Lines)) /\ Len(x) = n + 1
        /\ \A i \in 1 .. n : x[i] = Urldecode[s[i]]
        /\ x[n + 1] = Urldecode[e]
    <3>1. \A i \in 1 .. n + 1 : x[i] = Urldecode[Append(s, e)[i]]
      <4> HIDE DEF d
      <4> QED
        BY <1>2, <1>3
    <3>2. x \in Seq(Seq(Lines)) /\ Len(x) = n + 1
      <4> HIDE DEF d
      <4> QED
        BY <1>2, <1>3
    <3> HIDE DEF x
    <3> QED
      BY <1>3, <3>1, <3>2
  <2>2. /\ q \in Seq(Seq(Lines)) /\ Len(q) = n
        /\ \A i \in 1 .. n : q[i] = Urldecode[s[i]]
    <3> HIDE DEF d
    <3> QED
      BY <1>2
  <2> HIDE DEF x, q
  <2>3. Urldecode[e] \in Seq(Lines)
    BY <1>1
  <2>4. /\ y \in Seq(Seq(Lines)) /\ Len(y) = n + 1
        /\ \A i \in 1 .. n : y[i] = q[i]
        /\ y[n + 1] = Urldecode[e]
    BY <2>2, <2>3, AppendProperties
  <2> HIDE DEF y, n
  <2>7. n \in Nat
    BY <1>3 DEF n
  <2>5. ASSUME NEW i \in 1 .. n + 1 PROVE x[i] = y[i]
    <3>1. CASE i = n + 1
      BY <2>1, <2>4, <3>1
    <3>2. CASE i # n + 1
      <4>1. i \in 1 .. n
        BY <2>7, <3>2
      <4> QED
        BY <2>1, <2>2, <2>4, <4>1
    <3> QED
      BY <3>1, <3>2
  <2>6. x = y
    BY <2>1, <2>4, <2>5, SeqEqual
  <2> QED
    BY <2>6 DEF x, y, q
<1>5. d(s) \in Seq(Seq(Lines)) /\ Urldecode[e] \in Seq(Lines)
  BY <1>1, <1>2
<1>6. Decoded(s) = FlattenSeq(d(s))
      /\ Decoded(Append(s, e)) = FlattenSeq(d(Append(s, e)))
  BY DEF Decoded
<1> HIDE DEF d
<1> QED
  BY <1>4, <1>5, <1>6, FlattenAppend

LEMMA DecodedType ==
    ASSUME NEW s \in Seq(Lines)
    PROVE  Decoded(s) \in Seq(Lines)
<1> DEFINE I == {t \in Seq(Lines) : Decoded(t) \in Seq(Lines)}
<1>1. <<>> \in I
  BY DecodedEmpty, EmptySeq
<1>2. ASSUME NEW t \in Seq(Lines), NEW e \in Lines, t \in I
      PROVE  Append(t, e) \in I
  <2>1. Append(t, e) \in Seq(Lines) /\ Urldecode[e] \in Seq(Lines)
    BY AppendProperties, FilterAssumption
  <2>2. Decoded(t) \o Urldecode[e] \in Seq(Lines)
    BY <1>2, <2>1, ConcatProperties
  <2> QED
    BY <2>1, <2>2, DecodedAppend
<1> HIDE DEF I
<1>3. s \in I
  BY <1>1, <1>2, SequenceInduction
<1> QED
  BY <1>3 DEF I

\* More text decodes to more text.
LEMMA DecodedConcat ==
    ASSUME NEW s \in Seq(Lines), NEW u \in Seq(Lines)
    PROVE  Decoded(s \o u) = Decoded(s) \o Decoded(u)
<1> DEFINE I == {t \in Seq(Lines) : Decoded(s \o t) = Decoded(s) \o Decoded(t)}
<1>1. <<>> \in I
  BY DecodedType, DecodedEmpty, EmptySeq, ConcatEmptySeq
<1>2. ASSUME NEW t \in Seq(Lines), NEW e \in Lines, t \in I
      PROVE  Append(t, e) \in I
  <2>1. PICK x \in Seq(Lines), y \in Seq(Lines), z \in Seq(Lines) :
             x = Decoded(s) /\ y = Decoded(t) /\ z = Urldecode[e]
    BY DecodedType, FilterAssumption
  <2>2. s \o Append(t, e) = Append(s \o t, e)
    BY AppendConcat
  <2>3. s \o t \in Seq(Lines) /\ Append(t, e) \in Seq(Lines)
    BY ConcatProperties, AppendProperties
  <2>4. Decoded(Append(s \o t, e)) = Decoded(s \o t) \o z
    BY <2>1, <2>3, DecodedAppend
  <2>5. Decoded(Append(t, e)) = y \o z
    BY <2>1, DecodedAppend
  <2>6. Decoded(s \o t) = x \o y
    BY <1>2, <2>1
  <2>7. (x \o y) \o z = x \o (y \o z)
    OBVIOUS
  <2>8. Decoded(s \o Append(t, e)) = Decoded(s) \o Decoded(Append(t, e))
    BY <2>1, <2>2, <2>4, <2>5, <2>6, <2>7
  <2> QED
    BY <2>3, <2>8
<1> HIDE DEF I
<1>3. u \in I
  BY <1>1, <1>2, SequenceInduction
<1> QED
  BY <1>3 DEF I

LEMMA UrldecodeDecoded ==
    ASSUME NEW s \in Seq(Lines)
    PROVE  /\ CString(s) \in Seq(Lines)
           /\ urldecode(s) = CString(Decoded(s))
           /\ urldecode(s) \in Seq(Lines)
<1>1. ASSUME NEW t \in Seq(Lines) PROVE CString(t) \in Seq(Lines)
  <2>1. CASE NulFree(t)
    BY <2>1, CStringLength
  <2>2. CASE ~NulFree(t)
    <3>1. PICK m : FirstNul(t, m)
      BY <2>2, NulFreeOrFirst
    <3>2. Len(t) \in Nat /\ m \in 1 .. Len(t)
      BY <3>1, LenProperties DEF FirstNul
    <3>3. SubSeq(t, 1, m) \in Seq(Lines)
      BY <3>2, SubSeqProperties
    <3> QED
      BY <3>1, <3>3, CStringLength
  <2> QED
    BY <2>1, <2>2
<1>2. urldecode(s) = CString(Decoded(s))
  BY DEF urldecode, Decoded
<1> QED
  BY <1>1, <1>2, DecodedType

\* More text is decoded to more text.
LEMMA UrldecodeExtends ==
    ASSUME NEW s \in Seq(Lines), NEW u \in Seq(Lines)
    PROVE  Extends(urldecode(s \o u), urldecode(s))
<1>1. s \o u \in Seq(Lines)
  BY ConcatProperties
<1>2. Extends(Decoded(s \o u), Decoded(s))
  BY DecodedConcat, DecodedType, ExtendsConcat
<1>3. Extends(CString(Decoded(s \o u)), CString(Decoded(s)))
  BY <1>1, <1>2, DecodedType, CStringExtends
<1> QED
  BY <1>1, <1>3, UrldecodeDecoded

\* What lies behind a NUL byte is not decoded.
LEMMA UrldecodeCString ==
    ASSUME NEW buf \in Seq(Lines)
    PROVE  urldecode(CString(buf)) = urldecode(buf)
<1>1. CASE NulFree(buf)
  BY <1>1, CStringLength
<1>2. CASE ~NulFree(buf)
  <2> DEFINE text == CString(buf)
  <2>0. Len(buf) \in Nat
    BY LenProperties
  <2>1. PICK m : FirstNul(buf, m)
    BY <1>2, NulFreeOrFirst
  <2>2. m \in 1 .. Len(buf) /\ m \in Nat /\ buf[m] \in NulLines
    BY <2>0, <2>1 DEF FirstNul
  <2>3. text = SubSeq(buf, 1, m)
    BY <2>1, CStringLength
  <2> HIDE DEF text
  <2> DEFINE s == SubSeq(buf, 1, m - 1)
             u == SubSeq(buf, m + 1, Len(buf))
             e == buf[m]
  <2>4. s \in Seq(Lines) /\ u \in Seq(Lines) /\ e \in Lines
    BY <2>0, <2>2, SubSeqProperties, ElementOfSeq
  <2>5. text = Append(s, e)
    BY <2>0, <2>2, <2>3
  <2>6. buf = text \o u
    <3>1. SubSeq(buf, 1, m) \o SubSeq(buf, m + 1, Len(buf))
          = SubSeq(buf, 1, Len(buf))
      <4>1. 1 \in 1 .. Len(buf) + 1 /\ m \in 1 - 1 .. Len(buf)
            /\ Len(buf) \in m .. Len(buf)
        BY <2>0, <2>2
      <4> QED
        BY <4>1, ConcatAdjacentSubSeq
    <3> QED
      BY <2>3, <3>1, SubSeqFull
  <2> HIDE DEF s, u
  <2>7. text \in Seq(Lines)
    BY <2>4, <2>5, AppendProperties
  <2>8. Extends(Decoded(buf), Decoded(text))
    <3>1. Decoded(buf) = Decoded(text) \o Decoded(u)
      BY <2>4, <2>6, <2>7, DecodedConcat
    <3>2. Decoded(text) \in Seq(Lines) /\ Decoded(u) \in Seq(Lines)
      BY <2>4, <2>7, DecodedType
    <3> QED
      BY <3>1, <3>2, ExtendsConcat
  <2>9. ~NulFree(Decoded(text))
    <3>1. PICK x \in Seq(Lines), y \in Seq(Lines) :
               x = Decoded(s) /\ y = Urldecode[e]
      BY <2>4, DecodedType, FilterAssumption
    <3>2. PICK i \in DOMAIN y : y[i] \in NulLines
      BY <2>2, <3>1, FilterAssumption
    <3>3. Decoded(text) = x \o y
      BY <2>4, <2>5, <3>1, DecodedAppend
    <3>4. /\ Len(x) \in Nat /\ Len(y) \in Nat /\ i \in 1 .. Len(y)
          /\ Len(x \o y) = Len(x) + Len(y)
          /\ (x \o y)[Len(x) + i] = y[i]
      BY <3>2, LenProperties, ConcatProperties
    <3> QED
      BY <3>2, <3>3, <3>4 DEF NulFree
  <2>10. CString(Decoded(buf)) = CString(Decoded(text))
    BY <2>7, <2>8, <2>9, DecodedType, CStringExtends
  <2> QED
    BY <2>7, <2>10, UrldecodeDecoded DEF text
<1> QED
  BY <1>1, <1>2

-----------------------------------------------------------------------------
(* What filter_check may find behind a buffer.                              *)

LEMMA ContinuationType ==
    ASSUME NEW buf \in Seq(Lines), NEW t \in Continuations(buf)
    PROVE  t \in Seq(Lines)
<1>1. CASE Terminated(buf)
  BY <1>1, UrldecodeDecoded DEF Continuations
<1>2. CASE ~Terminated(buf)
  <2>1. PICK l \in Continued[Last(buf)] : t = Append(Front(buf), l)
    BY <1>2 DEF Continuations
  <2>2. buf # <<>> /\ Len(buf) \in Nat /\ Len(buf) # 0
    BY <1>2, EmptySeq, LenProperties DEF Terminated
  <2>3. Last(buf) \in Lines
    BY <2>2, ElementOfSeq DEF Last
  <2>4. Front(buf) \in Seq(Lines)
    BY <2>2, SubSeqProperties DEF Front
  <2>5. l \in Lines
    BY <2>1, <2>3, FilterAssumption
  <2> QED
    BY <2>1, <2>4, <2>5, AppendProperties
<1> QED
  BY <1>1, <1>2

\* The text goes on where a continuation of the buffer ends.
LEMMA TextExtends ==
    ASSUME NEW buf \in Seq(Lines), NEW text \in Texts(buf)
    PROVE  \E t \in Continuations(buf) :
               /\ text \in Seq(Lines) /\ t \in Seq(Lines)
               /\ urldecode(text) \in Seq(Lines) /\ urldecode(t) \in Seq(Lines)
               /\ Extends(urldecode(text), urldecode(t))
<1>1. PICK t \in Continuations(buf) : \E u \in Seq(Lines) : text = t \o u
  <2>1. CASE text \in Continuations(buf)
    <3>1. text \o <<>> = text /\ <<>> \in Seq(Lines)
      BY <2>1, ContinuationType, ConcatEmptySeq, EmptySeq
    <3> QED
      BY <2>1, <3>1
  <2>2. CASE text \notin Continuations(buf)
    <3>1. PICK t \in Continuations(buf), l \in Lines : text = Append(t, l)
      BY <2>2 DEF Texts
    <3>2. <<l>> \in Seq(Lines) /\ Append(t, l) = t \o <<l>>
      BY ContinuationType, AppendIsConcat
    <3> QED
      BY <3>1, <3>2
  <2> QED
    BY <2>1, <2>2
<1>2. PICK u \in Seq(Lines) : text = t \o u
  BY <1>1
<1>3. t \in Seq(Lines) /\ text \in Seq(Lines)
  BY <1>2, ContinuationType, ConcatProperties
<1> QED
  BY <1>2, <1>3, UrldecodeDecoded, UrldecodeExtends

\* Whatever the heap makes of the last line, the lines before it are decoded as
\* they are.
LEMMA FinishedExtends ==
    ASSUME NEW buf \in Seq(Lines), NEW e \in Lines,
           NEW t \in Continuations(Append(buf, e))
    PROVE  /\ urldecode(t) \in Seq(Lines) /\ urldecode(buf) \in Seq(Lines)
           /\ Extends(urldecode(t), urldecode(buf))
<1> DEFINE B == Append(buf, e)
<1>1. ASSUME NEW l \in Lines
      PROVE  <<l>> \in Seq(Lines) /\ Append(buf, l) = buf \o <<l>>
  BY AppendIsConcat
<1>2. B \in Seq(Lines) /\ t \in Seq(Lines)
  BY AppendProperties, ContinuationType
<1>3. CASE Terminated(B)
  <2>1. t = CString(B)
    BY <1>3 DEF Continuations
  <2>2. urldecode(t) = urldecode(buf \o <<e>>)
    BY <1>1, <1>2, <2>1, UrldecodeCString
  <2> QED
    BY <1>1, <1>2, <2>2, UrldecodeDecoded, UrldecodeExtends
<1>4. CASE ~Terminated(B)
  <2>1. PICK l \in Continued[Last(B)] : t = Append(Front(B), l)
    BY <1>4 DEF Continuations
  <2>2. /\ Len(buf) \in Nat /\ Len(B) = Len(buf) + 1 /\ B[Len(B)] = e
        /\ \A i \in 1 .. Len(buf) : B[i] = buf[i]
    BY AppendProperties, LenProperties
  <2>3. Front(B) = buf
    <3>1. Front(B) = SubSeq(B, 1, Len(buf))
      BY <2>2 DEF Front
    <3>2. /\ SubSeq(B, 1, Len(buf)) \in Seq(Lines)
          /\ Len(SubSeq(B, 1, Len(buf))) = Len(buf)
          /\ \A i \in 1 .. Len(buf) : SubSeq(B, 1, Len(buf))[i] = B[i]
      BY <1>2, <2>2, SubSeqProperties
    <3> HIDE DEF B
    <3> QED
      BY <2>2, <3>1, <3>2, SeqEqual
  <2>4. l \in Lines
    <3>1. Last(B) = e
      BY <2>2 DEF Last
    <3> QED
      BY <2>1, <3>1, FilterAssumption
  <2>5. t = buf \o <<l>>
    BY <1>1, <2>1, <2>3, <2>4
  <2> QED
    BY <1>1, <1>2, <2>4, <2>5, UrldecodeDecoded, UrldecodeExtends
<1> QED
  BY <1>3, <1>4

-----------------------------------------------------------------------------
(* The detectors: more text is never rejected less.                         *)

LEMMA ScannedExtends ==
    ASSUME NEW S, NEW s \in Seq(S), NEW t \in Seq(S), Extends(t, s)
    PROVE  /\ Scanned(s) \in Seq(S) /\ Scanned(t) \in Seq(S)
           /\ Extends(Scanned(t), Scanned(s))
<1> DEFINE k(x) == IF Len(x) < ScanLimit THEN Len(x) ELSE ScanLimit
<1>1. Len(s) \in Nat /\ Len(t) \in Nat /\ ScanLimit \in Nat
  BY LenProperties, FilterAssumption
<1>2. ASSUME NEW x \in Seq(S)
      PROVE  /\ Scanned(x) \in Seq(S) /\ Len(Scanned(x)) = k(x)
             /\ \A i \in 1 .. k(x) : Scanned(x)[i] = x[i]
  <2>1. Len(x) \in Nat
    BY LenProperties
  <2>2. k(x) \in 0 .. Len(x) /\ k(x) \in Nat
    BY <1>1, <2>1
  <2>3. Scanned(x) = SubSeq(x, 1, k(x))
    BY DEF Scanned
  <2> HIDE DEF k
  <2>4. /\ SubSeq(x, 1, k(x)) \in Seq(S) /\ Len(SubSeq(x, 1, k(x))) = k(x)
        /\ \A i \in 1 .. k(x) : SubSeq(x, 1, k(x))[i] = x[i]
    BY <2>1, <2>2
  <2> QED
    BY <2>3, <2>4
<1>3. k(s) <= k(t) /\ k(s) <= Len(s) /\ k(s) \in Nat /\ k(t) \in Nat
  BY <1>1 DEF Extends
<1> HIDE DEF k
<1>4. ASSUME NEW i \in 1 .. k(s) PROVE Scanned(t)[i] = Scanned(s)[i]
  <2>1. i \in 1 .. k(t) /\ i \in 1 .. Len(s)
    BY <1>1, <1>3
  <2> QED
    BY <1>2, <2>1 DEF Extends
<1> QED
  BY <1>2, <1>3, <1>4 DEF Extends

\* A line of s is in A.
Holds(s, A) == \E i \in DOMAIN s : s[i] \in A

LEMMA HoldsExtends ==
    ASSUME NEW S, NEW s \in Seq(S), NEW t \in Seq(S), Extends(t, s), NEW A,
           Holds(s, A)
    PROVE  Holds(t, A)
<1>1. /\ DOMAIN s = 1 .. Len(s) /\ DOMAIN t = 1 .. Len(t)
      /\ Len(s) \in Nat /\ Len(t) \in Nat
  BY LenProperties
<1>2. PICK i \in 1 .. Len(s) : s[i] \in A
  BY <1>1 DEF Holds
<1>3. i \in 1 .. Len(t) /\ t[i] \in A
  BY <1>1, <1>2 DEF Extends
<1> QED
  BY <1>1, <1>3 DEF Holds

LEMMA DetectorsExtend ==
    ASSUME NEW s \in Seq(Lines), NEW t \in Seq(Lines), Extends(t, s)
    PROVE  /\ is_request(s) => is_request(t)
           /\ matchlist(s) => matchlist(t)
           /\ split_and_check(s) => split_and_check(t)
           /\ \A b \in BOOLEAN : PcreFinds(s, b) => PcreFinds(t, b)
<1>1. /\ Scanned(s) \in Seq(Lines) /\ Scanned(t) \in Seq(Lines)
      /\ Extends(Scanned(t), Scanned(s))
  BY ScannedExtends
<1>2. Len(s) \in Nat /\ Len(t) \in Nat
  BY LenProperties
<1>3. is_request(s) => is_request(t)
  <2> SUFFICES ASSUME is_request(s) PROVE is_request(t)
    OBVIOUS
  <2>1. s # <<>> /\ s[1] \in RequestLines
    BY DEF is_request
  <2>2. Len(s) # 0
    BY <2>1, EmptySeq
  <2>3. Len(t) # 0 /\ t[1] = s[1]
    BY <1>2, <2>2 DEF Extends
  <2>4. t # <<>>
    BY <2>3, EmptySeq
  <2> QED
    BY <2>1, <2>3, <2>4 DEF is_request
<1>4. matchlist(s) => matchlist(t)
  BY <1>1, HoldsExtends DEF matchlist, Holds
<1>5. split_and_check(s) => split_and_check(t)
  BY HoldsExtends DEF split_and_check, Holds
<1>6. ASSUME NEW b \in BOOLEAN, PcreFinds(s, b)
      PROVE  PcreFinds(t, b)
  <2> DEFINE P == IF b THEN PcreNul ELSE PcreNewline
  <2>1. CASE Holds(Scanned(s), PcreLines)
    <3>1. Holds(Scanned(t), PcreLines)
      BY <1>1, <2>1, HoldsExtends
    <3> QED
      BY <3>1 DEF PcreFinds, Holds
  <2>2. ASSUME NEW i \in 1 .. Len(Scanned(s)) - 1,
               <<Scanned(s)[i], Scanned(s)[i + 1]>> \in P
        PROVE  PcreFinds(t, b)
    <3>1. PICK x \in Seq(Lines), y \in Seq(Lines) :
               x = Scanned(s) /\ y = Scanned(t)
      BY <1>1
    <3>2. Len(x) \in Nat /\ Len(y) \in Nat /\ Extends(y, x)
      BY <1>1, <3>1, LenProperties
    <3>3. i \in 1 .. Len(x) - 1
      BY <2>2, <3>1
    <3>4. i \in 1 .. Len(y) - 1 /\ y[i] = x[i] /\ y[i + 1] = x[i + 1]
      BY <3>2, <3>3 DEF Extends
    <3>5. <<y[i], y[i + 1]>> \in P
      BY <2>2, <3>1, <3>4
    <3>6. \E j \in 1 .. Len(Scanned(t)) - 1 :
              <<Scanned(t)[j], Scanned(t)[j + 1]>> \in P
      BY <3>1, <3>4, <3>5
    <3> QED
      BY <3>6 DEF PcreFinds
  <2>3. \/ Holds(Scanned(s), PcreLines)
        \/ \E i \in 1 .. Len(Scanned(s)) - 1 :
               <<Scanned(s)[i], Scanned(s)[i + 1]>> \in P
    BY <1>6 DEF PcreFinds, Holds
  <2> QED
    BY <2>1, <2>2, <2>3
<1> QED
  BY <1>3, <1>4, <1>5, <1>6

\* A buffer that the rules on content reject however its last line goes on is
\* blocked by filter_check, whatever lies behind it on the heap, whoever sent it
\* and whatever was inspected before.
THEOREM RejectedIsBlocked ==
    ASSUME NEW buf \in Seq(Lines), NEW text \in Texts(buf), NEW addr, NEW list,
           RejectedForGood(buf)
    PROVE  filter_check(text, addr, list).block
<1>1. PICK c \in Continuations(buf) :
          /\ urldecode(text) \in Seq(Lines) /\ urldecode(c) \in Seq(Lines)
          /\ Extends(urldecode(text), urldecode(c))
  BY TextExtends
<1> DEFINE s == urldecode(c)
           t == urldecode(text)
<1>2. /\ is_request(s)
      /\ \/ OptMatch /\ matchlist(s)
         \/ OptLibinjection /\ split_and_check(s)
         \/ OptPcre /\ PcreFinds(s, OptLibinjection)
  BY DEF RejectedForGood, ContentRejected
<1>3. filter_check(text, addr, list) =
          IF is_request(t)
          THEN [block |-> Detected(t, addr, list),
                list  |-> blocklist_after(list)]
          ELSE [block |-> FALSE, list |-> list]
  BY DEF filter_check
<1>4. s \in Seq(Lines) /\ t \in Seq(Lines) /\ Extends(t, s)
  BY <1>1
<1> HIDE DEF s, t
<1>5. OptLibinjection \in BOOLEAN
  BY FilterAssumption
<1>6. is_request(t) /\ Detected(t, addr, list)
  BY <1>2, <1>4, <1>5, DetectorsExtend DEF Detected, pcre_matchlist
<1> QED
  BY <1>3, <1>6

\* What the rules on content find in lines with a newline behind them is found
\* for good: no byte of the heap behind the last line undoes it, decoded or not.
THEOREM FinishedIsForGood ==
    ASSUME NEW buf \in Seq(Lines), NEW e \in Lines, ContentRejected(buf)
    PROVE  RejectedForGood(Append(buf, e)) /\ RequestForGood(Append(buf, e))
<1> SUFFICES ASSUME NEW c \in Continuations(Append(buf, e))
             PROVE  ContentRejected(c) /\ is_request(urldecode(c))
  BY DEF RejectedForGood, RequestForGood
<1> DEFINE s == urldecode(buf)
           t == urldecode(c)
<1>1. s \in Seq(Lines) /\ t \in Seq(Lines) /\ Extends(t, s)
  BY FinishedExtends
<1>2. /\ is_request(s)
      /\ \/ OptMatch /\ matchlist(s)
         \/ OptLibinjection /\ split_and_check(s)
         \/ OptPcre /\ PcreFinds(s, OptLibinjection)
  BY DEF ContentRejected
<1>3. ContentRejected(c) =
          (/\ is_request(t)
           /\ \/ OptMatch /\ matchlist(t)
              \/ OptLibinjection /\ split_and_check(t)
              \/ OptPcre /\ PcreFinds(t, OptLibinjection))
  BY DEF ContentRejected
<1> HIDE DEF s, t
<1>4. OptLibinjection \in BOOLEAN
  BY FilterAssumption
<1>5. /\ is_request(t)
      /\ \/ OptMatch /\ matchlist(t)
         \/ OptLibinjection /\ split_and_check(t)
         \/ OptPcre /\ PcreFinds(t, OptLibinjection)
  BY <1>1, <1>2, <1>4, DetectorsExtend
<1> QED
  BY <1>3, <1>5 DEF t
=============================================================================
