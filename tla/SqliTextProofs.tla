---------------------------- MODULE SqliTextProofs ----------------------------
(***************************************************************************)
(* Proofs about where the tokens that the fold keeps are in the text: each *)
(* of them, also a phrase that was merged of several, ends in what has     *)
(* been read of it.  About the work of the fold, which is linear in the    *)
(* tokens that were read.  And about what its rules drop: the tokens that  *)
(* they have matched.                                                      *)
(***************************************************************************)
EXTENDS SqliProofs
LOCAL INSTANCE FiniteSetsExt
LOCAL INSTANCE SequencesExt

-----------------------------------------------------------------------------
(* The order of the tokens.                                                 *)

\* The last n characters of a are the first n of b: whole words of both, and in
\* the text they are the same ones.
Shared(a, b, n) ==
    /\ n <= a.len /\ n <= b.len
    /\ TokenEnd(a) <= b.pos + n
    /\ \A k \in 1 .. n : a.val[a.len - n + k] = b.val[k]
    /\ n = a.len \/ a.val[a.len - n] = Blank
    /\ n = b.len \/ b.val[n + 1] = Blank

\* b is behind a in the text, with something between them, or starts with the
\* words that a ends with (a token that was copied over the one before it).
InOrder(a, b) ==
    Named(a) /\ Named(b) =>
        TokenEnd(a) < b.pos \/ \E n \in 1 .. a.len : Shared(a, b, n)

\* The n tokens of v when s is read up to p: they end before l.
Placed(v, n, s, p, l) ==
    /\ \A k \in 0 .. n - 1 : /\ Len(v[k].val) = v[k].len
                             /\ EndsBefore(v[k], s, p)
                             /\ TokenEnd(v[k]) <= l
    /\ \A j, k \in 0 .. n - 1 : j < k => InOrder(v[j], v[k])

\* The end of the tokens that are kept.
Limit == IF last_comment.type = "c" THEN last_comment.pos ELSE src.pos

PlacedInv ==
    Folding \/ pc = "done" =>
        Limit <= src.pos /\ Placed(tokenvec, pos, src.s, src.pos, Limit)

LongInv ==
    /\ last_comment.type = "c" => LongComment(last_comment, Len(src.s))
    /\ pc \in {"done", "judge"} /\ tlen = 2 /\ tokenvec[1].type = "c" =>
           /\ LongComment(tokenvec[1], Len(src.s))
           /\ TokenEnd(tokenvec[0]) <= tokenvec[1].pos
    /\ pc = "judge" => Len(fingerprint) \in {1, tlen}

TextInv == PlacedInv /\ LongInv

-----------------------------------------------------------------------------
(* Tokens that are kept.                                                    *)

\* The token t, perhaps of another type.
SameWord(u, t) ==
    /\ u.pos = t.pos /\ u.len = t.len /\ u.val = t.val
    /\ u.type \in WordTypes => t.type \in WordTypes

LEMMA SameInOrder ==
    ASSUME NEW a, NEW b, NEW c, NEW d, SameWord(c, a), SameWord(d, b), InOrder(a, b)
    PROVE  InOrder(c, d)
<1>1. Named(c) => Named(a)
  BY DEF SameWord, Named
<1>2. Named(d) => Named(b)
  BY DEF SameWord, Named
<1>3. TokenEnd(c) = TokenEnd(a) /\ c.len = a.len /\ c.val = a.val
  BY DEF SameWord, TokenEnd
<1>4. d.pos = b.pos /\ d.len = b.len /\ d.val = b.val
  BY DEF SameWord
<1>5. \A n : Shared(a, b, n) => Shared(c, d, n)
  BY <1>3, <1>4 DEF Shared
<1> QED
  BY <1>1, <1>2, <1>3, <1>4, <1>5 DEF InOrder

\* A token that was copied is in order with itself.
LEMMA InOrderWithItself ==
    ASSUME NEW Char, NEW a \in Tokens(Char), Len(a.val) = a.len
    PROVE  InOrder(a, a)
<1>1. a.pos \in Nat /\ a.len \in Nat /\ a.val \in Seq(Char)
  BY DEF Tokens
<1>2. Named(a) => a.len >= 1
  BY <1>1, EmptySeq DEF Named
<1>3. Shared(a, a, a.len)
  BY <1>1 DEF Shared, TokenEnd
<1> QED
  BY <1>1, <1>2, <1>3 DEF InOrder

\* A step that reads nothing: the token at k was at g[k].
LEMMA RearrangedPlaced ==
    ASSUME NEW Char, NEW v \in [Slots -> Tokens(Char)], NEW w, NEW n \in 0 .. 6,
           NEW m \in Nat, NEW s, NEW p, NEW l, Placed(v, n, s, p, l),
           NEW g \in [0 .. m - 1 -> 0 .. n - 1],
           \A j, k \in 0 .. m - 1 : j < k => g[j] <= g[k],
           \A k \in 0 .. m - 1 : SameWord(w[k], v[g[k]])
    PROVE  Placed(w, m, s, p, l)
<1>1. ASSUME NEW k \in 0 .. m - 1
      PROVE  /\ Len(w[k].val) = w[k].len /\ EndsBefore(w[k], s, p)
             /\ TokenEnd(w[k]) <= l
  <2>1. g[k] \in 0 .. n - 1 /\ SameWord(w[k], v[g[k]])
    OBVIOUS
  <2>2. /\ Len(v[g[k]].val) = v[g[k]].len /\ EndsBefore(v[g[k]], s, p)
        /\ TokenEnd(v[g[k]]) <= l
    BY <2>1 DEF Placed
  <2>3. TokenEnd(w[k]) = TokenEnd(v[g[k]]) /\ (Named(w[k]) => Named(v[g[k]]))
    BY <2>1 DEF SameWord, TokenEnd, Named
  <2> QED
    BY <2>1, <2>2, <2>3 DEF SameWord, EndsBefore
<1>2. ASSUME NEW j \in 0 .. m - 1, NEW k \in 0 .. m - 1, j < k
      PROVE  InOrder(w[j], w[k])
  <2>1. /\ g[j] \in 0 .. n - 1 /\ g[k] \in 0 .. n - 1 /\ g[j] <= g[k]
        /\ SameWord(w[j], v[g[j]]) /\ SameWord(w[k], v[g[k]])
    BY <1>2
  <2>2. InOrder(v[g[j]], v[g[k]])
    <3>1. CASE g[j] < g[k]
      BY <2>1, <3>1 DEF Placed
    <3>2. CASE g[j] = g[k]
      <4>1. g[j] \in Slots
        <5>1. \A x \in 0 .. n - 1 : x \in 0 .. 7
          OBVIOUS
        <5> QED
          BY <2>1, <5>1 DEF Slots
      <4>2. Len(v[g[j]].val) = v[g[j]].len
        BY <2>1 DEF Placed
      <4> QED
        BY <3>2, <4>1, <4>2, InOrderWithItself
    <3> QED
      BY <2>1, <3>1, <3>2
  <2> QED
    BY <2>1, <2>2, SameInOrder
<1> QED
  BY <1>1, <1>2 DEF Placed

\* The characters of a phrase, before and after the blank between its parts.
LEMMA PhraseParts ==
    ASSUME NEW Char, Blank \in Char, NEW x \in Seq(Char), NEW y \in Seq(Char)
    PROVE  LET w == x \o <<Blank>> \o y
           IN  /\ w \in Seq(Char) /\ Len(w) = Len(x) + 1 + Len(y)
               /\ w[Len(x) + 1] = Blank
               /\ \A k \in 1 .. Len(x) : w[k] = x[k]
               /\ \A k \in 1 .. Len(y) : w[Len(x) + 1 + k] = y[k]
<1>1. <<Blank>> \in Seq(Char) /\ Len(<<Blank>>) = 1 /\ <<Blank>>[1] = Blank
  OBVIOUS
<1> DEFINE b == <<Blank>>
           u == x \o b
           w == u \o y
<1> HIDE DEF b
<1>2. /\ u \in Seq(Char) /\ Len(u) = Len(x) + 1
      /\ \A k \in 1 .. Len(x) + 1 : u[k] = IF k <= Len(x) THEN x[k] ELSE b[k - Len(x)]
  BY <1>1, ConcatProperties DEF b
<1>3. /\ w \in Seq(Char) /\ Len(w) = Len(u) + Len(y)
      /\ \A k \in 1 .. Len(u) + Len(y) :
             w[k] = IF k <= Len(u) THEN u[k] ELSE y[k - Len(u)]
  <2> HIDE DEF u
  <2> QED
    BY <1>2, ConcatProperties
<1>4. Len(x) \in Nat /\ Len(y) \in Nat
  OBVIOUS
<1> HIDE DEF w, u
<1>5. w[Len(x) + 1] = Blank
  <2>1. /\ Len(x) + 1 \in 1 .. Len(u) + Len(y) /\ Len(x) + 1 <= Len(u)
        /\ Len(x) + 1 \in 1 .. Len(x) + 1 /\ ~(Len(x) + 1 <= Len(x))
        /\ (Len(x) + 1) - Len(x) = 1
    BY <1>2, <1>4
  <2> QED
    BY <1>1, <1>2, <1>3, <2>1 DEF b
<1>6. ASSUME NEW k \in 1 .. Len(x) PROVE w[k] = x[k]
  <2>1. /\ k \in 1 .. Len(u) + Len(y) /\ k <= Len(u)
        /\ k \in 1 .. Len(x) + 1 /\ k <= Len(x)
    BY <1>2, <1>4
  <2> QED
    BY <1>2, <1>3, <2>1
<1>7. ASSUME NEW k \in 1 .. Len(y) PROVE w[Len(x) + 1 + k] = y[k]
  <2>1. /\ Len(x) + 1 + k \in 1 .. Len(u) + Len(y) /\ ~(Len(x) + 1 + k <= Len(u))
        /\ (Len(x) + 1 + k) - Len(u) = k
    BY <1>2, <1>4
  <2> QED
    BY <1>3, <2>1
<1> QED
  BY <1>2, <1>3, <1>4, <1>5, <1>6, <1>7 DEF w, u, b

LEMMA UpperPhrase ==
    ASSUME NEW Char, NEW w \in Seq(Char)
    PROVE  /\ Len(Upper(w)) = Len(w)
           /\ \A k \in 1 .. Len(w) :
                  /\ w[k] = Blank => Upper(w)[k] = Blank
                  /\ Upper(w)[k] \in Letters => w[k] \in Letters
           /\ \A j, k \in 1 .. Len(w) : w[j] = w[k] => Upper(w)[j] = Upper(w)[k]
<1> DEFINE up(c) == IF c \in Letters THEN ToUpper[c] ELSE c
           S == {up(w[k]) : k \in 1 .. Len(w)}
<1>1. Upper(w) = [k \in 1 .. Len(w) |-> up(w[k])]
  BY DEF Upper
<1>2. Upper(w) \in [1 .. Len(w) -> S]
  <2> HIDE DEF up
  <2> QED
    BY <1>1
<1>3. Upper(w) \in Seq(S) /\ Len(Upper(w)) = Len(w)
  <2>1. Len(w) \in Nat
    OBVIOUS
  <2> HIDE DEF S
  <2> QED
    BY <1>2, <2>1
<1>4. Blank \notin Letters
  BY NoLetters DEF WordStops, Spaces
<1> QED
  BY <1>1, <1>3, <1>4

\* What is known of the phrases of the table is known of two words that are one
\* of them, in the case they are read in.
LEMMA PhraseWords ==
    ASSUME NEW Char, Blank \in Char, NEW x \in Seq(Char), NEW y \in Seq(Char),
           lookup(x \o <<Blank>> \o y) # Null
    PROVE  /\ x # <<>> /\ x[1] \in Letters
           /\ y # <<>> /\ y[1] \in Letters
           /\ \A n \in 1 .. Len(x) :
                  ~ /\ n <= Len(y)
                    /\ \A k \in 1 .. n : x[Len(x) - n + k] = y[k]
                    /\ n = Len(x) \/ x[Len(x) - n] = Blank
                    /\ n = Len(y) \/ y[n + 1] = Blank
<1> DEFINE w == x \o <<Blank>> \o y
           u == Upper(w)
           a == Len(x)
           b == Len(y)
<1>1. /\ w \in Seq(Char) /\ Len(w) = a + 1 + b /\ w[a + 1] = Blank
      /\ \A k \in 1 .. a : w[k] = x[k]
      /\ \A k \in 1 .. b : w[a + 1 + k] = y[k]
  BY PhraseParts
<1>2. a \in Nat /\ b \in Nat
  OBVIOUS
<1>3. u \in DOMAIN Keywords
  BY DEF lookup
<1> HIDE DEF w
<1>4. /\ Len(u) = Len(w)
      /\ \A k \in 1 .. Len(w) : /\ w[k] = Blank => u[k] = Blank
                                /\ u[k] \in Letters => w[k] \in Letters
      /\ \A j, k \in 1 .. Len(w) : w[j] = w[k] => u[j] = u[k]
  BY <1>1, UpperPhrase
<1>5. /\ \A k \in 1 .. Len(u) :
             u[k] = Blank => u[1] \in Letters /\ k < Len(u) /\ u[k + 1] \in Letters
      /\ \A i, n \in 0 .. Len(u) : n > 0 /\ i + 2 * n + 1 <= Len(u) => ~Echo(u, i, n)
  BY <1>3, SqliTokensAssumption
<1> HIDE DEF u, a, b
<1>6. a + 1 \in 1 .. Len(w) /\ 1 \in 1 .. Len(w)
  BY <1>1, <1>2
<1>7. u[a + 1] = Blank /\ u[1] \in Letters /\ a + 1 < Len(w) /\ u[a + 2] \in Letters
  <2>1. u[a + 1] = Blank
    BY <1>1, <1>4, <1>6
  <2>2. (a + 1) + 1 = a + 2
    BY <1>2
  <2> QED
    BY <1>4, <1>5, <1>6, <2>1, <2>2
<1>8. b >= 1 /\ a >= 1
  <2>1. b >= 1
    BY <1>1, <1>2, <1>7
  <2>2. a # 0
    <3>1. Blank \notin Letters
      BY NoLetters DEF WordStops, Spaces
    <3> QED
      BY <1>7, <3>1
  <2> QED
    BY <1>2, <2>1, <2>2
<1>9. x # <<>> /\ y # <<>>
  BY <1>8, EmptySeq DEF a, b
<1>10. x[1] \in Letters /\ y[1] \in Letters
  <2>1. /\ 1 \in 1 .. a /\ 1 \in 1 .. b /\ a + 1 + 1 = a + 2 /\ a + 2 \in 1 .. Len(w)
    BY <1>1, <1>2, <1>8
  <2>2. w[1] \in Letters /\ w[a + 2] \in Letters
    BY <1>4, <1>6, <1>7, <2>1
  <2> QED
    BY <1>1, <2>1, <2>2
<1>11. ASSUME NEW n \in 1 .. a, n <= b,
              \A k \in 1 .. n : x[a - n + k] = y[k],
              n = a \/ x[a - n] = Blank,
              n = b \/ y[n + 1] = Blank
       PROVE  FALSE
  <2> DEFINE i == a - n
  <2>0. n <= b /\ Len(w) = a + 1 + b
    BY <1>1, <1>11
  <2>1. /\ i \in 0 .. Len(u) /\ n \in 0 .. Len(u) /\ n > 0
        /\ i + 2 * n + 1 <= Len(u) /\ i + n + 1 = a + 1
    BY <1>1, <1>2, <1>4, <1>11
  <2>2. i = 0 \/ u[i] = Blank
    <3>1. CASE n = a
      BY <3>1
    <3>2. CASE n # a /\ x[i] = Blank
      <4>1. i \in 1 .. a /\ i \in 1 .. Len(w)
        BY <1>1, <1>2, <3>2
      <4> QED
        BY <1>1, <1>4, <3>2, <4>1
    <3> QED
      BY <1>11, <3>1, <3>2
  <2>3. u[i + n + 1] = Blank
    BY <1>7, <2>1
  <2>4. ASSUME NEW k \in 1 .. n PROVE u[i + n + 1 + k] = u[i + k]
    <3>1. /\ k \in 1 .. b /\ i + k \in 1 .. a /\ a + 1 + k \in 1 .. Len(w)
          /\ i + k \in 1 .. Len(w) /\ i + n + 1 + k = a + 1 + k
      BY <1>2, <2>0
    <3>2. w[a + 1 + k] = w[i + k]
      BY <1>1, <1>11, <3>1
    <3> QED
      BY <1>4, <3>1, <3>2
  <2>5. i + 2 * n + 1 = Len(u) \/ u[i + 2 * n + 2] = Blank
    <3>1. CASE n = b
      BY <1>1, <1>2, <1>4, <3>1
    <3>2. CASE n # b /\ y[n + 1] = Blank
      <4>1. /\ n + 1 \in 1 .. b /\ a + 1 + (n + 1) \in 1 .. Len(w)
            /\ i + 2 * n + 2 = a + 1 + (n + 1)
        BY <1>1, <1>2, <1>11, <3>2
      <4>2. w[a + 1 + (n + 1)] = Blank
        BY <1>1, <3>2, <4>1
      <4> QED
        BY <1>4, <4>1, <4>2
    <3> QED
      BY <1>11, <3>1, <3>2
  <2> HIDE DEF i
  <2>6. Echo(u, i, n)
    BY <2>2, <2>3, <2>4, <2>5 DEF Echo
  <2> QED
    BY <1>5, <2>1, <2>6
<1> QED
  BY <1>9, <1>10, <1>11 DEF a, b

-----------------------------------------------------------------------------
(* Words that are merged.                                                   *)

\* Two tokens in order whose words are a phrase are not the same words: there is
\* something between them, and what they are merged to ends before the second.
LEMMA MergedWords ==
    ASSUME NEW Char, Blank \in Char, NEW a \in Tokens(Char), NEW b \in Tokens(Char),
           Len(a.val) = a.len, Len(b.val) = b.len,
           MergedType(a, b) # Null, InOrder(a, b)
    PROVE  LET m == syntax_merge_words(a, b)
           IN  /\ Named(a) /\ Named(b)
               /\ m.pos = a.pos /\ m.len = a.len + b.len + 1 /\ Len(m.val) = m.len
               /\ TokenEnd(m) <= TokenEnd(b)
               /\ m.val[a.len + 1] = Blank
               /\ \A k \in 1 .. a.len : m.val[k] = a.val[k]
               /\ \A k \in 1 .. b.len : m.val[a.len + 1 + k] = b.val[k]
<1> DEFINE x == a.val
           y == b.val
           m == syntax_merge_words(a, b)
<1>1. /\ a.pos \in Nat /\ a.len \in Nat /\ b.len \in Nat /\ b.pos \in Nat
      /\ x \in Seq(Char) /\ y \in Seq(Char)
  BY DEF Tokens
<1>2. /\ lookup(x \o <<Blank>> \o y) # Null
      /\ a.type \in WordTypes /\ b.type \in WordTypes
  BY DEF MergedType, WordTypes
<1>3. /\ m.pos = a.pos /\ m.len = a.len + b.len + 1
      /\ m.val = x \o <<Blank>> \o y
  BY DEF syntax_merge_words, NoToken
<1>4. LET w == x \o <<Blank>> \o y
      IN  /\ w \in Seq(Char) /\ Len(w) = Len(x) + 1 + Len(y)
          /\ w[Len(x) + 1] = Blank
          /\ \A k \in 1 .. Len(x) : w[k] = x[k]
          /\ \A k \in 1 .. Len(y) : w[Len(x) + 1 + k] = y[k]
  <2> HIDE DEF x, y
  <2> QED
    BY <1>1, PhraseParts
<1>5. /\ x # <<>> /\ x[1] \in Letters /\ y # <<>> /\ y[1] \in Letters
      /\ \A n \in 1 .. Len(x) :
             ~ /\ n <= Len(y)
               /\ \A k \in 1 .. n : x[Len(x) - n + k] = y[k]
               /\ n = Len(x) \/ x[Len(x) - n] = Blank
               /\ n = Len(y) \/ y[n + 1] = Blank
  <2> HIDE DEF x, y
  <2> QED
    BY <1>1, <1>2, PhraseWords
<1>6. Named(a) /\ Named(b)
  BY <1>2, <1>5 DEF Named
<1>7. \A n \in 1 .. a.len : ~Shared(a, b, n)
  BY <1>5 DEF Shared
<1>8. TokenEnd(a) < b.pos
  BY <1>6, <1>7 DEF InOrder
<1>9. TokenEnd(m) <= TokenEnd(b)
  BY <1>1, <1>3, <1>8 DEF TokenEnd
<1>10. Len(m.val) = m.len
  <2>1. Len(m.val) = a.len + 1 + b.len
    BY <1>3, <1>4
  <2>2. \A i \in Nat, j \in Nat : i + 1 + j = i + j + 1
    OBVIOUS
  <2> HIDE DEF m
  <2> QED
    BY <1>1, <1>3, <2>1, <2>2
<1> HIDE DEF x, y, m
<1>11. /\ m.val[a.len + 1] = Blank
       /\ \A k \in 1 .. a.len : m.val[k] = a.val[k]
       /\ \A k \in 1 .. b.len : m.val[a.len + 1 + k] = b.val[k]
  BY <1>3, <1>4 DEF x, y
<1> QED
  BY <1>3, <1>6, <1>9, <1>10, <1>11 DEF m

\* The merged words are in order with what was before the first of them.
LEMMA OrderBeforeMerged ==
    ASSUME NEW Char, NEW a \in Tokens(Char), NEW t \in Tokens(Char), NEW m,
           Named(a), InOrder(t, a), Len(a.val) = a.len,
           NEW n \in Nat, m.pos = a.pos, m.len = a.len + n + 1,
           m.val[a.len + 1] = Blank,
           \A k \in 1 .. a.len : m.val[k] = a.val[k]
    PROVE  InOrder(t, m)
<1>1. /\ a.pos \in Nat /\ a.len \in Nat /\ t.pos \in Nat /\ t.len \in Nat
  BY DEF Tokens
<1>2. ASSUME NEW i \in 1 .. t.len, Shared(t, a, i)
      PROVE  Shared(t, m, i)
  <2>1. i <= a.len /\ i <= t.len /\ TokenEnd(t) <= a.pos + i
    BY <1>2 DEF Shared
  <2>2. i <= m.len /\ TokenEnd(t) <= m.pos + i
    BY <1>1, <2>1
  <2>3. \A k \in 1 .. i : k \in 1 .. a.len
    BY <1>1, <2>1
  <2>4. \A k \in 1 .. i : t.val[t.len - i + k] = m.val[k]
    BY <1>2, <2>3 DEF Shared
  <2>5. m.val[i + 1] = Blank
    <3>1. i = a.len \/ (i + 1 \in 1 .. a.len /\ a.val[i + 1] = Blank)
      BY <1>1, <1>2, <2>1 DEF Shared
    <3> QED
      BY <3>1
  <2> QED
    BY <1>2, <2>1, <2>2, <2>4, <2>5 DEF Shared
<1> QED
  BY <1>2 DEF InOrder

LEMMA PlaceInMerged ==
    ASSUME NEW x \in Nat, NEW y \in Nat, NEW z, z = x + y + 1, NEW i \in 1 .. y
    PROVE  /\ \A k \in 1 .. i : y - i + k \in 1 .. y /\ z - i + k = x + 1 + (y - i + k)
           /\ i # y => y - i \in 1 .. y
           /\ z - i = x + 1 + (y - i)
OBVIOUS

\* ... and with what is behind the second of them, or is the second.
LEMMA OrderAfterMerged ==
    ASSUME NEW Char, NEW a \in Tokens(Char), NEW b \in Tokens(Char), NEW m,
           NEW t \in Tokens(Char), Named(b), InOrder(b, t), Len(b.val) = b.len,
           m.len = a.len + b.len + 1, TokenEnd(m) <= TokenEnd(b),
           m.pos = a.pos,
           m.val[a.len + 1] = Blank,
           \A k \in 1 .. b.len : m.val[a.len + 1 + k] = b.val[k]
    PROVE  InOrder(m, t)
<1>1. /\ a.pos \in Nat /\ a.len \in Nat /\ t.pos \in Nat /\ t.len \in Nat
      /\ b.pos \in Nat /\ b.len \in Nat
      /\ TokenEnd(b) \in Nat /\ TokenEnd(m) \in Nat
  BY DEF Tokens, TokenEnd
<1>2. ASSUME NEW i \in 1 .. b.len, Shared(b, t, i)
      PROVE  i \in 1 .. m.len /\ Shared(m, t, i)
  <2>1. i <= b.len /\ i <= t.len /\ TokenEnd(b) <= t.pos + i
    BY <1>2 DEF Shared
  <2>2. i \in 1 .. m.len /\ i <= m.len /\ TokenEnd(m) <= t.pos + i
    BY <1>1, <2>1
  <2>6. /\ \A k \in 1 .. i : /\ b.len - i + k \in 1 .. b.len
                             /\ m.len - i + k = a.len + 1 + (b.len - i + k)
        /\ i # b.len => b.len - i \in 1 .. b.len
        /\ m.len - i = a.len + 1 + (b.len - i)
    <3>1. PICK x \in Nat : x = a.len
      BY <1>1
    <3>2. PICK y \in Nat : y = b.len
      BY <1>1
    <3>3. PICK z : z = m.len
      OBVIOUS
    <3>4. z = x + y + 1 /\ i \in 1 .. y
      BY <3>1, <3>2, <3>3
    <3>5. /\ \A k \in 1 .. i : y - i + k \in 1 .. y /\ z - i + k = x + 1 + (y - i + k)
          /\ i # y => y - i \in 1 .. y
          /\ z - i = x + 1 + (y - i)
      BY <3>4, PlaceInMerged
    <3> QED
      BY <3>1, <3>2, <3>3, <3>5, Zenon
  <2>3. ASSUME NEW k \in 1 .. i PROVE m.val[m.len - i + k] = t.val[k]
    <3>1. /\ b.len - i + k \in 1 .. b.len
          /\ m.len - i + k = a.len + 1 + (b.len - i + k)
      BY <2>6, Zenon
    <3>2. b.val[b.len - i + k] = t.val[k]
      BY <1>2 DEF Shared
    <3> QED
      BY <3>1, <3>2
  <2>4. m.val[m.len - i] = Blank
    <3>1. CASE i = b.len
      <4>1. m.len - i = a.len + 1
        BY <1>1, <3>1
      <4> QED
        BY <4>1
    <3>2. CASE i # b.len
      <4>1. b.val[b.len - i] = Blank
        BY <1>2, <3>2 DEF Shared
      <4>2. b.len - i \in 1 .. b.len /\ m.len - i = a.len + 1 + (b.len - i)
        BY <2>6, <3>2
      <4> QED
        BY <4>1, <4>2
    <3> QED
      BY <3>1, <3>2
  <2>5. i = t.len \/ t.val[i + 1] = Blank
    BY <1>2 DEF Shared
  <2> QED
    BY <2>1, <2>2, <2>3, <2>4, <2>5 DEF Shared
<1>3. TokenEnd(b) < t.pos => TokenEnd(m) < t.pos
  BY <1>1
<1> QED
  BY <1>2, <1>3 DEF InOrder

LEMMA MergedPlaced ==
    ASSUME NEW Char, Blank \in Char, NEW v \in [Slots -> Tokens(Char)],
           NEW n \in 0 .. 6, NEW i \in 0 .. n - 2, NEW s, NEW p \in Nat, NEW l \in Nat,
           MergedType(v[i], v[i + 1]) # Null, Placed(v, n, s, p, l),
           NEW w, w = [v EXCEPT ![i] = syntax_merge_words(v[i], v[i + 1])]
    PROVE  Placed(w, n - 1, s, p, l)
<1> DEFINE a == v[i]
           b == v[i + 1]
           m == syntax_merge_words(a, b)
<1>1. /\ \A k \in 0 .. n - 1 : k \in Slots
      /\ i \in 0 .. n - 1 /\ i + 1 \in 0 .. n - 1 /\ i < i + 1
      /\ \A k \in 0 .. n - 2 : k \in 0 .. n - 1 /\ k \in Slots
      /\ \A k \in 0 .. n - 2 : k > i => k = i + 1 \/ i + 1 < k
      /\ (n - 1) - 1 = n - 2
  BY DEF Slots
<1>2. a \in Tokens(Char) /\ b \in Tokens(Char)
  BY <1>1
<1>3. /\ Len(a.val) = a.len /\ Len(b.val) = b.len /\ InOrder(a, b)
      /\ EndsBefore(b, s, p) /\ TokenEnd(b) <= l
  BY <1>1 DEF Placed
<1>4. /\ w[i] = m
      /\ \A k \in Slots : k # i => w[k] = v[k]
  BY <1>1
<1> HIDE DEF a, b, m
<1>5. /\ Named(a) /\ Named(b)
      /\ m.pos = a.pos /\ m.len = a.len + b.len + 1 /\ Len(m.val) = m.len
      /\ TokenEnd(m) <= TokenEnd(b)
      /\ m.val[a.len + 1] = Blank
      /\ \A k \in 1 .. a.len : m.val[k] = a.val[k]
      /\ \A k \in 1 .. b.len : m.val[a.len + 1 + k] = b.val[k]
  <2>1. MergedType(a, b) # Null
    BY DEF a, b
  <2> QED
    BY <1>2, <1>3, <2>1, MergedWords DEF m
<1>6. TokenEnd(m) \in Nat /\ TokenEnd(b) \in Nat
  <2>1. a.pos \in Nat /\ a.len \in Nat /\ b.pos \in Nat /\ b.len \in Nat
    BY <1>2 DEF Tokens
  <2>2. /\ \A x, y, z \in Nat : x + (y + z + 1) \in Nat
        /\ \A x, y \in Nat : x + y \in Nat
    OBVIOUS
  <2>3. m.pos + m.len \in Nat
    BY <1>5, <2>1, <2>2, Zenon
  <2>4. b.pos + b.len \in Nat
    BY <2>1, <2>2, Zenon
  <2> QED
    BY <2>3, <2>4, Zenon DEF TokenEnd
<1>7. ASSUME NEW k \in 0 .. n - 2
      PROVE  /\ Len(w[k].val) = w[k].len /\ EndsBefore(w[k], s, p)
             /\ TokenEnd(w[k]) <= l
  <2>1. CASE k = i
    <3>1. EndsBefore(m, s, p)
      BY <1>3, <1>5, <1>6 DEF EndsBefore
    <3>2. TokenEnd(m) <= l
      BY <1>3, <1>5, <1>6
    <3> QED
      BY <1>4, <1>5, <2>1, <3>1, <3>2
  <2>2. CASE k # i
    BY <1>1, <1>4, <2>2 DEF Placed
  <2> QED
    BY <2>1, <2>2
<1>8. ASSUME NEW j \in 0 .. n - 2, NEW k \in 0 .. n - 2, j < k
      PROVE  InOrder(w[j], w[k])
  <2>1. /\ j \in 0 .. n - 1 /\ k \in 0 .. n - 1 /\ InOrder(v[j], v[k])
        /\ v[j] \in Tokens(Char) /\ v[k] \in Tokens(Char)
    BY <1>1, <1>8 DEF Placed
  <2>2. CASE j # i /\ k # i
    BY <1>1, <1>4, <2>1, <2>2
  <2>3. CASE k = i
    <3>1. InOrder(v[j], a)
      BY <2>1, <2>3 DEF a
    <3>2. b.len \in Nat
      BY <1>2 DEF Tokens
    <3>3. InOrder(v[j], m)
      BY <1>2, <1>3, <1>5, <2>1, <3>1, <3>2, OrderBeforeMerged
    <3>4. j # i
      BY <1>8, <2>3
    <3> QED
      BY <1>1, <1>4, <2>3, <3>3, <3>4
  <2>4. CASE j = i
    <3>1. InOrder(b, v[k])
      <4>1. CASE k = i + 1
        BY <1>2, <1>3, <4>1, InOrderWithItself DEF b
      <4>2. CASE i + 1 < k
        BY <1>1, <2>1, <4>2 DEF Placed, b
      <4> QED
        BY <1>1, <1>8, <2>4, <4>1, <4>2
    <3>2. InOrder(m, v[k])
      BY <1>2, <1>3, <1>5, <2>1, <3>1, OrderAfterMerged
    <3>3. k # i
      BY <1>8, <2>4
    <3> QED
      BY <1>1, <1>4, <2>4, <3>2, <3>3
  <2> QED
    BY <2>2, <2>3, <2>4
<1> QED
  BY <1>1, <1>7, <1>8 DEF Placed

-----------------------------------------------------------------------------
(* A token that is read.                                                    *)

\* What was kept when the text was read up to p is kept when it is read up to q,
\* and so is a token t that has been found there.
LEMMA FetchedPlaced ==
    ASSUME NEW Char, NEW v \in [Slots -> Tokens(Char)], NEW n \in 0 .. 5,
           NEW s \in Seq(Char), NEW p \in 0 .. Len(s), NEW l \in 0 .. p,
           Placed(v, n, s, p, l),
           NEW q \in p .. Len(s), p < q \/ q = Len(s), NEW e \in l .. q,
           NEW t \in Tokens(Char), NEW w, w = [v EXCEPT ![n] = t],
           NEW m, \/ m = n
                  \/ /\ m = n + 1 /\ e = q
                     /\ p <= t.pos /\ TokenEnd(t) <= q
                     /\ t.val = Part(s, t.pos, t.len) /\ EndsBefore(t, s, q)
    PROVE  Placed(w, m, s, q, e)
<1>1. /\ \A k \in 0 .. n - 1 : k \in Slots /\ k # n
      /\ n \in Slots /\ Len(s) \in Nat
      /\ \A k \in 0 .. (n + 1) - 1 : k = n \/ k \in 0 .. n - 1
      /\ \A j, k \in 0 .. (n + 1) - 1 : j < k =>
             j \in 0 .. n - 1 /\ (k = n \/ k \in 0 .. n - 1)
  BY DEF Slots
<1>2. w[n] = t /\ \A k \in 0 .. n - 1 : w[k] = v[k]
  BY <1>1
<1>3. ASSUME NEW k \in 0 .. n - 1
      PROVE  /\ Len(w[k].val) = w[k].len /\ EndsBefore(w[k], s, q)
             /\ TokenEnd(w[k]) <= e
  <2>1. /\ Len(v[k].val) = v[k].len /\ EndsBefore(v[k], s, p)
        /\ TokenEnd(v[k]) <= l
    BY DEF Placed
  <2>2. TokenEnd(v[k]) \in Nat
    <3>1. v[k] \in Tokens(Char)
      BY <1>1
    <3> QED
      BY <3>1 DEF Tokens, TokenEnd
  <2>3. TokenEnd(v[k]) <= e /\ (TokenEnd(v[k]) < q \/ q = Len(s))
    BY <1>1, <2>1, <2>2
  <2> QED
    BY <1>2, <2>1, <2>3 DEF EndsBefore, NoWordAt
<1>4. ASSUME NEW j \in 0 .. n - 1, NEW k \in 0 .. n - 1, j < k
      PROVE  InOrder(w[j], w[k])
  BY <1>2, <1>4 DEF Placed
<1>5. CASE m = n
  BY <1>3, <1>4, <1>5 DEF Placed
<1>6. CASE /\ m = n + 1 /\ e = q
           /\ p <= t.pos /\ TokenEnd(t) <= q
           /\ t.val = Part(s, t.pos, t.len) /\ EndsBefore(t, s, q)
  <2>1. /\ t.pos \in Nat /\ t.len \in Nat /\ t.pos + t.len <= Len(s)
        /\ p <= t.pos
    <3>1. t.pos \in Nat /\ t.len \in Nat
      BY DEF Tokens
    <3> QED
      BY <1>1, <1>6, <3>1 DEF TokenEnd
  <2>2. /\ Len(t.val) = t.len
        /\ t.val # <<>> => t.len > 0 /\ t.val[1] = At(s, t.pos)
    <3>1. /\ Len(Part(s, t.pos, t.len)) = t.len
          /\ Part(s, t.pos, t.len) \in Seq(Char)
          /\ \A k \in 0 .. t.len - 1 : At(Part(s, t.pos, t.len), k) = At(s, t.pos + k)
      BY <2>1, PartInText
    <3>2. t.val # <<>> => t.len > 0
      BY <1>6, <2>1, <3>1, EmptySeq
    <3>3. t.len > 0 => At(t.val, 0) = At(s, t.pos + 0)
      BY <1>6, <2>1, <3>1
    <3>4. t.pos + 0 = t.pos
      BY <2>1
    <3> QED
      BY <1>6, <3>1, <3>2, <3>3, <3>4 DEF At
  <2>3. ASSUME NEW j \in 0 .. n - 1 PROVE InOrder(w[j], t)
    <3>1. EndsBefore(v[j], s, p) /\ TokenEnd(v[j]) <= l /\ v[j] \in Tokens(Char)
      BY <1>1 DEF Placed
    <3>2. TokenEnd(v[j]) \in Nat
      BY <3>1 DEF Tokens, TokenEnd
    <3>3. ASSUME Named(v[j]), Named(t) PROVE TokenEnd(v[j]) < t.pos
      <4>1. CASE TokenEnd(v[j]) < p
        BY <2>1, <3>2, <4>1
      <4>2. CASE NoWordAt(s, p)
        <5>1. t.len > 0 /\ At(s, t.pos) \in Letters
          BY <2>2, <3>3 DEF Named
        <5>2. t.pos < Len(s)
          BY <1>1, <2>1, <5>1
        <5>3. t.pos # p
          BY <4>2, <5>1, <5>2 DEF NoWordAt
        <5> QED
          BY <2>1, <3>1, <3>2, <5>3
      <4> QED
        BY <3>1, <3>3, <4>1, <4>2 DEF EndsBefore
    <3> QED
      BY <1>2, <3>3 DEF InOrder
  <2>4. ASSUME NEW k \in 0 .. m - 1
        PROVE  /\ Len(w[k].val) = w[k].len /\ EndsBefore(w[k], s, q)
               /\ TokenEnd(w[k]) <= e
    BY <1>1, <1>2, <1>3, <1>6, <2>2
  <2>5. ASSUME NEW j \in 0 .. m - 1, NEW k \in 0 .. m - 1, j < k
        PROVE  InOrder(w[j], w[k])
    BY <1>1, <1>2, <1>4, <1>6, <2>3, <2>5
  <2> QED
    BY <2>4, <2>5 DEF Placed
<1> QED
  BY <1>5, <1>6

-----------------------------------------------------------------------------
(* The steps that read nothing.                                             *)

LEMMA SameWordAgain ==
    ASSUME NEW t
    PROVE  SameWord(t, t)
BY DEF SameWord

\* The token at k is the one that was at g[k], perhaps of another type.
LEMMA RearrangedText ==
    ASSUME NEW Char, SqliInv(Char), TextInv, Folding, Folding',
           src' = src, last_comment' = last_comment, pos' \in Nat,
           NEW g \in [0 .. pos' - 1 -> 0 .. pos - 1],
           \A j, k \in 0 .. pos' - 1 : j < k => g[j] <= g[k],
           \A k \in 0 .. pos' - 1 : SameWord(tokenvec'[k], tokenvec[g[k]])
    PROVE  TextInv'
<1>1. /\ tokenvec \in [Slots -> Tokens(Char)] /\ pos \in 0 .. 6
      /\ Limit <= src.pos /\ Placed(tokenvec, pos, src.s, src.pos, Limit)
  BY FoldingFacts DEF TextInv, PlacedInv
<1>2. Limit' = Limit
  BY DEF Limit
<1>3. \A v, w, m, n, s, p, l :
          /\ v = tokenvec /\ w = tokenvec' /\ n = pos /\ m = pos'
          /\ Placed(v, n, s, p, l)
          => Placed(w, m, s, p, l)
  BY <1>1, RearrangedPlaced
<1>4. Placed(tokenvec', pos', src'.s, src'.pos, Limit')
  BY <1>1, <1>2, <1>3
<1>5. PlacedInv'
  BY <1>1, <1>2, <1>4 DEF PlacedInv
<1>6. LongInv'
  BY DEF TextInv, LongInv, Folding
<1> QED
  BY <1>5, <1>6 DEF TextInv

LEMMA Fewer ==
    ASSUME NEW n \in 0 .. 6, NEW m \in 0 .. n
    PROVE  m \in Nat /\ \A k \in 0 .. m - 1 : k \in 0 .. n - 1 /\ k \in Nat
OBVIOUS

\* Tokens are dropped, and types are changed.
LEMMA RetypedText ==
    ASSUME NEW Char, SqliInv(Char), TextInv, Folding, Folding',
           src' = src, last_comment' = last_comment, pos' \in 0 .. pos,
           \A k \in 0 .. pos' - 1 : SameWord(tokenvec'[k], tokenvec[k])
    PROVE  TextInv'
<1> DEFINE g == [k \in 0 .. pos' - 1 |-> k]
<1>1. pos \in 0 .. 6
  BY FoldingFacts
<1>2. pos' \in Nat /\ \A k \in 0 .. pos' - 1 : k \in 0 .. pos - 1 /\ k \in Nat
  BY <1>1, Fewer
<1>3. g \in [0 .. pos' - 1 -> 0 .. pos - 1] /\ \A k \in 0 .. pos' - 1 : g[k] = k
  BY <1>2
<1> HIDE DEF g
<1>4. \A j, k \in 0 .. pos' - 1 : j < k => g[j] <= g[k]
  <2>1. \A j, k \in Nat : j < k => j <= k
    OBVIOUS
  <2> QED
    BY <1>2, <1>3, <2>1
<1> QED
  BY <1>2, <1>3, <1>4, RearrangedText

\* Tokens are dropped, and one is copied over another before it.
LEMMA CopiedText ==
    ASSUME NEW Char, SqliInv(Char), TextInv, Folding, Folding',
           src' = src, last_comment' = last_comment, pos' \in 0 .. pos,
           NEW k \in Nat, NEW m \in 0 .. pos - 1, k < m,
           \A j \in k + 1 .. pos' - 1 : m <= j,
           tokenvec' = [tokenvec EXCEPT ![k] = tokenvec[m]]
    PROVE  TextInv'
<1> DEFINE g == [j \in 0 .. pos' - 1 |-> IF j = k THEN m ELSE j]
<1>1. pos \in 0 .. 6 /\ tokenvec \in [Slots -> Tokens(Char)]
      /\ \A j \in 0 .. pos - 1 : j \in Slots
  BY FoldingFacts
<1>2. /\ pos' \in Nat /\ k \in Slots
      /\ \A j \in 0 .. pos' - 1 : j \in 0 .. pos - 1
  <2>1. k \in Slots
    BY <1>1 DEF Slots
  <2> QED
    BY <1>1, <2>1, Fewer
<1>3. /\ g \in [0 .. pos' - 1 -> 0 .. pos - 1]
      /\ \A j \in 0 .. pos' - 1 : g[j] = IF j = k THEN m ELSE j
  BY <1>2
<1> HIDE DEF g
<1>4. ASSUME NEW i \in 0 .. pos' - 1, NEW j \in 0 .. pos' - 1, i < j
      PROVE  g[i] <= g[j]
  <2>1. CASE i = k
    <3>1. j \in k + 1 .. pos' - 1 /\ j # k
      BY <1>2, <1>4, <2>1
    <3> QED
      BY <1>3, <2>1, <3>1
  <2>2. CASE i # k
    BY <1>2, <1>3, <1>4, <2>2
  <2> QED
    BY <2>1, <2>2
<1>5. ASSUME NEW j \in 0 .. pos' - 1 PROVE SameWord(tokenvec'[j], tokenvec[g[j]])
  <2>1. tokenvec'[j] = tokenvec[g[j]]
    BY <1>1, <1>2, <1>3
  <2> QED
    BY <2>1, SameWordAgain
<1> QED
  BY <1>2, <1>3, <1>4, <1>5, RearrangedText

\* What the name of a rule for three tokens says of them.
LEMMA ThreeTokenRuleSays ==
    ASSUME NEW a, NEW b, NEW c, ThreeTokenRule(a, b, c) = "nofunction"
    PROVE  a.type = "f"
<1> DEFINE rules == <<
    Rule("expression", a.type = "1" /\ b.type = "o" /\ c.type = "1"),
    Rule("expression", a.type = "o" /\ b.type # "(" /\ c.type = "o"),
    Rule("expression", a.type = "&" /\ c.type = "&"),
    Rule("expression", a.type = "v" /\ b.type = "o" /\ c.type \in {"v", "1", "n"}),
    Rule("expression", a.type \in {"n", "1"} /\ b.type = "o" /\ c.type \in {"1", "n"}),
    Rule("expression", /\ a.type \in Operands /\ c.type = "t"
                       /\ b.type = "o" /\ b.val = <<":", ":">>),
    Rule("expression", a.type \in Operands /\ b.type = "," /\ c.type \in Operands),
    Rule("sign",       /\ a.type \in {"E", "B", ","} /\ st_is_unary_op(b)
                       /\ c.type = "("),
    Rule("sign",       /\ a.type \in {"k", "E", "B"} /\ st_is_unary_op(b)
                       /\ c.type \in Operands \cup {"f"}),
    Rule("comma",      a.type = "," /\ st_is_unary_op(b) /\ c.type \in Operands),
    Rule("sign",       a.type = "," /\ st_is_unary_op(b) /\ c.type = "f"),
    Rule("expression", a.type = "n" /\ b.type = "." /\ c.type = "n"),
    Rule("sign",       a.type = "E" /\ b.type = "." /\ c.type = "n"),
    Rule("nofunction", /\ a.type = "f" /\ b.type = "(" /\ c.type # ")"
                       /\ IsWord(a, {UserWord})) >>
<1>1. First(rules) = "nofunction"
  BY DEF ThreeTokenRule
<1>2. DOMAIN rules = 1 .. 14
  OBVIOUS
<1>3. \A k \in 1 .. 14 : \/ k = 1 \/ k = 2 \/ k = 3 \/ k = 4 \/ k = 5 \/ k = 6
                         \/ k = 7 \/ k = 8 \/ k = 9 \/ k = 10 \/ k = 11
                         \/ k = 12 \/ k = 13 \/ k = 14
  OBVIOUS
<1>4. /\ rules[1].rule = "expression" /\ rules[2].rule = "expression"
      /\ rules[3].rule = "expression" /\ rules[4].rule = "expression"
      /\ rules[5].rule = "expression" /\ rules[6].rule = "expression"
      /\ rules[7].rule = "expression" /\ rules[8].rule = "sign"
      /\ rules[9].rule = "sign" /\ rules[10].rule = "comma"
      /\ rules[11].rule = "sign" /\ rules[12].rule = "expression"
      /\ rules[13].rule = "sign" /\ rules[14].rule = "nofunction"
  BY DEF Rule
<1>5. rules[14].when => a.type = "f"
  BY DEF Rule
<1> HIDE DEF rules
<1>6. \/ First(rules) = "none"
      \/ \E k \in 1 .. 14 : rules[k].when /\ First(rules) = rules[k].rule
  BY <1>2, FirstRule
<1>7. PICK k \in 1 .. 14 : rules[k].when /\ First(rules) = rules[k].rule
  BY <1>1, <1>6
<1>8. k = 14
  BY <1>1, <1>3, <1>4, <1>7
<1> QED
  BY <1>5, <1>7, <1>8

\* The tokens that a rule looks at.
LEMMA TwoTokensText ==
    ASSUME NEW Char, SqliInv(Char), NEW rules, TwoTokens(rules),
           UNCHANGED fingerprint
    PROVE  /\ Folding /\ src' = src /\ last_comment' = last_comment
           /\ pos \in 2 .. 6 /\ left \in 0 .. pos - 2
           /\ left \in Nat /\ left + 1 \in 0 .. pos - 1 /\ left < left + 1
           /\ left \in Slots /\ left + 1 \in Slots
           /\ tokenvec \in [Slots -> Tokens(Char)]
           /\ \A k \in 0 .. pos - 1 : k \in Slots
<1>1. /\ Folding /\ src' = src /\ last_comment' = last_comment
      /\ left \in 0 .. pos - 2 /\ left + 1 \in 0 .. pos - 1
  BY TwoTokensFacts
<1>2. /\ pos \in 0 .. 6 /\ tokenvec \in [Slots -> Tokens(Char)]
      /\ \A k \in 0 .. pos - 1 : k \in Slots
  BY <1>1, FoldingFacts
<1>3. /\ pos \in 2 .. 6 /\ left \in Nat /\ left < left + 1
      /\ left \in 0 .. pos - 1
  BY <1>1, <1>2
<1> QED
  BY <1>1, <1>2, <1>3

LEMMA ThreeTokensText ==
    ASSUME NEW Char, SqliInv(Char), NEW rules, ThreeTokens(rules),
           UNCHANGED fingerprint
    PROVE  /\ Folding /\ src' = src /\ last_comment' = last_comment
           /\ pos \in 3 .. 6 /\ left \in 0 .. pos - 3
           /\ left \in Nat /\ left + 1 \in Nat /\ left + 2 \in 0 .. pos - 1
           /\ left + 1 < left + 2 /\ left \in Slots
           /\ tokenvec \in [Slots -> Tokens(Char)]
           /\ \A k \in 0 .. pos - 1 : k \in Slots
<1>1. /\ Folding /\ src' = src /\ last_comment' = last_comment
      /\ left \in 0 .. pos - 3 /\ left + 2 \in 0 .. pos - 1
  BY ThreeTokensFacts
<1>2. /\ pos \in 0 .. 6 /\ tokenvec \in [Slots -> Tokens(Char)]
      /\ \A k \in 0 .. pos - 1 : k \in Slots
  BY <1>1, FoldingFacts
<1>3. /\ pos \in 3 .. 6 /\ left \in Nat /\ left + 1 \in Nat
      /\ left + 1 < left + 2 /\ left \in 0 .. pos - 1
  BY <1>1, <1>2
<1> QED
  BY <1>1, <1>2, <1>3

\* A rule whose step is Drop.
LEMMA DropText ==
    ASSUME pos \in 0 .. 6, NEW n \in 0 .. pos, NEW l, Drop(n, l)
    PROVE  pos' \in 0 .. pos /\ pos' = pos - n /\ Folding'
<1>1. pos' = pos - n /\ pc' = "full"
  BY DEF Drop
<1>2. pos - n \in 0 .. pos
  OBVIOUS
<1> QED
  BY <1>1, <1>2 DEF Folding

LEMMA DroppingText ==
    ASSUME NEW Char, SqliInv(Char), TextInv, UNCHANGED fingerprint,
           FoldRepeated \/ FoldSecond \/ FoldLeftUnary \/ FoldExpression
    PROVE  TextInv'
<1>1. /\ Folding /\ src' = src /\ last_comment' = last_comment
      /\ tokenvec' = tokenvec /\ pos \in 2 .. 6
      /\ \E n \in {1, 2} : \E l : Drop(n, l)
  <2>1. CASE FoldRepeated
    <3>1. /\ TwoTokens({"strings", "semicolons"}) /\ Drop(1, left)
          /\ tokenvec' = tokenvec
      BY <2>1 DEF FoldRepeated
    <3> QED
      BY <3>1, TwoTokensText
  <2>2. CASE FoldSecond
    <3>1. /\ TwoTokens({"unary", "lefts", "rights", "endbrace"})
          /\ Drop(1, 0) /\ tokenvec' = tokenvec
      BY <2>2 DEF FoldSecond
    <3> QED
      BY <3>1, TwoTokensText
  <2>3. CASE FoldLeftUnary
    <3>1. TwoTokens({"leftunary"}) /\ Drop(1, BackOne) /\ tokenvec' = tokenvec
      BY <2>3 DEF FoldLeftUnary
    <3> QED
      BY <3>1, TwoTokensText
  <2>4. CASE FoldExpression
    <3>1. ThreeTokens({"expression"}) /\ Drop(2, 0) /\ tokenvec' = tokenvec
      BY <2>4 DEF FoldExpression
    <3>2. pos \in 3 .. 6 => pos \in 2 .. 6
      OBVIOUS
    <3> QED
      BY <3>1, <3>2, ThreeTokensText
  <2> QED
    BY <2>1, <2>2, <2>3, <2>4
<1>2. PICK n \in {1, 2} : \E l : Drop(n, l)
  BY <1>1
<1>3. n \in 0 .. pos /\ pos \in 0 .. 6
  BY <1>1
<1>4. pos' \in 0 .. pos /\ Folding'
  BY <1>2, <1>3, DropText
<1> QED
  BY <1>1, <1>4, RetypedText, SameWordAgain

LEMMA CopyingText ==
    ASSUME NEW Char, SqliInv(Char), TextInv, UNCHANGED fingerprint,
           \/ FoldCast \/ FoldSign \/ FoldComma
           \/ FoldBackslash /\ ~st_is_arithmetic_op(B)
    PROVE  TextInv'
<1>1. CASE FoldCast \/ (FoldBackslash /\ ~st_is_arithmetic_op(B))
  <2>1. PICK rules : /\ TwoTokens(rules) /\ Drop(1, 0)
                     /\ tokenvec' = [tokenvec EXCEPT ![left] = B]
    BY <1>1 DEF FoldCast, FoldBackslash
  <2>2. /\ Folding /\ src' = src /\ last_comment' = last_comment
        /\ pos \in 2 .. 6 /\ left \in 0 .. pos - 2
        /\ left \in Nat /\ left + 1 \in 0 .. pos - 1 /\ left < left + 1
    BY <2>1, TwoTokensText
  <2>3. pos' \in 0 .. pos /\ Folding'
    <3>1. 1 \in 0 .. pos /\ pos \in 0 .. 6
      BY <2>2
    <3> QED
      BY <2>1, <3>1, DropText
  <2>4. \A j \in left + 1 .. pos' - 1 : left + 1 <= j
    OBVIOUS
  <2>5. tokenvec' = [tokenvec EXCEPT ![left] = tokenvec[left + 1]]
    BY <2>1 DEF B
  <2> QED
    BY <2>2, <2>3, <2>4, <2>5, CopiedText
<1>2. CASE FoldSign \/ FoldComma
  <2>1. PICK n \in {1, 3} : \E rules :
            /\ ThreeTokens(rules) /\ Drop(n, 0)
            /\ tokenvec' = [tokenvec EXCEPT ![left + 1] = C]
    BY <1>2 DEF FoldSign, FoldComma
  <2>2. PICK rules : ThreeTokens(rules)
    BY <2>1
  <2>3. /\ Folding /\ src' = src /\ last_comment' = last_comment
        /\ pos \in 3 .. 6 /\ left \in 0 .. pos - 3
        /\ left \in Nat /\ left + 1 \in Nat /\ left + 2 \in 0 .. pos - 1
        /\ left + 1 < left + 2
    BY <2>2, ThreeTokensText
  <2>4. pos' \in 0 .. pos /\ Folding'
    <3>1. n \in 0 .. pos /\ pos \in 0 .. 6
      BY <2>3
    <3> QED
      BY <2>1, <3>1, DropText
  <2>5. \A j \in (left + 1) + 1 .. pos' - 1 : left + 2 <= j
    <3>1. \A x \in Nat, y \in Int : \A j \in (x + 1) + 1 .. y - 1 : x + 2 <= j
      OBVIOUS
    <3>2. pos' \in Int
      BY <2>4
    <3> QED
      BY <2>3, <3>1, <3>2
  <2>6. tokenvec' = [tokenvec EXCEPT ![left + 1] = tokenvec[left + 2]]
    BY <2>1 DEF C
  <2> QED
    BY <2>3, <2>4, <2>5, <2>6, CopiedText
<1> QED
  BY <1>1, <1>2

\* A type is changed at k.
LEMMA RetypedWord ==
    ASSUME NEW Char, NEW t \in Tokens(Char), NEW type,
           type \in WordTypes => t.type \in WordTypes
    PROVE  SameWord([t EXCEPT !.type = type], t)
BY DEF SameWord, Tokens

LEMMA RetypingText ==
    ASSUME NEW Char, SqliInv(Char), TextInv, UNCHANGED fingerprint,
           \/ FoldRetype \/ ToThree \/ Advance
           \/ FoldBackslash /\ st_is_arithmetic_op(B)
    PROVE  TextInv'
<1>1. CASE FoldRetype \/ ToThree
  <2>1. PICK rules : TwoTokens(rules)
    BY <1>1 DEF FoldRetype, ToThree
  <2>2. /\ Folding /\ src' = src /\ last_comment' = last_comment
        /\ pos \in 2 .. 6 /\ left \in Slots /\ left + 1 \in Slots /\ left \in Nat
        /\ tokenvec \in [Slots -> Tokens(Char)]
        /\ \A k \in 0 .. pos - 1 : k \in Slots
    BY <2>1, TwoTokensText
  <2>3. pos' = pos /\ Folding'
    <3>1. CASE FoldRetype
      BY <2>2, <3>1 DEF FoldRetype, Drop, Folding
    <3>2. CASE ToThree
      BY <3>2 DEF ToThree, Folding
    <3> QED
      BY <1>1, <3>1, <3>2
  <2> DEFINE rule == TwoTokenRule(A, B)
             low == CASE rule = "function" -> "f"
                      [] rule = "in" -> IF B.type = "(" THEN "o" ELSE "n"
                      [] OTHER -> tokenvec[left].type
             high == IF rule = "if" THEN "T" ELSE tokenvec[left + 1].type
             like == IF rule = "like" /\ B.type = "(" THEN "f" ELSE tokenvec[left].type
             name == IF rule = "collate" /\ \E k \in DOMAIN B.val : B.val[k] = "_"
                     THEN "t" ELSE tokenvec[left + 1].type
  <2>4. \E x, y : /\ tokenvec' = [tokenvec EXCEPT ![left].type = x, ![left + 1].type = y]
                  /\ x \in WordTypes => tokenvec[left].type \in WordTypes
                  /\ y \in WordTypes => tokenvec[left + 1].type \in WordTypes
    <3>0. /\ rule = "like" => tokenvec[left].type = "o"
          /\ rule = "collate" => tokenvec[left + 1].type = "n"
          /\ rule = "if" => tokenvec[left + 1].type = "f"
          /\ rule = "function" => tokenvec[left].type \in {"n", "v"}
          /\ rule = "in" => tokenvec[left].type = "k"
      BY TwoTokenRuleSays DEF A, B
    <3>1. CASE FoldRetype
      <4>1. tokenvec' = [tokenvec EXCEPT ![left].type = low, ![left + 1].type = high]
        BY <3>1 DEF FoldRetype
      <4>2. low \in WordTypes => tokenvec[left].type \in WordTypes
        BY <3>0 DEF WordTypes
      <4>3. high \in WordTypes => tokenvec[left + 1].type \in WordTypes
        BY <3>0 DEF WordTypes
      <4> HIDE DEF low, high
      <4> QED
        BY <4>1, <4>2, <4>3
    <3>2. CASE ToThree
      <4>1. tokenvec' = [tokenvec EXCEPT ![left].type = like, ![left + 1].type = name]
        BY <3>2 DEF ToThree
      <4>2. like \in WordTypes => tokenvec[left].type \in WordTypes
        BY <3>0 DEF WordTypes
      <4>3. name \in WordTypes => tokenvec[left + 1].type \in WordTypes
        BY <3>0 DEF WordTypes
      <4> HIDE DEF like, name
      <4> QED
        BY <4>1, <4>2, <4>3
    <3> QED
      BY <1>1, <3>1, <3>2
  <2>5. PICK x, y :
            /\ tokenvec' = [tokenvec EXCEPT ![left].type = x, ![left + 1].type = y]
            /\ x \in WordTypes => tokenvec[left].type \in WordTypes
            /\ y \in WordTypes => tokenvec[left + 1].type \in WordTypes
    BY <2>4
  <2>6. /\ tokenvec'[left] = [tokenvec[left] EXCEPT !.type = x]
        /\ tokenvec'[left + 1] = [tokenvec[left + 1] EXCEPT !.type = y]
        /\ \A k \in Slots : k # left /\ k # left + 1 => tokenvec'[k] = tokenvec[k]
    <3>1. left # left + 1
      BY <2>2
    <3> QED
      BY <2>2, <2>5, <3>1
  <2>7. ASSUME NEW k \in 0 .. pos - 1 PROVE SameWord(tokenvec'[k], tokenvec[k])
    <3>1. CASE k = left
      BY <2>2, <2>5, <2>6, <3>1, RetypedWord
    <3>2. CASE k = left + 1
      BY <2>2, <2>5, <2>6, <3>2, RetypedWord
    <3>3. CASE k # left /\ k # left + 1
      BY <2>2, <2>6, <3>3, SameWordAgain
    <3> QED
      BY <3>1, <3>2, <3>3
  <2>8. pos' \in 0 .. pos
    BY <2>2, <2>3
  <2> QED
    BY <2>2, <2>3, <2>7, <2>8, RetypedText
<1>2. CASE Advance \/ (FoldBackslash /\ st_is_arithmetic_op(B))
  <2>1. /\ Folding /\ src' = src /\ last_comment' = last_comment
        /\ pos \in 2 .. 6 /\ left \in Slots
        /\ tokenvec \in [Slots -> Tokens(Char)]
        /\ \A k \in 0 .. pos - 1 : k \in Slots
        /\ \E l : Drop(0, l)
    <3>1. CASE Advance
      <4>1. ThreeTokens({"none", "nofunction"}) /\ Drop(0, left + 1)
        BY <3>1 DEF Advance
      <4>2. pos \in 3 .. 6 => pos \in 2 .. 6
        OBVIOUS
      <4> QED
        BY <4>1, <4>2, ThreeTokensText
    <3>2. CASE FoldBackslash /\ st_is_arithmetic_op(B)
      <4>1. TwoTokens({"backslash"}) /\ Drop(0, 0)
        BY <3>2 DEF FoldBackslash
      <4> QED
        BY <4>1, TwoTokensText
    <3> QED
      BY <1>2, <3>1, <3>2
  <2>2. pos' \in 0 .. pos /\ Folding' /\ pos' = pos
    <3>1. 0 \in 0 .. pos /\ pos \in 0 .. 6
      BY <2>1
    <3>2. pos' \in 0 .. pos /\ Folding' /\ pos' = pos - 0
      BY <2>1, <3>1, DropText
    <3> QED
      BY <2>1, <3>2
  <2> DEFINE t == IF ThreeTokenRule(A, B, C) = "nofunction" THEN "n"
                  ELSE tokenvec[left].type
  <2>3. \E x : /\ tokenvec' = [tokenvec EXCEPT ![left].type = x]
               /\ x \in WordTypes => tokenvec[left].type \in WordTypes
    <3>1. CASE Advance
      <4>1. tokenvec' = [tokenvec EXCEPT ![left].type = t]
        BY <3>1 DEF Advance
      <4>2. ThreeTokenRule(A, B, C) = "nofunction" => tokenvec[left].type = "f"
        BY ThreeTokenRuleSays DEF A
      <4>3. t \in WordTypes => tokenvec[left].type \in WordTypes
        BY <4>2 DEF WordTypes
      <4> HIDE DEF t
      <4> QED
        BY <4>1, <4>3
    <3>2. CASE FoldBackslash /\ st_is_arithmetic_op(B)
      <4>1. tokenvec' = [tokenvec EXCEPT ![left].type = "1"]
        BY <3>2 DEF FoldBackslash
      <4>2. "1" \notin WordTypes
        BY DEF WordTypes
      <4> QED
        BY <4>1, <4>2
    <3> QED
      BY <1>2, <3>1, <3>2
  <2>4. PICK x : /\ tokenvec' = [tokenvec EXCEPT ![left].type = x]
                 /\ x \in WordTypes => tokenvec[left].type \in WordTypes
    BY <2>3
  <2>5. /\ tokenvec'[left] = [tokenvec[left] EXCEPT !.type = x]
        /\ \A k \in Slots : k # left => tokenvec'[k] = tokenvec[k]
    BY <2>1, <2>4
  <2>6. ASSUME NEW k \in 0 .. pos - 1 PROVE SameWord(tokenvec'[k], tokenvec[k])
    <3>1. CASE k = left
      BY <2>1, <2>4, <2>5, <3>1, RetypedWord
    <3>2. CASE k # left
      BY <2>1, <2>5, <3>2, SameWordAgain
    <3> QED
      BY <3>1, <3>2
  <2> QED
    BY <2>1, <2>2, <2>6, RetypedText
<1> QED
  BY <1>1, <1>2

LEMMA LoopText ==
    ASSUME NEW Char, SqliInv(Char), TextInv, UNCHANGED fingerprint,
           LoopOrEnd \/ FewerThanTwo \/ FewerThanThree
    PROVE  TextInv'
<1>1. /\ src' = src /\ last_comment' = last_comment
      /\ pos' = pos /\ tokenvec' = tokenvec
      /\ Folding /\ Folding'
  BY DEF LoopOrEnd, FewerThanTwo, FewerThanThree, TooFew, Folding
<1>2. pos' \in 0 .. pos
  BY <1>1, FoldingFacts
<1> QED
  BY <1>1, <1>2, RetypedText, SameWordAgain

LEMMA FoldFiveText ==
    ASSUME NEW Char, SqliInv(Char), TextInv, UNCHANGED fingerprint, FoldFive
    PROVE  TextInv'
<1>1. /\ src' = src /\ last_comment' = last_comment /\ Folding /\ Folding'
      /\ pos >= MaxTokens
  BY DEF FoldFive, Folding
<1>2. pos \in 5 .. 6
  BY <1>1, FoldingFacts DEF MaxTokens
<1>3. CASE pos > MaxTokens
  <2>1. pos' = 2 /\ tokenvec' = [tokenvec EXCEPT ![1] = tokenvec[5]]
    BY <1>3 DEF FoldFive, MaxTokens
  <2>2. /\ pos' \in 0 .. pos /\ 1 \in Nat /\ 5 \in 0 .. pos - 1 /\ 1 < 5
        /\ \A j \in 1 + 1 .. pos' - 1 : 5 <= j
    BY <1>2, <1>3, <2>1 DEF MaxTokens
  <2> QED
    BY <1>1, <2>1, <2>2, CopiedText
<1>4. CASE ~(pos > MaxTokens)
  <2>1. pos' = 1 /\ tokenvec' = tokenvec
    BY <1>4 DEF FoldFive
  <2>2. pos' \in 0 .. pos
    BY <1>2, <2>1
  <2> QED
    BY <1>1, <2>1, <2>2, RetypedText, SameWordAgain
<1> QED
  BY <1>3, <1>4

LEMMA FoldMergeText ==
    ASSUME NEW Char, Blank \in Char, SqliInv(Char), TextInv,
           UNCHANGED fingerprint, FoldMerge
    PROVE  TextInv'
<1>1. /\ TwoTokens({"merge"}) /\ Drop(1, BackOne)
      /\ tokenvec' = [tokenvec EXCEPT ![left] = syntax_merge_words(A, B)]
  BY DEF FoldMerge
<1>2. /\ Folding /\ src' = src /\ last_comment' = last_comment
      /\ pos \in 2 .. 6 /\ left \in 0 .. pos - 2
      /\ tokenvec \in [Slots -> Tokens(Char)]
  BY <1>1, TwoTokensText
<1>3. pos \in 0 .. 6 /\ pos' = pos - 1 /\ Folding'
  <2>1. 1 \in 0 .. pos /\ pos \in 0 .. 6
    BY <1>2
  <2> QED
    BY <1>1, <2>1, DropText
<1>4. MergedType(tokenvec[left], tokenvec[left + 1]) # Null
  BY <1>1, TwoTokenRuleSays DEF TwoTokens, A, B
<1>5. /\ tokenvec' = [tokenvec EXCEPT ![left] =
                          syntax_merge_words(tokenvec[left], tokenvec[left + 1])]
  BY <1>1 DEF A, B
<1>6. Limit <= src.pos /\ Placed(tokenvec, pos, src.s, src.pos, Limit)
  BY <1>2 DEF TextInv, PlacedInv
<1>7. src.pos \in Nat /\ Limit \in Nat
  BY DEF SqliInv, SqliType, Sources, Tokens, Limit
<1>8. ASSUME NEW v, NEW w, NEW n, NEW i, NEW s, NEW p, NEW l,
             v = tokenvec, w = tokenvec', n = pos, i = left,
             s = src.s, p = src.pos, l = Limit
      PROVE  Placed(w, n - 1, s, p, l)
  <2>1. /\ v \in [Slots -> Tokens(Char)] /\ n \in 0 .. 6 /\ i \in 0 .. n - 2
        /\ p \in Nat /\ l \in Nat /\ MergedType(v[i], v[i + 1]) # Null
        /\ Placed(v, n, s, p, l)
        /\ w = [v EXCEPT ![i] = syntax_merge_words(v[i], v[i + 1])]
    BY <1>2, <1>3, <1>4, <1>5, <1>6, <1>7, <1>8, Zenon
  <2> QED
    BY <2>1, MergedPlaced
<1>9. Limit' = Limit
  BY <1>2 DEF Limit
<1>10. PlacedInv'
  BY <1>2, <1>3, <1>6, <1>8, <1>9 DEF PlacedInv
<1>11. LongInv'
  BY <1>2, <1>3 DEF TextInv, LongInv, Folding
<1> QED
  BY <1>10, <1>11 DEF TextInv

-----------------------------------------------------------------------------
(* The steps that read a token.                                             *)

\* Where the token is that has been read.
LEMMA TextRead ==
    ASSUME NEW Char, NEW st \in Sources(Char), st.pos <= Len(st.s)
    PROVE  LET t == Tokenize(st)
           IN  /\ t.src.s = st.s /\ t.src.pos \in st.pos .. Len(st.s)
               /\ st.pos < t.src.pos \/ t.src.pos = Len(st.s)
               /\ t.more => /\ st.pos <= t.tok.pos /\ TokenEnd(t.tok) <= t.src.pos
                            /\ t.tok.val = Part(st.s, t.tok.pos, t.tok.len)
                            /\ EndsBefore(t.tok, st.s, t.src.pos)
                            /\ t.tok.type = "c" => LongComment(t.tok, Len(st.s))
<1> DEFINE r == libinjection_sqli_tokenize(st.s, st.pos, st.quote, st.sql)
           t == Tokenize(st)
<1>1. st.s \in Seq(Char) /\ st.pos \in Nat /\ Len(st.s) \in Nat
  <2>1. st.s \in Seq(Char) /\ st.pos \in Nat
    BY DEF Sources
  <2> QED
    BY <2>1
<1>2. st.pos \in 0 .. Len(st.s)
  BY <1>1
<1>3. \/ r = Parsed(NoToken, Len(st.s))
      \/ r \in Parses(Char, st.s, st.pos, TokenTypes)
  BY <1>1, <1>2, TokenizerParses
<1>4. t.more = (r.tok.type # Null) /\ t.tok = r.tok /\ t.src.s = st.s /\ t.src.pos = r.pos
  <2> DEFINE u == st.stats \cup r.stats
             n == IF r.tok.type # Null THEN st.tokens + 1 ELSE st.tokens
             q == r.pos
             w == [st EXCEPT !.pos = q, !.stats = u, !.tokens = n]
  <2>1. t.more = (r.tok.type # Null) /\ t.tok = r.tok /\ t.src = w
    BY DEF Tokenize, Read
  <2>2. w.s = st.s /\ w.pos = q
    <3> HIDE DEF q, u, n
    <3> QED
      BY DEF Sources
  <2> QED
    BY <2>1, <2>2
<1> HIDE DEF r, t
<1>5. CASE r = Parsed(NoToken, Len(st.s))
  <2>1. r.tok.type = Null /\ r.pos = Len(st.s)
    BY <1>5 DEF Parsed, NoToken
  <2>2. Len(st.s) \in st.pos .. Len(st.s)
    BY <1>1
  <2>3. /\ t.src.s = st.s /\ t.src.pos \in st.pos .. Len(st.s)
        /\ t.src.pos = Len(st.s) /\ ~t.more
    BY <1>4, <2>1, <2>2
  <2> QED
    BY <2>3 DEF t
<1>6. CASE r \in Parses(Char, st.s, st.pos, TokenTypes)
  <2>1. /\ r.pos \in st.pos + 1 .. Len(st.s)
        /\ st.pos <= r.tok.pos /\ TokenEnd(r.tok) <= r.pos
        /\ Neat(st.s, r)
    BY <1>6 DEF Parses, TokenEnd
  <2>2. r.pos \in st.pos .. Len(st.s) /\ st.pos < r.pos
    BY <1>1, <2>1
  <2> QED
    BY <1>4, <2>1, <2>2 DEF Neat, t
<1> QED
  BY <1>3, <1>5, <1>6

LEMMA SkipInitialText ==
    ASSUME NEW Char, SqliInv(Char), TextInv, UNCHANGED fingerprint, SkipInitial
    PROVE  TextInv'
<1> DEFINE t == Tokenize(src)
           skip == t.tok.type \in {"c", "(", "t"} \/ st_is_unary_op(t.tok)
<1>1. /\ src' = t.src
      /\ tokenvec' = [tokenvec EXCEPT ![0] = t.tok]
      /\ pos' = IF t.more /\ ~skip THEN 1 ELSE 0
      /\ pc' = IF ~t.more THEN "done" ELSE IF skip THEN "skip" ELSE "full"
      /\ left' = left /\ last_comment' = last_comment /\ tlen' = tlen
  BY DEF SkipInitial
<1>2. pc = "skip" /\ Folding
  BY DEF SkipInitial, Folding
<1>3. /\ src \in Sources(Char) /\ src.pos <= Len(src.s)
      /\ tokenvec \in [Slots -> Tokens(Char)]
  BY DEF SqliInv, SqliType
<1>4. t.tok \in Tokens(Char)
  BY <1>3, TokenRead
<1>5. /\ t.src.s = src.s /\ t.src.pos \in src.pos .. Len(src.s)
      /\ src.pos < t.src.pos \/ t.src.pos = Len(src.s)
      /\ t.more => /\ src.pos <= t.tok.pos /\ TokenEnd(t.tok) <= t.src.pos
                   /\ t.tok.val = Part(src.s, t.tok.pos, t.tok.len)
                   /\ EndsBefore(t.tok, src.s, t.src.pos)
  BY <1>3, TextRead
<1> HIDE DEF t, skip
<1>6. last_comment.type # "c" /\ tlen = 0
  BY <1>2 DEF SqliInv, CommentInv, ResultInv
<1>7. Limit' = src'.pos
  BY <1>1, <1>6 DEF Limit
<1>8. /\ src.pos \in 0 .. Len(src.s) /\ src.s \in Seq(Char) /\ src'.pos \in Nat
      /\ src'.pos \in src.pos .. src'.pos
  <2>1. src.pos \in Nat /\ src.s \in Seq(Char)
    BY <1>3 DEF Sources
  <2>2. Len(src.s) \in Nat
    BY <2>1
  <2> QED
    BY <1>1, <1>3, <1>5, <2>1, <2>2
<1>9. Placed(tokenvec, 0, src.s, src.pos, src.pos)
  <2>1. \A k : k \notin 0 .. 0 - 1
    OBVIOUS
  <2> QED
    BY <2>1 DEF Placed
<1>10. pos' = 0 \/ (pos' = 0 + 1 /\ t.more)
  BY <1>1
<1>11. ASSUME NEW v, NEW s, NEW p, NEW q, NEW w, NEW m, NEW tok, v = tokenvec,
              s = src.s, p = src.pos, q = src'.pos, w = tokenvec', m = pos',
              tok = t.tok
       PROVE  Placed(w, m, s, q, q)
  <2>1. /\ v \in [Slots -> Tokens(Char)] /\ 0 \in 0 .. 5
        /\ s \in Seq(Char) /\ p \in 0 .. Len(s) /\ p \in 0 .. p
        /\ q \in p .. Len(s) /\ (p < q \/ q = Len(s)) /\ q \in p .. q
        /\ tok \in Tokens(Char)
    BY <1>1, <1>3, <1>4, <1>5, <1>8, <1>11
  <2>2. Placed(v, 0, s, p, p) /\ w = [v EXCEPT ![0] = tok]
    BY <1>1, <1>9, <1>11, Zenon
  <2>3. \/ m = 0
        \/ /\ m = 0 + 1 /\ q = q
           /\ p <= tok.pos /\ TokenEnd(tok) <= q
           /\ tok.val = Part(s, tok.pos, tok.len) /\ EndsBefore(tok, s, q)
    BY <1>1, <1>5, <1>10, <1>11
  <2> QED
    BY <2>1, <2>2, <2>3, FetchedPlaced
<1>12. PlacedInv'
  <2>1. src'.s = src.s
    BY <1>1, <1>5
  <2> QED
    BY <1>7, <1>8, <1>11, <2>1 DEF PlacedInv
<1>13. LongInv'
  <2>1. tlen' # 2 /\ pc' # "judge" /\ last_comment'.type # "c"
    BY <1>1, <1>6
  <2> QED
    BY <2>1 DEF LongInv
<1> QED
  BY <1>12, <1>13 DEF TextInv

LEMMA FetchText ==
    ASSUME NEW Char, SqliInv(Char), TextInv, UNCHANGED fingerprint,
           FetchTwo \/ FetchThree
    PROVE  TextInv'
<1> DEFINE t == Tokenize(src)
<1>1. pc \in {"two", "three"} /\ pos <= MaxTokens /\ FetchToken /\ Folding
  BY DEF FetchTwo, FetchThree, Wanted, Folding
<1>2. /\ src' = t.src
      /\ tokenvec' = [tokenvec EXCEPT ![pos] = t.tok]
      /\ last_comment' = IF ~t.more THEN last_comment
                         ELSE IF t.tok.type = "c" THEN t.tok
                         ELSE [last_comment EXCEPT !.type = Null]
      /\ pos' = IF t.more /\ t.tok.type # "c" THEN pos + 1 ELSE pos
      /\ pc' = pc
  BY <1>1 DEF FetchToken
<1>3. /\ src \in Sources(Char) /\ src.pos <= Len(src.s)
      /\ tokenvec \in [Slots -> Tokens(Char)] /\ last_comment \in Tokens(Char)
  BY DEF SqliInv, SqliType
<1>4. t.tok \in Tokens(Char)
  BY <1>3, TokenRead
<1>5. /\ t.src.s = src.s /\ t.src.pos \in src.pos .. Len(src.s)
      /\ src.pos < t.src.pos \/ t.src.pos = Len(src.s)
      /\ t.more => /\ src.pos <= t.tok.pos /\ TokenEnd(t.tok) <= t.src.pos
                   /\ t.tok.val = Part(src.s, t.tok.pos, t.tok.len)
                   /\ EndsBefore(t.tok, src.s, t.src.pos)
                   /\ t.tok.type = "c" => LongComment(t.tok, Len(src.s))
  BY <1>3, TextRead
<1> HIDE DEF t
<1>6. Limit <= src.pos /\ Placed(tokenvec, pos, src.s, src.pos, Limit)
  BY <1>1 DEF TextInv, PlacedInv
<1>7. /\ src.pos \in 0 .. Len(src.s) /\ src.s \in Seq(Char) /\ src'.pos \in Nat
      /\ src.pos <= src'.pos /\ Limit \in 0 .. src.pos /\ pos \in 0 .. 5
  <2>1. src.pos \in Nat /\ src.s \in Seq(Char)
    BY <1>3 DEF Sources
  <2>2. Len(src.s) \in Nat
    BY <2>1
  <2>3. Limit \in Nat
    BY <1>3, <2>1 DEF Limit, Tokens
  <2>4. pos \in 0 .. 6 /\ pos <= 5
    BY <1>1, FoldingFacts DEF MaxTokens
  <2>5. pos \in 0 .. 5
    BY <2>4
  <2>6. src.pos \in 0 .. Len(src.s) /\ src'.pos \in Nat /\ src.pos <= src'.pos
    BY <1>2, <1>3, <1>5, <2>1, <2>2
  <2>7. Limit \in 0 .. src.pos
    BY <1>6, <2>1, <2>3
  <2> QED
    BY <2>1, <2>5, <2>6, <2>7
\* Where the kept tokens end now: before the comment, if it is the last token.
<1>8. /\ Limit' \in Limit .. src'.pos
      /\ pos' = pos \/ (pos' = pos + 1 /\ t.more /\ Limit' = src'.pos)
  <2>1. CASE ~t.more
    <3>1. last_comment' = last_comment /\ pos' = pos
      BY <1>2, <2>1
    <3>2. Limit' = Limit \/ Limit' = src'.pos
      BY <3>1 DEF Limit
    <3> QED
      BY <1>7, <3>1, <3>2
  <2>2. CASE t.more /\ t.tok.type = "c"
    <3>1. last_comment' = t.tok /\ pos' = pos
      BY <1>2, <2>2
    <3>2. Limit' = t.tok.pos
      BY <2>2, <3>1 DEF Limit
    <3>3. t.tok.pos \in Nat /\ t.tok.len \in Nat /\ t.tok.pos + t.tok.len <= src'.pos
          /\ src.pos <= t.tok.pos
      BY <1>2, <1>4, <1>5, <2>2 DEF Tokens, TokenEnd
    <3>4. t.tok.pos \in Limit .. src'.pos
      BY <1>7, <3>3
    <3> QED
      BY <3>1, <3>2, <3>4
  <2>3. CASE t.more /\ t.tok.type # "c"
    <3>1. last_comment'.type = Null /\ pos' = pos + 1
      BY <1>2, <1>3, <2>3 DEF Tokens
    <3>2. Limit' = src'.pos
      BY <3>1 DEF Limit, Null
    <3>3. src'.pos \in Limit .. src'.pos
      BY <1>7
    <3> QED
      BY <2>3, <3>1, <3>2, <3>3
  <2> QED
    BY <2>1, <2>2, <2>3
<1>9. src'.s = src.s
  BY <1>2, <1>5
<1>10. ASSUME NEW v, NEW n, NEW s, NEW p, NEW l, NEW q, NEW e, NEW w, NEW m,
              NEW tok, v = tokenvec, n = pos, s = src.s, p = src.pos, l = Limit,
              q = src'.pos, e = Limit', w = tokenvec', m = pos', tok = t.tok
       PROVE  Placed(w, m, s, q, e)
  <2>1. /\ v \in [Slots -> Tokens(Char)] /\ n \in 0 .. 5
        /\ s \in Seq(Char) /\ p \in 0 .. Len(s) /\ l \in 0 .. p
        /\ q \in p .. Len(s) /\ (p < q \/ q = Len(s)) /\ e \in l .. q
        /\ tok \in Tokens(Char)
    BY <1>2, <1>3, <1>4, <1>5, <1>7, <1>8, <1>10, Zenon
  <2>2. Placed(v, n, s, p, l) /\ w = [v EXCEPT ![n] = tok]
    BY <1>2, <1>6, <1>10, Zenon
  <2>3. \/ m = n
        \/ /\ m = n + 1 /\ e = q
           /\ p <= tok.pos /\ TokenEnd(tok) <= q
           /\ tok.val = Part(s, tok.pos, tok.len) /\ EndsBefore(tok, s, q)
    BY <1>2, <1>5, <1>8, <1>10, Zenon
  <2> QED
    BY <2>1, <2>2, <2>3, FetchedPlaced
<1>11. PlacedInv'
  <2>1. Limit' <= src'.pos
    BY <1>7, <1>8
  <2> QED
    BY <1>9, <1>10, <2>1 DEF PlacedInv
<1>12. LongInv'
  <2>1. last_comment'.type = "c" => LongComment(last_comment', Len(src'.s))
    <3>1. CASE ~t.more
      BY <1>2, <1>9, <3>1 DEF TextInv, LongInv
    <3>2. CASE t.more /\ t.tok.type = "c"
      BY <1>2, <1>5, <1>9, <3>2
    <3>3. CASE t.more /\ t.tok.type # "c"
      <4>1. last_comment'.type = Null
        BY <1>2, <1>3, <3>3 DEF Tokens
      <4> QED
        BY <4>1 DEF Null
    <3> QED
      BY <3>1, <3>2, <3>3
  <2>2. pc' \notin {"done", "judge"}
    BY <1>1, <1>2
  <2> QED
    BY <2>1, <2>2 DEF LongInv
<1> QED
  BY <1>11, <1>12 DEF TextInv

-----------------------------------------------------------------------------
(* The steps that end the fold.                                             *)

LEMMA RetypedPlaced ==
    ASSUME NEW Char, NEW v \in [Slots -> Tokens(Char)], NEW w, NEW n \in 0 .. 6,
           NEW s, NEW p, NEW l, Placed(v, n, s, p, l),
           \A k \in 0 .. n - 1 : SameWord(w[k], v[k])
    PROVE  Placed(w, n, s, p, l)
<1> DEFINE g == [k \in 0 .. n - 1 |-> k]
<1>1. n \in Nat /\ g \in [0 .. n - 1 -> 0 .. n - 1] /\ \A k \in 0 .. n - 1 : g[k] = k
  OBVIOUS
<1>2. \A j, k \in 0 .. n - 1 : j < k => j <= k
  OBVIOUS
<1> HIDE DEF g
<1>3. /\ \A j, k \in 0 .. n - 1 : j < k => g[j] <= g[k]
      /\ \A k \in 0 .. n - 1 : SameWord(w[k], v[g[k]])
  BY <1>1, <1>2
<1> QED
  BY <1>1, <1>3, RearrangedPlaced

LEMMA DonePlaced ==
    ASSUME NEW Char, SqliInv(Char), TextInv, Folding,
           src' = src, last_comment' = last_comment, pos' = pos,
           \A k \in 0 .. pos - 1 : SameWord(tokenvec'[k], tokenvec[k])
    PROVE  PlacedInv'
<1>1. /\ tokenvec \in [Slots -> Tokens(Char)] /\ pos \in 0 .. 6
      /\ Limit <= src.pos /\ Placed(tokenvec, pos, src.s, src.pos, Limit)
  BY FoldingFacts DEF TextInv, PlacedInv
<1>2. ASSUME NEW v, NEW w, NEW n, NEW s, NEW p, NEW l, v = tokenvec,
             w = tokenvec', n = pos, s = src.s, p = src.pos, l = Limit
      PROVE  Placed(w, n, s, p, l)
  <2>1. /\ v \in [Slots -> Tokens(Char)] /\ n \in 0 .. 6 /\ Placed(v, n, s, p, l)
        /\ \A k \in 0 .. n - 1 : SameWord(w[k], v[k])
    BY <1>1, <1>2, Zenon
  <2> QED
    BY <2>1, RetypedPlaced
<1>3. Limit' = Limit
  BY DEF Limit
<1> QED
  BY <1>1, <1>2, <1>3 DEF PlacedInv

LEMMA FinishText ==
    ASSUME NEW Char, SqliInv(Char), TextInv, UNCHANGED fingerprint, Finish
    PROVE  TextInv'
<1>1. /\ Folding /\ pc' = "done" /\ src' = src /\ pos' = pos
      /\ last_comment' = last_comment
  BY DEF Finish, Folding
<1>2. /\ pos \in 0 .. 6 /\ tokenvec \in [Slots -> Tokens(Char)]
      /\ \A k \in 0 .. pos - 1 : k \in Slots /\ tokenvec[k].type # "c"
  BY <1>1, FoldingFacts
<1>3. /\ last_comment.type = "c" => LongComment(last_comment, Len(src.s))
      /\ Placed(tokenvec, pos, src.s, src.pos, Limit)
  BY <1>1 DEF TextInv, LongInv, PlacedInv
<1>4. CASE pos < MaxTokens /\ last_comment.type = "c"
  <2>1. tokenvec' = [tokenvec EXCEPT ![pos] = last_comment] /\ tlen' = pos + 1
    BY <1>4 DEF Finish
  <2>2. pos \in Slots /\ \A k \in 0 .. pos - 1 : k # pos
    BY <1>2 DEF Slots
  <2>3. tokenvec'[pos] = last_comment /\ \A k \in 0 .. pos - 1 : tokenvec'[k] = tokenvec[k]
    BY <1>2, <2>1, <2>2
  <2>4. PlacedInv'
    BY <1>1, <2>3, DonePlaced, SameWordAgain
  <2>5. ASSUME tlen' = 2
        PROVE  /\ LongComment(tokenvec'[1], Len(src'.s))
               /\ TokenEnd(tokenvec'[0]) <= tokenvec'[1].pos
    <3>1. pos = 1 /\ 0 \in 0 .. pos - 1
      BY <1>2, <2>1, <2>5
    <3>2. TokenEnd(tokenvec[0]) <= Limit
      BY <1>3, <3>1 DEF Placed
    <3> QED
      BY <1>1, <1>3, <1>4, <2>3, <3>1, <3>2 DEF Limit
  <2>6. LongInv'
    BY <1>1, <1>3, <2>5 DEF LongInv
  <2> QED
    BY <2>4, <2>6 DEF TextInv
<1>5. CASE ~(pos < MaxTokens /\ last_comment.type = "c")
  <2>1. tlen' = Min({pos, MaxTokens}) /\ tokenvec' = tokenvec
    BY <1>5 DEF Finish
  <2>2. PlacedInv'
    BY <1>1, <2>1, DonePlaced, SameWordAgain
  <2>3. tlen' = 2 => tokenvec'[1].type # "c"
    <3>1. {pos, MaxTokens} \in SUBSET Nat /\ {pos, MaxTokens} # {}
      BY <1>2 DEF MaxTokens
    <3>2. Min({pos, MaxTokens}) \in {pos, MaxTokens}
      BY <3>1, MinOf
    <3>3. tlen' = 2 => pos = 2
      BY <2>1, <3>2 DEF MaxTokens
    <3>4. tlen' = 2 => 1 \in 0 .. pos - 1
      BY <3>3
    <3> QED
      BY <1>2, <2>1, <3>4
  <2>4. LongInv'
    BY <1>1, <1>3, <2>3 DEF LongInv
  <2> QED
    BY <2>2, <2>4 DEF TextInv
<1> QED
  BY <1>4, <1>5

LEMMA FoldBraceText ==
    ASSUME NEW Char, SqliInv(Char), TextInv, UNCHANGED fingerprint, FoldBrace
    PROVE  TextInv'
<1>1. TwoTokens({"brace"})
  BY DEF FoldBrace
<1>2. /\ Folding /\ src' = src /\ last_comment' = last_comment
      /\ pos \in 2 .. 6 /\ left \in 0 .. pos - 2 /\ left + 1 \in Slots
      /\ tokenvec \in [Slots -> Tokens(Char)]
      /\ \A k \in 0 .. pos - 1 : k \in Slots
  BY <1>1, TwoTokensText
<1>3. CASE Drop(2, 0) /\ UNCHANGED tokenvec
  <2>1. pos' \in 0 .. pos /\ Folding'
    <3>1. 2 \in 0 .. pos /\ pos \in 0 .. 6
      BY <1>2
    <3> QED
      BY <1>3, <3>1, DropText
  <2> QED
    BY <1>2, <1>3, <2>1, RetypedText, SameWordAgain
<1>4. CASE /\ tokenvec' = [tokenvec EXCEPT ![left + 1].type = "X"]
           /\ tlen' = left + 2 /\ pc' = "done"
           /\ UNCHANGED <<pos, left>>
  <2>1. /\ tokenvec'[left + 1] = [tokenvec[left + 1] EXCEPT !.type = "X"]
        /\ \A k \in Slots : k # left + 1 => tokenvec'[k] = tokenvec[k]
    BY <1>2, <1>4
  <2>2. "X" \notin WordTypes
    BY DEF WordTypes
  <2>3. \A k \in 0 .. pos - 1 : SameWord(tokenvec'[k], tokenvec[k])
    BY <1>2, <2>1, <2>2, RetypedWord, SameWordAgain
  <2>4. PlacedInv'
    BY <1>2, <1>4, <2>3, DonePlaced
  <2>5. tlen' = 2 => tokenvec'[1].type = "X"
    <3>1. tlen' = 2 => left + 1 = 1
      BY <1>2, <1>4
    <3>2. tokenvec[left + 1] \in Tokens(Char)
      BY <1>2
    <3>3. tokenvec'[left + 1].type = "X"
      BY <2>1, <3>2 DEF Tokens
    <3> QED
      BY <3>1, <3>3
  <2>6. LongInv'
    BY <1>2, <1>4, <2>5 DEF TextInv, LongInv
  <2> QED
    BY <2>4, <2>6 DEF TextInv
<1> QED
  BY <1>3, <1>4 DEF FoldBrace

LEMMA FingerprintText ==
    ASSUME NEW Char, SqliInv(Char), TextInv, libinjection_sqli_fingerprint
    PROVE  TextInv'
<1> DEFINE types == IF tlen > 2 /\ PhpBacktick(tokenvec[tlen - 1])
                    THEN [Result EXCEPT ![tlen] = "c"] ELSE Result
           evil  == \E k \in 1 .. tlen : types[k] = "X"
<1>1. /\ pc = "done" /\ pc' = "judge" /\ src' = src
      /\ last_comment' = last_comment /\ tlen' = tlen
      /\ fingerprint' = IF evil THEN <<"X">> ELSE types
      /\ tokenvec' = IF evil
              THEN [tokenvec EXCEPT ![0].type = "X", ![0].val = <<"X">>,
                                    ![1].type = Null]
              ELSE [k \in Slots |-> IF k < tlen
                      THEN [tokenvec[k] EXCEPT !.type = types[k + 1]]
                      ELSE tokenvec[k]]
  BY DEF libinjection_sqli_fingerprint
<1>2. /\ tokenvec \in [Slots -> Tokens(Char)] /\ tlen \in 0 .. 6 /\ tlen \in 0 .. 8
      /\ tokenvec[0] \in Tokens(Char) /\ tokenvec[1] \in Tokens(Char)
      /\ 0 \in Slots /\ 1 \in Slots
  BY DEF SqliInv, SqliType, Slots
<1>3. /\ Result \in Seq({tokenvec[k].type : k \in Slots})
      /\ Len(Result) = tlen /\ DOMAIN Result = 1 .. tlen
      /\ \A k \in 1 .. tlen : Result[k] = tokenvec[k - 1].type
  BY <1>2, ResultIs DEF Result
<1>4. Len(types) = tlen /\ (tlen = 2 => types[1] = tokenvec[0].type
                                        /\ types[2] = tokenvec[1].type)
  <2>1. CASE tlen > 2 /\ PhpBacktick(tokenvec[tlen - 1])
    <3>1. types = [Result EXCEPT ![tlen] = "c"]
      BY <2>1
    <3>2. Len([Result EXCEPT ![tlen] = "c"]) = Len(Result)
      <4> DEFINE S == {tokenvec[k].type : k \in Slots} \cup {"c"}
      <4>1. Result \in Seq(S)
        BY <1>3, SeqMonotonic
      <4>2. tlen \in 1 .. Len(Result) /\ "c" \in S
        BY <1>2, <1>3, <2>1
      <4> HIDE DEF S
      <4> QED
        BY <4>1, <4>2, ExceptSeq
    <3>3. tlen # 2
      BY <1>2, <2>1
    <3> QED
      BY <1>3, <3>1, <3>2, <3>3
  <2>2. CASE ~(tlen > 2 /\ PhpBacktick(tokenvec[tlen - 1]))
    <3>1. types = Result
      BY <2>2
    <3>2. tlen = 2 => 1 \in 1 .. tlen /\ 2 \in 1 .. tlen /\ 1 - 1 = 0 /\ 2 - 1 = 1
      OBVIOUS
    <3> HIDE DEF types
    <3> QED
      BY <1>3, <3>1, <3>2
  <2> QED
    BY <2>1, <2>2
<1> HIDE DEF types
<1>5. Len(fingerprint') \in {1, tlen}
  <2>1. Len(<<"X">>) = 1
    OBVIOUS
  <2> QED
    BY <1>1, <1>4, <2>1
<1>6. ASSUME tlen = 2, tokenvec'[1].type = "c"
      PROVE  /\ LongComment(tokenvec'[1], Len(src'.s))
             /\ TokenEnd(tokenvec'[0]) <= tokenvec'[1].pos
  <2>1. ~evil
    <3>1. SUFFICES ASSUME evil PROVE FALSE
      OBVIOUS
    <3>2. tokenvec' = [tokenvec EXCEPT ![0].type = "X", ![0].val = <<"X">>,
                                       ![1].type = Null]
      BY <1>1, <3>1
    <3>3. tokenvec'[1] = [tokenvec[1] EXCEPT !.type = Null]
      BY <1>2, <3>2
    <3>4. tokenvec'[1].type = Null
      BY <1>2, <3>3 DEF Tokens
    <3> QED
      BY <1>6, <3>4 DEF Null
  <2>2. /\ tokenvec'[0] = [tokenvec[0] EXCEPT !.type = types[0 + 1]]
        /\ tokenvec'[1] = [tokenvec[1] EXCEPT !.type = types[1 + 1]]
    <3>1. tokenvec' = [k \in Slots |-> IF k < tlen
                          THEN [tokenvec[k] EXCEPT !.type = types[k + 1]]
                          ELSE tokenvec[k]]
      BY <1>1, <2>1
    <3>2. 0 < tlen /\ 1 < tlen
      BY <1>6
    <3> HIDE DEF evil
    <3> QED
      BY <1>2, <3>1, <3>2
  <2>3. types[0 + 1] = tokenvec[0].type /\ types[1 + 1] = tokenvec[1].type
    BY <1>4, <1>6
  <2>4. tokenvec'[0] = tokenvec[0] /\ tokenvec'[1] = tokenvec[1]
    <3>1. \A t \in Tokens(Char) : \A x : x = t.type => [t EXCEPT !.type = x] = t
      BY DEF Tokens
    <3> QED
      BY <1>2, <2>2, <2>3, <3>1
  <2>5. /\ LongComment(tokenvec[1], Len(src.s))
        /\ TokenEnd(tokenvec[0]) <= tokenvec[1].pos
    BY <1>1, <1>6, <2>4 DEF TextInv, LongInv
  <2> QED
    BY <1>1, <2>4, <2>5
<1>7. PlacedInv'
  BY <1>1 DEF PlacedInv, Folding
<1>8. LongInv'
  <2>1. last_comment'.type = "c" => LongComment(last_comment', Len(src'.s))
    BY <1>1 DEF TextInv, LongInv
  <2> QED
    BY <1>1, <1>5, <1>6, <2>1 DEF LongInv
<1> QED
  BY <1>7, <1>8 DEF TextInv

-----------------------------------------------------------------------------
(* The invariant.                                                           *)

LEMMA StartsText ==
    ASSUME NEW Char, SqliInv(Char), NEW s, NEW quote, NEW sql,
           FoldInit(Source(s, quote, sql))
    PROVE  TextInv
<1>1. /\ src = Source(s, quote, sql) /\ pos = 0 /\ last_comment = NoToken
      /\ pc = "skip"
  BY DEF FoldInit
<1>2. last_comment.type # "c" /\ Limit = src.pos
  BY <1>1 DEF NoToken, Null, Limit
<1>3. src.pos \in Nat /\ src.pos <= src.pos
  BY DEF SqliInv, SqliType, Sources
<1>4. \A k : k \notin 0 .. 0 - 1
  OBVIOUS
<1>5. PlacedInv
  BY <1>1, <1>2, <1>3, <1>4 DEF PlacedInv, Placed
<1> QED
  BY <1>1, <1>2, <1>5 DEF TextInv, LongInv

LEMMA RestartsText ==
    ASSUME NEW Char, SqliInv(Char)', NEW s, NEW quote, NEW sql,
           src' = Source(s, quote, sql), pos' = 0, last_comment' = NoToken,
           pc' = "skip"
    PROVE  TextInv'
<1>1. Folding'
  BY DEF Folding
<1>2. last_comment'.type # "c" /\ Limit' = src'.pos
  BY <1>1 DEF NoToken, Null, Limit
<1>3. src'.pos \in Nat /\ src'.pos <= src'.pos
  BY DEF SqliInv, SqliType, Sources
<1>4. \A k : k \notin 0 .. 0 - 1
  OBVIOUS
<1>5. PlacedInv'
  BY <1>1, <1>2, <1>3, <1>4 DEF PlacedInv, Placed
<1> QED
  BY <1>1, <1>2, <1>5 DEF TextInv, LongInv

LEMMA FoldText ==
    ASSUME NEW Char, Blank \in Char, SqliInv(Char), TextInv, Fold
    PROVE  TextInv'
<1>1. FoldNext /\ UNCHANGED fingerprint
  BY DEF Fold
<1>2. CASE SkipInitial
  BY <1>1, <1>2, SkipInitialText
<1>3. CASE FoldFive
  BY <1>1, <1>3, FoldFiveText
<1>4. CASE LoopOrEnd \/ FewerThanTwo \/ FewerThanThree
  BY <1>1, <1>4, LoopText
<1>5. CASE Finish
  BY <1>1, <1>5, FinishText
<1>6. CASE FetchTwo \/ FetchThree
  BY <1>1, <1>6, FetchText
<1>7. CASE FoldRepeated \/ FoldSecond \/ FoldLeftUnary \/ FoldExpression
  BY <1>1, <1>7, DroppingText
<1>8. CASE FoldMerge
  BY <1>1, <1>8, FoldMergeText
<1>9. CASE FoldCast \/ FoldSign \/ FoldComma
  BY <1>1, <1>9, CopyingText
<1>10. CASE FoldRetype \/ ToThree \/ Advance
  BY <1>1, <1>10, RetypingText
<1>11. CASE FoldBackslash
  BY <1>1, <1>11, CopyingText, RetypingText
<1>12. CASE FoldBrace
  BY <1>1, <1>12, FoldBraceText
<1> QED
  BY <1>1, <1>2, <1>3, <1>4, <1>5, <1>6, <1>7, <1>8, <1>9, <1>10, <1>11, <1>12
     DEF FoldNext

LEMMA StepText ==
    ASSUME NEW Char, Blank \in Char, "X" \in Char, SqliInv(Char), TextInv,
           [Next]_vars
    PROVE  TextInv'
<1>1. SqliInv(Char)'
  BY StepKeeps
<1>2. CASE Fold
  BY <1>2, FoldText
<1>3. CASE libinjection_sqli_fingerprint
  BY <1>3, FingerprintText
<1>4. CASE Reset
  <2>1. PICK c \in NextContexts : src' = Source(src.s, c.quote, c.sql)
    BY <1>4 DEF Reset
  <2>2. pos' = 0 /\ last_comment' = NoToken /\ pc' = "skip"
    BY <1>4 DEF Reset
  <2> QED
    BY <1>1, <2>1, <2>2, RestartsText
<1>5. CASE UNCHANGED foldVars /\ UNCHANGED fingerprint
  <2>1. /\ src' = src /\ tokenvec' = tokenvec /\ pos' = pos /\ tlen' = tlen
        /\ last_comment' = last_comment /\ pc' = pc /\ fingerprint' = fingerprint
    BY <1>5 DEF foldVars
  <2>2. Limit' = Limit /\ (Folding' <=> Folding)
    BY <2>1 DEF Limit, Folding
  <2>3. PlacedInv'
    BY <2>1, <2>2 DEF TextInv, PlacedInv
  <2>4. LongInv'
    BY <2>1 DEF TextInv, LongInv
  <2> QED
    BY <2>3, <2>4 DEF TextInv
<1>6. CASE UNCHANGED vars
  BY <1>5, <1>6 DEF vars, foldVars
<1> QED
  BY <1>2, <1>3, <1>4, <1>5, <1>6 DEF Next, Returned, Sqli, Benign

\* TextInv is an invariant of the detector, on every set of texts.
THEOREM TextInvariantHolds ==
    ASSUME NEW CONSTANT Char, NEW CONSTANT texts \in SUBSET Seq(Char)
    PROVE  Init(texts) /\ [][Next]_vars =>
               [](SqliInv(Written(Char)) /\ TextInv)
<1>1. Init(texts) /\ SqliInv(Written(Char)) => TextInv
  <2> SUFFICES ASSUME Init(texts), SqliInv(Written(Char)) PROVE TextInv
    OBVIOUS
  <2>1. PICK s \in texts : FoldInit(Source(s, "none", "ansi"))
    BY DEF Init
  <2> QED
    BY <2>1, StartsText
<1>2. SqliInv(Written(Char)) /\ TextInv /\ [Next]_vars => TextInv'
  BY StepText DEF Written
<1> QED
  BY <1>1, <1>2, InvariantHolds, PTL

\* A token that the fold keeps, also a phrase that was merged of several, lies
\* in the part of the text that has been read, and that part lies in the text.
THEOREM TokensStayInText ==
    ASSUME NEW CONSTANT Char, NEW CONSTANT texts \in SUBSET Seq(Char)
    PROVE  Init(texts) /\ [][Next]_vars => []TokensInText
<1>1. SqliInv(Written(Char)) /\ TextInv => TokensInText
  <2> SUFFICES ASSUME SqliInv(Written(Char)), TextInv PROVE TokensInText
    OBVIOUS
  <2>1. /\ src.pos <= Len(src.s) /\ src.pos \in Nat /\ Limit \in Nat
        /\ tokenvec \in [Slots -> Tokens(Written(Char))] /\ pos \in 0 .. 6
    BY DEF SqliInv, SqliType, Sources, Tokens, Limit
  <2>2. ASSUME pc # "judge", NEW k \in 0 .. pos - 1
        PROVE  tokenvec[k].pos + tokenvec[k].len <= src.pos
    <3>1. Limit <= src.pos /\ TokenEnd(tokenvec[k]) <= Limit
      BY <2>2 DEF TextInv, PlacedInv, Placed, Folding
    <3>2. tokenvec[k] \in Tokens(Written(Char))
      <4>1. k \in Slots
        BY <2>1 DEF Slots
      <4> QED
        BY <2>1, <4>1
    <3>3. tokenvec[k].pos \in Nat /\ tokenvec[k].len \in Nat
      BY <3>2 DEF Tokens
    <3> QED
      BY <2>1, <3>1, <3>3 DEF TokenEnd
  <2> QED
    BY <2>1, <2>2 DEF TokensInText
<1> QED
  BY <1>1, TextInvariantHolds, PTL

\* When a number and a comment are the whole fingerprint, the character after
\* the number and the one after that are in the text.
THEOREM ReadsStayInText ==
    ASSUME NEW CONSTANT Char, NEW CONSTANT texts \in SUBSET Seq(Char)
    PROVE  Init(texts) /\ [][Next]_vars => []ReadsInText
<1>1. SqliInv(Written(Char)) /\ TextInv => ReadsInText
  <2> SUFFICES ASSUME SqliInv(Written(Char)), TextInv, pc = "judge",
                      Len(fingerprint) = 2, tokenvec[1].type = "c",
                      FirstChar(tokenvec[1]) \notin {"#", "/"}
               PROVE  tokenvec[0].len + 1 < Len(src.s)
    BY DEF ReadsInText
  <2>1. tlen = 2
    BY DEF TextInv, LongInv
  <2>2. /\ LongComment(tokenvec[1], Len(src.s))
        /\ TokenEnd(tokenvec[0]) <= tokenvec[1].pos
    BY <2>1 DEF TextInv, LongInv
  <2>3. tokenvec[0] \in Tokens(Written(Char)) /\ tokenvec[1] \in Tokens(Written(Char))
    BY DEF SqliInv, SqliType, Slots
  <2>4. Len(src.s) \in Nat
    <3>1. src.s \in Seq(Written(Char))
      BY DEF SqliInv, SqliType, Sources
    <3> QED
      BY <3>1
  <2>5. /\ tokenvec[0].pos \in Nat /\ tokenvec[0].len \in Nat
        /\ tokenvec[1].pos \in Nat
    BY <2>3 DEF Tokens
  <2>6. \A a, b, c, n \in Nat : c + 2 <= n /\ a + b <= c => b + 1 < n
    OBVIOUS
  <2>7. /\ tokenvec[1].pos + 2 <= Len(src.s)
        /\ tokenvec[0].pos + tokenvec[0].len <= tokenvec[1].pos
    BY <2>2 DEF LongComment, TokenEnd
  <2> QED
    BY <2>4, <2>5, <2>6, <2>7
<1> QED
  BY <1>1, TextInvariantHolds, PTL

-----------------------------------------------------------------------------
(* The work of the fold.                                                    *)

\* What the steps that are still possible without another token are paid from.
\* A token that is kept pays for going back to the first one when it is dropped;
\* so does one that gets a type that no rule changes.
Weight(t) == IF t.type \in {"t", "1"} THEN 48 ELSE 72

Weights(v, n) ==
    LET at(k) == IF k < n THEN Weight(v[k]) ELSE 0
    IN  at(0) + at(1) + at(2) + at(3) + at(4) + at(5)

\* The loop may give a type to one of the two tokens, and look at them again.
Retypes(a, b) ==
    \/ a.type = "k"
    \/ a.type \in {"n", "v"} /\ b.type = "("
    \/ a.type = ";" /\ b.type = "f"

Again(v, l) == IF Retypes(v[l], v[l + 1]) THEN 2 ELSE 0

\* From tokens of weight w, of which l are folded; r is for looking again.
Owes(loop, found, w, l, r) ==
    IF loop \in {"done", "judge"} THEN 0
    ELSE IF ~found THEN CASE loop = "end" -> 1 [] loop = "full" -> 2 [] OTHER -> 3
    ELSE w + 5 * (6 - l) + (CASE loop = "skip" -> 3 [] loop = "full" -> 3 + r
                              [] loop = "two" -> 2 + r [] OTHER -> 1)

Owed == Owes(pc, more, Weights(tokenvec, pos), left, Again(tokenvec, left))

Paid(s, o, t) == s \in Nat /\ s + o <= WorkPerToken * t + 33

WorkInv == Paid(steps, Owed, src.tokens)

LEMMA SixTerms ==
    ASSUME NEW n \in 0 .. 6, NEW m \in 0 .. n, NEW i \in Int,
           NEW a \in [0 .. 5 -> Int], NEW b \in [0 .. 5 -> Int],
           \A k \in 0 .. 5 : b[k] + (IF m <= k /\ k < n THEN 48 ELSE 0)
                                 <= a[k] + (IF k = i THEN 24 ELSE 0)
    PROVE  b[0] + b[1] + b[2] + b[3] + b[4] + b[5] + 48 * (n - m)
               <= a[0] + a[1] + a[2] + a[3] + a[4] + a[5] + 24
<1> DEFINE d(k) == IF m <= k /\ k < n THEN 48 ELSE 0
           e(k) == IF k = i THEN 24 ELSE 0
<1>1. d(0) + d(1) + d(2) + d(3) + d(4) + d(5) = 48 * (n - m)
  OBVIOUS
<1>2. e(0) + e(1) + e(2) + e(3) + e(4) + e(5) <= 24
  OBVIOUS
<1>3. \A k \in 0 .. 5 : d(k) \in Int /\ e(k) \in Int /\ a[k] \in Int /\ b[k] \in Int
                       /\ b[k] + d(k) <= a[k] + e(k)
  OBVIOUS
<1> HIDE DEF d, e
<1>4. /\ 0 \in 0 .. 5 /\ 1 \in 0 .. 5 /\ 2 \in 0 .. 5
      /\ 3 \in 0 .. 5 /\ 4 \in 0 .. 5 /\ 5 \in 0 .. 5
  OBVIOUS
<1> QED
  BY <1>1, <1>2, <1>3, <1>4

LEMMA WeightsAre ==
    ASSUME NEW v, NEW n \in Int
    PROVE  LET a == [k \in 0 .. 5 |-> IF k < n THEN Weight(v[k]) ELSE 0]
           IN  /\ a \in [0 .. 5 -> {0, 48, 72}] /\ a \in [0 .. 5 -> Int]
               /\ Weights(v, n) = a[0] + a[1] + a[2] + a[3] + a[4] + a[5]
               /\ Weights(v, n) \in Nat
               /\ \A k \in 0 .. 5 : a[k] = IF k < n THEN Weight(v[k]) ELSE 0
<1> DEFINE at(k) == IF k < n THEN Weight(v[k]) ELSE 0
           a == [k \in 0 .. 5 |-> at(k)]
<1>1. Weights(v, n) = at(0) + at(1) + at(2) + at(3) + at(4) + at(5)
  BY DEF Weights
<1>2. \A k : at(k) \in {0, 48, 72}
  BY DEF Weight
<1> HIDE DEF at
<1>3. /\ a[0] = at(0) /\ a[1] = at(1) /\ a[2] = at(2)
      /\ a[3] = at(3) /\ a[4] = at(4) /\ a[5] = at(5)
      /\ \A k \in 0 .. 5 : a[k] = at(k)
  OBVIOUS
<1>4. a \in [0 .. 5 -> {0, 48, 72}] /\ a \in [0 .. 5 -> Int]
  BY <1>2
<1>5. Weights(v, n) \in Nat
  BY <1>1, <1>2
<1> QED
  BY <1>1, <1>3, <1>4, <1>5 DEF at

\* Tokens are dropped, and another is written at i.
LEMMA WeightsFall ==
    ASSUME NEW v, NEW w, NEW n \in 0 .. 6, NEW m \in 0 .. n, NEW i \in Int,
           \A k \in 0 .. m - 1 : k # i => Weight(w[k]) <= Weight(v[k])
    PROVE  Weights(w, m) + 48 * (n - m) <= Weights(v, n) + 24
<1> DEFINE a == [k \in 0 .. 5 |-> IF k < n THEN Weight(v[k]) ELSE 0]
           b == [k \in 0 .. 5 |-> IF k < m THEN Weight(w[k]) ELSE 0]
<1>1. /\ a \in [0 .. 5 -> Int]
      /\ Weights(v, n) = a[0] + a[1] + a[2] + a[3] + a[4] + a[5]
      /\ \A k \in 0 .. 5 : a[k] = IF k < n THEN Weight(v[k]) ELSE 0
  BY WeightsAre
<1>2. /\ b \in [0 .. 5 -> Int]
      /\ Weights(w, m) = b[0] + b[1] + b[2] + b[3] + b[4] + b[5]
      /\ \A k \in 0 .. 5 : b[k] = IF k < m THEN Weight(w[k]) ELSE 0
  BY WeightsAre
<1> HIDE DEF a, b
<1>3. \A k \in 0 .. 5 : b[k] + (IF m <= k /\ k < n THEN 48 ELSE 0)
                            <= a[k] + (IF k = i THEN 24 ELSE 0)
  <2> TAKE k \in 0 .. 5
  <2>1. Weight(w[k]) \in {48, 72} /\ Weight(v[k]) \in {48, 72}
    BY DEF Weight
  <2>2. k < m /\ k # i => Weight(w[k]) <= Weight(v[k])
    OBVIOUS
  <2>a. /\ a[k] = (IF k < n THEN Weight(v[k]) ELSE 0)
        /\ b[k] = (IF k < m THEN Weight(w[k]) ELSE 0)
    BY <1>1, <1>2
  <2>b. PICK x \in {48, 72} : x = Weight(v[k])
    BY <2>1
  <2>c. PICK y \in {48, 72} : y = Weight(w[k])
    BY <2>1
  <2>d. PICK p : p = a[k]
    OBVIOUS
  <2>e. PICK q : q = b[k]
    OBVIOUS
  <2>f. p = (IF k < n THEN x ELSE 0) /\ q = (IF k < m THEN y ELSE 0)
    BY <2>a, <2>b, <2>c, <2>d, <2>e, Zenon
  <2>g. k < m /\ k # i => y <= x
    BY <2>2, <2>b, <2>c, Zenon
  <2>h. q + (IF m <= k /\ k < n THEN 48 ELSE 0) <= p + (IF k = i THEN 24 ELSE 0)
    BY <2>f, <2>g
  <2> QED
    BY <2>d, <2>e, <2>h, Zenon
<1> QED
  BY <1>1, <1>2, <1>3, SixTerms

\* Types are changed: by at least c at i.
LEMMA WeightsRetyped ==
    ASSUME NEW v, NEW w, NEW n \in 0 .. 6, NEW i \in Int, NEW c \in {0, 24},
           \A k \in 0 .. n - 1 :
               Weight(w[k]) + (IF k = i THEN c ELSE 0) <= Weight(v[k]),
           c = 24 => i \in 0 .. n - 1
    PROVE  Weights(w, n) + c <= Weights(v, n)
<1> DEFINE a == [k \in 0 .. 5 |-> IF k < n THEN Weight(v[k]) ELSE 0]
           b == [k \in 0 .. 5 |-> IF k < n THEN Weight(w[k]) ELSE 0]
           e(k) == IF k = i THEN c ELSE 0
<1>1. /\ a \in [0 .. 5 -> Int]
      /\ Weights(v, n) = a[0] + a[1] + a[2] + a[3] + a[4] + a[5]
      /\ \A k \in 0 .. 5 : a[k] = IF k < n THEN Weight(v[k]) ELSE 0
  BY WeightsAre
<1>2. /\ b \in [0 .. 5 -> Int]
      /\ Weights(w, n) = b[0] + b[1] + b[2] + b[3] + b[4] + b[5]
      /\ \A k \in 0 .. 5 : b[k] = IF k < n THEN Weight(w[k]) ELSE 0
  BY WeightsAre
<1> HIDE DEF a, b
<1>3. ASSUME NEW k \in 0 .. 5 PROVE b[k] + e(k) <= a[k]
  <2>1. Weight(w[k]) \in {48, 72} /\ Weight(v[k]) \in {48, 72}
    BY DEF Weight
  <2>2. k < n => Weight(w[k]) + e(k) <= Weight(v[k])
    OBVIOUS
  <2>3. e(k) \in {0, 24} /\ (~(k < n) => e(k) = 0)
    OBVIOUS
  <2> HIDE DEF e
  <2>a. /\ a[k] = (IF k < n THEN Weight(v[k]) ELSE 0)
        /\ b[k] = (IF k < n THEN Weight(w[k]) ELSE 0)
    BY <1>1, <1>2
  <2>b. PICK x \in {48, 72} : x = Weight(v[k])
    BY <2>1
  <2>c. PICK y \in {48, 72} : y = Weight(w[k])
    BY <2>1
  <2>d. PICK p : p = a[k]
    OBVIOUS
  <2>e. PICK q : q = b[k]
    OBVIOUS
  <2>f. p = (IF k < n THEN x ELSE 0) /\ q = (IF k < n THEN y ELSE 0)
    BY <2>a, <2>b, <2>c, <2>d, <2>e, Zenon
  <2>g. PICK z \in {0, 24} : z = e(k)
    BY <2>3
  <2>h. (k < n => y + z <= x) /\ (~(k < n) => z = 0)
    BY <2>2, <2>3, <2>b, <2>c, <2>g, Zenon
  <2>i. q + z <= p
    BY <2>f, <2>h
  <2> QED
    BY <2>d, <2>e, <2>g, <2>i, Zenon
<1>4. e(0) + e(1) + e(2) + e(3) + e(4) + e(5) >= c
  <2>1. c = 0 \/ i \in 0 .. 5
    OBVIOUS
  <2> QED
    BY <2>1
<1>5. \A k \in 0 .. 5 : e(k) \in Int /\ a[k] \in Int /\ b[k] \in Int
                       /\ b[k] + e(k) <= a[k]
  BY <1>1, <1>2, <1>3
<1> HIDE DEF e
<1>6. /\ 0 \in 0 .. 5 /\ 1 \in 0 .. 5 /\ 2 \in 0 .. 5
      /\ 3 \in 0 .. 5 /\ 4 \in 0 .. 5 /\ 5 \in 0 .. 5
  OBVIOUS
<1> QED
  BY <1>1, <1>2, <1>4, <1>5, <1>6

\* A token is added.
LEMMA WeightsGrow ==
    ASSUME NEW v, NEW w, NEW n \in 0 .. 5, NEW m \in {n, n + 1},
           \A k \in 0 .. n - 1 : w[k] = v[k]
    PROVE  /\ Weights(w, m) <= Weights(v, n) + 72
           /\ m = n => Weights(w, m) = Weights(v, n)
<1> DEFINE a == [k \in 0 .. 5 |-> IF k < n THEN Weight(v[k]) ELSE 0]
           b == [k \in 0 .. 5 |-> IF k < m THEN Weight(w[k]) ELSE 0]
           e(k) == IF k = n /\ m = n + 1 THEN 72 ELSE 0
<1>1. /\ a \in [0 .. 5 -> Int]
      /\ Weights(v, n) = a[0] + a[1] + a[2] + a[3] + a[4] + a[5]
      /\ \A k \in 0 .. 5 : a[k] = IF k < n THEN Weight(v[k]) ELSE 0
  BY WeightsAre
<1>2. /\ b \in [0 .. 5 -> Int]
      /\ Weights(w, m) = b[0] + b[1] + b[2] + b[3] + b[4] + b[5]
      /\ \A k \in 0 .. 5 : b[k] = IF k < m THEN Weight(w[k]) ELSE 0
  BY WeightsAre
<1> HIDE DEF a, b
<1>3. ASSUME NEW k \in 0 .. 5
      PROVE  b[k] <= a[k] + e(k) /\ (m = n => b[k] = a[k])
  <2>1. Weight(w[k]) \in {48, 72} /\ Weight(v[k]) \in {48, 72}
    BY DEF Weight
  <2>2. k < n => w[k] = v[k]
    OBVIOUS
  <2>a. /\ a[k] = (IF k < n THEN Weight(v[k]) ELSE 0)
        /\ b[k] = (IF k < m THEN Weight(w[k]) ELSE 0)
    BY <1>1, <1>2
  <2>b. PICK x \in {48, 72} : x = Weight(v[k])
    BY <2>1
  <2>c. PICK y \in {48, 72} : y = Weight(w[k])
    BY <2>1
  <2>d. PICK p : p = a[k]
    OBVIOUS
  <2>e. PICK q : q = b[k]
    OBVIOUS
  <2>f. p = (IF k < n THEN x ELSE 0) /\ q = (IF k < m THEN y ELSE 0)
    BY <2>a, <2>b, <2>c, <2>d, <2>e, Zenon
  <2>g. k < n => y = x
    BY <2>2, <2>b, <2>c, Zenon
  <2>h. q <= p + (IF k = n /\ m = n + 1 THEN 72 ELSE 0) /\ (m = n => q = p)
    BY <2>f, <2>g
  <2> QED
    BY <2>d, <2>e, <2>h, Zenon
<1>4. e(0) + e(1) + e(2) + e(3) + e(4) + e(5) <= 72
  OBVIOUS
<1>5. \A k \in 0 .. 5 : e(k) \in Int /\ a[k] \in Int /\ b[k] \in Int
                       /\ b[k] <= a[k] + e(k)
  BY <1>1, <1>2, <1>3
<1> HIDE DEF e
<1>6. /\ 0 \in 0 .. 5 /\ 1 \in 0 .. 5 /\ 2 \in 0 .. 5
      /\ 3 \in 0 .. 5 /\ 4 \in 0 .. 5 /\ 5 \in 0 .. 5
  OBVIOUS
<1>7. Weights(w, m) <= Weights(v, n) + 72
  BY <1>1, <1>2, <1>4, <1>5, <1>6
<1>8. m = n => Weights(w, m) = Weights(v, n)
  BY <1>1, <1>2, <1>3, <1>6
<1> QED
  BY <1>7, <1>8

Loops == {"skip", "two", "three", "full", "end", "done", "judge"}

LEMMA OwesIs ==
    ASSUME NEW loop \in Loops, NEW found \in BOOLEAN, NEW w \in Nat,
           NEW l \in 0 .. 6, NEW r \in {0, 2}
    PROVE  Owes(loop, found, w, l, r) \in Nat
<1>1. 5 * (6 - l) \in Nat
  OBVIOUS
<1>2. CASE loop \in {"done", "judge"}
  BY <1>2 DEF Owes
<1>3. CASE loop \notin {"done", "judge"} /\ ~found
  BY <1>3 DEF Owes
<1>4. CASE loop \notin {"done", "judge"} /\ found
  <2>1. \A x, c \in Nat : w + x + c \in Nat
    OBVIOUS
  <2> QED
    BY <1>1, <1>4, <2>1 DEF Owes
<1> QED
  BY <1>2, <1>3, <1>4

LEMMA OwedIs ==
    ASSUME NEW Char, SqliInv(Char)
    PROVE  /\ pc \in Loops /\ more \in BOOLEAN /\ left \in 0 .. 6 /\ pos \in 0 .. 6
           /\ Weights(tokenvec, pos) \in Nat /\ Again(tokenvec, left) \in {0, 2}
           /\ Owed = Owes(pc, more, Weights(tokenvec, pos), left,
                          Again(tokenvec, left))
           /\ Owed \in Nat
<1>1. /\ pc \in Loops /\ more \in BOOLEAN /\ left \in 0 .. 6 /\ pos \in 0 .. 6
  BY DEF SqliInv, SqliType, Loops
<1>2. Weights(tokenvec, pos) \in Nat
  BY <1>1, WeightsAre
<1>3. Again(tokenvec, left) \in {0, 2}
  BY DEF Again
<1> QED
  BY <1>1, <1>2, <1>3, OwesIs, Zenon DEF Owed

LEMMA OwedNext ==
    ASSUME NEW Char, SqliInv(Char)'
    PROVE  /\ pc' \in Loops /\ more' \in BOOLEAN /\ left' \in 0 .. 6 /\ pos' \in 0 .. 6
           /\ Weights(tokenvec', pos') \in Nat /\ Again(tokenvec', left') \in {0, 2}
           /\ Owed' = Owes(pc', more', Weights(tokenvec', pos'), left',
                          Again(tokenvec', left'))
           /\ Owed' \in Nat
<1>1. /\ pc' \in Loops /\ more' \in BOOLEAN /\ left' \in 0 .. 6 /\ pos' \in 0 .. 6
  BY DEF SqliInv, SqliType, Loops
<1>2. Weights(tokenvec', pos') \in Nat
  BY <1>1, WeightsAre
<1>3. Again(tokenvec', left') \in {0, 2}
  BY DEF Again
<1> QED
  BY <1>1, <1>2, <1>3, OwesIs, Zenon DEF Owed

\* A step is paid from what was owed.
LEMMA StepPaid ==
    ASSUME NEW Char, SqliInv(Char), SqliInv(Char)', WorkInv, steps' = steps + 1,
           src'.tokens = src.tokens, Owed' + 1 <= Owed
    PROVE  WorkInv'
<1>1. src.tokens \in Nat
  BY DEF SqliInv, SqliType, Sources
<1>2. Owed \in Nat
  BY OwedIs, Zenon
<1>3. Owed' \in Nat
  BY OwedNext, Zenon
<1>4. \A s, t, o, q \in Nat :
          q + 1 <= o /\ Paid(s, o, t) => Paid(s + 1, q, t)
  BY DEF Paid, WorkPerToken
<1>5. Paid(steps, Owed, src.tokens) /\ steps \in Nat
  BY Zenon DEF WorkInv, Paid
<1>6. Paid(steps + 1, Owed', src.tokens)
  BY <1>1, <1>2, <1>3, <1>4, <1>5, Zenon
<1> QED
  BY <1>6, Zenon DEF WorkInv

\* A token pays for 75 steps.
LEMMA TokenPaid ==
    ASSUME NEW Char, SqliInv(Char), SqliInv(Char)', WorkInv, steps' = steps + 1,
           src'.tokens = src.tokens + 1, Owed' + 1 <= Owed + 75
    PROVE  WorkInv'
<1>1. src.tokens \in Nat
  BY DEF SqliInv, SqliType, Sources
<1>2. Owed \in Nat
  BY OwedIs, Zenon
<1>3. Owed' \in Nat
  BY OwedNext, Zenon
<1>4. \A s, t, o, q \in Nat :
          q + 1 <= o + 75 /\ Paid(s, o, t) => Paid(s + 1, q, t + 1)
  BY DEF Paid, WorkPerToken
<1>5. Paid(steps, Owed, src.tokens) /\ steps \in Nat
  BY Zenon DEF WorkInv, Paid
<1>6. Paid(steps + 1, Owed', src.tokens + 1)
  BY <1>1, <1>2, <1>3, <1>4, <1>5, Zenon
<1> QED
  BY <1>6, Zenon DEF WorkInv

\* A rule that lowers the weight of the tokens is paid, also when the loop goes
\* back to the first of them.
LEMMA LighterPaid ==
    ASSUME NEW Char, SqliInv(Char), SqliInv(Char)', more = TRUE, more' = TRUE,
           (pc = "two" /\ left \in 0 .. 4) \/ (pc = "three" /\ left \in 0 .. 3),
           pc' = "full" \/ pc' = "three",
           Weights(tokenvec', pos') + 24 <= Weights(tokenvec, pos)
    PROVE  Owed' + 1 <= Owed
<1>1. \A w, u \in Nat, r, q \in {0, 2}, k \in 0 .. 6 : u + 24 <= w =>
        /\ \A l \in 0 .. 4 : Owes("full", TRUE, u, k, q) + 1 <= Owes("two", TRUE, w, l, r)
        /\ \A l \in 0 .. 3 : Owes("full", TRUE, u, k, q) + 1 <= Owes("three", TRUE, w, l, r)
        /\ \A l \in 0 .. 4 : Owes("three", TRUE, u, k, q) + 1 <= Owes("two", TRUE, w, l, r)
        /\ \A l \in 0 .. 3 : Owes("three", TRUE, u, k, q) + 1 <= Owes("three", TRUE, w, l, r)
  BY DEF Owes
<1> DEFINE w == Weights(tokenvec, pos)
           u == Weights(tokenvec', pos')
           r == Again(tokenvec, left)
           q == Again(tokenvec', left')
<1>2. /\ w \in Nat /\ r \in {0, 2} /\ Owed = Owes(pc, TRUE, w, left, r)
      /\ u \in Nat /\ q \in {0, 2} /\ Owed' = Owes(pc', TRUE, u, left', q)
      /\ left' \in 0 .. 6 /\ u + 24 <= w
  BY OwedIs, OwedNext, Zenon
<1> HIDE DEF w, u, r, q
<1> QED
  BY <1>1, <1>2, Zenon

LEMMA TwoTokensWork ==
    ASSUME NEW Char, SqliInv(Char), NEW rules, TwoTokens(rules), UNCHANGED fingerprint
    PROVE  /\ pc = "two" /\ left \in 0 .. 4 /\ more = TRUE /\ more' = TRUE
           /\ src' = src
<1>1. pc = "two" /\ pos - left >= 2 /\ more' = more /\ more \in BOOLEAN
  BY DEF TwoTokens, SqliInv, SqliType
<1>2. left \in 0 .. pos - 2 /\ pos \in 2 .. 6
  BY TwoTokensText
<1>3. ~more => pos - left < 2
  BY <1>1 DEF SqliInv, RepeatInv
<1>4. left \in 0 .. 4
  BY <1>2
<1>5. ~(pos - left < 2)
  BY <1>1, <1>2
<1> QED
  BY <1>1, <1>3, <1>4, <1>5, TwoTokensText

LEMMA ThreeTokensWork ==
    ASSUME NEW Char, SqliInv(Char), NEW rules, ThreeTokens(rules), UNCHANGED fingerprint
    PROVE  /\ pc = "three" /\ left \in 0 .. 3 /\ more = TRUE /\ more' = TRUE
           /\ src' = src
<1>1. pc = "three" /\ pos - left >= 3 /\ more' = more /\ more \in BOOLEAN
  BY DEF ThreeTokens, SqliInv, SqliType
<1>2. left \in 0 .. pos - 3 /\ pos \in 3 .. 6
  BY ThreeTokensText
<1>3. ~more => pos - left < 3
  BY <1>1 DEF SqliInv, RepeatInv
<1>4. left \in 0 .. 3
  BY <1>2
<1>5. ~(pos - left < 3)
  BY <1>1, <1>2
<1> QED
  BY <1>1, <1>3, <1>4, <1>5, ThreeTokensText

\* A rule drops tokens, and may put another one at i.
LEMMA DropPaid ==
    ASSUME NEW Char, SqliInv(Char), SqliInv(Char)', more = TRUE, more' = TRUE,
           (pc = "two" /\ left \in 0 .. 4) \/ (pc = "three" /\ left \in 0 .. 3),
           NEW n \in 1 .. pos, NEW l, Drop(n, l), NEW i \in Int,
           \A k \in 0 .. pos - 1 : k # i => tokenvec'[k] = tokenvec[k]
    PROVE  Owed' + 1 <= Owed
<1>1. pos \in 0 .. 6 /\ pos' = pos - n /\ pc' = "full"
  BY OwedIs DEF Drop
<1>2. pos - n \in 0 .. pos /\ \A k \in 0 .. (pos - n) - 1 : k \in 0 .. pos - 1
  BY <1>1
<1>3. \A k \in 0 .. pos' - 1 : k # i => Weight(tokenvec'[k]) <= Weight(tokenvec[k])
  <2> TAKE k \in 0 .. pos' - 1
  <2> HAVE k # i
  <2>1. tokenvec'[k] = tokenvec[k]
    BY <1>1, <1>2
  <2>2. Weight(tokenvec[k]) \in {48, 72}
    BY DEF Weight
  <2>3. \A x \in {48, 72} : x <= x
    OBVIOUS
  <2> QED
    BY <2>1, <2>2, <2>3, Zenon
<1>4. pos' \in 0 .. pos
  BY <1>1, <1>2, Zenon
<1>5. Weights(tokenvec', pos') + 48 * (pos - pos') <= Weights(tokenvec, pos) + 24
  BY <1>1, <1>3, <1>4, WeightsFall
<1>6. pos - pos' = n /\ n \in 1 .. 6
  BY <1>1, <1>2
<1>7. Weights(tokenvec, pos) \in Nat /\ Weights(tokenvec', pos') \in Nat
  BY OwedIs, OwedNext
<1>8. \A x, y \in Nat, d \in 1 .. 6 : y + 48 * d <= x + 24 => y + 24 <= x
  OBVIOUS
<1>9. Weights(tokenvec', pos') + 24 <= Weights(tokenvec, pos)
  BY <1>5, <1>6, <1>7, <1>8, Zenon
<1> QED
  BY <1>1, <1>9, LighterPaid, Zenon

LEMMA DroppingPaid ==
    ASSUME NEW Char, SqliInv(Char), SqliInv(Char)', UNCHANGED fingerprint,
           \/ FoldRepeated \/ FoldSecond \/ FoldLeftUnary \/ FoldMerge \/ FoldCast
           \/ FoldExpression \/ FoldSign \/ FoldComma
           \/ FoldBackslash /\ ~st_is_arithmetic_op(B)
           \/ FoldBrace /\ pc' = "full"
    PROVE  src' = src /\ Owed' + 1 <= Owed
<1>1. ASSUME NEW rules, TwoTokens(rules), NEW n \in {1, 2}, NEW l, Drop(n, l),
             NEW x, \/ tokenvec' = tokenvec
                    \/ tokenvec' = [tokenvec EXCEPT ![left] = x]
      PROVE  src' = src /\ Owed' + 1 <= Owed
  <2>1. /\ pc = "two" /\ left \in 0 .. 4 /\ more = TRUE /\ more' = TRUE
        /\ src' = src
    BY <1>1, TwoTokensWork
  <2>2. /\ tokenvec \in [Slots -> Tokens(Char)] /\ pos \in 2 .. 6
        /\ \A k \in 0 .. pos - 1 : k \in Slots
    BY <1>1, TwoTokensText
  <2>3. \A k \in 0 .. pos - 1 : k # left => tokenvec'[k] = tokenvec[k]
    BY <1>1, <2>2
  <2>4. n \in 1 .. pos /\ left \in Int
    BY <2>1, <2>2
  <2> QED
    BY <1>1, <2>1, <2>3, <2>4, DropPaid
<1>2. ASSUME NEW rules, ThreeTokens(rules), NEW n \in 1 .. 3, NEW l, Drop(n, l),
             NEW x, \/ tokenvec' = tokenvec
                    \/ tokenvec' = [tokenvec EXCEPT ![left + 1] = x]
      PROVE  src' = src /\ Owed' + 1 <= Owed
  <2>1. /\ pc = "three" /\ left \in 0 .. 3 /\ more = TRUE /\ more' = TRUE
        /\ src' = src
    BY <1>2, ThreeTokensWork
  <2>2. /\ tokenvec \in [Slots -> Tokens(Char)] /\ pos \in 3 .. 6
        /\ \A k \in 0 .. pos - 1 : k \in Slots
    BY <1>2, ThreeTokensText
  <2>3. \A k \in 0 .. pos - 1 : k # left + 1 => tokenvec'[k] = tokenvec[k]
    BY <1>2, <2>2
  <2>4. n \in 1 .. pos /\ left + 1 \in Int
    BY <2>1, <2>2
  <2> QED
    BY <1>2, <2>1, <2>3, <2>4, DropPaid
<1>3. CASE FoldRepeated
  BY <1>1, <1>3 DEF FoldRepeated
<1>4. CASE FoldSecond
  BY <1>1, <1>4 DEF FoldSecond
<1>5. CASE FoldLeftUnary
  BY <1>1, <1>5 DEF FoldLeftUnary
<1>6. CASE FoldMerge
  BY <1>1, <1>6 DEF FoldMerge
<1>7. CASE FoldCast
  BY <1>1, <1>7 DEF FoldCast
<1>8. CASE FoldExpression
  BY <1>2, <1>8 DEF FoldExpression
<1>9. CASE FoldSign
  <2>1. /\ ThreeTokens({"sign"}) /\ Drop(1, 0) /\ 1 \in 1 .. 3
        /\ tokenvec' = [tokenvec EXCEPT ![left + 1] = C]
    BY <1>9 DEF FoldSign
  <2> QED
    BY <1>2, <2>1, Zenon
<1>10. CASE FoldComma
  <2>1. /\ ThreeTokens({"comma"}) /\ Drop(3, 0) /\ 3 \in 1 .. 3
        /\ tokenvec' = [tokenvec EXCEPT ![left + 1] = C]
    BY <1>10 DEF FoldComma
  <2> QED
    BY <1>2, <2>1, Zenon
<1>11. CASE FoldBackslash /\ ~st_is_arithmetic_op(B)
  BY <1>1, <1>11 DEF FoldBackslash
<1>12. CASE FoldBrace /\ pc' = "full"
  <2>1. TwoTokens({"brace"}) /\ Drop(2, 0) /\ tokenvec' = tokenvec
    BY <1>12 DEF FoldBrace
  <2> QED
    BY <1>1, <2>1
<1> QED
  BY <1>3, <1>4, <1>5, <1>6, <1>7, <1>8, <1>9, <1>10, <1>11, <1>12

\* Light tokens stay light.
LEMMA NoHeavier ==
    ASSUME NEW v, NEW w, NEW n \in 0 .. 6,
           \A k \in 0 .. n - 1 : v[k].type \in {"t", "1"} => w[k].type \in {"t", "1"}
    PROVE  /\ Weights(w, n) <= Weights(v, n)
           /\ \A i \in 0 .. n - 1 :
                  v[i].type \notin {"t", "1"} /\ w[i].type \in {"t", "1"} =>
                      Weights(w, n) + 24 <= Weights(v, n)
<1>1. ASSUME NEW k \in 0 .. n - 1
      PROVE  /\ Weight(w[k]) <= Weight(v[k])
             /\ v[k].type \notin {"t", "1"} /\ w[k].type \in {"t", "1"} =>
                    Weight(w[k]) + 24 <= Weight(v[k])
             /\ Weight(w[k]) + 0 = Weight(w[k])
  <2>1. v[k].type \in {"t", "1"} => w[k].type \in {"t", "1"}
    OBVIOUS
  <2>2. /\ Weight(v[k]) = IF v[k].type \in {"t", "1"} THEN 48 ELSE 72
        /\ Weight(w[k]) = IF w[k].type \in {"t", "1"} THEN 48 ELSE 72
    BY DEF Weight
  <2> QED
    BY <2>1, <2>2
<1>2. Weights(w, n) + 0 <= Weights(v, n)
  <2>1. \A k \in 0 .. n - 1 : Weight(w[k]) + (IF k = 0 THEN 0 ELSE 0) <= Weight(v[k])
    BY <1>1
  <2> QED
    BY <2>1, WeightsRetyped
<1>3. ASSUME NEW i \in 0 .. n - 1,
             v[i].type \notin {"t", "1"}, w[i].type \in {"t", "1"}
      PROVE  Weights(w, n) + 24 <= Weights(v, n)
  <2>1. \A k \in 0 .. n - 1 : Weight(w[k]) + (IF k = i THEN 24 ELSE 0) <= Weight(v[k])
    BY <1>1, <1>3
  <2>2. i \in Int /\ 24 \in {0, 24}
    OBVIOUS
  <2> QED
    BY <2>1, <2>2, WeightsRetyped, Zenon
<1>4. Weights(w, n) \in Nat
  BY WeightsAre
<1> QED
  BY <1>2, <1>3, <1>4

LEMMA TypeGiven ==
    ASSUME NEW Char, NEW t \in Tokens(Char), NEW type
    PROVE  [t EXCEPT !.type = type].type = type
BY DEF Tokens

\* A type that is changed makes its rule fail: it is not tried again.
LEMMA FoldRetypePaid ==
    ASSUME NEW Char, SqliInv(Char), SqliInv(Char)', UNCHANGED fingerprint, FoldRetype
    PROVE  src' = src /\ Owed' + 1 <= Owed
<1> DEFINE rule == TwoTokenRule(A, B)
           low == CASE rule = "function" -> "f"
                    [] rule = "in" -> IF B.type = "(" THEN "o" ELSE "n"
                    [] OTHER -> tokenvec[left].type
           high == IF rule = "if" THEN "T" ELSE tokenvec[left + 1].type
<1>1. /\ TwoTokens({"if", "function", "in"}) /\ Drop(0, left)
      /\ tokenvec' = [tokenvec EXCEPT ![left].type = low, ![left + 1].type = high]
  BY DEF FoldRetype
<1>2. /\ pc = "two" /\ left \in 0 .. 4 /\ more = TRUE /\ more' = TRUE
      /\ src' = src
  BY <1>1, TwoTokensWork
<1>3. /\ tokenvec \in [Slots -> Tokens(Char)] /\ pos \in 2 .. 6
      /\ left \in Slots /\ left + 1 \in Slots
      /\ left \in 0 .. pos - 2
      /\ \A k \in 0 .. pos - 1 : k \in Slots
  BY <1>1, TwoTokensText
<1>4. left # left + 1
  BY <1>2
<1>5. /\ rule = "if" =>
              tokenvec[left].type = ";" /\ tokenvec[left + 1].type = "f"
      /\ rule = "function" =>
              tokenvec[left].type \in {"n", "v"} /\ tokenvec[left + 1].type = "("
      /\ rule = "in" => tokenvec[left].type = "k"
      /\ rule \in {"if", "function", "in"}
      /\ B.type = tokenvec[left + 1].type
  BY <1>1, TwoTokenRuleSays DEF TwoTokens, A, B
<1>6. /\ tokenvec'[left].type = low /\ tokenvec'[left + 1].type = high
      /\ \A k \in Slots : k # left /\ k # left + 1 =>
             tokenvec'[k].type = tokenvec[k].type
  <2> HIDE DEF low, high
  <2>1. /\ tokenvec'[left] = [tokenvec[left] EXCEPT !.type = low]
        /\ tokenvec'[left + 1] = [tokenvec[left + 1] EXCEPT !.type = high]
        /\ \A k \in Slots : k # left /\ k # left + 1 => tokenvec'[k] = tokenvec[k]
    BY <1>1, <1>3, <1>4
  <2>2. tokenvec[left] \in Tokens(Char) /\ tokenvec[left + 1] \in Tokens(Char)
    BY <1>3
  <2> QED
    BY <2>1, <2>2, TypeGiven
<1>7. /\ tokenvec[left].type \notin {"t", "1"}
      /\ tokenvec[left + 1].type \in {"t", "1"} => high \in {"t", "1"}
  BY <1>5
<1>8. \A k \in 0 .. pos - 1 :
          tokenvec[k].type \in {"t", "1"} => tokenvec'[k].type \in {"t", "1"}
  <2> HIDE DEF low, high
  <2> QED
    BY <1>3, <1>6, <1>7
<1>9. pos' = pos /\ left' = left /\ pc' = "full"
  BY <1>1, <1>3 DEF Drop
<1>10. Weights(tokenvec', pos') <= Weights(tokenvec, pos)
  <2>1. pos \in 0 .. 6
    BY <1>3
  <2> QED
    BY <1>8, <1>9, <2>1, NoHeavier
<1>11. Again(tokenvec, left) = 2
  BY <1>5 DEF Again, Retypes
<1>12. Again(tokenvec', left') = 0
  <2>1. ~Retypes(tokenvec'[left], tokenvec'[left + 1])
    BY <1>5, <1>6 DEF Retypes
  <2> QED
    BY <1>9, <2>1 DEF Again
<1>13. \A w, u \in Nat, l \in 0 .. 4 : u <= w =>
           Owes("full", TRUE, u, l, 0) + 1 <= Owes("two", TRUE, w, l, 2)
  BY DEF Owes
<1>14. /\ Weights(tokenvec, pos) \in Nat /\ Weights(tokenvec', pos') \in Nat
       /\ Owed = Owes(pc, more, Weights(tokenvec, pos), left, Again(tokenvec, left))
       /\ Owed' = Owes(pc', more', Weights(tokenvec', pos'), left',
                       Again(tokenvec', left'))
  BY OwedIs, OwedNext, Zenon
<1> QED
  BY <1>2, <1>9, <1>10, <1>11, <1>12, <1>13, <1>14, Zenon

\* No rule for two tokens, or one that only changes a type.
LEMMA ToThreePaid ==
    ASSUME NEW Char, SqliInv(Char), SqliInv(Char)', UNCHANGED fingerprint, ToThree
    PROVE  src' = src /\ Owed' + 1 <= Owed
<1> DEFINE rule == TwoTokenRule(A, B)
           type == rule = "collate" /\ \E k \in DOMAIN B.val : B.val[k] = "_"
           like == IF rule = "like" /\ B.type = "(" THEN "f" ELSE tokenvec[left].type
           name == IF type THEN "t" ELSE tokenvec[left + 1].type
<1>1. /\ TwoTokens({"none", "like", "collate"})
      /\ tokenvec' = [tokenvec EXCEPT ![left].type = like, ![left + 1].type = name]
      /\ left' = (IF type THEN 0 ELSE left)
      /\ pc' = "three" /\ pos' = pos
  BY DEF ToThree
<1>2. /\ pc = "two" /\ left \in 0 .. 4 /\ more = TRUE /\ more' = TRUE
      /\ src' = src
  BY <1>1, TwoTokensWork
<1>3. /\ tokenvec \in [Slots -> Tokens(Char)] /\ pos \in 2 .. 6
      /\ left \in Slots /\ left + 1 \in Slots
      /\ left \in 0 .. pos - 2
      /\ \A k \in 0 .. pos - 1 : k \in Slots
  BY <1>1, TwoTokensText
<1>4. left # left + 1
  BY <1>2
<1>5. /\ rule = "like" => tokenvec[left].type = "o"
      /\ rule = "collate" =>
              tokenvec[left].type = "A" /\ tokenvec[left + 1].type = "n"
  BY TwoTokenRuleSays DEF A, B
<1>6. /\ tokenvec'[left].type = like /\ tokenvec'[left + 1].type = name
      /\ \A k \in Slots : k # left /\ k # left + 1 =>
             tokenvec'[k].type = tokenvec[k].type
  <2> HIDE DEF like, name
  <2>1. /\ tokenvec'[left] = [tokenvec[left] EXCEPT !.type = like]
        /\ tokenvec'[left + 1] = [tokenvec[left + 1] EXCEPT !.type = name]
        /\ \A k \in Slots : k # left /\ k # left + 1 => tokenvec'[k] = tokenvec[k]
    BY <1>1, <1>3, <1>4
  <2>2. tokenvec[left] \in Tokens(Char) /\ tokenvec[left + 1] \in Tokens(Char)
    BY <1>3
  <2> QED
    BY <2>1, <2>2, TypeGiven
<1>7. /\ tokenvec[left].type \in {"t", "1"} => like \in {"t", "1"}
      /\ tokenvec[left + 1].type \in {"t", "1"} => name \in {"t", "1"}
      /\ type => name = "t" /\ tokenvec[left + 1].type \notin {"t", "1"}
  <2> HIDE DEF type
  <2>1. type => tokenvec[left + 1].type = "n"
    BY <1>5 DEF type
  <2> QED
    BY <1>5, <2>1
<1> HIDE DEF like, name, type
<1>8. \A k \in 0 .. pos - 1 :
          tokenvec[k].type \in {"t", "1"} => tokenvec'[k].type \in {"t", "1"}
  BY <1>3, <1>6, <1>7
<1>9. pos \in 0 .. 6 /\ left + 1 \in 0 .. pos - 1
  BY <1>3
<1>10. /\ Weights(tokenvec, pos) \in Nat /\ Weights(tokenvec', pos') \in Nat
       /\ Again(tokenvec, left) \in {0, 2} /\ Again(tokenvec', left') \in {0, 2}
       /\ Owed = Owes(pc, more, Weights(tokenvec, pos), left, Again(tokenvec, left))
       /\ Owed' = Owes(pc', more', Weights(tokenvec', pos'), left',
                       Again(tokenvec', left'))
  BY OwedIs, OwedNext, Zenon
<1>11. CASE type
  <2>1. Weights(tokenvec', pos') + 24 <= Weights(tokenvec, pos)
    BY <1>1, <1>6, <1>7, <1>8, <1>9, <1>11, NoHeavier
  <2> QED
    BY <1>1, <1>2, <2>1, LighterPaid
<1>12. CASE ~type
  <2>1. Weights(tokenvec', pos') <= Weights(tokenvec, pos) /\ left' = left
    BY <1>1, <1>8, <1>9, <1>12, NoHeavier
  <2>2. \A w, u \in Nat, l \in 0 .. 4, r, q \in {0, 2} : u <= w =>
            Owes("three", TRUE, u, l, q) + 1 <= Owes("two", TRUE, w, l, r)
    BY DEF Owes
  <2> QED
    BY <1>1, <1>2, <1>10, <2>1, <2>2, Zenon
<1> QED
  BY <1>11, <1>12

\* Going past the first of three tokens.
LEMMA AdvancePaid ==
    ASSUME NEW Char, SqliInv(Char), SqliInv(Char)', UNCHANGED fingerprint, Advance
    PROVE  src' = src /\ Owed' + 1 <= Owed
<1> DEFINE x == IF ThreeTokenRule(A, B, C) = "nofunction" THEN "n"
                ELSE tokenvec[left].type
<1>1. /\ ThreeTokens({"none", "nofunction"}) /\ Drop(0, left + 1)
      /\ tokenvec' = [tokenvec EXCEPT ![left].type = x]
  BY DEF Advance
<1>2. /\ pc = "three" /\ left \in 0 .. 3 /\ more = TRUE /\ more' = TRUE
      /\ src' = src
  BY <1>1, ThreeTokensWork
<1>3. /\ tokenvec \in [Slots -> Tokens(Char)] /\ pos \in 3 .. 6
      /\ left \in Slots /\ \A k \in 0 .. pos - 1 : k \in Slots
  BY <1>1, ThreeTokensText
<1>4. tokenvec[left].type \in {"t", "1"} => x \in {"t", "1"}
  <2>1. ThreeTokenRule(A, B, C) = "nofunction" => tokenvec[left].type = "f"
    BY ThreeTokenRuleSays DEF A
  <2> QED
    BY <2>1
<1> HIDE DEF x
<1>5. /\ tokenvec'[left].type = x
      /\ \A k \in Slots : k # left => tokenvec'[k].type = tokenvec[k].type
  <2>1. /\ tokenvec'[left] = [tokenvec[left] EXCEPT !.type = x]
        /\ \A k \in Slots : k # left => tokenvec'[k] = tokenvec[k]
        /\ tokenvec[left] \in Tokens(Char)
    BY <1>1, <1>3
  <2> QED
    BY <2>1, TypeGiven
<1>6. \A k \in 0 .. pos - 1 :
          tokenvec[k].type \in {"t", "1"} => tokenvec'[k].type \in {"t", "1"}
  BY <1>3, <1>4, <1>5
<1>7. pos' = pos /\ left' = left + 1 /\ pc' = "full" /\ pos \in 0 .. 6
  BY <1>1, <1>3 DEF Drop
<1>8. Weights(tokenvec', pos') <= Weights(tokenvec, pos)
  BY <1>6, <1>7, NoHeavier
<1>9. \A w, u \in Nat, l \in 0 .. 3, r, q \in {0, 2} : u <= w =>
          Owes("full", TRUE, u, l + 1, q) + 1 <= Owes("three", TRUE, w, l, r)
  BY DEF Owes
<1>10. /\ Weights(tokenvec, pos) \in Nat /\ Weights(tokenvec', pos') \in Nat
       /\ Again(tokenvec, left) \in {0, 2} /\ Again(tokenvec', left') \in {0, 2}
       /\ Owed = Owes(pc, more, Weights(tokenvec, pos), left, Again(tokenvec, left))
       /\ Owed' = Owes(pc', more', Weights(tokenvec', pos'), left',
                       Again(tokenvec', left'))
  BY OwedIs, OwedNext, Zenon
<1> QED
  BY <1>2, <1>7, <1>8, <1>9, <1>10, Zenon

LEMMA FoldBackslashPaid ==
    ASSUME NEW Char, SqliInv(Char), SqliInv(Char)', UNCHANGED fingerprint,
           FoldBackslash, st_is_arithmetic_op(B)
    PROVE  src' = src /\ Owed' + 1 <= Owed
<1>1. /\ TwoTokens({"backslash"}) /\ Drop(0, 0)
      /\ tokenvec' = [tokenvec EXCEPT ![left].type = "1"]
  BY DEF FoldBackslash
<1>2. /\ pc = "two" /\ left \in 0 .. 4 /\ more = TRUE /\ more' = TRUE
      /\ src' = src
  BY <1>1, TwoTokensWork
<1>3. /\ tokenvec \in [Slots -> Tokens(Char)] /\ pos \in 2 .. 6
      /\ left \in Slots /\ left \in 0 .. pos - 2
      /\ \A k \in 0 .. pos - 1 : k \in Slots
  BY <1>1, TwoTokensText
<1>4. tokenvec[left].type = "\\"
  BY <1>1, TwoTokenRuleSays DEF TwoTokens, A
<1>5. /\ tokenvec'[left].type = "1"
      /\ \A k \in Slots : k # left => tokenvec'[k].type = tokenvec[k].type
  <2>1. /\ tokenvec'[left] = [tokenvec[left] EXCEPT !.type = "1"]
        /\ \A k \in Slots : k # left => tokenvec'[k] = tokenvec[k]
        /\ tokenvec[left] \in Tokens(Char)
    BY <1>1, <1>3
  <2> QED
    BY <2>1, TypeGiven
<1>6. \A k \in 0 .. pos - 1 :
          tokenvec[k].type \in {"t", "1"} => tokenvec'[k].type \in {"t", "1"}
  BY <1>3, <1>5
<1>7. pos' = pos /\ pc' = "full" /\ pos \in 0 .. 6 /\ left \in 0 .. pos - 1
  BY <1>1, <1>3 DEF Drop
<1>8. tokenvec[left].type \notin {"t", "1"} /\ tokenvec'[left].type \in {"t", "1"}
  BY <1>4, <1>5
<1>9. Weights(tokenvec', pos') + 24 <= Weights(tokenvec, pos)
  BY <1>6, <1>7, <1>8, NoHeavier
<1> QED
  BY <1>2, <1>7, <1>9, LighterPaid

\* A rule that ends the fold, and the steps that apply no rule.
LEMMA LoopPaid ==
    ASSUME NEW Char, SqliInv(Char), SqliInv(Char)', UNCHANGED fingerprint,
           LoopOrEnd \/ FewerThanTwo \/ FewerThanThree
    PROVE  src' = src /\ Owed' + 1 <= Owed
<1>1. /\ src' = src /\ tokenvec' = tokenvec /\ pos' = pos /\ more' = more
  BY DEF LoopOrEnd, FewerThanTwo, FewerThanThree, TooFew
<1> DEFINE w == Weights(tokenvec, pos)
           r == Again(tokenvec, left)
           q == Again(tokenvec', left')
<1>2. /\ w \in Nat /\ r \in {0, 2} /\ q \in {0, 2}
      /\ more \in BOOLEAN /\ pos \in 0 .. 6 /\ left \in 0 .. 6 /\ left' \in 0 .. 6
      /\ Owed = Owes(pc, more, w, left, r)
  BY OwedIs, OwedNext, Zenon
<1>3. Owed' = Owes(pc', more, w, left', q)
  BY <1>1, OwedNext, Zenon
<1>4. CASE LoopOrEnd
  <2>1. /\ pc = "full" /\ left' = left /\ q = r
        /\ (more = TRUE /\ pc' = "two") \/ pc' = "end"
    BY <1>1, <1>2, <1>4 DEF LoopOrEnd
  <2> HIDE DEF w, r, q
  <2>2. \A u \in Nat, l \in 0 .. 6, e \in {0, 2} :
            /\ Owes("two", TRUE, u, l, e) + 1 <= Owes("full", TRUE, u, l, e)
            /\ Owes("end", TRUE, u, l, e) + 1 <= Owes("full", TRUE, u, l, e)
            /\ Owes("end", FALSE, u, l, e) + 1 <= Owes("full", FALSE, u, l, e)
    BY DEF Owes
  <2>3. more = TRUE \/ more = FALSE
    BY <1>2
  <2> QED
    BY <1>1, <1>2, <1>3, <2>1, <2>2, <2>3, Zenon
<1>5. CASE FewerThanTwo \/ FewerThanThree
  <2>1. PICK n \in {2, 3} : TooFew(n) /\ pc = IF n = 2 THEN "two" ELSE "three"
    BY <1>5 DEF FewerThanTwo, FewerThanThree
  <2>2. /\ pc \in {"two", "three"} /\ pc' = "full" /\ left' = pos
        /\ ~more \/ pos > 5
        /\ pos - left < n
    BY <1>2, <2>1 DEF TooFew, Wanted, MaxTokens
  <2> HIDE DEF w, r, q
  <2>3. CASE more = FALSE
    <3>1. \A u \in Nat, l, k \in 0 .. 6, e, f \in {0, 2} :
              /\ Owes("full", FALSE, u, k, f) + 1 <= Owes("two", FALSE, u, l, e)
              /\ Owes("full", FALSE, u, k, f) + 1 <= Owes("three", FALSE, u, l, e)
      BY DEF Owes
    <3> QED
      BY <1>1, <1>2, <1>3, <2>2, <2>3, <3>1, Zenon
  <2>4. CASE more = TRUE
    <3>1. left < 5
      BY <2>2 DEF SqliInv, RepeatInv, MaxTokens
    <3>2. left \in 0 .. 4 /\ left' = 6
      BY <1>2, <2>2, <2>4, <3>1
    <3>3. \A u \in Nat, l \in 0 .. 4, e, f \in {0, 2} :
              /\ Owes("full", TRUE, u, 6, f) + 1 <= Owes("two", TRUE, u, l, e)
              /\ Owes("full", TRUE, u, 6, f) + 1 <= Owes("three", TRUE, u, l, e)
      BY DEF Owes
    <3> QED
      BY <1>1, <1>2, <1>3, <2>2, <2>4, <3>2, <3>3, Zenon
  <2> QED
    BY <1>2, <2>3, <2>4
<1> QED
  BY <1>1, <1>4, <1>5

LEMMA EndPaid ==
    ASSUME NEW Char, SqliInv(Char), SqliInv(Char)', UNCHANGED fingerprint,
           Finish \/ (FoldBrace /\ pc' = "done")
    PROVE  src' = src /\ Owed' + 1 <= Owed
<1>1. src' = src /\ pc' = "done" /\ pc \in {"end", "two"}
  BY DEF Finish, FoldBrace, TwoTokens
<1> DEFINE w == Weights(tokenvec, pos)
           u == Weights(tokenvec', pos')
           r == Again(tokenvec, left)
           q == Again(tokenvec', left')
<1>2. /\ w \in Nat /\ r \in {0, 2} /\ Owed = Owes(pc, more, w, left, r)
      /\ u \in Nat /\ q \in {0, 2} /\ Owed' = Owes(pc', more', u, left', q)
      /\ left \in 0 .. 6 /\ left' \in 0 .. 6 /\ more \in BOOLEAN /\ more' \in BOOLEAN
  BY OwedIs, OwedNext, Zenon
<1> HIDE DEF w, u, r, q
<1>3. \A x, y \in Nat, l, k \in 0 .. 6, e, f \in {0, 2}, m, n \in BOOLEAN :
          /\ Owes("done", n, y, k, f) + 1 <= Owes("end", m, x, l, e)
          /\ Owes("done", n, y, k, f) + 1 <= Owes("two", m, x, l, e)
  BY DEF Owes
<1> QED
  BY <1>1, <1>2, <1>3, Zenon

LEMMA FoldFivePaid ==
    ASSUME NEW Char, SqliInv(Char), SqliInv(Char)', UNCHANGED fingerprint, FoldFive
    PROVE  src' = src /\ Owed' + 1 <= Owed
<1>1. /\ pc = "full" /\ src' = src /\ more' = more /\ left' = 0
      /\ pc' = IF more THEN "two" ELSE "end"
  BY DEF FoldFive
<1>2. /\ pos \in 5 .. 6 /\ pos' = (IF pos > 5 THEN 2 ELSE 1)
      /\ \A k \in 0 .. pos' - 1 : k # 1 => tokenvec'[k] = tokenvec[k]
  <2>1. pos \in 0 .. 6 /\ tokenvec \in [Slots -> Tokens(Char)]
    BY DEF SqliInv, SqliType
  <2>2. /\ pos >= 5 /\ pos' = (IF pos > 5 THEN 2 ELSE 1)
        /\ tokenvec' \in {tokenvec, [tokenvec EXCEPT ![1] = tokenvec[5]]}
    BY <2>1 DEF FoldFive, MaxTokens
  <2>3. \A k \in 0 .. pos' - 1 : k \in Slots
    BY <2>2 DEF Slots
  <2> QED
    BY <2>1, <2>2, <2>3
<1> DEFINE w == Weights(tokenvec, pos)
           u == Weights(tokenvec', pos')
           r == Again(tokenvec, left)
           q == Again(tokenvec', left')
<1>3. /\ w \in Nat /\ r \in {0, 2} /\ Owed = Owes(pc, more, w, left, r)
      /\ u \in Nat /\ q \in {0, 2} /\ Owed' = Owes(pc', more', u, left', q)
      /\ left \in 0 .. 6 /\ more \in BOOLEAN
  BY OwedIs, OwedNext, Zenon
<1>4. u + 48 * (pos - pos') <= w + 24
  <2>1. \A k \in 0 .. pos' - 1 : k # 1 => Weight(tokenvec'[k]) <= Weight(tokenvec[k])
    <3> TAKE k \in 0 .. pos' - 1
    <3> HAVE k # 1
    <3>1. tokenvec'[k] = tokenvec[k] /\ Weight(tokenvec[k]) \in {48, 72}
      BY <1>2 DEF Weight
    <3>2. \A x \in {48, 72} : x <= x
      OBVIOUS
    <3> QED
      BY <3>1, <3>2, Zenon
  <2>2. pos' \in 0 .. pos /\ pos \in 0 .. 6 /\ 1 \in Int
    BY <1>2
  <2> QED
    BY <2>1, <2>2, WeightsFall, Zenon
<1> HIDE DEF w, u, r, q
<1>5. u + 168 <= w
  <2>1. pos - pos' = 4
    BY <1>2
  <2>2. \A x, y \in Nat : y + 48 * 4 <= x + 24 => y + 168 <= x
    OBVIOUS
  <2> QED
    BY <1>3, <1>4, <2>1, <2>2, Zenon
<1>6. \A x, y \in Nat, l \in 0 .. 6, e, f \in {0, 2} :
          /\ y + 168 <= x =>
                 Owes("two", TRUE, y, 0, f) + 1 <= Owes("full", TRUE, x, l, e)
          /\ Owes("end", FALSE, y, 0, f) + 1 <= Owes("full", FALSE, x, l, e)
  BY DEF Owes
<1>7. (more = TRUE /\ pc' = "two") \/ (more = FALSE /\ pc' = "end")
  BY <1>1, <1>3
<1> QED
  BY <1>1, <1>3, <1>5, <1>6, <1>7, Zenon

\* A call of the tokenizer: it finds a token, which pays, or the text has ended.
LEMMA FetchPaid ==
    ASSUME NEW Char, SqliInv(Char), SqliInv(Char)', UNCHANGED fingerprint,
           FetchTwo \/ FetchThree
    PROVE  \/ src'.tokens = src.tokens + 1 /\ Owed' + 1 <= Owed + 75
           \/ src'.tokens = src.tokens /\ Owed' + 1 <= Owed
<1> DEFINE t == Tokenize(src)
<1>1. /\ pc \in {"two", "three"} /\ pos <= MaxTokens /\ FetchToken /\ more
  BY DEF FetchTwo, FetchThree, Wanted
<1>2. /\ src' = t.src /\ more' = t.more
      /\ tokenvec' = [tokenvec EXCEPT ![pos] = t.tok]
      /\ pos' = (IF t.more /\ t.tok.type # "c" THEN pos + 1 ELSE pos)
      /\ pc' = pc /\ left' = left
  BY <1>1 DEF FetchToken
<1>3. /\ src \in Sources(Char) /\ src.pos <= Len(src.s) /\ pos \in 0 .. 6
      /\ tokenvec \in [Slots -> Tokens(Char)]
  BY DEF SqliInv, SqliType
<1>4. /\ t.more \in BOOLEAN
      /\ t.more => t.src.tokens = src.tokens + 1
      /\ ~t.more => t.src.tokens = src.tokens
  BY <1>3, TokenRead
<1> HIDE DEF t
<1>5. pos \in 0 .. 5 /\ pos' \in {pos, pos + 1}
  BY <1>1, <1>2, <1>3 DEF MaxTokens
<1>6. \A k \in 0 .. pos - 1 : tokenvec'[k] = tokenvec[k]
  <2>1. \A k \in 0 .. pos - 1 : k \in Slots /\ k # pos
    BY <1>5 DEF Slots
  <2> QED
    BY <1>2, <1>3, <2>1
<1> DEFINE w == Weights(tokenvec, pos)
           u == Weights(tokenvec', pos')
           r == Again(tokenvec, left)
           q == Again(tokenvec', left')
<1>7. u <= w + 72
  BY <1>5, <1>6, WeightsGrow
<1>8. /\ w \in Nat /\ r \in {0, 2} /\ Owed = Owes(pc, more, w, left, r)
      /\ u \in Nat /\ q \in {0, 2} /\ Owed' = Owes(pc', more', u, left', q)
      /\ left \in 0 .. 6 /\ more \in BOOLEAN
  BY OwedIs, OwedNext, Zenon
<1> HIDE DEF w, u, r, q
<1>9. more = TRUE
  BY <1>1, <1>8
<1>10. left \in 0 .. 4
  <2>1. left < 5
    BY <1>1 DEF SqliInv, RepeatInv, MaxTokens
  <2> QED
    BY <1>8, <2>1
<1>11. CASE t.more
  <2>1. \A x, y \in Nat, l \in 0 .. 4, e, f \in {0, 2} : y <= x + 72 =>
            /\ Owes("two", TRUE, y, l, f) + 1 <= Owes("two", TRUE, x, l, e) + 75
            /\ Owes("three", TRUE, y, l, f) + 1 <= Owes("three", TRUE, x, l, e) + 75
    BY DEF Owes
  <2>2. more' = TRUE
    BY <1>2, <1>4, <1>11
  <2>3. Owed' + 1 <= Owed + 75
    BY <1>1, <1>2, <1>7, <1>8, <1>9, <1>10, <2>1, <2>2, Zenon
  <2> QED
    BY <1>2, <1>4, <1>11, <2>3
<1>12. CASE ~t.more
  <2>1. \A x, y \in Nat, l \in 0 .. 4, e, f \in {0, 2} :
            /\ Owes("two", FALSE, y, l, f) + 1 <= Owes("two", TRUE, x, l, e)
            /\ Owes("three", FALSE, y, l, f) + 1 <= Owes("three", TRUE, x, l, e)
    BY DEF Owes
  <2>2. more' = FALSE
    BY <1>2, <1>4, <1>12
  <2>3. Owed' + 1 <= Owed
    BY <1>1, <1>2, <1>8, <1>9, <1>10, <2>1, <2>2, Zenon
  <2> QED
    BY <1>2, <1>4, <1>12, <2>3
<1> QED
  BY <1>11, <1>12

LEMMA SkipPaid ==
    ASSUME NEW Char, SqliInv(Char), SqliInv(Char)', UNCHANGED fingerprint,
           SkipInitial
    PROVE  \/ src'.tokens = src.tokens + 1 /\ Owed' + 1 <= Owed + 75
           \/ src'.tokens = src.tokens /\ Owed' + 1 <= Owed
<1> DEFINE t == Tokenize(src)
<1>1. /\ pc = "skip" /\ src' = t.src /\ more' = t.more /\ left' = left
      /\ pos' \in {0, 1}
      /\ pc' \in (IF t.more THEN {"skip", "full"} ELSE {"done"})
  BY DEF SkipInitial
<1>2. src \in Sources(Char) /\ src.pos <= Len(src.s)
  BY DEF SqliInv, SqliType
<1>3. /\ t.more \in BOOLEAN
      /\ t.more => t.src.tokens = src.tokens + 1
      /\ ~t.more => t.src.tokens = src.tokens
  BY <1>2, TokenRead
<1> HIDE DEF t
<1>4. more /\ left = 0
  BY <1>1 DEF SqliInv, RepeatInv
<1> DEFINE w == Weights(tokenvec, pos)
           u == Weights(tokenvec', pos')
           r == Again(tokenvec, left)
           q == Again(tokenvec', left')
<1>5. u <= 72
  <2>1. Weights(tokenvec', 0) = 0 /\ Weights(tokenvec', 1) = Weight(tokenvec'[0])
    BY DEF Weights, Weight
  <2>2. Weight(tokenvec'[0]) \in {48, 72}
    BY DEF Weight
  <2> QED
    BY <1>1, <2>1, <2>2
<1>6. /\ w \in Nat /\ r \in {0, 2} /\ Owed = Owes(pc, more, w, left, r)
      /\ u \in Nat /\ q \in {0, 2} /\ Owed' = Owes(pc', more', u, left', q)
      /\ more \in BOOLEAN
  BY OwedIs, OwedNext, Zenon
<1> HIDE DEF w, u, r, q
<1>7. more = TRUE
  BY <1>4, <1>6
<1>8. CASE t.more
  <2>1. \A x, y \in Nat, e, f \in {0, 2} : y <= 72 =>
            /\ Owes("skip", TRUE, y, 0, f) + 1 <= Owes("skip", TRUE, x, 0, e) + 75
            /\ Owes("full", TRUE, y, 0, f) + 1 <= Owes("skip", TRUE, x, 0, e) + 75
    BY DEF Owes
  <2>2. more' = TRUE /\ pc' \in {"skip", "full"} /\ left' = 0
    BY <1>1, <1>3, <1>4, <1>8
  <2>3. Owed' + 1 <= Owed + 75
    BY <1>1, <1>4, <1>5, <1>6, <1>7, <2>1, <2>2, Zenon
  <2> QED
    BY <1>1, <1>3, <1>8, <2>3
<1>9. CASE ~t.more
  <2>1. \A x, y \in Nat, e, f \in {0, 2} :
            Owes("done", FALSE, y, 0, f) + 1 <= Owes("skip", TRUE, x, 0, e)
    BY DEF Owes
  <2>2. more' = FALSE /\ pc' = "done" /\ left' = 0
    BY <1>1, <1>3, <1>4, <1>9
  <2>3. Owed' + 1 <= Owed
    BY <1>1, <1>4, <1>6, <1>7, <2>1, <2>2, Zenon
  <2> QED
    BY <1>1, <1>3, <1>9, <2>3
<1> QED
  BY <1>8, <1>9

LEMMA FoldPaid ==
    ASSUME NEW Char, SqliInv(Char), SqliInv(Char)', WorkInv, Fold
    PROVE  WorkInv'
<1>1. FoldNext /\ UNCHANGED fingerprint /\ steps' = steps + 1
  BY DEF Fold
<1>2. CASE SkipInitial
  BY <1>1, <1>2, SkipPaid, StepPaid, TokenPaid
<1>3. CASE FetchTwo \/ FetchThree
  BY <1>1, <1>3, FetchPaid, StepPaid, TokenPaid
<1>4. CASE ~SkipInitial /\ ~(FetchTwo \/ FetchThree)
  <2> SUFFICES src' = src /\ Owed' + 1 <= Owed
    BY <1>1, StepPaid
  <2>1. CASE FoldFive
    BY <1>1, <2>1, FoldFivePaid
  <2>2. CASE LoopOrEnd \/ FewerThanTwo \/ FewerThanThree
    BY <1>1, <2>2, LoopPaid
  <2>3. CASE Finish
    BY <1>1, <2>3, EndPaid
  <2>4. CASE FoldBrace
    <3>1. pc' = "done" \/ pc' = "full"
      BY <2>4 DEF FoldBrace, Drop
    <3> QED
      BY <1>1, <2>4, <3>1, EndPaid, DroppingPaid
  <2>5. CASE \/ FoldRepeated \/ FoldSecond \/ FoldLeftUnary \/ FoldMerge \/ FoldCast
             \/ FoldExpression \/ FoldSign \/ FoldComma
    BY <1>1, <2>5, DroppingPaid
  <2>6. CASE FoldBackslash
    BY <1>1, <2>6, DroppingPaid, FoldBackslashPaid
  <2>7. CASE FoldRetype
    BY <1>1, <2>7, FoldRetypePaid
  <2>8. CASE ToThree
    BY <1>1, <2>8, ToThreePaid
  <2>9. CASE Advance
    BY <1>1, <2>9, AdvancePaid
  <2> QED
    BY <1>1, <1>4, <2>1, <2>2, <2>3, <2>4, <2>5, <2>6, <2>7, <2>8, <2>9 DEF FoldNext
<1> QED
  BY <1>2, <1>3, <1>4

LEMMA StepWork ==
    ASSUME NEW Char, Blank \in Char, "X" \in Char, SqliInv(Char), WorkInv, [Next]_vars
    PROVE  WorkInv'
<1>1. SqliInv(Char)'
  BY StepKeeps
<1>2. CASE Fold
  BY <1>1, <1>2, FoldPaid
<1>3. CASE libinjection_sqli_fingerprint
  <2>1. src' = src /\ steps' = steps /\ pc = "done" /\ pc' = "judge"
    BY <1>3 DEF libinjection_sqli_fingerprint
  <2>2. \A x, w, l, r : Owes("done", x, w, l, r) = 0 /\ Owes("judge", x, w, l, r) = 0
    BY DEF Owes
  <2>3. Owed = 0 /\ Owed' = 0
    BY <1>1, <2>1, <2>2, OwedIs, OwedNext, Zenon
  <2>4. Paid(steps, 0, src.tokens)
    BY <2>3, Zenon DEF WorkInv
  <2> QED
    BY <2>1, <2>3, <2>4, Zenon DEF WorkInv
<1>4. CASE Reset
  <2>1. \E c \in NextContexts : src' = Source(src.s, c.quote, c.sql)
    BY <1>4 DEF Reset
  <2>2. src'.tokens = 0
    BY <2>1 DEF Source
  <2>3. pos' = 0 /\ left' = 0 /\ more' = TRUE /\ pc' = "skip" /\ steps' = 0
    BY <1>4 DEF Reset
  <2>4. Weights(tokenvec', 0) = 0
    BY DEF Weights
  <2>5. \A r : Owes("skip", TRUE, 0, 0, r) = 33
    BY DEF Owes
  <2>6. Owed' = 33
    BY <1>1, <2>3, <2>4, <2>5, OwedNext, Zenon
  <2>7. Paid(0, 33, 0)
    BY DEF Paid, WorkPerToken
  <2> QED
    BY <2>2, <2>3, <2>6, <2>7, Zenon DEF WorkInv
<1>5. CASE UNCHANGED <<foldVars, steps>>
  <2>1. /\ src' = src /\ tokenvec' = tokenvec /\ pos' = pos /\ left' = left
        /\ more' = more /\ pc' = pc /\ steps' = steps
    BY <1>5 DEF foldVars
  <2> QED
    BY <2>1, Zenon DEF WorkInv, Owed
<1>6. CASE UNCHANGED vars
  BY <1>5, <1>6 DEF vars, foldVars
<1> QED
  BY <1>2, <1>3, <1>4, <1>5, <1>6 DEF Next, Returned, Sqli, Benign

\* The fold ends: in each context its steps are at most 75 for every token it
\* has read, and 75 more, for every text.
THEOREM WorkIsLinear ==
    ASSUME NEW CONSTANT Char, NEW CONSTANT texts \in SUBSET Seq(Char)
    PROVE  Init(texts) /\ [][Next]_vars => []FoldIsLinear
<1>1. Init(texts) /\ SqliInv(Written(Char)) => WorkInv
  <2> SUFFICES ASSUME Init(texts), SqliInv(Written(Char)) PROVE WorkInv
    OBVIOUS
  <2>1. \E s : FoldInit(Source(s, "none", "ansi"))
    BY DEF Init
  <2>2. /\ src.tokens = 0 /\ steps = 0
        /\ pos = 0 /\ left = 0 /\ more = TRUE /\ pc = "skip"
    BY <2>1 DEF Init, FoldInit, Source
  <2>3. Weights(tokenvec, 0) = 0
    BY DEF Weights
  <2>4. \A r : Owes("skip", TRUE, 0, 0, r) = 33
    BY DEF Owes
  <2>5. Owed = 33
    BY <2>2, <2>3, <2>4, OwedIs, Zenon
  <2>6. Paid(0, 33, 0)
    BY DEF Paid, WorkPerToken
  <2> QED
    BY <2>2, <2>5, <2>6, Zenon DEF WorkInv
<1>2. SqliInv(Written(Char)) /\ WorkInv /\ [Next]_vars => WorkInv'
  BY StepWork DEF Written
<1>3. SqliInv(Written(Char)) /\ WorkInv => FoldIsLinear
  <2> SUFFICES ASSUME SqliInv(Written(Char)), WorkInv PROVE FoldIsLinear
    OBVIOUS
  <2>1. Owed \in Nat /\ src.tokens \in Nat
    BY OwedIs DEF SqliInv, SqliType, Sources
  <2>2. \A s, o, t \in Nat : s + o <= 75 * t + 33 => s <= 75 * (t + 1)
    OBVIOUS
  <2>3. \A s, o, t \in Nat : Paid(s, o, t) => s <= WorkPerToken * (t + 1)
    BY <2>2 DEF Paid, WorkPerToken
  <2>4. steps \in Nat /\ Paid(steps, Owed, src.tokens)
    BY Zenon DEF WorkInv, Paid
  <2> QED
    BY <2>1, <2>3, <2>4, Zenon DEF FoldIsLinear
<1> QED
  BY <1>1, <1>2, <1>3, InvariantHolds, PTL

-----------------------------------------------------------------------------
(* What a rule matched.                                                     *)

\* The words that the loop tells apart by name, and the phrases of the table.
ToldWords == {InWord, NotWord \o InWord, LikeWord, NotWord \o LikeWord, UserWord}
IsPhrase(w) == w \in DOMAIN Keywords /\ \E k \in 1 .. Len(w) : w[k] = Blank

\* A token that may become what it is when the loop has passed it.
Late(t) ==
    /\ t.type \in KeywordTypes \ {"t"}
    /\ Upper(t.val) \in ToldWords \/ IsPhrase(Upper(t.val))
    /\ \A k \in 1 .. Len(t.val) : t.val[k] # "_"

Calm(t) == Late(t) \/ t.type = "1"

IsLike(t) == t.type = "o" /\ IsWord(t, {LikeWord, NotWord \o LikeWord})

\* The tokens that the rules of DropsWhatItMatched fire at.
Marked(a, b) ==
    \/ a.type = b.type /\ a.type \in Repeated
    \/ a.type \in {"o", "&"} /\ (st_is_unary_op(b) \/ b.type = "t")
    \/ a.type = "(" /\ st_is_unary_op(b)
    \/ a.type = "\\"
    \/ b.type = "}" /\ ~IsLike(a)

\* Two tokens that the loop has passed: what may be done to them later.
Two(a, b) ==
    /\ ~Marked(a, b)
    /\ MergedType(a, b) # Null => Late(b)
    /\ a.type = "t" => /\ b.type \notin {"s", "t", "("}
                       /\ b.type \in {"n", "v", "f"} => Late(b)
    /\ a.type = "A" /\ b.type = "n" => \A k \in 1 .. Len(b.val) : b.val[k] # "_"

Three(a, b, c) ==
    /\ a.type \in {"k", "E", "B", ","} /\ st_is_unary_op(b) =>
           /\ c.type # "s"
           /\ c.type \in {"n", "v", "f"} => Late(c)
           /\ c.type = "(" => a.type = "k"
    /\ a.type = "E" /\ b.type = "." /\ c.type = "n" => Late(c)

\* Of the n tokens with the loop at l, the pairs up to t: the ones that it has
\* passed, and all but the last, since a rule that drops tokens takes the loop back
\* to the last ones only.
Passed(v, n, l, t) ==
    /\ \A k \in 0 .. n - 2 : k <= n - 3 \/ k < t => Two(v[k], v[k + 1])
    /\ \A k \in 0 .. n - 3 : k <= n - 4 \/ k < l => Three(v[k], v[k + 1], v[k + 2])
    /\ l = n - 1 /\ l > 0 => v[l].type \in {"s", ";"}

PassedInv ==
    pc \in {"two", "three", "full"} /\ left < pos =>
        Passed(tokenvec, pos, left, IF pc = "three" THEN left + 1 ELSE left)

-----------------------------------------------------------------------------
(* Words that are given a type late.                                        *)

LEMMA ToldWordsAre ==
    ASSUME NEW w \in ToldWords
    PROVE  /\ Len(w) \in Nat \ {0, 3} /\ w[1] \in {"I", "N", "L", "U"}
           /\ \A k \in 1 .. Len(w) : w[k] # "_"
<1> DEFINE S == {"E", "I", "K", "L", "N", "O", "R", "S", "T", "U", " "}
<1>1. InWord \in Seq(S) /\ Len(InWord) = 2 /\ InWord[1] = "I"
  BY DEF InWord
<1>2. LikeWord \in Seq(S) /\ Len(LikeWord) = 4 /\ LikeWord[1] = "L"
  BY DEF LikeWord
<1>3. UserWord \in Seq(S) /\ Len(UserWord) = 4 /\ UserWord[1] = "U"
  BY DEF UserWord
<1>4. NotWord \in Seq(S) /\ Len(NotWord) = 4 /\ NotWord[1] = "N"
  BY DEF NotWord, Blank
<1>5. "_" \notin S
  OBVIOUS
<1> HIDE DEF S
<1>6. ASSUME NEW x \in Seq(S), Len(x) \in {2, 4}
      PROVE  /\ NotWord \o x \in Seq(S)
             /\ Len(NotWord \o x) \in {6, 8} /\ (NotWord \o x)[1] = "N"
  <2>1. /\ NotWord \o x \in Seq(S) /\ Len(NotWord \o x) = Len(NotWord) + Len(x)
        /\ \A k \in 1 .. Len(NotWord) + Len(x) :
               (NotWord \o x)[k] = IF k <= Len(NotWord) THEN NotWord[k]
                                   ELSE x[k - Len(NotWord)]
    BY <1>4, ConcatProperties
  <2>2. \A n \in {2, 4} : 4 + n \in {6, 8} /\ 1 \in 1 .. 4 + n /\ 1 <= 4
    OBVIOUS
  <2> QED
    BY <1>4, <1>6, <2>1, <2>2
<1>7. w \in Seq(S) /\ Len(w) \in {2, 4, 6, 8} /\ w[1] \in {"I", "N", "L", "U"}
  BY <1>1, <1>2, <1>3, <1>6 DEF ToldWords
<1>8. ASSUME NEW k \in 1 .. Len(w) PROVE w[k] \in S
  BY <1>7, ElementOfSeq
<1>9. \A n \in {2, 4, 6, 8} : n \in Nat \ {0, 3}
  OBVIOUS
<1>10. \A k \in 1 .. Len(w) : w[k] # "_"
  BY <1>5, <1>8
<1> QED
  BY <1>7, <1>9, <1>10

\* The upper case of a character is no mark if the character is none.
LEMMA UpperMark ==
    ASSUME NEW Char, NEW w \in Seq(Char), NEW k \in 1 .. Len(w)
    PROVE  /\ Upper(w)[k] \in Letters => w[k] \in Letters
           /\ w[k] = "_" => Upper(w)[k] = "_"
<1>1. "_" \notin Letters
  BY LettersAre
<1>2. Upper(w)[k] = IF w[k] \in Letters THEN ToUpper[w[k]] ELSE w[k]
  BY DEF Upper
<1> QED
  BY <1>1, <1>2, UpperPhrase

LEMMA SomeLetters == {"I", "N", "L", "U"} \subseteq Letters
<1>1. ASSUME NEW k \in 1 .. 26 PROVE UpperCase[k] \in Letters
  BY DEF Letters
<1>2. /\ UpperCase[9] = "I" /\ UpperCase[14] = "N"
      /\ UpperCase[12] = "L" /\ UpperCase[21] = "U"
  BY DEF UpperCase
<1>3. 9 \in 1 .. 26 /\ 14 \in 1 .. 26 /\ 12 \in 1 .. 26 /\ 21 \in 1 .. 26
  OBVIOUS
<1> HIDE DEF UpperCase
<1> QED
  BY <1>1, <1>2, <1>3

\* A token that starts with a letter is a unary operator only if it is NOT.
LEMMA WordIsNoSign ==
    ASSUME NEW Char, NEW t \in Tokens(Char), t.val # <<>>, t.val[1] \in Letters,
           Upper(t.val) # <<"N", "O", "T">>
    PROVE  ~st_is_unary_op(t)
<1>1. \A c \in {"+", "-", "!", "~"} : c \notin Letters
  BY LettersAre
<1>2. t.val = <<"!", "!">> => t.val[1] = "!"
  OBVIOUS
<1> QED
  BY <1>1, <1>2 DEF st_is_unary_op

LEMMA LateIsNoSign ==
    ASSUME NEW Char, NEW t \in Tokens(Char), Late(t)
    PROVE  ~st_is_unary_op(t)
<1> DEFINE x == t.val
           u == Upper(x)
<1>1. x \in Seq(Char)
  BY DEF Tokens
<1>2. Len(u) = Len(x)
  BY <1>1, UpperPhrase
<1>3. u \in ToldWords \/ IsPhrase(u)
  BY DEF Late
<1> HIDE DEF u
<1>4. Len(u) >= 1 /\ u[1] \in Letters /\ u # <<"N", "O", "T">>
  <2>1. CASE u \in ToldWords
    <3>1. Len(u) \in Nat \ {0, 3} /\ u[1] \in {"I", "N", "L", "U"}
      BY <2>1, ToldWordsAre
    <3> QED
      BY <3>1, SomeLetters
  <2>2. CASE IsPhrase(u)
    <3>1. PICK k \in 1 .. Len(u) : u[k] = Blank
      BY <2>2 DEF IsPhrase
    <3>2. u[1] \in Letters
      BY <2>2, <3>1, SqliTokensAssumption DEF IsPhrase
    <3>3. u # <<"N", "O", "T">>
      <4>1. SUFFICES ASSUME u = <<"N", "O", "T">> PROVE FALSE
        OBVIOUS
      <4>2. Len(u) = 3 /\ u[1] = "N" /\ u[2] = "O" /\ u[3] = "T"
        BY <4>1
      <4>3. k = 1 \/ k = 2 \/ k = 3
        BY <3>1, <4>2
      <4> QED
        BY <3>1, <4>2, <4>3 DEF Blank
    <3>4. Len(x) \in Nat
      BY <1>1
    <3> QED
      BY <1>2, <3>1, <3>2, <3>3, <3>4
  <2> QED
    BY <1>3, <2>1, <2>2
<1>5. x # <<>> /\ x[1] \in Letters
  <2>1. 1 \in 1 .. Len(x)
    BY <1>1, <1>2, <1>4
  <2>2. u[1] \in Letters => x[1] \in Letters
    BY <1>1, <2>1, UpperMark DEF u
  <2> QED
    BY <1>1, <1>4, <2>1, <2>2, EmptySeq
<1> QED
  BY <1>4, <1>5, WordIsNoSign DEF u

LEMMA CalmIsNoSign ==
    ASSUME NEW Char, NEW t \in Tokens(Char), Calm(t)
    PROVE  ~st_is_unary_op(t)
BY LateIsNoSign DEF Calm, st_is_unary_op

\* Whatever is before a calm token, and before or after it, may be.
LEMMA CalmTwo ==
    ASSUME NEW Char, NEW a, NEW b \in Tokens(Char), Calm(b), a.type # "\\"
    PROVE  Two(a, b)
<1>1. ~st_is_unary_op(b)
  BY CalmIsNoSign
<1>2. b.type \in (KeywordTypes \ {"t"})
  BY DEF Calm, Late, KeywordTypes
<1>3. MergedType(a, b) # Null => Late(b)
  BY DEF Calm, MergedType
<1>4. ~Marked(a, b)
  BY <1>1, <1>2 DEF Marked, Repeated, KeywordTypes
<1>5. b.type \notin {"s", "t", "("} /\ (b.type \in {"n", "v", "f"} => Late(b))
  BY <1>2 DEF Calm, KeywordTypes
<1>6. b.type = "n" => \A k \in 1 .. Len(b.val) : b.val[k] # "_"
  BY DEF Calm, Late
<1> QED
  BY <1>3, <1>4, <1>5, <1>6 DEF Two

LEMMA CalmThree ==
    ASSUME NEW Char, NEW a, NEW b \in Tokens(Char), NEW c \in Tokens(Char),
           Calm(b) \/ Calm(c)
    PROVE  Three(a, b, c)
<1>1. CASE Calm(b)
  <2>1. ~st_is_unary_op(b)
    BY <1>1, CalmIsNoSign
  <2>2. b.type # "."
    BY <1>1 DEF Calm, Late, KeywordTypes
  <2> QED
    BY <2>1, <2>2 DEF Three
<1>2. CASE Calm(c)
  BY <1>2 DEF Calm, Late, KeywordTypes, Three
<1> QED
  BY <1>1, <1>2

-----------------------------------------------------------------------------
(* The tokens that the loop has passed.                                     *)

\* The first m tokens are the same, but for the one at i.
Same(w, v, m, i) == \A k \in 0 .. m - 1 : k # i => w[k] = v[k]

LEMMA PassedPairs ==
    ASSUME NEW n \in 0 .. 6, NEW m \in 0 .. n, NEW t \in Nat, NEW u \in Nat,
           m < n \/ u <= t \/ u = t + 1
    PROVE  \A k \in 0 .. m - 2 : k <= m - 3 \/ k < u =>
               k <= n - 3 \/ k < t \/ (k = t /\ t + 1 < m /\ m = n /\ u = t + 1)
OBVIOUS

LEMMA PassedTriples ==
    ASSUME NEW n \in 0 .. 6, NEW m \in 0 .. n, NEW l \in Nat, NEW j \in Nat,
           m < n \/ j <= l \/ j = l + 1
    PROVE  \A k \in 0 .. m - 3 : k <= m - 4 \/ k < j =>
               k <= n - 4 \/ k < l \/ (k = l /\ l + 2 < m /\ m = n /\ j = l + 1)
OBVIOUS

\* The token at i is changed, and the loop goes to j: what there is to show of
\* the pair and the triple that it passes, and of the ones around the token.
Changed(w, n, m, i, l, t, j, u) ==
    /\ m < n \/ u <= t \/ u = t + 1
    /\ m = n /\ u = t + 1 /\ t + 1 < m => Two(w[t], w[t + 1])
    /\ m < n \/ j <= l \/ j = l + 1
    /\ m = n /\ j = l + 1 /\ l + 2 < m => Three(w[l], w[l + 1], w[l + 2])
    /\ i > 0 /\ i < m /\ (i - 1 <= m - 3 \/ i - 1 < u) => Two(w[i - 1], w[i])
    /\ i + 1 < m /\ (i <= m - 3 \/ i < u) => Two(w[i], w[i + 1])
    /\ i > 1 /\ i < m /\ (i - 2 <= m - 4 \/ i - 2 < j) =>
           Three(w[i - 2], w[i - 1], w[i])
    /\ i > 0 /\ i + 1 < m /\ (i - 1 <= m - 4 \/ i - 1 < j) =>
           Three(w[i - 1], w[i], w[i + 1])
    /\ i + 2 < m /\ (i <= m - 4 \/ i < j) => Three(w[i], w[i + 1], w[i + 2])
    /\ j = m - 1 /\ j > 0 => w[j].type \in {"s", ";"}

LEMMA ChangedPassed ==
    ASSUME NEW v, NEW w, NEW n \in 0 .. 6, NEW m \in 0 .. n, NEW i \in Nat,
           NEW l \in Nat, NEW t \in Nat, NEW j \in Nat, NEW u \in Nat,
           Passed(v, n, l, t), Same(w, v, m, i), Changed(w, n, m, i, l, t, j, u)
    PROVE  Passed(w, m, j, u)
<1>p. \A k \in 0 .. m - 2 :
          /\ k \in 0 .. m - 1 /\ k + 1 \in 0 .. m - 1 /\ k \in 0 .. n - 2
          /\ k = i => i + 1 < m
          /\ k + 1 = i => i > 0 /\ i < m /\ i - 1 = k
  OBVIOUS
<1>t. \A k \in 0 .. m - 3 :
          /\ k \in 0 .. m - 1 /\ k + 1 \in 0 .. m - 1 /\ k + 2 \in 0 .. m - 1
          /\ k \in 0 .. n - 3
          /\ k = i => i + 2 < m
          /\ k + 1 = i => i > 0 /\ i + 1 < m /\ i - 1 = k /\ i + 1 = k + 2
          /\ k + 2 = i => i > 1 /\ i < m /\ i - 2 = k /\ i - 1 = k + 1
  OBVIOUS
<1>1. ASSUME NEW k \in 0 .. m - 2, k <= m - 3 \/ k < u
      PROVE  Two(w[k], w[k + 1])
  <2>1. /\ k \in 0 .. m - 1 /\ k + 1 \in 0 .. m - 1 /\ k \in 0 .. n - 2
        /\ k = i => i + 1 < m
        /\ k + 1 = i => i > 0 /\ i < m /\ i - 1 = k
    BY <1>p, Zenon
  <2>2. k <= n - 3 \/ k < t \/ (k = t /\ t + 1 < m /\ m = n /\ u = t + 1)
    <3>1. m < n \/ u <= t \/ u = t + 1
      BY DEF Changed
    <3>2. \A x \in 0 .. m - 2 : x <= m - 3 \/ x < u =>
              x <= n - 3 \/ x < t \/ (x = t /\ t + 1 < m /\ m = n /\ u = t + 1)
      BY <3>1, PassedPairs
    <3> QED
      BY <1>1, <3>2
  <2>3. CASE k = i
    BY <1>1, <2>1, <2>3 DEF Changed
  <2>4. CASE k + 1 = i
    BY <1>1, <2>1, <2>4 DEF Changed
  <2>5. CASE k # i /\ k + 1 # i /\ (k <= n - 3 \/ k < t)
    <3>1. w[k] = v[k] /\ w[k + 1] = v[k + 1]
      BY <2>1, <2>5 DEF Same
    <3>2. Two(v[k], v[k + 1])
      BY <2>1, <2>5 DEF Passed
    <3> QED
      BY <3>1, <3>2
  <2>6. CASE k = t /\ t + 1 < m /\ m = n /\ u = t + 1
    BY <2>6 DEF Changed
  <2> QED
    BY <2>2, <2>3, <2>4, <2>5, <2>6
<1>2. ASSUME NEW k \in 0 .. m - 3, k <= m - 4 \/ k < j
      PROVE  Three(w[k], w[k + 1], w[k + 2])
  <2>1. /\ k \in 0 .. m - 1 /\ k + 1 \in 0 .. m - 1 /\ k + 2 \in 0 .. m - 1
        /\ k \in 0 .. n - 3
        /\ k = i => i + 2 < m
        /\ k + 1 = i => i > 0 /\ i + 1 < m /\ i - 1 = k /\ i + 1 = k + 2
        /\ k + 2 = i => i > 1 /\ i < m /\ i - 2 = k /\ i - 1 = k + 1
    BY <1>t, Zenon
  <2>2. k <= n - 4 \/ k < l \/ (k = l /\ l + 2 < m /\ m = n /\ j = l + 1)
    <3>1. m < n \/ j <= l \/ j = l + 1
      BY DEF Changed
    <3>2. \A x \in 0 .. m - 3 : x <= m - 4 \/ x < j =>
              x <= n - 4 \/ x < l \/ (x = l /\ l + 2 < m /\ m = n /\ j = l + 1)
      BY <3>1, PassedTriples
    <3> QED
      BY <1>2, <3>2
  <2>3. CASE k = i
    BY <1>2, <2>1, <2>3 DEF Changed
  <2>4. CASE k + 1 = i
    BY <1>2, <2>1, <2>4 DEF Changed
  <2>5. CASE k + 2 = i
    BY <1>2, <2>1, <2>5 DEF Changed
  <2>6. CASE k # i /\ k + 1 # i /\ k + 2 # i /\ (k <= n - 4 \/ k < l)
    <3>1. w[k] = v[k] /\ w[k + 1] = v[k + 1] /\ w[k + 2] = v[k + 2]
      BY <2>1, <2>6 DEF Same
    <3>2. Three(v[k], v[k + 1], v[k + 2])
      BY <2>1, <2>6 DEF Passed
    <3> QED
      BY <3>1, <3>2
  <2>7. CASE k = l /\ l + 2 < m /\ m = n /\ j = l + 1
    BY <2>7 DEF Changed
  <2> QED
    BY <2>2, <2>3, <2>4, <2>5, <2>6, <2>7
<1> QED
  <2>1. j = m - 1 /\ j > 0 => w[j].type \in {"s", ";"}
    BY DEF Changed
  <2> QED
    BY <1>1, <1>2, <2>1 DEF Passed

LEMMA PlacesAreSlots ==
    ASSUME NEW m \in 0 .. 6, NEW i \in Nat
    PROVE  /\ i < m => i \in Slots
           /\ i > 0 /\ i < m => i - 1 \in Slots
           /\ i + 1 < m => i \in Slots /\ i + 1 \in Slots
BY DEF Slots

LEMMA FewerPlaces ==
    ASSUME NEW n \in 0 .. 6, NEW m \in 0 .. n - 1
    PROVE  /\ m \in 0 .. n /\ m \in 0 .. 6 /\ m < n /\ m # n
           /\ ~(6 < m) /\ ~(6 + 1 < m) /\ ~(6 + 2 < m)
OBVIOUS

\* A token becomes calm: only what is behind it has to be looked at.
Calmed(w, n, m, i, l, t, j, u) ==
    /\ Calm(w[i])
    /\ m < n \/ u <= t \/ (u = t + 1 /\ i = t)
    /\ m < n \/ j <= l \/ (j = l + 1 /\ i = l)
    /\ i > 0 /\ i < m => w[i - 1].type # "\\"
    /\ i + 1 < m /\ (i <= m - 3 \/ i < u) => Two(w[i], w[i + 1])
    /\ i + 2 < m => Three(w[i], w[i + 1], w[i + 2])
    /\ j = m - 1 /\ j > 0 => w[j].type \in {"s", ";"}

LEMMA CalmPassed ==
    ASSUME NEW Char, NEW v, NEW w \in [Slots -> Tokens(Char)],
           NEW n \in 0 .. 6, NEW m \in 0 .. n, NEW i \in Nat,
           NEW l \in Nat, NEW t \in Nat, NEW j \in Nat, NEW u \in Nat,
           Passed(v, n, l, t), Same(w, v, m, i), Calmed(w, n, m, i, l, t, j, u)
    PROVE  Passed(w, m, j, u)
<1>0. m \in 0 .. 6
  OBVIOUS
<1>1. /\ i < m => i \in Slots
      /\ i > 0 /\ i < m => i - 1 \in Slots
      /\ i + 1 < m => i \in Slots /\ i + 1 \in Slots
  BY <1>0, PlacesAreSlots, Zenon
<1>2. Calm(w[i])
  BY DEF Calmed
<1>3. ASSUME i > 0, i < m PROVE Two(w[i - 1], w[i])
  <2>1. w[i - 1].type # "\\"
    BY <1>3 DEF Calmed
  <2> QED
    BY <1>1, <1>2, <1>3, <2>1, CalmTwo
<1>4. ASSUME i > 1, i < m PROVE Three(w[i - 2], w[i - 1], w[i])
  <2>1. i > 0
    BY <1>4
  <2> QED
    BY <1>1, <1>2, <1>4, <2>1, CalmThree
<1>5. ASSUME i > 0, i + 1 < m PROVE Three(w[i - 1], w[i], w[i + 1])
  BY <1>1, <1>2, <1>5, CalmThree
<1>6. /\ m < n \/ u <= t \/ u = t + 1
      /\ m < n \/ j <= l \/ j = l + 1
  BY DEF Calmed
<1>7. ASSUME m = n, u = t + 1, t + 1 < m PROVE Two(w[t], w[t + 1])
  <2>1. ~(m < n) /\ ~(u <= t) /\ t < u
    BY <1>7
  <2>2. i = t
    BY <2>1 DEF Calmed
  <2> QED
    BY <1>7, <2>1, <2>2 DEF Calmed
<1>8. ASSUME m = n, j = l + 1, l + 2 < m PROVE Three(w[l], w[l + 1], w[l + 2])
  <2>1. ~(m < n) /\ ~(j <= l)
    BY <1>8
  <2>2. i = l
    BY <2>1 DEF Calmed
  <2> QED
    BY <1>8, <2>2 DEF Calmed
<1>9. /\ i + 1 < m /\ (i <= m - 3 \/ i < u) => Two(w[i], w[i + 1])
      /\ i + 2 < m => Three(w[i], w[i + 1], w[i + 2])
      /\ j = m - 1 /\ j > 0 => w[j].type \in {"s", ";"}
  BY DEF Calmed
<1>10. Changed(w, n, m, i, l, t, j, u)
  BY <1>3, <1>4, <1>5, <1>6, <1>7, <1>8, <1>9, Zenon DEF Changed
<1> QED
  BY <1>10, ChangedPassed

\* Tokens are dropped, and the others stay as they are.
LEMMA FewerPassed ==
    ASSUME NEW v, NEW w, NEW n \in 0 .. 6, NEW m \in 0 .. n - 1,
           NEW l \in Nat, NEW t \in Nat, NEW j \in Nat,
           Passed(v, n, l, t), \A k \in 0 .. m - 1 : w[k] = v[k],
           j = m - 1 /\ j > 0 => w[j].type \in {"s", ";"}
    PROVE  Passed(w, m, j, j)
<1>0. PICK i \in Nat : i = 6
  OBVIOUS
<1>1. /\ m \in 0 .. n /\ m < n /\ m # n
      /\ ~(i < m) /\ ~(i + 1 < m) /\ ~(i + 2 < m)
  BY <1>0, FewerPlaces
<1>2. Same(w, v, m, i)
  BY DEF Same
<1>3. Changed(w, n, m, i, l, t, j, j)
  BY <1>1 DEF Changed
<1> QED
  BY <1>1, <1>2, <1>3, ChangedPassed

\* The last of the tokens that stay is another one, and the loop starts again.
LEMMA LastPassed ==
    ASSUME NEW v, NEW w, NEW n \in 0 .. 6, NEW m \in 0 .. n, NEW l \in Nat,
           NEW t \in Nat, NEW i \in Nat, i + 1 >= m, Passed(v, n, l, t),
           Same(w, v, m, i)
    PROVE  Passed(w, m, 0, 0)
<1>1. Changed(w, n, m, i, l, t, 0, 0)
  <2>1. /\ 0 <= t /\ 0 <= l /\ 0 # t + 1 /\ 0 # l + 1
        /\ ~(i + 1 < m) /\ ~(i + 2 < m) /\ ~(0 > 0)
        /\ i > 0 /\ i < m => ~(i - 1 <= m - 3 \/ i - 1 < 0)
        /\ i > 1 /\ i < m => ~(i - 2 <= m - 4 \/ i - 2 < 0)
    OBVIOUS
  <2> QED
    BY <2>1 DEF Changed
<1> QED
  BY <1>1, ChangedPassed

-----------------------------------------------------------------------------
(* What a rule means that was tried after the others.                       *)

\* Of the rules that come before the one that is taken none applies.
LEMMA FirstOfRules ==
    ASSUME NEW rules, NEW n \in Nat, DOMAIN rules = 1 .. n
    PROVE  \/ First(rules) = "none" /\ \A k \in 1 .. n : ~rules[k].when
           \/ \E k \in 1 .. n :
                  /\ rules[k].when /\ First(rules) = rules[k].rule
                  /\ \A j \in 1 .. n : j < k => ~rules[j].when
<1> DEFINE T == {k \in DOMAIN rules : rules[k].when}
<1>1. CASE T = {}
  BY <1>1 DEF First
<1>2. CASE T # {}
  <2>1. T \in SUBSET Nat
    OBVIOUS
  <2>2. Min(T) \in T /\ \A j \in T : Min(T) <= j
    BY <1>2, <2>1, MinOf
  <2>3. First(rules) = rules[Min(T)].rule
    BY <1>2 DEF First
  <2>4. ASSUME NEW j \in 1 .. n, j < Min(T) PROVE ~rules[j].when
    <3>1. j \in T => Min(T) <= j
      BY <2>2
    <3>2. Min(T) \in Nat /\ j \in Nat
      BY <2>1, <2>2
    <3>3. j \notin T
      BY <2>4, <3>1, <3>2
    <3> QED
      BY <3>3
  <2> QED
    BY <2>2, <2>3, <2>4
<1> QED
  BY <1>1, <1>2

\* What the two tokens are that a rule is taken for.
LEMMA TwoTokenRuleMeans ==
    ASSUME NEW a, NEW b, NEW r, r = TwoTokenRule(a, b)
    PROVE  /\ r \in {"strings", "semicolons", "unary", "leftunary", "backslash",
                     "lefts", "rights", "endbrace"} => Marked(a, b)
           /\ r \in {"none", "like", "collate"} =>
                  ~Marked(a, b) /\ MergedType(a, b) = Null
           /\ r = "none" =>
                  /\ a.type = "t" => b.type \notin Operands \cup {"t", "(", "f"}
                  /\ ~(a.type = "A" /\ b.type = "n")
           /\ r = "function" => IsWord(a, FunctionWords)
           /\ r = "in" => IsWord(a, {InWord, NotWord \o InWord})
           /\ r = "like" => IsLike(a)
           /\ r = "cast" =>
                  a.type = "t" /\ b.type \in Operands \cup {"t", "(", "f"}
           /\ r \in {"strings", "semicolons"} => a.type \in {"s", ";"}
<1> DEFINE rules == <<
    Rule("strings",    a.type = "s" /\ b.type = "s"),
    Rule("semicolons", a.type = ";" /\ b.type = ";"),
    Rule("unary",      /\ a.type \in {"o", "&"}
                       /\ st_is_unary_op(b) \/ b.type = "t"),
    Rule("leftunary",  a.type = "(" /\ st_is_unary_op(b)),
    Rule("merge",      MergedType(a, b) # Null),
    Rule("if",         /\ a.type = ";" /\ b.type = "f" /\ b.len >= 2
                       /\ IsPrefix(<<"I", "F">>, Upper(b.val))),
    Rule("function",   /\ a.type \in {"n", "v"} /\ b.type = "("
                       /\ IsWord(a, FunctionWords)),
    Rule("in",         /\ a.type = "k"
                       /\ IsWord(a, {InWord, NotWord \o InWord})),
    Rule("like",       /\ a.type = "o"
                       /\ IsWord(a, {LikeWord, NotWord \o LikeWord})),
    Rule("cast",       /\ a.type = "t"
                       /\ b.type \in Operands \cup {"t", "(", "f"}),
    Rule("collate",    a.type = "A" /\ b.type = "n"),
    Rule("backslash",  a.type = "\\"),
    Rule("lefts",      a.type = "(" /\ b.type = "("),
    Rule("rights",     a.type = ")" /\ b.type = ")"),
    Rule("brace",      a.type = "{" /\ b.type = "n"),
    Rule("endbrace",   b.type = "}")>>
<1>1. r = First(rules)
  BY DEF TwoTokenRule
<1>2. DOMAIN rules = 1 .. 16
  OBVIOUS
<1>3. \A k \in 1 .. 16 : \/ k = 1 \/ k = 2 \/ k = 3 \/ k = 4 \/ k = 5 \/ k = 6
                         \/ k = 7 \/ k = 8 \/ k = 9 \/ k = 10 \/ k = 11
                         \/ k = 12 \/ k = 13 \/ k = 14 \/ k = 15 \/ k = 16
  OBVIOUS
<1>4. /\ rules[1].rule = "strings" /\ rules[2].rule = "semicolons"
      /\ rules[3].rule = "unary" /\ rules[4].rule = "leftunary"
      /\ rules[5].rule = "merge" /\ rules[6].rule = "if"
      /\ rules[7].rule = "function" /\ rules[8].rule = "in"
      /\ rules[9].rule = "like" /\ rules[10].rule = "cast"
      /\ rules[11].rule = "collate" /\ rules[12].rule = "backslash"
      /\ rules[13].rule = "lefts" /\ rules[14].rule = "rights"
      /\ rules[15].rule = "brace" /\ rules[16].rule = "endbrace"
  BY DEF Rule
<1>5. /\ rules[1].when = (a.type = "s" /\ b.type = "s")
      /\ rules[2].when = (a.type = ";" /\ b.type = ";")
      /\ rules[12].when = (a.type = "\\")
      /\ rules[13].when = (a.type = "(" /\ b.type = "(")
      /\ rules[14].when = (a.type = ")" /\ b.type = ")")
      /\ rules[16].when = (b.type = "}")
  BY DEF Rule
<1>6. rules[3].when = (a.type \in {"o", "&"} /\ (st_is_unary_op(b) \/ b.type = "t"))
  BY DEF Rule
<1>7. /\ rules[4].when = (a.type = "(" /\ st_is_unary_op(b))
      /\ rules[5].when = (MergedType(a, b) # Null)
  BY DEF Rule
<1>8. rules[7].when => IsWord(a, FunctionWords)
  BY DEF Rule
<1>9. rules[8].when => IsWord(a, {InWord, NotWord \o InWord})
  BY DEF Rule
<1>10. rules[9].when = IsLike(a)
  BY DEF Rule, IsLike
<1>11. /\ rules[10].when = (a.type = "t" /\ b.type \in Operands \cup {"t", "(", "f"})
       /\ rules[11].when = (a.type = "A" /\ b.type = "n")
  BY DEF Rule
<1> HIDE DEF rules
<1>12. \/ r = "none" /\ \A k \in 1 .. 16 : ~rules[k].when
       \/ \E k \in 1 .. 16 : /\ rules[k].when /\ r = rules[k].rule
                             /\ \A j \in 1 .. 16 : j < k => ~rules[j].when
  <2>1. \/ First(rules) = "none" /\ \A k \in 1 .. 16 : ~rules[k].when
        \/ \E k \in 1 .. 16 :
               /\ rules[k].when /\ First(rules) = rules[k].rule
               /\ \A j \in 1 .. 16 : j < k => ~rules[j].when
    <3>1. 16 \in Nat
      OBVIOUS
    <3> QED
      BY <1>2, <3>1, FirstOfRules, Zenon
  <2> QED
    BY <1>1, <2>1
<1>13. CASE r = "none" /\ \A k \in 1 .. 16 : ~rules[k].when
  <2>1. /\ ~rules[1].when /\ ~rules[2].when /\ ~rules[3].when /\ ~rules[4].when
        /\ ~rules[5].when /\ ~rules[10].when /\ ~rules[11].when /\ ~rules[12].when
        /\ ~rules[13].when /\ ~rules[14].when /\ ~rules[16].when
    BY <1>13
  <2>2. ~Marked(a, b)
    BY <1>5, <1>6, <1>7, <2>1 DEF Marked, Repeated
  <2> QED
    BY <1>7, <1>11, <1>13, <2>1, <2>2
<1>14. CASE \E k \in 1 .. 16 : /\ rules[k].when /\ r = rules[k].rule
                               /\ \A j \in 1 .. 16 : j < k => ~rules[j].when
  <2>1. PICK k \in 1 .. 16 : /\ rules[k].when /\ r = rules[k].rule
                             /\ \A j \in 1 .. 16 : j < k => ~rules[j].when
    BY <1>14
  <2>2. CASE k \in {1, 2, 3, 4, 12, 13, 14}
    <3>1. rules[k].rule \in {"strings", "semicolons", "unary", "leftunary",
                             "backslash", "lefts", "rights"}
      BY <1>4, <2>2
    <3>2. Marked(a, b)
      BY <1>5, <1>6, <1>7, <2>1, <2>2 DEF Marked, Repeated
    <3>3. r \in {"strings", "semicolons"} => k \in {1, 2}
      BY <1>4, <2>1, <2>2
    <3>4. k \in {1, 2} => a.type \in {"s", ";"}
      BY <1>5, <2>1
    <3> QED
      BY <2>1, <3>1, <3>2, <3>3, <3>4
  <2>3. CASE k = 16
    <3>1. ~rules[9].when
      BY <2>1, <2>3
    <3>2. Marked(a, b)
      BY <1>5, <1>10, <2>1, <2>3, <3>1 DEF Marked
    <3> QED
      BY <1>4, <2>1, <2>3, <3>2
  <2>4. CASE k = 9
    <3>1. ~rules[3].when /\ ~rules[5].when
      BY <2>1, <2>4
    <3>2. IsLike(a) /\ a.type = "o"
      BY <1>10, <2>1, <2>4 DEF IsLike
    <3>3. ~Marked(a, b)
      BY <1>6, <3>1, <3>2 DEF Marked, Repeated
    <3> QED
      BY <1>4, <1>7, <2>1, <2>4, <3>1, <3>2, <3>3
  <2>5. CASE k = 11
    <3>1. ~rules[5].when
      BY <2>1, <2>5
    <3>2. a.type = "A" /\ b.type = "n"
      BY <1>11, <2>1, <2>5
    <3>3. ~Marked(a, b)
      BY <3>2 DEF Marked, Repeated
    <3> QED
      BY <1>4, <1>7, <2>1, <2>5, <3>1, <3>3
  <2>6. CASE k \in {5, 6, 15}
    <3>1. rules[k].rule \in {"merge", "if", "brace"}
      BY <1>4, <2>6
    <3> QED
      BY <2>1, <3>1
  <2>7. CASE k \in {7, 8, 10}
    <3>1. /\ k = 7 => r = "function" /\ IsWord(a, FunctionWords)
          /\ k = 8 => r = "in" /\ IsWord(a, {InWord, NotWord \o InWord})
          /\ k = 10 => r = "cast" /\ rules[10].when
      BY <1>4, <1>8, <1>9, <2>1
    <3> QED
      BY <1>11, <2>7, <3>1
  <2> QED
    BY <1>3, <2>2, <2>3, <2>4, <2>5, <2>6, <2>7
<1> QED
  BY <1>12, <1>13, <1>14

\* What the three tokens are that a rule is taken for.
LEMMA ThreeTokenRuleMeans ==
    ASSUME NEW a, NEW b, NEW c, NEW r, r = ThreeTokenRule(a, b, c)
    PROVE  /\ r = "none" => Three(a, b, c)
           /\ r \in {"sign", "comma"} => ~Three(a, b, c) \/ Calm(c)
           /\ r = "nofunction" =>
                  a.type = "f" /\ b.type = "(" /\ IsWord(a, {UserWord})
<1> DEFINE rules == <<
    Rule("expression", a.type = "1" /\ b.type = "o" /\ c.type = "1"),
    Rule("expression", a.type = "o" /\ b.type # "(" /\ c.type = "o"),
    Rule("expression", a.type = "&" /\ c.type = "&"),
    Rule("expression", a.type = "v" /\ b.type = "o" /\ c.type \in {"v", "1", "n"}),
    Rule("expression", a.type \in {"n", "1"} /\ b.type = "o" /\ c.type \in {"1", "n"}),
    Rule("expression", /\ a.type \in Operands /\ c.type = "t"
                       /\ b.type = "o" /\ b.val = <<":", ":">>),
    Rule("expression", a.type \in Operands /\ b.type = "," /\ c.type \in Operands),
    Rule("sign",       /\ a.type \in {"E", "B", ","} /\ st_is_unary_op(b)
                       /\ c.type = "("),
    Rule("sign",       /\ a.type \in {"k", "E", "B"} /\ st_is_unary_op(b)
                       /\ c.type \in Operands \cup {"f"}),
    Rule("comma",      a.type = "," /\ st_is_unary_op(b) /\ c.type \in Operands),
    Rule("sign",       a.type = "," /\ st_is_unary_op(b) /\ c.type = "f"),
    Rule("expression", a.type = "n" /\ b.type = "." /\ c.type = "n"),
    Rule("sign",       a.type = "E" /\ b.type = "." /\ c.type = "n"),
    Rule("nofunction", /\ a.type = "f" /\ b.type = "(" /\ c.type # ")"
                       /\ IsWord(a, {UserWord})) >>
<1>1. r = First(rules)
  BY DEF ThreeTokenRule
<1>2. DOMAIN rules = 1 .. 14
  OBVIOUS
<1>3. \A k \in 1 .. 14 : \/ k = 1 \/ k = 2 \/ k = 3 \/ k = 4 \/ k = 5 \/ k = 6
                         \/ k = 7 \/ k = 8 \/ k = 9 \/ k = 10 \/ k = 11
                         \/ k = 12 \/ k = 13 \/ k = 14
  OBVIOUS
<1>4. /\ rules[1].rule = "expression" /\ rules[2].rule = "expression"
      /\ rules[3].rule = "expression" /\ rules[4].rule = "expression"
      /\ rules[5].rule = "expression" /\ rules[6].rule = "expression"
      /\ rules[7].rule = "expression" /\ rules[8].rule = "sign"
      /\ rules[9].rule = "sign" /\ rules[10].rule = "comma"
      /\ rules[11].rule = "sign" /\ rules[12].rule = "expression"
      /\ rules[13].rule = "sign" /\ rules[14].rule = "nofunction"
  BY DEF Rule
<1>5. /\ rules[8].when = (/\ a.type \in {"E", "B", ","} /\ st_is_unary_op(b)
                          /\ c.type = "(")
      /\ rules[9].when = (/\ a.type \in {"k", "E", "B"} /\ st_is_unary_op(b)
                          /\ c.type \in Operands \cup {"f"})
      /\ rules[10].when = (a.type = "," /\ st_is_unary_op(b) /\ c.type \in Operands)
      /\ rules[11].when = (a.type = "," /\ st_is_unary_op(b) /\ c.type = "f")
  BY DEF Rule
<1>6. /\ rules[13].when = (a.type = "E" /\ b.type = "." /\ c.type = "n")
      /\ rules[14].when => a.type = "f" /\ b.type = "(" /\ IsWord(a, {UserWord})
  BY DEF Rule
<1> HIDE DEF rules
<1>7. \/ r = "none" /\ \A k \in 1 .. 14 : ~rules[k].when
      \/ \E k \in 1 .. 14 : rules[k].when /\ r = rules[k].rule
  BY <1>1, <1>2, FirstRule
<1>8. CASE r = "none" /\ \A k \in 1 .. 14 : ~rules[k].when
  <2>1. /\ ~rules[8].when /\ ~rules[9].when /\ ~rules[10].when
        /\ ~rules[11].when /\ ~rules[13].when
    BY <1>8
  <2>2. Three(a, b, c)
    BY <1>5, <1>6, <2>1 DEF Three, Operands
  <2> QED
    BY <1>8, <2>2
<1>9. CASE \E k \in 1 .. 14 : rules[k].when /\ r = rules[k].rule
  <2>1. PICK k \in 1 .. 14 : rules[k].when /\ r = rules[k].rule
    BY <1>9
  <2>2. CASE k \in {8, 9, 10, 11, 13}
    <3>1. r \in {"sign", "comma"}
      BY <1>4, <2>1, <2>2
    <3>2. ASSUME Three(a, b, c) PROVE Calm(c)
      BY <1>5, <1>6, <2>1, <2>2, <3>2 DEF Three, Operands, Calm
    <3> QED
      BY <3>1, <3>2
  <2>3. CASE k = 14
    BY <1>4, <1>6, <2>1, <2>3
  <2>4. CASE k \notin {8, 9, 10, 11, 13, 14}
    <3>1. r = "expression"
      BY <1>3, <1>4, <2>1, <2>4
    <3> QED
      BY <3>1
  <2> QED
    BY <2>2, <2>3, <2>4
<1> QED
  BY <1>7, <1>8, <1>9

-----------------------------------------------------------------------------
(* A phrase that was merged of two tokens.                                  *)

\* The part of a phrase after the blank between its parts, in upper case.
LEMMA UpperRest ==
    ASSUME NEW Char, Blank \in Char, NEW x \in Seq(Char), NEW y \in Seq(Char)
    PROVE  LET u == Upper(x \o <<Blank>> \o y)
           IN  /\ Len(x) + 1 \in 1 .. Len(u) /\ u[Len(x) + 1] = Blank
               /\ SubSeq(u, (Len(x) + 1) + 1, Len(u)) = Upper(y)
<1> DEFINE w == x \o <<Blank>> \o y
           u == Upper(w)
           n == Len(x)
           T == {u[k] : k \in 1 .. Len(u)}
           r == SubSeq(u, (n + 1) + 1, Len(u))
<1>1. /\ w \in Seq(Char) /\ Len(w) = n + 1 + Len(y) /\ w[n + 1] = Blank
      /\ \A k \in 1 .. Len(y) : w[n + 1 + k] = y[k]
  BY PhraseParts
<1>2. n \in Nat /\ Len(y) \in Nat
  OBVIOUS
<1> HIDE DEF w, n
<1>3. /\ Len(u) = Len(w) /\ n + 1 \in 1 .. Len(w)
      /\ \A k \in 1 .. Len(w) : w[k] = Blank => u[k] = Blank
  BY <1>1, <1>2, UpperPhrase
<1>4. /\ u = [k \in 1 .. Len(w) |-> IF w[k] \in Letters THEN ToUpper[w[k]] ELSE w[k]]
      /\ Upper(y) = [k \in 1 .. Len(y) |->
                        IF y[k] \in Letters THEN ToUpper[y[k]] ELSE y[k]]
  BY <1>1 DEF Upper
<1>5. ASSUME NEW k \in 1 .. Len(y)
      PROVE  /\ n + 1 + k \in 1 .. Len(w) /\ u[n + 1 + k] = Upper(y)[k]
  <2>1. n + 1 + k \in 1 .. Len(w)
    BY <1>1, <1>2
  <2> QED
    BY <1>1, <1>4, <2>1
<1> HIDE DEF u
<1>6. /\ r \in Seq(T)
      /\ Len(r) = IF (n + 1) + 1 <= Len(u) THEN Len(u) - ((n + 1) + 1) + 1 ELSE 0
      /\ \A i \in 1 .. Len(u) - ((n + 1) + 1) + 1 : r[i] = u[(n + 1) + 1 + i - 1]
  <2>1. (n + 1) + 1 \in Int /\ Len(u) \in Int
    BY <1>1, <1>2, <1>3
  <2>2. \A i \in (n + 1) + 1 .. Len(u) : u[i] \in T
    <3>1. \A i \in (n + 1) + 1 .. Len(u) : i \in 1 .. Len(u)
      BY <1>2, <2>1
    <3> QED
      BY <3>1
  <2> HIDE DEF T
  <2> QED
    BY <2>1, <2>2, SubSeqProperties
<1>7. Len(r) = Len(y) /\ Len(u) - ((n + 1) + 1) + 1 = Len(y)
  BY <1>1, <1>2, <1>3, <1>6
<1>8. Upper(y) \in Seq(T) /\ Len(Upper(y)) = Len(y)
  <2>1. \A k \in 1 .. Len(y) : Upper(y)[k] \in T
    BY <1>3, <1>5
  <2>2. Upper(y) \in [1 .. Len(y) -> T]
    <3> HIDE DEF T
    <3> QED
      BY <1>4, <2>1
  <2> HIDE DEF T
  <2> QED
    BY <1>2, <2>2
<1>9. ASSUME NEW i \in 1 .. Len(r) PROVE r[i] = Upper(y)[i]
  <2>1. (n + 1) + 1 + i - 1 = n + 1 + i
    BY <1>2
  <2> QED
    BY <1>5, <1>6, <1>7, <2>1
<1>10. r = Upper(y)
  <2> HIDE DEF r, T
  <2> QED
    BY <1>6, <1>7, <1>8, <1>9, SeqEqual
<1> QED
  BY <1>1, <1>3, <1>10 DEF u, w, n

LEMMA MergedPhrase ==
    ASSUME NEW Char, Blank \in Char, NEW a \in Tokens(Char), NEW b \in Tokens(Char),
           MergedType(a, b) # Null
    PROVE  LET w == a.val \o <<Blank>> \o b.val
               rest == Upper(b.val)
               plain == MergedType(a, b) # "t" /\ \A k \in 1 .. Len(w) : w[k] # "_"
           IN  /\ w \in Seq(Char) /\ IsPhrase(Upper(w))
               /\ rest \notin FunctionWords
               /\ MergedType(a, b) \in {"n", "v", "f"} => plain
               /\ rest \in ToldWords \/ IsPhrase(rest) => plain
<1> DEFINE x == a.val
           y == b.val
           w == x \o <<Blank>> \o y
           u == Upper(w)
           k == Len(x) + 1
           rest == SubSeq(u, k + 1, Len(u))
           plain == Keywords[u] # "t" /\ \A i \in 1 .. Len(u) : u[i] # "_"
<1>1. x \in Seq(Char) /\ y \in Seq(Char)
  BY DEF Tokens
<1>2. /\ u \in DOMAIN Keywords /\ MergedType(a, b) = Keywords[u]
  BY DEF MergedType, lookup
<1>3. k \in 1 .. Len(u) /\ u[k] = Blank /\ rest = Upper(y)
  BY <1>1, UpperRest
<1>4. w \in Seq(Char)
  BY <1>1, PhraseParts
<1> HIDE DEF w, k
<1>5. /\ rest \notin FunctionWords
      /\ Keywords[u] \in {"n", "v", "f"} => plain
      /\ \/ rest \in {InWord, NotWord \o InWord, LikeWord, NotWord \o LikeWord}
         \/ rest \in DOMAIN Keywords /\ \E i \in 1 .. Len(rest) : rest[i] = Blank
         => plain
  <2> HIDE DEF u
  <2> QED
    BY <1>2, <1>3, SqliFoldAssumption
<1>6. IsPhrase(u)
  <2> HIDE DEF u
  <2> QED
    BY <1>2, <1>3 DEF IsPhrase
<1>7. rest \in ToldWords \/ IsPhrase(rest) => plain
  <2>1. UserWord \in FunctionWords
    BY DEF FunctionWords
  <2> HIDE DEF u, rest, plain
  <2>2. rest # UserWord
    BY <1>5, <2>1
  <2> QED
    BY <1>5, <2>2 DEF ToldWords, IsPhrase, plain, rest
<1>8. ASSUME plain PROVE \A i \in 1 .. Len(w) : w[i] # "_"
  <2>1. Len(u) = Len(w)
    BY <1>4, UpperPhrase
  <2>2. \A i \in 1 .. Len(w) : w[i] = "_" => u[i] = "_"
    BY <1>4, UpperMark
  <2> QED
    BY <1>8, <2>1, <2>2
<1> HIDE DEF rest, u
<1>9. \/ ~plain
      \/ MergedType(a, b) # "t" /\ \A i \in 1 .. Len(w) : w[i] # "_"
  BY <1>2, <1>8
<1> HIDE DEF plain
<1> QED
  BY <1>3, <1>4, <1>5, <1>6, <1>7, <1>9, <1>2 DEF w, u

\* A phrase that is merged of two tokens is known late, if its type says that it
\* must be, or if the second of its words was.
LEMMA MergedLate ==
    ASSUME NEW Char, Blank \in Char, NEW a \in Tokens(Char), NEW b \in Tokens(Char),
           MergedType(a, b) # Null, NEW m, m = syntax_merge_words(a, b)
    PROVE  /\ m \in Tokens(Char) /\ m.type \in KeywordTypes
           /\ m.type \in {"n", "v", "f"} => Late(m)
           /\ Late(b) => Late(m)
<1>1. m \in Tokens(Char) /\ m.type \in KeywordTypes
  BY MergedToken
<1>2. m.type = MergedType(a, b) /\ m.val = a.val \o <<Blank>> \o b.val
  BY DEF syntax_merge_words, NoToken
<1>3. /\ IsPhrase(Upper(m.val))
      /\ m.type \in {"n", "v", "f"} =>
             m.type # "t" /\ \A k \in 1 .. Len(m.val) : m.val[k] # "_"
      /\ Upper(b.val) \in ToldWords \/ IsPhrase(Upper(b.val)) =>
             m.type # "t" /\ \A k \in 1 .. Len(m.val) : m.val[k] # "_"
  BY <1>2, MergedPhrase
<1> QED
  BY <1>1, <1>3 DEF Late

\* The name of a function is the end of no phrase.
LEMMA FunctionUnmerged ==
    ASSUME NEW Char, Blank \in Char, NEW a \in Tokens(Char), NEW b \in Tokens(Char),
           IsWord(b, FunctionWords)
    PROVE  MergedType(a, b) = Null
BY MergedPhrase DEF IsWord

-----------------------------------------------------------------------------
(* What a rule does to the tokens that were passed.  n of them are there, m  *)
(* stay, and the loop is at l.                                              *)

\* w is v with the token t at i.
Put(w, v, i, t) == \A k \in Slots : w[k] = IF k = i THEN t ELSE v[k]

\* r is t with another type.
Renamed(r, t, type) == r.type = type /\ r.val = t.val /\ r.len = t.len

\* t has one of the types.
Typed(t, types) == t.type \in types

LEMMA PassedTwo ==
    ASSUME NEW v, NEW n \in 0 .. 6, NEW l \in Nat, NEW t \in Nat, Passed(v, n, l, t),
           NEW k \in Nat, k <= n - 2, k <= n - 3 \/ k < t
    PROVE  Two(v[k], v[k + 1])
<1>1. k \in 0 .. n - 2
  OBVIOUS
<1> QED
  BY <1>1 DEF Passed

\* The token before one that the loop has passed is no backslash.
LEMMA NoBackslash ==
    ASSUME NEW v, NEW n \in 0 .. 6, NEW l \in Nat, NEW t \in Nat, Passed(v, n, l, t),
           NEW i \in Nat, i > 0, i <= n - 2 \/ (i <= n - 1 /\ i <= t)
    PROVE  v[i - 1].type # "\\"
<1>1. /\ i - 1 \in Nat /\ i - 1 <= n - 2 /\ (i - 1 <= n - 3 \/ i - 1 < t)
      /\ (i - 1) + 1 = i
  OBVIOUS
<1>2. Two(v[i - 1], v[(i - 1) + 1])
  BY <1>1, PassedTwo
<1> QED
  BY <1>2 DEF Two, Marked

\* Of two tokens none is passed as long as the loop is at the first.
LEMMA FewTokens ==
    ASSUME NEW w, NEW m \in 0 .. 2
    PROVE  Passed(w, m, 0, 0)
<1>1. /\ \A k \in 0 .. m - 2 : ~(k <= m - 3 \/ k < 0)
      /\ \A k : k \notin 0 .. m - 3
      /\ ~(0 = m - 1 /\ 0 > 0)
  OBVIOUS
<1> QED
  BY <1>1 DEF Passed

\* Nothing is changed, but the loop goes on by a pair or by a triple.
Moved(w, n, l, t, j, u) ==
    /\ u = t \/ (u = t + 1 /\ Two(w[t], w[t + 1]))
    /\ j = l \/ (j = l + 1 /\ Three(w[l], w[l + 1], w[l + 2]))
    /\ j = n - 1 /\ j > 0 => w[j].type \in {"s", ";"}

LEMMA MorePassed ==
    ASSUME NEW v, NEW w, NEW n \in 0 .. 6, NEW l \in Nat, NEW t \in Nat,
           NEW j \in Nat, NEW u \in Nat, Passed(v, n, l, t),
           \A k \in 0 .. n - 1 : w[k] = v[k], Moved(w, n, l, t, j, u)
    PROVE  Passed(w, n, j, u)
<1>0. PICK i \in Nat : i = 6
  OBVIOUS
<1>1. /\ n \in 0 .. n /\ ~(n < n) /\ ~(i < n) /\ ~(i + 1 < n) /\ ~(i + 2 < n)
  <2>1. i = 6 => n \in 0 .. n /\ ~(n < n) /\ ~(i < n) /\ ~(i + 1 < n) /\ ~(i + 2 < n)
    OBVIOUS
  <2> QED
    BY <1>0, <2>1, Zenon
<1>2. Same(w, v, n, i)
  BY DEF Same
<1>3. u <= t \/ (u = t + 1 /\ Two(w[t], w[t + 1]))
  <2>1. u = t => u <= t
    OBVIOUS
  <2> QED
    BY <2>1, Zenon DEF Moved
<1>4. j <= l \/ (j = l + 1 /\ Three(w[l], w[l + 1], w[l + 2]))
  <2>1. j = l => j <= l
    OBVIOUS
  <2> QED
    BY <2>1, Zenon DEF Moved
<1>5. u <= t => u # t + 1
  OBVIOUS
<1>6. j <= l => j # l + 1
  OBVIOUS
<1>7. j = n - 1 /\ j > 0 => w[j].type \in {"s", ";"}
  BY DEF Moved
<1>8. Changed(w, n, n, i, l, t, j, u)
  BY <1>1, <1>3, <1>4, <1>5, <1>6, <1>7, Zenon DEF Changed
<1> QED
  BY <1>1, <1>2, <1>8, ChangedPassed

\* A token is copied over the one before it, and the loop starts again.  One that
\* is passed when this happens is calm.
LEMMA CopyPassed ==
    ASSUME NEW Char, NEW v \in [Slots -> Tokens(Char)], NEW n \in 2 .. 6,
           NEW i \in 0 .. n - 2, NEW m \in 0 .. n - 1, NEW l \in Nat, NEW t \in Nat,
           Passed(v, n, l, t), i + 2 < n => Calm(v[i + 1]),
           NEW w \in [Slots -> Tokens(Char)], Put(w, v, i, v[i + 1])
    PROVE  Passed(w, m, 0, 0)
<1>1. /\ n \in 0 .. 6 /\ m \in 0 .. n /\ i \in Nat /\ m < n
      /\ i \in Slots /\ i + 1 \in Slots /\ i # i + 1
      /\ i + 2 < n => i + 2 \in Slots
      /\ i > 0 => i - 1 \in Slots /\ i - 1 # i /\ i <= n - 2
      /\ \A k \in 0 .. m - 1 : k \in Slots
  BY DEF Slots
<1>2. \A k \in Slots : w[k] = IF k = i THEN v[i + 1] ELSE v[k]
  BY DEF Put
<1>3. Same(w, v, m, i)
  BY <1>1, <1>2 DEF Same
<1>z. PICK z \in Nat : z = 0
  OBVIOUS
<1>4. CASE i + 2 < n
  <2>1. /\ Calm(w[i]) /\ Calm(w[i + 1]) /\ w[i].type # "\\"
        /\ w[i] \in Tokens(Char) /\ w[i + 1] \in Tokens(Char)
        /\ w[i + 2] \in Tokens(Char)
    <3>1. Calm(v[i + 1]) => v[i + 1].type # "\\"
      BY DEF Calm, Late, KeywordTypes
    <3> QED
      BY <1>1, <1>2, <1>4, <3>1
  <2>2. Two(w[i], w[i + 1]) /\ Three(w[i], w[i + 1], w[i + 2])
    BY <2>1, CalmTwo, CalmThree
  <2>3. i > 0 => w[i - 1].type # "\\"
    <3>1. i > 0 => v[i - 1].type # "\\"
      BY <1>1, NoBackslash
    <3> QED
      BY <1>1, <1>2, <3>1
  <2>4. z <= t /\ z <= l /\ ~(z > 0)
    BY <1>z
  <2>5. Calmed(w, n, m, i, l, t, z, z)
    BY <1>1, <2>1, <2>2, <2>3, <2>4 DEF Calmed
  <2>6. Passed(w, m, z, z)
    BY <1>1, <1>3, <2>5, CalmPassed
  <2> QED
    BY <1>z, <2>6
<1>5. CASE ~(i + 2 < n)
  <2>1. i + 1 >= m
    BY <1>5
  <2> QED
    BY <1>1, <1>3, <2>1, LastPassed
<1> QED
  BY <1>4, <1>5

-----------------------------------------------------------------------------
(* Tokens that are given another type.                                      *)

LEMMA ToldLate ==
    ASSUME NEW Char, NEW t \in Tokens(Char), Upper(t.val) \in ToldWords,
           t.type \in KeywordTypes \ {"t"}
    PROVE  Late(t)
<1>1. t.val \in Seq(Char)
  BY DEF Tokens
<1>2. ASSUME NEW k \in 1 .. Len(t.val) PROVE t.val[k] # "_"
  <2>1. Len(Upper(t.val)) = Len(t.val)
    BY <1>1, UpperPhrase
  <2>2. Upper(t.val)[k] # "_"
    BY <2>1, ToldWordsAre
  <2>3. t.val[k] = "_" => Upper(t.val)[k] = "_"
    BY <1>1, UpperMark
  <2> QED
    BY <2>2, <2>3
<1> QED
  BY <1>2 DEF Late

LEMMA BeforeParenthesis ==
    ASSUME NEW Char, NEW a \in Tokens(Char), NEW b \in Tokens(Char),
           Typed(b, {"("}), Typed(a, {"f", "n", "o"})
    PROVE  Two(a, b)
<1>1. MergedType(a, b) = Null
  BY DEF MergedType, Typed
<1>2. ~Marked(a, b)
  BY DEF Marked, Repeated, st_is_unary_op, Typed
<1> QED
  BY <1>1, <1>2 DEF Two, Typed

LEMMA BehindNoOperand ==
    ASSUME NEW Char, NEW a \in Tokens(Char), NEW b \in Tokens(Char),
           Typed(a, {";", "A"}), Typed(b, {"T", "t"})
    PROVE  Two(a, b)
<1>1. MergedType(a, b) = Null
  BY DEF MergedType, Typed
<1>2. ~Marked(a, b)
  BY DEF Marked, Repeated, Typed
<1> QED
  BY <1>1, <1>2 DEF Two, Typed

\* IF becomes a T, and IN becomes a name.
LEMMA RenamedTwo ==
    ASSUME NEW Char, NEW a \in Tokens(Char), NEW b \in Tokens(Char),
           NEW r \in Tokens(Char), Two(a, b),
           \/ Typed(a, {"f"}) /\ Renamed(r, a, "T")
           \/ Typed(a, {"k"}) /\ Renamed(r, a, "n")
    PROVE  Two(r, b)
<1>0. /\ r.val = a.val /\ r.len = a.len
      /\ \/ a.type = "f" /\ r.type = "T"
         \/ a.type = "k" /\ r.type = "n"
  BY DEF Typed, Renamed
<1>1. MergedType(r, b) = MergedType(a, b)
  <2>1. /\ a.type \in {"k", "n", "o", "U", "f", "E", "T", "t"}
        /\ r.type \in {"k", "n", "o", "U", "f", "E", "T", "t"}
    BY <1>0
  <2> QED
    BY <1>0, <2>1, Zenon DEF MergedType
<1>2. ~Marked(r, b)
  BY <1>0 DEF Two, Marked, Repeated, IsLike
<1> QED
  BY <1>0, <1>1, <1>2 DEF Two

\* The name of a function becomes one.
LEMMA FunctionTwo ==
    ASSUME NEW Char, Blank \in Char, NEW p \in Tokens(Char), NEW a \in Tokens(Char),
           NEW r \in Tokens(Char), Renamed(r, a, "f"), Typed(a, {"n", "v"}),
           IsWord(a, FunctionWords), Two(p, a)
    PROVE  Two(p, r)
<1>0. r.val = a.val /\ r.type = "f" /\ a.type \in {"n", "v"}
  BY DEF Typed, Renamed
<1>1. MergedType(p, r) = Null
  BY <1>0, FunctionUnmerged DEF IsWord
<1>2. ~Marked(p, r)
  BY <1>0 DEF Two, Marked, Repeated, st_is_unary_op
<1>3. Late(a) => Late(r)
  BY <1>0 DEF Late, KeywordTypes
<1> QED
  BY <1>0, <1>1, <1>2, <1>3 DEF Two

LEMMA FunctionThree ==
    ASSUME NEW Char, NEW p \in Tokens(Char), NEW q \in Tokens(Char),
           NEW a \in Tokens(Char), NEW r \in Tokens(Char),
           Renamed(r, a, "f"), Typed(a, {"n", "v"}), Three(p, q, a)
    PROVE  Three(p, q, r)
<1>0. r.val = a.val /\ r.type = "f" /\ a.type \in {"n", "v"}
  BY DEF Typed, Renamed
<1>1. Late(a) => Late(r)
  BY <1>0 DEF Late, KeywordTypes
<1> QED
  BY <1>0, <1>1 DEF Three

LEMMA RetypedIs ==
    ASSUME NEW Char, NEW t \in Tokens(Char), NEW x
    PROVE  LET r == [t EXCEPT !.type = x]
           IN  r.type = x /\ r.val = t.val /\ r.len = t.len
BY DEF Tokens

\* Places around the one where the loop is.
LEMMA PlacesAround ==
    ASSUME NEW n \in 2 .. 6, NEW l \in 0 .. n - 2
    PROVE  /\ n \in 0 .. 6 /\ n \in 0 .. n /\ n - 1 \in 0 .. n /\ l \in Nat
           /\ n - 1 < n /\ ~(n < n) /\ l <= l /\ l + 1 < n /\ l < n
           /\ l # n - 1 /\ l \in Slots /\ l + 1 \in Slots /\ l # l + 1
           /\ \A k \in 0 .. n - 1 : k \in Slots
           /\ l > 0 => /\ l - 1 \in Slots /\ l - 1 # l /\ l - 1 # l + 1
                       /\ l - 1 <= n - 3 /\ l <= n - 2
           /\ l > 1 => l - 2 \in Slots /\ l - 2 # l
           /\ l + 2 < n => /\ l + 2 \in Slots /\ l + 2 # l /\ l + 2 # l + 1
                           /\ l <= n - 3
BY DEF Slots

-----------------------------------------------------------------------------
(* The loop looks at two tokens.                                            *)

LEMMA MergePassed ==
    ASSUME NEW Char, Blank \in Char, NEW v \in [Slots -> Tokens(Char)],
           NEW n \in 2 .. 6, NEW l \in 0 .. n - 2, Passed(v, n, l, l),
           MergedType(v[l], v[l + 1]) # Null,
           NEW w \in [Slots -> Tokens(Char)],
           Put(w, v, l, syntax_merge_words(v[l], v[l + 1])),
           NEW m \in 0 .. n, m + 1 = n, NEW j \in Nat, j < l \/ j = 0
    PROVE  Passed(w, m, j, j)
<1>1. /\ n \in 0 .. 6 /\ l \in Nat
      /\ l \in Slots /\ l + 1 \in Slots /\ l + 1 # l
      /\ l > 0 => l - 1 \in Slots /\ l - 1 # l /\ l - 1 <= n - 3 /\ l <= n - 2
      /\ l > 1 => l - 2 \in Slots /\ l - 2 # l
      /\ l + 2 < n => l + 2 \in Slots /\ l + 2 # l /\ l <= n - 3
      /\ \A k \in 0 .. n - 1 : k \in Slots
  BY PlacesAround
<1>m. m < n /\ ~(m = n)
  OBVIOUS
<1>2. \A k \in Slots :
          w[k] = IF k = l THEN syntax_merge_words(v[l], v[l + 1]) ELSE v[k]
  BY DEF Put
<1>3. /\ w[l] = syntax_merge_words(v[l], v[l + 1])
      /\ v[l] \in Tokens(Char) /\ v[l + 1] \in Tokens(Char)
  BY <1>1, <1>2
<1>4. /\ w[l] \in Tokens(Char) /\ w[l].type \in KeywordTypes
      /\ w[l].type \in {"n", "v", "f"} => Late(w[l])
      /\ Late(v[l + 1]) => Late(w[l])
  BY <1>3, MergedLate
<1>5. Same(w, v, m, l)
  <2>1. \A k \in 0 .. m - 1 : k \in 0 .. n - 1
    OBVIOUS
  <2> QED
    BY <1>1, <1>2, <2>1 DEF Same
<1>6. CASE l + 2 = n
  <2>1. \A x, y : Three(x, y, w[l])
    BY <1>4 DEF Three, KeywordTypes
  <2>2. /\ ~(l + 1 < m) /\ ~(l + 2 < m) /\ ~(j = m - 1 /\ j > 0)
        /\ ~(l > 0 /\ l < m /\ (l - 1 <= m - 3 \/ l - 1 < j))
    BY <1>6
  <2>3. Changed(w, n, m, l, l, l, j, j)
    BY <1>m, <2>1, <2>2 DEF Changed
  <2> QED
    BY <1>1, <1>5, <2>3, ChangedPassed
<1>7. CASE l + 2 < n
  <2>1. Two(v[l], v[l + 1])
    BY <1>1, <1>7, PassedTwo
  <2>2. Late(v[l + 1]) /\ Calm(w[l]) /\ Calm(v[l + 1])
    BY <1>4, <2>1 DEF Two, Calm
  <2>3. w[l + 1] = v[l + 1]
    BY <1>1, <1>2
  <2>4. Two(w[l], w[l + 1])
    <3>1. w[l].type # "\\"
      BY <1>4 DEF KeywordTypes
    <3> QED
      BY <1>3, <2>2, <2>3, <3>1, CalmTwo
  <2>5. Three(w[l], w[l + 1], w[l + 2])
    BY <1>1, <1>3, <1>7, <2>2, <2>3, CalmThree
  <2>6. l > 0 => w[l - 1].type # "\\"
    <3>1. l > 0 => v[l - 1].type # "\\"
      BY <1>1, NoBackslash
    <3> QED
      BY <1>1, <1>2, <3>1
  <2>7. ~(j = m - 1 /\ j > 0)
    BY <1>7
  <2>8. Calmed(w, n, m, l, l, l, j, j)
    BY <1>m, <2>2, <2>4, <2>5, <2>6, <2>7 DEF Calmed
  <2> QED
    BY <1>1, <1>5, <2>8, CalmPassed
<1>8. l + 2 = n \/ l + 2 < n
  OBVIOUS
<1> QED
  BY <1>6, <1>7, <1>8

LEMMA BackslashPassed ==
    ASSUME NEW Char, NEW v \in [Slots -> Tokens(Char)],
           NEW n \in 2 .. 6, NEW l \in 0 .. n - 2, Passed(v, n, l, l), l + 2 >= n,
           NEW w \in [Slots -> Tokens(Char)], NEW r, r.type = "1", Put(w, v, l, r)
    PROVE  Passed(w, n, 0, 0)
<1>1. /\ n \in 0 .. 6 /\ n \in 0 .. n /\ l \in Nat /\ l \in Slots
      /\ \A k \in 0 .. n - 1 : k \in Slots
      /\ l > 0 => l - 1 \in Slots /\ l - 1 # l /\ l <= n - 2
  BY PlacesAround
<1>2. \A k \in Slots : w[k] = IF k = l THEN r ELSE v[k]
  BY DEF Put
<1>3. Calm(w[l])
  BY <1>1, <1>2 DEF Calm
<1>4. Same(w, v, n, l)
  BY <1>1, <1>2 DEF Same
<1>5. l > 0 => w[l - 1].type # "\\"
  <2>1. l > 0 => v[l - 1].type # "\\"
    BY <1>1, NoBackslash
  <2> QED
    BY <1>1, <1>2, <2>1
<1>6. PICK z \in Nat : z = 0
  OBVIOUS
<1>7. /\ z <= l /\ ~(z > 0) /\ ~(l + 2 < n) /\ ~(l <= n - 3 \/ l < z)
  BY <1>6
<1>8. Calmed(w, n, n, l, l, l, z, z)
  BY <1>1, <1>3, <1>5, <1>7 DEF Calmed
<1>9. Passed(w, n, z, z)
  BY <1>1, <1>4, <1>8, CalmPassed
<1> QED
  BY <1>6, <1>9

Behind(i, l) == i = l + 1

LEMMA PlacesNext ==
    ASSUME NEW n \in 2 .. 6, NEW l \in 0 .. n - 2, NEW i \in Nat, Behind(i, l)
    PROVE  /\ i \in Slots /\ l # i /\ l <= l /\ ~(i < l) /\ l # n - 1 /\ l # l + 1
           /\ i - 1 = l /\ i - 2 = l - 1 /\ i = l + 1
           /\ i + 1 < n => i + 1 \in Slots /\ i + 1 # i /\ i <= n - 2
BY DEF Slots, Behind

\* A token after ";" that was a function is a T.
LEMMA IfPassed ==
    ASSUME NEW Char, NEW v \in [Slots -> Tokens(Char)],
           NEW n \in 2 .. 6, NEW l \in 0 .. n - 2, NEW i \in Nat, Behind(i, l),
           Passed(v, n, l, l), Typed(v[l], {";"}), Typed(v[i], {"f"}),
           NEW w \in [Slots -> Tokens(Char)], NEW r \in Tokens(Char),
           Renamed(r, v[i], "T"), Put(w, v, i, r)
    PROVE  Passed(w, n, l, l)
<1>1. /\ n \in 0 .. 6 /\ n \in 0 .. n /\ ~(n < n) /\ l \in Nat /\ l \in Slots
      /\ \A k \in 0 .. n - 1 : k \in Slots
  BY PlacesAround
<1>2. /\ i \in Slots /\ l # i /\ l <= l /\ ~(i < l) /\ l # n - 1 /\ l # l + 1
      /\ i - 1 = l /\ i - 2 = l - 1 /\ i = l + 1
      /\ i + 1 < n => i + 1 \in Slots /\ i + 1 # i /\ i <= n - 2
  BY PlacesNext
<1>3. \A k \in Slots : w[k] = IF k = i THEN r ELSE v[k]
  BY DEF Put
<1>4. w[l] = v[l] /\ w[i] = r /\ w[l] \in Tokens(Char)
  BY <1>1, <1>2, <1>3
<1>5. Same(w, v, n, i)
  BY <1>1, <1>3 DEF Same
<1>6. Typed(w[l], {";", "A"}) /\ Typed(w[i], {"T", "t"})
  BY <1>4, Zenon DEF Renamed, Typed
<1>7. Two(w[l], w[i])
  BY <1>4, <1>6, BehindNoOperand
<1>8. ASSUME i + 1 < n, i <= n - 3 PROVE Two(w[i], w[i + 1])
  <2>1. Two(v[i], v[i + 1])
    BY <1>1, <1>2, <1>8, PassedTwo
  <2>2. w[i + 1] = v[i + 1]
    BY <1>2, <1>3, <1>8
  <2> QED
    BY <1>2, <1>4, <1>8, <2>1, <2>2, RenamedTwo
<1>9. /\ \A x, y : Three(x, w[l], y) /\ Three(w[l], x, y)
      /\ \A x, y : Three(w[i], x, y)
      /\ \A x, y : Three(x, w[i], y)
      /\ \A x, y : Three(x, y, w[i])
  BY <1>6 DEF Three, st_is_unary_op, Typed
<1>11. Changed(w, n, n, i, l, l, l, l)
  BY <1>1, <1>2, <1>7, <1>8, <1>9 DEF Changed
<1> QED
  BY <1>1, <1>5, <1>11, ChangedPassed

\* A name before a parenthesis becomes a function.
LEMMA FunctionPassed ==
    ASSUME NEW Char, Blank \in Char, NEW v \in [Slots -> Tokens(Char)],
           NEW n \in 2 .. 6, NEW l \in 0 .. n - 2, Passed(v, n, l, l),
           Typed(v[l], {"n", "v"}), Typed(v[l + 1], {"("}),
           IsWord(v[l], FunctionWords),
           NEW w \in [Slots -> Tokens(Char)], NEW r \in Tokens(Char),
           Renamed(r, v[l], "f"), Put(w, v, l, r)
    PROVE  Passed(w, n, l, l)
<1>1. /\ n \in 0 .. 6 /\ n \in 0 .. n /\ ~(n < n) /\ l \in Nat /\ l \in Slots
      /\ l <= l /\ l # l + 1 /\ l # n - 1 /\ l + 1 \in Slots
      /\ l > 0 => l - 1 \in Slots /\ l - 1 # l /\ l - 1 <= n - 3 /\ l <= n - 2
      /\ l > 1 => l - 2 \in Slots /\ l - 2 # l
      /\ \A k \in 0 .. n - 1 : k \in Slots
  BY PlacesAround
<1>2. \A k \in Slots : w[k] = IF k = l THEN r ELSE v[k]
  BY DEF Put
<1>3. w[l] = r /\ w[l + 1] = v[l + 1] /\ w[l + 1] \in Tokens(Char)
  BY <1>1, <1>2
<1>4. Same(w, v, n, l)
  BY <1>1, <1>2 DEF Same
<1>5. /\ Typed(w[l], {"f", "n", "o"}) /\ Typed(w[l + 1], {"("})
      /\ ~Typed(w[l], {"k", "E", "B", ",", "o", "."})
  BY <1>3, Zenon DEF Renamed, Typed
<1>6. Two(w[l], w[l + 1])
  BY <1>3, <1>5, BeforeParenthesis
<1>7. ASSUME l > 0 PROVE Two(w[l - 1], w[l])
  <2>1. Two(v[l - 1], v[l])
    <3>1. l - 1 \in Nat /\ l - 1 <= n - 2 /\ (l - 1) + 1 = l
      BY <1>7
    <3>2. Two(v[l - 1], v[(l - 1) + 1])
      BY <1>1, <1>7, <3>1, PassedTwo
    <3> QED
      BY <3>1, <3>2
  <2>2. w[l - 1] = v[l - 1] /\ v[l - 1] \in Tokens(Char) /\ v[l] \in Tokens(Char)
    BY <1>1, <1>2, <1>7
  <2> QED
    BY <1>3, <2>1, <2>2, FunctionTwo
<1>8. ASSUME l > 1 PROVE Three(w[l - 2], w[l - 1], w[l])
  <2>1. Three(v[l - 2], v[l - 1], v[l])
    <3>1. l - 2 \in 0 .. n - 3 /\ l - 2 <= n - 4
          /\ (l - 2) + 1 = l - 1 /\ (l - 2) + 2 = l
      BY <1>8
    <3>2. Three(v[l - 2], v[(l - 2) + 1], v[(l - 2) + 2])
      BY <3>1 DEF Passed
    <3> QED
      BY <3>1, <3>2
  <2>2. l > 0
    BY <1>8
  <2>3. /\ w[l - 1] = v[l - 1] /\ w[l - 2] = v[l - 2]
        /\ v[l - 2] \in Tokens(Char) /\ v[l - 1] \in Tokens(Char)
        /\ v[l] \in Tokens(Char)
    BY <1>1, <1>2, <1>8, <2>2
  <2> QED
    BY <1>3, <2>1, <2>3, FunctionThree
<1>9. \A x, y : Three(w[l], x, y) /\ Three(x, w[l], y)
  BY <1>5 DEF Three, Typed, st_is_unary_op
<1>10. Changed(w, n, n, l, l, l, l, l)
  BY <1>1, <1>6, <1>7, <1>8, <1>9 DEF Changed
<1> QED
  BY <1>1, <1>4, <1>10, ChangedPassed

\* A word that is known late is given another type where the loop is.
LEMMA TurnedPassed ==
    ASSUME NEW Char, NEW v \in [Slots -> Tokens(Char)],
           NEW n \in 2 .. 6, NEW l \in 0 .. n - 2, NEW t \in Nat, l <= t,
           Passed(v, n, l, t),
           NEW w \in [Slots -> Tokens(Char)], NEW r \in Tokens(Char), Put(w, v, l, r),
           Late(r), ~Typed(r, {"k", "E", "B", ","}),
           NEW j \in Nat, NEW u \in Nat, j <= l \/ j = l + 1,
           u <= t \/ (u = t + 1 /\ l = t),
           l <= n - 3 \/ l < u => Two(r, v[l + 1]),
           j # n - 1
    PROVE  Passed(w, n, j, u)
<1>1. /\ n \in 0 .. 6 /\ n \in 0 .. n /\ ~(n < n) /\ l \in Nat /\ l \in Slots
      /\ l # l + 1 /\ l + 1 \in Slots
      /\ l > 0 => l - 1 \in Slots /\ l - 1 # l /\ l <= n - 2
      /\ l + 2 < n => l + 2 \in Slots
      /\ \A k \in 0 .. n - 1 : k \in Slots
  BY PlacesAround
<1>2. \A k \in Slots : w[k] = IF k = l THEN r ELSE v[k]
  BY DEF Put
<1>3. w[l] = r /\ w[l + 1] = v[l + 1]
  BY <1>1, <1>2
<1>4. Same(w, v, n, l)
  BY <1>1, <1>2 DEF Same
<1>5. Calm(w[l])
  BY <1>3 DEF Calm
<1>6. l > 0 => w[l - 1].type # "\\"
  <2>1. l > 0 => v[l - 1].type # "\\"
    BY <1>1, NoBackslash
  <2> QED
    BY <1>1, <1>2, <2>1
<1>7. \A x, y : Three(w[l], x, y)
  BY <1>3 DEF Three, Typed
<1>9. Calmed(w, n, n, l, l, t, j, u)
  BY <1>3, <1>5, <1>6, <1>7, Zenon DEF Calmed
<1> QED
  BY <1>1, <1>4, <1>9, CalmPassed

\* IN becomes an operator before a parenthesis, and a name before anything else.
LEMMA InPassed ==
    ASSUME NEW Char, NEW v \in [Slots -> Tokens(Char)],
           NEW n \in 2 .. 6, NEW l \in 0 .. n - 2, Passed(v, n, l, l),
           Typed(v[l], {"k"}), IsWord(v[l], {InWord, NotWord \o InWord}),
           NEW w \in [Slots -> Tokens(Char)], NEW r \in Tokens(Char), Put(w, v, l, r),
           \/ Renamed(r, v[l], "n")
           \/ Renamed(r, v[l], "o") /\ Typed(v[l + 1], {"("})
    PROVE  Passed(w, n, l, l)
<1>1. /\ n \in 0 .. 6 /\ l \in Nat /\ l \in Slots /\ l + 1 \in Slots /\ l <= l
      /\ l # n - 1 /\ l <= n - 2 /\ ~(l < l)
  <2>1. l <= n - 2
    OBVIOUS
  <2>2. ~(l < l)
    OBVIOUS
  <2> QED
    BY <2>1, <2>2, PlacesAround
<1>2. v[l] \in Tokens(Char) /\ v[l + 1] \in Tokens(Char)
  BY <1>1
<1>3. r.type \in {"n", "o"} /\ r.val = v[l].val
  BY Zenon DEF Renamed
<1>4. Late(r)
  BY <1>3, ToldLate DEF IsWord, ToldWords, KeywordTypes
<1>5. ~Typed(r, {"k", "E", "B", ","})
  BY <1>3 DEF Typed
<1>6. ASSUME l <= n - 3 PROVE Two(r, v[l + 1])
  <2>1. CASE Renamed(r, v[l], "n")
    <3>1. Two(v[l], v[l + 1])
      BY <1>1, <1>6, PassedTwo
    <3> QED
      BY <1>2, <2>1, <3>1, RenamedTwo
  <2>2. CASE Typed(v[l + 1], {"("})
    <3>1. Typed(r, {"f", "n", "o"})
      BY <1>3 DEF Typed
    <3> QED
      BY <1>2, <2>2, <3>1, BeforeParenthesis
  <2> QED
    BY <2>1, <2>2
<1> HIDE DEF IsWord
<1> QED
  BY <1>1, <1>4, <1>5, <1>6, TurnedPassed

\* LIKE becomes a function before a parenthesis.
LEMMA LikePassed ==
    ASSUME NEW Char, NEW v \in [Slots -> Tokens(Char)],
           NEW n \in 2 .. 6, NEW l \in 0 .. n - 2, Passed(v, n, l, l),
           IsLike(v[l]), Typed(v[l + 1], {"("}),
           NEW w \in [Slots -> Tokens(Char)], NEW r \in Tokens(Char), Put(w, v, l, r),
           Renamed(r, v[l], "f"), NEW u \in Nat, u = l + 1
    PROVE  Passed(w, n, l, u)
<1>1. /\ n \in 0 .. 6 /\ l \in Nat /\ l \in Slots /\ l + 1 \in Slots /\ l <= l
      /\ l # n - 1
  BY PlacesAround
<1>2. v[l] \in Tokens(Char) /\ v[l + 1] \in Tokens(Char)
  BY <1>1
<1>3. r.type = "f" /\ r.val = v[l].val
  BY Zenon DEF Renamed
<1>4. Late(r)
  BY <1>3, ToldLate DEF IsLike, IsWord, ToldWords, KeywordTypes
<1>5. ~Typed(r, {"k", "E", "B", ","}) /\ Typed(r, {"f", "n", "o"})
  BY <1>3 DEF Typed
<1>6. Two(r, v[l + 1])
  BY <1>2, <1>5, BeforeParenthesis
<1> QED
  BY <1>1, <1>4, <1>5, <1>6, TurnedPassed

\* USER with arguments becomes a name, and the loop goes past it.
LEMMA UserPassed ==
    ASSUME NEW Char, NEW v \in [Slots -> Tokens(Char)],
           NEW n \in 3 .. 6, NEW l \in 0 .. n - 3, NEW u \in Nat, u = l + 1,
           Passed(v, n, l, u), IsWord(v[l], {UserWord}), Typed(v[l + 1], {"("}),
           NEW w \in [Slots -> Tokens(Char)], NEW r \in Tokens(Char), Put(w, v, l, r),
           Renamed(r, v[l], "n")
    PROVE  Passed(w, n, u, u)
<1>0. n \in 2 .. 6 /\ l \in 0 .. n - 2 /\ u # n - 1 /\ l <= u /\ u <= u
  OBVIOUS
<1>1. l \in Nat /\ l \in Slots /\ l + 1 \in Slots
  BY <1>0, PlacesAround
<1>2. v[l] \in Tokens(Char) /\ v[l + 1] \in Tokens(Char)
  BY <1>1
<1>3. r.type = "n" /\ r.val = v[l].val
  BY Zenon DEF Renamed
<1>4. Late(r)
  BY <1>3, ToldLate DEF IsWord, ToldWords, KeywordTypes
<1>5. ~Typed(r, {"k", "E", "B", ","}) /\ Typed(r, {"f", "n", "o"})
  BY <1>3 DEF Typed
<1>6. Two(r, v[l + 1])
  BY <1>2, <1>5, BeforeParenthesis
<1> QED
  BY <1>0, <1>1, <1>4, <1>5, <1>6, TurnedPassed

Underscored(t) == \E k \in DOMAIN t.val : t.val[k] = "_"

\* The name of a collation with an underscore becomes a type.
LEMMA TypePassed ==
    ASSUME NEW Char, NEW v \in [Slots -> Tokens(Char)],
           NEW n \in 2 .. 6, NEW l \in 0 .. n - 2, NEW i \in Nat, Behind(i, l),
           Passed(v, n, l, l), Typed(v[l], {"A"}), Typed(v[i], {"n"}),
           Underscored(v[i]),
           NEW w \in [Slots -> Tokens(Char)], NEW r \in Tokens(Char),
           Renamed(r, v[i], "t"), Put(w, v, i, r)
    PROVE  Passed(w, n, 0, 1)
<1>1. /\ n \in 0 .. 6 /\ n \in 0 .. n /\ l \in Nat /\ l \in Slots
      /\ \A k \in 0 .. n - 1 : k \in Slots
  BY PlacesAround
<1>2. /\ i \in Slots /\ l # i /\ i - 1 = l /\ i - 2 = l - 1 /\ i = l + 1
  BY PlacesNext
<1>3. \A k \in Slots : w[k] = IF k = i THEN r ELSE v[k]
  BY DEF Put
<1>4. w[l] = v[l] /\ w[i] = r /\ w[l] \in Tokens(Char)
  BY <1>1, <1>2, <1>3
<1>5. Same(w, v, n, i)
  BY <1>1, <1>3 DEF Same
<1>6. Typed(w[l], {";", "A"}) /\ Typed(w[i], {"T", "t"})
  BY <1>4, Zenon DEF Renamed, Typed
<1>7. Two(w[l], w[i])
  BY <1>4, <1>6, BehindNoOperand
<1>8. ~(l <= n - 3)
  <2>1. SUFFICES ASSUME l <= n - 3 PROVE FALSE
    OBVIOUS
  <2>2. Two(v[l], v[l + 1])
    BY <1>1, <2>1, PassedTwo
  <2>3. Two(v[l], v[i])
    BY <1>2, <2>2
  <2>4. v[i].val \in Seq(Char)
    BY <1>2 DEF Tokens
  <2>5. DOMAIN v[i].val = 1 .. Len(v[i].val)
    BY <2>4
  <2> QED
    BY <2>3, <2>5, Zenon DEF Two, Typed, Underscored
<1>10. PICK z \in Nat : z = 0
  OBVIOUS
<1>11. PICK o \in Nat : o = 1
  OBVIOUS
<1>12. /\ ~(n < n) /\ z <= l /\ (o <= l \/ o = l + 1) /\ ~(i + 1 < n) /\ ~(i + 2 < n)
       /\ ~(z = n - 1 /\ z > 0) /\ z # l + 1
  BY <1>2, <1>8, <1>10, <1>11
<1>13. Changed(w, n, n, i, l, l, z, o)
  <2>1. Two(w[l], w[l + 1]) /\ Two(w[i - 1], w[i])
    BY <1>2, <1>7
  <2>2. i > 1 => ~(i - 2 <= n - 4 \/ i - 2 < z)
    BY <1>2, <1>8, <1>10
  <2> QED
    BY <1>12, <2>1, <2>2, Zenon DEF Changed
<1>14. Passed(w, n, z, o)
  BY <1>1, <1>5, <1>13, ChangedPassed
<1> QED
  BY <1>10, <1>11, <1>14

LEMMA FetchedPlaces ==
    ASSUME NEW n \in 1 .. 5, NEW m \in 1 .. 6, m >= n + 1, m <= n + 1,
           NEW l \in 0 .. n - 1, l + 2 >= n, NEW t \in Nat, t >= n - 1, t < n
    PROVE  /\ \A k \in 0 .. m - 2 : k <= m - 3 \/ k < t =>
                  /\ k \in 0 .. n - 2 /\ (k <= n - 3 \/ k < t)
                  /\ k \in 0 .. n - 1 /\ k + 1 \in 0 .. n - 1
           /\ \A k \in 0 .. m - 3 : k <= m - 4 \/ k < l =>
                  \/ /\ k \in 0 .. n - 3 /\ (k <= n - 4 \/ k < l)
                     /\ k \in 0 .. n - 1 /\ k + 1 \in 0 .. n - 1
                     /\ k + 2 \in 0 .. n - 1
                  \/ l = n - 1 /\ l > 0 /\ k + 1 = l
           /\ l \in 0 .. n - 1 /\ ~(l = m - 1)
OBVIOUS

\* Another token is read behind the ones that are there.
LEMMA FetchedPassed ==
    ASSUME NEW Char, NEW v, NEW w \in [Slots -> Tokens(Char)],
           NEW n \in 1 .. 5, NEW m \in 1 .. 6, m >= n + 1, m <= n + 1,
           NEW l \in 0 .. n - 1, l + 2 >= n, NEW t \in Nat, t >= n - 1, t < n,
           Passed(v, n, l, t), \A k \in 0 .. n - 1 : w[k] = v[k]
    PROVE  Passed(w, m, l, t)
<1>0. /\ \A k \in 0 .. m - 2 : k <= m - 3 \/ k < t =>
             /\ k \in 0 .. n - 2 /\ (k <= n - 3 \/ k < t)
             /\ k \in 0 .. n - 1 /\ k + 1 \in 0 .. n - 1
      /\ \A k \in 0 .. m - 3 : k <= m - 4 \/ k < l =>
             \/ /\ k \in 0 .. n - 3 /\ (k <= n - 4 \/ k < l)
                /\ k \in 0 .. n - 1 /\ k + 1 \in 0 .. n - 1
                /\ k + 2 \in 0 .. n - 1
             \/ l = n - 1 /\ l > 0 /\ k + 1 = l
      /\ l \in 0 .. n - 1 /\ ~(l = m - 1)
  BY FetchedPlaces
<1>1. ASSUME NEW k \in 0 .. m - 2, k <= m - 3 \/ k < t
      PROVE  Two(w[k], w[k + 1])
  <2>1. /\ k \in 0 .. n - 2 /\ (k <= n - 3 \/ k < t)
        /\ k \in 0 .. n - 1 /\ k + 1 \in 0 .. n - 1
    BY <1>0, <1>1, Zenon
  <2>2. Two(v[k], v[k + 1])
    BY <2>1, Zenon DEF Passed
  <2> QED
    BY <2>1, <2>2
<1>2. ASSUME NEW k \in 0 .. m - 3, k <= m - 4 \/ k < l
      PROVE  Three(w[k], w[k + 1], w[k + 2])
  <2>1. CASE l = n - 1 /\ l > 0 /\ k + 1 = l
    <3>1. w[l] = v[l] /\ v[l].type \in {"s", ";"}
      BY <1>0, <2>1, Zenon DEF Passed
    <3>2. \A x, y : Three(x, w[l], y)
      BY <3>1 DEF Three, st_is_unary_op
    <3> QED
      BY <2>1, <3>2
  <2>2. CASE /\ k \in 0 .. n - 3 /\ (k <= n - 4 \/ k < l)
             /\ k \in 0 .. n - 1 /\ k + 1 \in 0 .. n - 1 /\ k + 2 \in 0 .. n - 1
    <3>1. Three(v[k], v[k + 1], v[k + 2])
      BY <2>2, Zenon DEF Passed
    <3> QED
      BY <2>2, <3>1
  <2> QED
    BY <1>0, <1>2, <2>1, <2>2, Zenon
<1> QED
  BY <1>0, <1>1, <1>2, Zenon DEF Passed

-----------------------------------------------------------------------------
(* The steps of the fold.                                                   *)

\* Where the loop starts again after a step.
LEMMA StartsPassed ==
    ASSUME pc' # "three", Passed(tokenvec', pos', left', left')
    PROVE  PassedInv'
BY DEF PassedInv

LEMMA DropPassed ==
    ASSUME NEW n, NEW l, Drop(n, l), Passed(tokenvec', pos - n, l, l)
    PROVE  PassedInv'
BY StartsPassed DEF Drop

LEMMA TwoTokensPassed ==
    ASSUME NEW Char, SqliInv(Char), PassedInv, NEW rules, TwoTokens(rules)
    PROVE  /\ Passed(tokenvec, pos, left, left)
           /\ TwoTokenRule(tokenvec[left], tokenvec[left + 1]) \in rules
           /\ pos \in 2 .. 6 /\ left \in 0 .. pos - 2
           /\ left \in Slots /\ left + 1 \in Slots
           /\ tokenvec \in [Slots -> Tokens(Char)]
<1>1. /\ pc = "two" /\ pos - left >= 2
      /\ TwoTokenRule(tokenvec[left], tokenvec[left + 1]) \in rules
  BY DEF TwoTokens, A, B
<1>2. /\ pos \in 0 .. 6 /\ left \in 0 .. 6
      /\ tokenvec \in [Slots -> Tokens(Char)]
  BY DEF SqliInv, SqliType
<1>3. pos \in 2 .. 6 /\ left \in 0 .. pos - 2 /\ left < pos
  BY <1>1, <1>2
<1>4. left \in Slots /\ left + 1 \in Slots
  BY <1>3, PlacesAround
<1>5. Passed(tokenvec, pos, left, left)
  BY <1>1, <1>3 DEF PassedInv
<1> QED
  BY <1>1, <1>2, <1>3, <1>4, <1>5

LEMMA ThreeTokensPassed ==
    ASSUME NEW Char, SqliInv(Char), PassedInv, NEW rules, ThreeTokens(rules)
    PROVE  /\ Passed(tokenvec, pos, left, left + 1)
           /\ ThreeTokenRule(tokenvec[left], tokenvec[left + 1], tokenvec[left + 2])
                  \in rules
           /\ pos \in 3 .. 6 /\ left \in 0 .. pos - 3
           /\ left \in Slots /\ left + 1 \in Slots /\ left + 2 \in Slots
           /\ tokenvec \in [Slots -> Tokens(Char)]
<1>1. /\ pc = "three" /\ pos - left >= 3
      /\ ThreeTokenRule(tokenvec[left], tokenvec[left + 1], tokenvec[left + 2])
             \in rules
  BY DEF ThreeTokens, A, B, C
<1>2. /\ pos \in 0 .. 6 /\ left \in 0 .. 6
      /\ tokenvec \in [Slots -> Tokens(Char)]
  BY DEF SqliInv, SqliType
<1>3. pos \in 3 .. 6 /\ left \in 0 .. pos - 3 /\ left < pos
  BY <1>1, <1>2
<1>4. left \in Slots /\ left + 1 \in Slots /\ left + 2 \in Slots
  BY <1>3 DEF Slots
<1>5. Passed(tokenvec, pos, left, left + 1)
  BY <1>1, <1>3 DEF PassedInv
<1> QED
  BY <1>1, <1>2, <1>3, <1>4, <1>5

LEMMA TokensThatStay == \A n \in 0 .. 6 : \A k \in 1 .. n : n - k \in 0 .. n - 1
OBVIOUS

\* Tokens are dropped, and nothing else.
LEMMA DroppedPassed ==
    ASSUME pos \in 0 .. 6, left \in Nat, NEW t \in Nat,
           Passed(tokenvec, pos, left, t), tokenvec' = tokenvec,
           NEW n \in 1 .. pos, NEW l \in Nat, Drop(n, l),
           l = (pos - n) - 1 /\ l > 0 => Typed(tokenvec[l], {"s", ";"})
    PROVE  PassedInv'
<1>0. pos - n \in 0 .. pos - 1
  BY TokensThatStay, Zenon
<1>1. PICK m \in 0 .. pos - 1 : m = pos - n
  BY <1>0, Zenon
<1>2. l = m - 1 /\ l > 0 => tokenvec[l].type \in {"s", ";"}
  <2>1. l = m - 1 /\ l > 0 => Typed(tokenvec[l], {"s", ";"})
    BY <1>1
  <2> QED
    BY <2>1, Zenon DEF Typed
<1>3. Passed(tokenvec, m, l, l)
  BY <1>2, FewerPassed
<1> QED
  BY <1>1, <1>3, DropPassed

LEMMA RepeatedPassed ==
    ASSUME NEW Char, SqliInv(Char), PassedInv,
           FoldRepeated \/ FoldSecond \/ FoldLeftUnary \/ FoldExpression
    PROVE  PassedInv'
<1>1. CASE FoldRepeated
  <2>1. /\ TwoTokens({"strings", "semicolons"}) /\ Drop(1, left)
        /\ tokenvec' = tokenvec
    BY <1>1 DEF FoldRepeated
  <2>2. /\ Passed(tokenvec, pos, left, left) /\ pos \in 2 .. 6
        /\ left \in 0 .. pos - 2
        /\ TwoTokenRule(tokenvec[left], tokenvec[left + 1])
               \in {"strings", "semicolons"}
    BY <2>1, TwoTokensPassed
  <2>3. Typed(tokenvec[left], {"s", ";"})
    BY <2>2, TwoTokenRuleMeans DEF Typed
  <2>4. pos \in 0 .. 6 /\ left \in Nat /\ 1 \in 1 .. pos
    BY <2>2
  <2> QED
    BY <2>1, <2>2, <2>3, <2>4, DroppedPassed
<1>2. CASE FoldSecond \/ FoldLeftUnary
  <2>1. PICK rules : TwoTokens(rules)
    BY <1>2 DEF FoldSecond, FoldLeftUnary
  <2>2. /\ Passed(tokenvec, pos, left, left) /\ pos \in 2 .. 6
        /\ left \in 0 .. pos - 2
    BY <2>1, TwoTokensPassed
  <2>3. PICK l \in {0, BackOne} : Drop(1, l) /\ tokenvec' = tokenvec
    BY <1>2 DEF FoldSecond, FoldLeftUnary
  <2>4. l \in Nat /\ ~(l = (pos - 1) - 1 /\ l > 0)
    BY <2>2 DEF BackOne
  <2>5. pos \in 0 .. 6 /\ left \in Nat /\ 1 \in 1 .. pos
    BY <2>2
  <2> QED
    BY <2>2, <2>3, <2>4, <2>5, DroppedPassed
<1>3. CASE FoldExpression
  <2>1. ThreeTokens({"expression"}) /\ Drop(2, 0) /\ tokenvec' = tokenvec
    BY <1>3 DEF FoldExpression
  <2>2. /\ Passed(tokenvec, pos, left, left + 1) /\ pos \in 3 .. 6
        /\ left \in 0 .. pos - 3
    BY <2>1, ThreeTokensPassed
  <2>3. pos \in 0 .. 6 /\ left \in Nat /\ left + 1 \in Nat /\ 2 \in 1 .. pos
        /\ 0 \in Nat /\ ~(0 > 0)
    BY <2>2
  <2> QED
    BY <2>1, <2>2, <2>3, DroppedPassed
<1> QED
  BY <1>1, <1>2, <1>3

\* A token that is put at a place of a vector.
LEMMA PutAt ==
    ASSUME NEW Char, NEW v \in [Slots -> Tokens(Char)], NEW i \in Slots, NEW x
    PROVE  Put([v EXCEPT ![i] = x], v, i, x)
BY DEF Put

LEMMA FoldMergePassed ==
    ASSUME NEW Char, Blank \in Char, SqliInv(Char), SqliInv(Char)', PassedInv, FoldMerge
    PROVE  PassedInv'
<1>1. /\ TwoTokens({"merge"}) /\ Drop(1, BackOne)
      /\ tokenvec' = [tokenvec EXCEPT
            ![left] = syntax_merge_words(tokenvec[left], tokenvec[left + 1])]
  BY DEF FoldMerge, A, B
<1>2. /\ Passed(tokenvec, pos, left, left) /\ pos \in 2 .. 6
      /\ left \in 0 .. pos - 2 /\ left \in Slots
      /\ tokenvec \in [Slots -> Tokens(Char)]
      /\ TwoTokenRule(tokenvec[left], tokenvec[left + 1]) = "merge"
  BY <1>1, TwoTokensPassed
<1>3. MergedType(tokenvec[left], tokenvec[left + 1]) # Null
  BY <1>2, TwoTokenRuleSays
<1>4. Put(tokenvec', tokenvec, left,
          syntax_merge_words(tokenvec[left], tokenvec[left + 1]))
  BY <1>1, <1>2, PutAt
<1>5. tokenvec' \in [Slots -> Tokens(Char)]
  BY DEF SqliInv, SqliType
<1>6. /\ pos - 1 \in 0 .. pos /\ (pos - 1) + 1 = pos
      /\ BackOne \in Nat /\ (BackOne < left \/ BackOne = 0)
  BY <1>2 DEF BackOne
<1>7. Passed(tokenvec', pos - 1, BackOne, BackOne)
  BY <1>2, <1>3, <1>4, <1>5, <1>6, MergePassed
<1> QED
  BY <1>1, <1>7, DropPassed

\* The token that stays after a rule on the token before it: calm, if there are
\* tokens behind it.
LEMMA CastCalm ==
    ASSUME NEW Char, NEW a \in Tokens(Char), NEW b \in Tokens(Char), Two(a, b),
           a.type = "t", b.type \in Operands \cup {"t", "(", "f"}
    PROVE  Calm(b)
BY DEF Two, Calm, Operands

LEMMA FoldCastPassed ==
    ASSUME NEW Char, SqliInv(Char), SqliInv(Char)', PassedInv, FoldCast
    PROVE  PassedInv'
<1>1. /\ TwoTokens({"cast"}) /\ Drop(1, 0)
      /\ tokenvec' = [tokenvec EXCEPT ![left] = tokenvec[left + 1]]
  BY DEF FoldCast, B
<1>2. /\ Passed(tokenvec, pos, left, left) /\ pos \in 2 .. 6
      /\ left \in 0 .. pos - 2 /\ left \in Slots /\ left + 1 \in Slots
      /\ tokenvec \in [Slots -> Tokens(Char)]
      /\ TwoTokenRule(tokenvec[left], tokenvec[left + 1]) = "cast"
  BY <1>1, TwoTokensPassed
<1>3. ASSUME left + 2 < pos PROVE Calm(tokenvec[left + 1])
  <2>1. left \in Nat /\ left <= pos - 2 /\ left <= pos - 3 /\ pos \in 0 .. 6
    BY <1>2, <1>3
  <2>2. Two(tokenvec[left], tokenvec[left + 1])
    BY <1>2, <2>1, PassedTwo
  <2>3. tokenvec[left] \in Tokens(Char) /\ tokenvec[left + 1] \in Tokens(Char)
    BY <1>2
  <2>4. /\ tokenvec[left].type = "t"
        /\ tokenvec[left + 1].type \in Operands \cup {"t", "(", "f"}
    BY <1>2, TwoTokenRuleMeans
  <2> QED
    BY <2>2, <2>3, <2>4, CastCalm
<1>4. Put(tokenvec', tokenvec, left, tokenvec[left + 1])
  BY <1>1, <1>2, PutAt
<1>5. tokenvec' \in [Slots -> Tokens(Char)]
  BY DEF SqliInv, SqliType
<1>6. pos - 1 \in 0 .. pos - 1 /\ left \in Nat
  BY <1>2
<1>7. Passed(tokenvec', pos - 1, 0, 0)
  BY <1>2, <1>3, <1>4, <1>5, <1>6, CopyPassed
<1> QED
  BY <1>1, <1>7, DropPassed

LEMMA FoldBackslashPassed ==
    ASSUME NEW Char, SqliInv(Char), SqliInv(Char)', PassedInv, FoldBackslash
    PROVE  PassedInv'
<1>1. /\ TwoTokens({"backslash"})
      /\ \/ /\ Drop(0, 0)
            /\ tokenvec' = [tokenvec EXCEPT ![left] = [tokenvec[left] EXCEPT !.type = "1"]]
         \/ /\ Drop(1, 0)
            /\ tokenvec' = [tokenvec EXCEPT ![left] = tokenvec[left + 1]]
  BY DEF FoldBackslash, B
<1>2. /\ Passed(tokenvec, pos, left, left) /\ pos \in 2 .. 6
      /\ left \in 0 .. pos - 2 /\ left \in Slots /\ left + 1 \in Slots
      /\ tokenvec \in [Slots -> Tokens(Char)]
      /\ TwoTokenRule(tokenvec[left], tokenvec[left + 1]) = "backslash"
  BY <1>1, TwoTokensPassed
<1>3. ~(left + 2 < pos)
  <2>1. SUFFICES ASSUME left + 2 < pos PROVE FALSE
    OBVIOUS
  <2>2. left \in Nat /\ left <= pos - 2 /\ left <= pos - 3 /\ pos \in 0 .. 6
    BY <1>2, <2>1
  <2>3. Two(tokenvec[left], tokenvec[left + 1])
    BY <1>2, <2>2, PassedTwo
  <2>4. Marked(tokenvec[left], tokenvec[left + 1])
    BY <1>2, TwoTokenRuleMeans
  <2> QED
    BY <2>3, <2>4 DEF Two
<1>4. tokenvec' \in [Slots -> Tokens(Char)]
  BY DEF SqliInv, SqliType
<1>5. CASE /\ Drop(0, 0)
           /\ tokenvec' = [tokenvec EXCEPT ![left] = [tokenvec[left] EXCEPT !.type = "1"]]
  <2>1. PICK r : r = [tokenvec[left] EXCEPT !.type = "1"]
    OBVIOUS
  <2>2. Put(tokenvec', tokenvec, left, r)
    BY <1>2, <1>5, <2>1, PutAt
  <2>3. tokenvec[left] \in Tokens(Char)
    BY <1>2
  <2>4. r.type = "1"
    BY <2>1, <2>3, RetypedIs
  <2>5. left + 2 >= pos
    BY <1>2, <1>3
  <2>6. Passed(tokenvec', pos, 0, 0)
    BY <1>2, <1>4, <2>2, <2>4, <2>5, BackslashPassed
  <2>7. pos - 0 = pos
    BY <1>2
  <2> QED
    BY <1>5, <2>6, <2>7, DropPassed
<1>6. CASE /\ Drop(1, 0)
           /\ tokenvec' = [tokenvec EXCEPT ![left] = tokenvec[left + 1]]
  <2>1. Put(tokenvec', tokenvec, left, tokenvec[left + 1])
    BY <1>2, <1>6, PutAt
  <2>2. pos - 1 \in 0 .. pos - 1 /\ left \in Nat
    BY <1>2
  <2>3. Passed(tokenvec', pos - 1, 0, 0)
    BY <1>2, <1>3, <1>4, <2>1, <2>2, CopyPassed
  <2> QED
    BY <1>6, <2>3, DropPassed
<1> QED
  BY <1>1, <1>5, <1>6

LEMMA FoldBracePassed ==
    ASSUME NEW Char, SqliInv(Char), PassedInv, FoldBrace
    PROVE  PassedInv'
<1>1. TwoTokens({"brace"}) /\ (pc' = "done" \/ (Drop(2, 0) /\ tokenvec' = tokenvec))
  BY DEF FoldBrace
<1>2. CASE pc' = "done"
  BY <1>2 DEF PassedInv
<1>3. CASE Drop(2, 0) /\ tokenvec' = tokenvec
  <2>1. /\ Passed(tokenvec, pos, left, left) /\ pos \in 2 .. 6
        /\ left \in 0 .. pos - 2
    BY <1>1, TwoTokensPassed
  <2>2. pos \in 0 .. 6 /\ left \in Nat /\ 2 \in 1 .. pos /\ 0 \in Nat /\ ~(0 > 0)
    BY <2>1
  <2> QED
    BY <1>3, <2>1, <2>2, DroppedPassed
<1> QED
  BY <1>1, <1>2, <1>3

\* The sign or the comma before a token goes.
LEMMA SignPassed ==
    ASSUME NEW Char, SqliInv(Char), SqliInv(Char)', PassedInv, FoldSign \/ FoldComma
    PROVE  PassedInv'
<1>1. PICK n \in {1, 3} : /\ ThreeTokens({"sign", "comma"}) /\ Drop(n, 0)
                          /\ tokenvec' = [tokenvec EXCEPT ![left + 1] = tokenvec[left + 2]]
  BY DEF FoldSign, FoldComma, ThreeTokens, C
<1>2. /\ Passed(tokenvec, pos, left, left + 1)
      /\ ThreeTokenRule(tokenvec[left], tokenvec[left + 1], tokenvec[left + 2])
             \in {"sign", "comma"}
      /\ pos \in 3 .. 6 /\ left \in 0 .. pos - 3
      /\ left \in Slots /\ left + 1 \in Slots /\ left + 2 \in Slots
      /\ tokenvec \in [Slots -> Tokens(Char)]
  BY <1>1, ThreeTokensPassed
<1>3. PICK i \in Nat : i = left + 1
  BY <1>2
<1>4. /\ pos \in 2 .. 6 /\ i \in 0 .. pos - 2 /\ pos - n \in 0 .. pos - 1
      /\ left \in Nat /\ left + 1 \in Nat /\ i + 1 = left + 2 /\ i \in Slots
  BY <1>1, <1>2, <1>3
<1>5. ASSUME i + 2 < pos PROVE Calm(tokenvec[i + 1])
  <2>1. left \in 0 .. pos - 3 /\ left <= pos - 4
    BY <1>2, <1>3, <1>5
  <2>2. Three(tokenvec[left], tokenvec[left + 1], tokenvec[left + 2])
    BY <1>2, <2>1 DEF Passed
  <2>3. Calm(tokenvec[left + 2])
    BY <1>2, <2>2, ThreeTokenRuleMeans
  <2> QED
    BY <1>4, <2>3
<1>6. Put(tokenvec', tokenvec, i, tokenvec[i + 1])
  <2>1. tokenvec' = [tokenvec EXCEPT ![i] = tokenvec[i + 1]]
    BY <1>1, <1>3, <1>4
  <2> QED
    BY <1>2, <1>4, <2>1, PutAt
<1>7. tokenvec' \in [Slots -> Tokens(Char)]
  BY DEF SqliInv, SqliType
<1>8. Passed(tokenvec', pos - n, 0, 0)
  BY <1>2, <1>4, <1>5, <1>6, <1>7, CopyPassed
<1> QED
  BY <1>1, <1>8, DropPassed

\* A token of the type that it has already is the same.
LEMMA SameType ==
    ASSUME NEW Char, NEW t \in Tokens(Char)
    PROVE  [t EXCEPT !.type = t.type] = t
BY DEF Tokens

LEMMA RetypedPlaces ==
    ASSUME NEW Char, NEW v \in [Slots -> Tokens(Char)], NEW i \in Slots,
           NEW j \in Slots, i # j, NEW x, NEW y, NEW w,
           w = [v EXCEPT ![i].type = x, ![j].type = y]
    PROVE  /\ y = v[j].type => Put(w, v, i, [v[i] EXCEPT !.type = x])
           /\ x = v[i].type => Put(w, v, j, [v[j] EXCEPT !.type = y])
<1>1. \A k \in Slots :
          w[k] = IF k = i THEN [v[i] EXCEPT !.type = x]
                 ELSE IF k = j THEN [v[j] EXCEPT !.type = y] ELSE v[k]
  OBVIOUS
<1>2. /\ [v[i] EXCEPT !.type = v[i].type] = v[i]
      /\ [v[j] EXCEPT !.type = v[j].type] = v[j]
  BY SameType
<1> DEFINE r == [v[i] EXCEPT !.type = x]
           q == [v[j] EXCEPT !.type = y]
<1>3. \A k \in Slots : w[k] = IF k = i THEN r ELSE IF k = j THEN q ELSE v[k]
  BY <1>1
<1>4. (x = v[i].type => r = v[i]) /\ (y = v[j].type => q = v[j])
  BY <1>2
<1> HIDE DEF r, q
<1>5. /\ y = v[j].type => Put(w, v, i, r)
      /\ x = v[i].type => Put(w, v, j, q)
  BY <1>3, <1>4 DEF Put
<1> QED
  BY <1>5 DEF r, q

\* What FoldRetype does to the token that it gives another type.
LEMMA RetypeSteps ==
    ASSUME NEW Char, SqliInv(Char), PassedInv, FoldRetype
    PROVE  LET a == tokenvec[left]
               b == tokenvec[left + 1]
               r == TwoTokenRule(a, b)
           IN  /\ TwoTokens({"if", "function", "in"}) /\ Drop(0, left)
               /\ r = "if" => Put(tokenvec', tokenvec, left + 1, [b EXCEPT !.type = "T"])
               /\ r = "function" => Put(tokenvec', tokenvec, left, [a EXCEPT !.type = "f"])
               /\ r = "in" => Put(tokenvec', tokenvec, left,
                                 [a EXCEPT !.type = IF b.type = "(" THEN "o" ELSE "n"])
<1> DEFINE a == tokenvec[left]
           b == tokenvec[left + 1]
           r == TwoTokenRule(a, b)
           x == CASE r = "function" -> "f"
                  [] r = "in" -> IF b.type = "(" THEN "o" ELSE "n"
                  [] OTHER -> a.type
           y == IF r = "if" THEN "T" ELSE b.type
<1>1. TwoTokens({"if", "function", "in"}) /\ Drop(0, left)
  BY DEF FoldRetype
<1>2. tokenvec' = [tokenvec EXCEPT ![left].type = x, ![left + 1].type = y]
  BY DEF FoldRetype, A, B
<1>3. /\ tokenvec \in [Slots -> Tokens(Char)] /\ left \in Slots /\ left + 1 \in Slots
      /\ pos \in 2 .. 6 /\ left \in 0 .. pos - 2
  BY <1>1, TwoTokensPassed
<1>4. left # left + 1
  BY <1>3
<1>5. /\ r = "if" => x = a.type /\ y = "T"
      /\ r = "function" => x = "f" /\ y = b.type
      /\ r = "in" => (x = IF b.type = "(" THEN "o" ELSE "n") /\ y = b.type
  <2> HIDE DEF r
  <2> QED
    OBVIOUS
<1> HIDE DEF x, y
<1>6. /\ y = b.type => Put(tokenvec', tokenvec, left, [a EXCEPT !.type = x])
      /\ x = a.type => Put(tokenvec', tokenvec, left + 1, [b EXCEPT !.type = y])
  BY <1>2, <1>3, <1>4, RetypedPlaces
<1> HIDE DEF a, b, r
<1>7. /\ r = "if" => Put(tokenvec', tokenvec, left + 1, [b EXCEPT !.type = "T"])
      /\ r = "function" => Put(tokenvec', tokenvec, left, [a EXCEPT !.type = "f"])
      /\ r = "in" => Put(tokenvec', tokenvec, left,
                        [a EXCEPT !.type = IF b.type = "(" THEN "o" ELSE "n"])
  BY <1>5, <1>6
<1> QED
  BY <1>1, <1>7 DEF a, b, r

\* A token with another type.
LEMMA TokenOfType ==
    ASSUME NEW Char, NEW t \in Tokens(Char), NEW type \in TokenTypes
    PROVE  /\ [t EXCEPT !.type = type] \in Tokens(Char)
           /\ Renamed([t EXCEPT !.type = type], t, type)
<1>1. [t EXCEPT !.type = type] \in Tokens(Char)
  BY DEF Tokens
<1> QED
  BY <1>1, RetypedIs DEF Renamed

LEMMA FoldRetypePassed ==
    ASSUME NEW Char, Blank \in Char, SqliInv(Char), SqliInv(Char)', PassedInv,
           FoldRetype
    PROVE  PassedInv'
<1> DEFINE a == tokenvec[left]
           b == tokenvec[left + 1]
           r == TwoTokenRule(a, b)
<1>1. /\ TwoTokens({"if", "function", "in"}) /\ Drop(0, left)
      /\ r = "if" => Put(tokenvec', tokenvec, left + 1, [b EXCEPT !.type = "T"])
      /\ r = "function" => Put(tokenvec', tokenvec, left, [a EXCEPT !.type = "f"])
      /\ r = "in" => Put(tokenvec', tokenvec, left,
                        [a EXCEPT !.type = IF b.type = "(" THEN "o" ELSE "n"])
  BY RetypeSteps
<1>2. /\ Passed(tokenvec, pos, left, left) /\ pos \in 2 .. 6
      /\ left \in 0 .. pos - 2 /\ left \in Slots /\ left + 1 \in Slots
      /\ tokenvec \in [Slots -> Tokens(Char)]
      /\ r \in {"if", "function", "in"}
  BY <1>1, TwoTokensPassed
<1>3. tokenvec' \in [Slots -> Tokens(Char)]
  BY DEF SqliInv, SqliType
<1>4. a \in Tokens(Char) /\ b \in Tokens(Char)
  BY <1>2
<1>5. /\ r = "if" => Typed(a, {";"}) /\ Typed(b, {"f"})
      /\ r = "function" => Typed(a, {"n", "v"}) /\ Typed(b, {"("})
      /\ r = "in" => Typed(a, {"k"})
  BY TwoTokenRuleSays DEF Typed
<1>6. /\ r = "function" => IsWord(a, FunctionWords)
      /\ r = "in" => IsWord(a, {InWord, NotWord \o InWord})
  BY TwoTokenRuleMeans
<1> HIDE DEF r
<1>7. ASSUME r = "if" PROVE Passed(tokenvec', pos, left, left)
  <2>1. PICK u \in Tokens(Char) : /\ Renamed(u, b, "T")
                                  /\ Put(tokenvec', tokenvec, left + 1, u)
    <3>1. "T" \in TokenTypes
      BY DEF TokenTypes, KeywordTypes
    <3> QED
      BY <1>1, <1>4, <1>7, <3>1, TokenOfType
  <2>2. PICK i \in Nat : i = left + 1
    BY <1>2
  <2>3. Behind(i, left)
    BY <2>2 DEF Behind
  <2>4. Typed(tokenvec[left], {";"}) /\ Typed(tokenvec[i], {"f"})
    BY <1>5, <1>7, <2>2
  <2>5. Renamed(u, tokenvec[i], "T") /\ Put(tokenvec', tokenvec, i, u)
    BY <2>1, <2>2
  <2> HIDE DEF a, b
  <2> QED
    BY <1>2, <1>3, <2>3, <2>4, <2>5, IfPassed
<1>8. ASSUME r = "function" PROVE Passed(tokenvec', pos, left, left)
  <2>1. PICK u \in Tokens(Char) : /\ Renamed(u, a, "f")
                                  /\ Put(tokenvec', tokenvec, left, u)
    <3>1. "f" \in TokenTypes
      BY DEF TokenTypes, KeywordTypes
    <3> QED
      BY <1>1, <1>4, <1>8, <3>1, TokenOfType
  <2>2. /\ Typed(a, {"n", "v"}) /\ Typed(b, {"("})
        /\ IsWord(a, FunctionWords)
    BY <1>5, <1>6, <1>8
  <2> QED
    BY <1>2, <1>3, <2>1, <2>2, FunctionPassed
<1>9. ASSUME r = "in" PROVE Passed(tokenvec', pos, left, left)
  <2>1. PICK type \in {"o", "n"} :
            /\ type = IF b.type = "(" THEN "o" ELSE "n"
            /\ Put(tokenvec', tokenvec, left, [a EXCEPT !.type = type])
    BY <1>1, <1>9
  <2>2. type \in TokenTypes
    BY DEF TokenTypes, KeywordTypes
  <2>3. PICK u \in Tokens(Char) : /\ Renamed(u, a, type)
                                  /\ Put(tokenvec', tokenvec, left, u)
    BY <1>4, <2>1, <2>2, TokenOfType
  <2>4. Renamed(u, a, "n") \/ (Renamed(u, a, "o") /\ Typed(b, {"("}))
    BY <2>1, <2>3 DEF Typed
  <2>5. Typed(a, {"k"}) /\ IsWord(a, {InWord, NotWord \o InWord})
    BY <1>5, <1>6, <1>9
  <2> QED
    BY <1>2, <1>3, <2>3, <2>4, <2>5, InPassed
<1>10. Passed(tokenvec', pos, left, left)
  BY <1>2, <1>7, <1>8, <1>9
<1>11. pos - 0 = pos
  BY <1>2
<1> QED
  BY <1>1, <1>10, <1>11, DropPassed

\* Two tokens that no rule folds are passed.
LEMMA UnfoldedTwo ==
    ASSUME NEW Char, NEW a \in Tokens(Char), NEW b \in Tokens(Char),
           TwoTokenRule(a, b) \in {"none", "like", "collate"},
           ~(TwoTokenRule(a, b) = "collate" /\ Underscored(b))
    PROVE  Two(a, b)
<1> DEFINE r == TwoTokenRule(a, b)
<1>1. ~Marked(a, b) /\ MergedType(a, b) = Null
  BY TwoTokenRuleMeans
<1>2. /\ r = "none" => /\ a.type = "t" => b.type \notin Operands \cup {"t", "(", "f"}
                       /\ ~(a.type = "A" /\ b.type = "n")
      /\ r = "like" => a.type = "o"
      /\ r = "collate" => a.type = "A"
  BY TwoTokenRuleMeans, TwoTokenRuleSays
<1>3. DOMAIN b.val = 1 .. Len(b.val)
  BY DEF Tokens
<1>4. r = "collate" => \A k \in 1 .. Len(b.val) : b.val[k] # "_"
  BY <1>3 DEF Underscored
<1> QED
  <2>1. r \in {"none", "like", "collate"}
    OBVIOUS
  <2> HIDE DEF r
  <2>2. a.type = "t" => /\ b.type \notin {"s", "t", "("}
                        /\ b.type \in {"n", "v", "f"} => Late(b)
    BY <1>2, <2>1 DEF Operands
  <2>3. a.type = "A" /\ b.type = "n" => \A k \in 1 .. Len(b.val) : b.val[k] # "_"
    BY <1>2, <1>4, <2>1
  <2> QED
    BY <1>1, <2>2, <2>3 DEF Two

\* What ToThree does to the tokens.
LEMMA ToThreeSteps ==
    ASSUME NEW Char, SqliInv(Char), PassedInv, ToThree
    PROVE  LET a == tokenvec[left]
               b == tokenvec[left + 1]
               r == TwoTokenRule(a, b)
           IN  /\ TwoTokens({"none", "like", "collate"}) /\ pc' = "three" /\ pos' = pos
               /\ \/ /\ r = "like" /\ Typed(b, {"("}) /\ left' = left
                     /\ Put(tokenvec', tokenvec, left, [a EXCEPT !.type = "f"])
                  \/ /\ r = "collate" /\ Underscored(b) /\ left' = 0
                     /\ Put(tokenvec', tokenvec, left + 1, [b EXCEPT !.type = "t"])
                  \/ /\ ~(r = "collate" /\ Underscored(b)) /\ left' = left
                     /\ \A k \in Slots : tokenvec'[k] = tokenvec[k]
<1> DEFINE a == tokenvec[left]
           b == tokenvec[left + 1]
           r == TwoTokenRule(a, b)
           like == r = "like" /\ b.type = "("
           type == r = "collate" /\ \E k \in DOMAIN b.val : b.val[k] = "_"
           x == IF like THEN "f" ELSE a.type
           y == IF type THEN "t" ELSE b.type
<1>1. /\ TwoTokens({"none", "like", "collate"}) /\ pc' = "three" /\ pos' = pos
      /\ left' = IF type THEN 0 ELSE left
  BY DEF ToThree, A, B
<1>2. tokenvec' = [tokenvec EXCEPT ![left].type = x, ![left + 1].type = y]
  BY DEF ToThree, A, B
<1>3. /\ tokenvec \in [Slots -> Tokens(Char)] /\ left \in Slots /\ left + 1 \in Slots
      /\ pos \in 2 .. 6 /\ left \in 0 .. pos - 2
  BY <1>1, TwoTokensPassed
<1>4. left # left + 1
  BY <1>3
<1>5. /\ like <=> r = "like" /\ Typed(b, {"("})
      /\ type <=> r = "collate" /\ Underscored(b)
  <2> HIDE DEF r
  <2> QED
    BY DEF Typed, Underscored
<1>6. x = (IF like THEN "f" ELSE a.type) /\ y = (IF type THEN "t" ELSE b.type)
  OBVIOUS
<1> HIDE DEF x, y, like, type
<1>7. /\ y = b.type => Put(tokenvec', tokenvec, left, [a EXCEPT !.type = x])
      /\ x = a.type => Put(tokenvec', tokenvec, left + 1, [b EXCEPT !.type = y])
  BY <1>2, <1>3, <1>4, RetypedPlaces
<1>12. ASSUME x = a.type, y = b.type, NEW k \in Slots
       PROVE  tokenvec'[k] = tokenvec[k]
  <2>1. Put(tokenvec', tokenvec, left, [a EXCEPT !.type = a.type])
    BY <1>7, <1>12
  <2>2. [a EXCEPT !.type = a.type] = a
    BY <1>3, SameType
  <2> QED
    BY <2>1, <2>2 DEF Put
<1> HIDE DEF a, b, r
<1>8. ~(like /\ type)
  BY <1>5
<1>9. CASE like
  <2>1. /\ r = "like" /\ Typed(b, {"("}) /\ left' = left
        /\ Put(tokenvec', tokenvec, left, [a EXCEPT !.type = "f"])
    BY <1>1, <1>5, <1>6, <1>7, <1>8, <1>9
  <2> QED
    BY <1>1, <2>1 DEF a, b, r
<1>10. CASE type
  <2>1. /\ r = "collate" /\ Underscored(b) /\ left' = 0
        /\ Put(tokenvec', tokenvec, left + 1, [b EXCEPT !.type = "t"])
    BY <1>1, <1>5, <1>6, <1>7, <1>8, <1>10
  <2> QED
    BY <1>1, <2>1 DEF a, b, r
<1>11. CASE ~like /\ ~type
  <2>1. /\ ~(r = "collate" /\ Underscored(b)) /\ left' = left
        /\ \A k \in Slots : tokenvec'[k] = tokenvec[k]
    BY <1>1, <1>5, <1>6, <1>11, <1>12
  <2> QED
    BY <1>1, <2>1 DEF a, b, r
<1> QED
  BY <1>9, <1>10, <1>11

LEMMA ToThreePassed ==
    ASSUME NEW Char, SqliInv(Char), SqliInv(Char)', PassedInv, ToThree
    PROVE  PassedInv'
<1> DEFINE a == tokenvec[left]
           b == tokenvec[left + 1]
           r == TwoTokenRule(a, b)
<1>1. TwoTokens({"none", "like", "collate"}) /\ pc' = "three" /\ pos' = pos
  BY ToThreeSteps
<1>2. \/ /\ r = "like" /\ Typed(b, {"("}) /\ left' = left
         /\ Put(tokenvec', tokenvec, left, [a EXCEPT !.type = "f"])
      \/ /\ r = "collate" /\ Underscored(b) /\ left' = 0
         /\ Put(tokenvec', tokenvec, left + 1, [b EXCEPT !.type = "t"])
      \/ /\ ~(r = "collate" /\ Underscored(b)) /\ left' = left
         /\ \A k \in Slots : tokenvec'[k] = tokenvec[k]
  BY ToThreeSteps
<1>3. /\ Passed(tokenvec, pos, left, left) /\ pos \in 2 .. 6
      /\ left \in 0 .. pos - 2 /\ left \in Slots /\ left + 1 \in Slots
      /\ tokenvec \in [Slots -> Tokens(Char)]
      /\ r \in {"none", "like", "collate"}
  BY <1>1, TwoTokensPassed
<1>4. tokenvec' \in [Slots -> Tokens(Char)]
  BY DEF SqliInv, SqliType
<1>5. a \in Tokens(Char) /\ b \in Tokens(Char)
  BY <1>3
<1>6. /\ r = "collate" => Typed(a, {"A"}) /\ Typed(b, {"n"})
      /\ r = "like" => IsLike(a)
  BY TwoTokenRuleSays, TwoTokenRuleMeans DEF Typed
<1>7. "f" \in TokenTypes /\ "t" \in TokenTypes
  BY DEF TokenTypes, KeywordTypes
<1>8. ASSUME ~(r = "collate" /\ Underscored(b)) PROVE Two(a, b)
  BY <1>3, <1>5, <1>8, UnfoldedTwo
<1> SUFFICES Passed(tokenvec', pos, left', left' + 1)
  BY <1>1 DEF PassedInv
<1> HIDE DEF r
<1>9. CASE /\ r = "like" /\ Typed(b, {"("}) /\ left' = left
           /\ Put(tokenvec', tokenvec, left, [a EXCEPT !.type = "f"])
  <2>1. PICK u \in Tokens(Char) : /\ Renamed(u, a, "f")
                                  /\ Put(tokenvec', tokenvec, left, u)
    BY <1>5, <1>7, <1>9, TokenOfType
  <2>2. left + 1 \in Nat
    BY <1>3
  <2>3. IsLike(a) /\ Typed(b, {"("})
    BY <1>6, <1>9
  <2>4. Passed(tokenvec', pos, left, left + 1)
    BY <1>3, <1>4, <2>1, <2>2, <2>3, LikePassed
  <2> QED
    BY <1>9, <2>4
<1>10. CASE /\ r = "collate" /\ Underscored(b) /\ left' = 0
            /\ Put(tokenvec', tokenvec, left + 1, [b EXCEPT !.type = "t"])
  <2>1. PICK u \in Tokens(Char) : /\ Renamed(u, b, "t")
                                  /\ Put(tokenvec', tokenvec, left + 1, u)
    BY <1>5, <1>7, <1>10, TokenOfType
  <2>2. PICK i \in Nat : i = left + 1
    BY <1>3
  <2>3. Behind(i, left)
    BY <2>2 DEF Behind
  <2>4. /\ Typed(a, {"A"}) /\ Typed(tokenvec[i], {"n"})
        /\ Underscored(tokenvec[i])
    BY <1>6, <1>10, <2>2
  <2>5. Renamed(u, tokenvec[i], "t") /\ Put(tokenvec', tokenvec, i, u)
    BY <2>1, <2>2
  <2>6. Passed(tokenvec', pos, 0, 1)
    <3> HIDE DEF b
    <3> QED
      BY <1>3, <1>4, <2>3, <2>4, <2>5, TypePassed
  <2>7. 0 + 1 = 1
    OBVIOUS
  <2> QED
    BY <1>10, <2>6, <2>7
<1>11. CASE /\ ~(r = "collate" /\ Underscored(b)) /\ left' = left
            /\ \A k \in Slots : tokenvec'[k] = tokenvec[k]
  <2>1. /\ pos \in 0 .. 6 /\ left \in Nat /\ left + 1 \in Nat
        /\ left # pos - 1 /\ \A k \in 0 .. pos - 1 : k \in Slots
    BY <1>3, PlacesAround
  <2>2. Two(tokenvec'[left], tokenvec'[left + 1])
    BY <1>3, <1>8, <1>11
  <2>3. Moved(tokenvec', pos, left, left, left, left + 1)
    BY <2>1, <2>2, Zenon DEF Moved
  <2>4. \A k \in 0 .. pos - 1 : tokenvec'[k] = tokenvec[k]
    BY <1>11, <2>1
  <2>5. Passed(tokenvec', pos, left, left + 1)
    BY <1>3, <2>1, <2>3, <2>4, MorePassed
  <2> QED
    BY <1>11, <2>5
<1> QED
  BY <1>2, <1>9, <1>10, <1>11

\* The first of three tokens that no rule folds is passed.
LEMMA AdvancePassed ==
    ASSUME NEW Char, SqliInv(Char), SqliInv(Char)', PassedInv, Advance
    PROVE  PassedInv'
<1> DEFINE a == tokenvec[left]
           b == tokenvec[left + 1]
           c == tokenvec[left + 2]
           r == ThreeTokenRule(a, b, c)
<1>1. /\ ThreeTokens({"none", "nofunction"}) /\ Drop(0, left + 1)
      /\ r = "nofunction" => tokenvec' = [tokenvec EXCEPT ![left] = [a EXCEPT !.type = "n"]]
      /\ r # "nofunction" => tokenvec' = [tokenvec EXCEPT ![left] = [a EXCEPT !.type = a.type]]
  <2>1. tokenvec' = [tokenvec EXCEPT ![left] = [a EXCEPT !.type =
                IF r = "nofunction" THEN "n" ELSE a.type]]
    BY DEF Advance, A, B, C
  <2>2. ThreeTokens({"none", "nofunction"}) /\ Drop(0, left + 1)
    BY DEF Advance
  <2> HIDE DEF r
  <2> QED
    BY <2>1, <2>2
<1>2. /\ Passed(tokenvec, pos, left, left + 1) /\ r \in {"none", "nofunction"}
      /\ pos \in 3 .. 6 /\ left \in 0 .. pos - 3
      /\ left \in Slots /\ left + 1 \in Slots
      /\ tokenvec \in [Slots -> Tokens(Char)]
  BY <1>1, ThreeTokensPassed
<1>3. tokenvec' \in [Slots -> Tokens(Char)]
  BY DEF SqliInv, SqliType
<1>4. a \in Tokens(Char) /\ b \in Tokens(Char)
  BY <1>2
<1>5. PICK u \in Nat : u = left + 1
  BY <1>2
<1>6. ASSUME r = "nofunction" PROVE Passed(tokenvec', pos, u, u)
  <2>1. IsWord(a, {UserWord}) /\ Typed(b, {"("})
    BY <1>6, ThreeTokenRuleMeans DEF Typed
  <2>2. Put(tokenvec', tokenvec, left, [a EXCEPT !.type = "n"])
    <3>1. PICK w : w = [a EXCEPT !.type = "n"]
      OBVIOUS
    <3>2. tokenvec' = [tokenvec EXCEPT ![left] = w]
      BY <1>1, <1>6, <3>1
    <3>3. Put(tokenvec', tokenvec, left, w)
      BY <1>2, <3>2, PutAt
    <3> QED
      BY <3>1, <3>3
  <2>3. PICK w \in Tokens(Char) : /\ Renamed(w, a, "n")
                                  /\ Put(tokenvec', tokenvec, left, w)
    <3>1. "n" \in TokenTypes
      BY DEF TokenTypes, KeywordTypes
    <3> QED
      BY <1>4, <2>2, <3>1, TokenOfType
  <2>4. Passed(tokenvec, pos, left, u)
    BY <1>2, <1>5
  <2> QED
    BY <1>2, <1>3, <1>5, <2>1, <2>3, <2>4, UserPassed
<1>7. ASSUME r # "nofunction" PROVE Passed(tokenvec', pos, u, u)
  <2>1. Three(a, b, c)
    BY <1>2, <1>7, ThreeTokenRuleMeans
  <2>2. \A k \in Slots : tokenvec'[k] = tokenvec[k]
    <3>1. [a EXCEPT !.type = a.type] = a
      BY <1>4, SameType
    <3>2. tokenvec' = [tokenvec EXCEPT ![left] = a]
      BY <1>1, <1>7, <3>1
    <3> QED
      BY <1>2, <3>2
  <2>3. /\ pos \in 0 .. 6 /\ left \in Nat /\ left + 2 \in Slots
        /\ left + 1 # pos - 1 /\ \A k \in 0 .. pos - 1 : k \in Slots
    BY <1>2 DEF Slots
  <2>4. Three(tokenvec'[left], tokenvec'[left + 1], tokenvec'[left + 2])
    BY <1>2, <2>1, <2>2, <2>3
  <2>5. Moved(tokenvec', pos, left, u, u, u)
    BY <1>5, <2>3, <2>4 DEF Moved
  <2>6. \A k \in 0 .. pos - 1 : tokenvec'[k] = tokenvec[k]
    BY <2>2, <2>3
  <2>7. Passed(tokenvec, pos, left, u)
    BY <1>2, <1>5
  <2> QED
    BY <2>3, <2>5, <2>6, <2>7, MorePassed
<1>8. Passed(tokenvec', pos - 0, left + 1, left + 1)
  <2>1. pos - 0 = pos
    BY <1>2
  <2> QED
    BY <1>5, <1>6, <1>7, <2>1
<1> QED
  BY <1>1, <1>8, DropPassed

\* Another token is read.
LEMMA FetchPassed ==
    ASSUME NEW Char, SqliInv(Char), SqliInv(Char)', PassedInv, FetchTwo \/ FetchThree
    PROVE  PassedInv'
<1> DEFINE t == IF pc = "three" THEN left + 1 ELSE left
<1>1. /\ pc \in {"two", "three"} /\ pc' = pc /\ left' = left
      /\ pc = "two" => pos - left < 2
      /\ pc = "three" => pos - left < 3
      /\ pos' \in {pos, pos + 1} /\ pos <= 5
      /\ \E tok : tokenvec' = [tokenvec EXCEPT ![pos] = tok]
  BY DEF FetchTwo, FetchThree, FetchToken, Wanted, MaxTokens
<1>2. /\ pos \in 0 .. 5 /\ left \in 0 .. pos
      /\ tokenvec \in [Slots -> Tokens(Char)]
      /\ tokenvec' \in [Slots -> Tokens(Char)]
  BY <1>1 DEF SqliInv, SqliType, Folding
<1>3. pc = "three" => left + 1 < pos
  BY DEF SqliInv, RepeatInv
<1>4. left < pos \/ left = 0
  <2>1. Folding /\ more /\ left < MaxTokens
    BY <1>1 DEF FetchTwo, FetchThree, Wanted, Folding, SqliInv, RepeatInv
  <2> QED
    BY <2>1 DEF SqliInv, RepeatInv
<1>5. \A k \in 0 .. pos - 1 : tokenvec'[k] = tokenvec[k]
  <2>1. \A k \in 0 .. pos - 1 : k \in Slots /\ k # pos
    BY <1>2 DEF Slots
  <2> QED
    BY <1>1, <1>2, <2>1
<1>6. SUFFICES ASSUME left < pos' PROVE Passed(tokenvec', pos', left, t)
  BY <1>1 DEF PassedInv
<1>7. CASE left < pos
  <2>1. Passed(tokenvec, pos, left, t)
    BY <1>1, <1>7 DEF PassedInv
  <2>2. /\ pos \in 1 .. 5 /\ left \in 0 .. pos - 1 /\ left + 2 >= pos
        /\ t \in Nat /\ t >= pos - 1 /\ t < pos /\ pos \in 0 .. 6 /\ left \in Nat
    BY <1>1, <1>2, <1>3, <1>7
  <2> HIDE DEF t
  <2>3. CASE pos' = pos
    <3>1. left = pos - 1 /\ left > 0 => tokenvec'[left].type \in {"s", ";"}
      <4>1. left \in 0 .. pos - 1
        BY <2>2
      <4>2. tokenvec'[left] = tokenvec[left]
        BY <1>5, <4>1
      <4> QED
        BY <2>1, <4>2 DEF Passed
    <3>2. Moved(tokenvec', pos, left, t, left, t)
      BY <3>1 DEF Moved
    <3>3. Passed(tokenvec', pos, left, t)
      BY <1>5, <2>1, <2>2, <3>2, MorePassed
    <3> QED
      BY <2>3, <3>3
  <2>4. CASE pos' = pos + 1
    <3>1. pos' \in 1 .. 6 /\ pos' >= pos + 1 /\ pos' <= pos + 1
      BY <1>2, <2>4
    <3> QED
      BY <1>2, <1>5, <2>1, <2>2, <3>1, FetchedPassed
  <2> QED
    BY <1>1, <2>3, <2>4
<1>8. CASE ~(left < pos)
  <2>1. left = 0 /\ t = 0 /\ pos' \in 0 .. 2
    BY <1>1, <1>2, <1>3, <1>4, <1>8
  <2>2. Passed(tokenvec', pos', 0, 0)
    BY <2>1, FewTokens
  <2> QED
    BY <2>1, <2>2
<1> QED
  BY <1>7, <1>8

LEMMA FoldPassed ==
    ASSUME NEW Char, Blank \in Char, SqliInv(Char), SqliInv(Char)', PassedInv, FoldNext
    PROVE  PassedInv'
<1>1. CASE SkipInitial
  <2>1. left' = left /\ left = 0 /\ pos' \in {0, 1} /\ pc' # "three"
    BY <1>1 DEF SkipInitial, SqliInv, RepeatInv
  <2>2. pos' \in 0 .. 2
    BY <2>1
  <2> QED
    BY <2>1, <2>2, FewTokens, StartsPassed
<1>2. CASE FoldFive
  <2>1. left' = 0 /\ pos' \in {1, 2} /\ pc' # "three"
    BY <1>2 DEF FoldFive
  <2>2. pos' \in 0 .. 2
    BY <2>1
  <2> QED
    BY <2>1, <2>2, FewTokens, StartsPassed
<1>3. CASE LoopOrEnd
  <2>1. /\ tokenvec' = tokenvec /\ pos' = pos /\ left' = left
        /\ pc = "full" /\ pc' \in {"two", "end"}
    BY <1>3 DEF LoopOrEnd
  <2> QED
    BY <2>1 DEF PassedInv
<1>4. CASE FewerThanTwo \/ FewerThanThree
  <2>1. left' = pos /\ pos' = pos
    BY <1>4 DEF FewerThanTwo, FewerThanThree, TooFew
  <2>2. pos \in 0 .. 6
    BY DEF SqliInv, SqliType
  <2>3. ~(left' < pos')
    BY <2>1, <2>2
  <2> QED
    BY <2>3 DEF PassedInv
<1>5. CASE Finish
  BY <1>5 DEF Finish, PassedInv
<1> QED
  BY <1>1, <1>2, <1>3, <1>4, <1>5, FetchPassed, RepeatedPassed, FoldMergePassed,
     FoldRetypePassed, FoldCastPassed, FoldBackslashPassed, FoldBracePassed,
     ToThreePassed, SignPassed, AdvancePassed DEF FoldNext

LEMMA StepPassed ==
    ASSUME NEW Char, Blank \in Char, SqliInv(Char), SqliInv(Char)', PassedInv,
           [Next]_vars
    PROVE  PassedInv'
<1>1. CASE Fold
  BY <1>1, FoldPassed DEF Fold
<1>2. CASE libinjection_sqli_fingerprint
  <2>1. pc' = "judge"
    BY <1>2 DEF libinjection_sqli_fingerprint
  <2> QED
    BY <2>1 DEF PassedInv
<1>3. CASE Reset
  <2>1. pc' = "skip"
    BY <1>3 DEF Reset
  <2> QED
    BY <2>1 DEF PassedInv
<1>4. CASE UNCHANGED foldVars
  BY <1>4 DEF foldVars, PassedInv
<1> QED
  BY <1>1, <1>2, <1>3, <1>4 DEF Next, Returned, Sqli, Benign, vars, foldVars

\* PassedInv is an invariant of the detector, on every set of texts.
THEOREM PassedInvariantHolds ==
    ASSUME NEW CONSTANT Char, NEW CONSTANT texts \in SUBSET Seq(Char)
    PROVE  Init(texts) /\ [][Next]_vars => [](SqliInv(Written(Char)) /\ PassedInv)
<1>1. Init(texts) => PassedInv
  BY DEF Init, FoldInit, PassedInv
<1>2. SqliInv(Written(Char)) /\ SqliInv(Written(Char))' /\ PassedInv /\ [Next]_vars
      => PassedInv'
  BY StepPassed DEF Written
<1> QED
  BY <1>1, <1>2, InvariantHolds, PTL

\* A rule on two tokens that compares their marks fires only at the last tokens
\* that were read, whose places are the ones that it gives up.
THEOREM MatchedIsDropped ==
    ASSUME NEW CONSTANT Char, NEW CONSTANT texts \in SUBSET Seq(Char)
    PROVE  Init(texts) /\ [][Next]_vars => []DropsWhatItMatched
<1>1. SqliInv(Written(Char)) /\ PassedInv => DropsWhatItMatched
  <2> SUFFICES ASSUME SqliInv(Written(Char)), PassedInv, pc = "two", pos - left >= 2,
                      TwoTokenRule(A, B) \in {"strings", "semicolons", "unary",
                          "leftunary", "backslash", "lefts", "rights", "endbrace"}
               PROVE  pos = left + 2
    BY DEF DropsWhatItMatched
  <2>1. pos \in 0 .. 6 /\ left \in 0 .. 6
    BY DEF SqliInv, SqliType
  <2>2. Marked(tokenvec[left], tokenvec[left + 1])
    BY TwoTokenRuleMeans DEF A, B
  <2>3. SUFFICES ASSUME left <= pos - 3 PROVE FALSE
    BY <2>1
  <2>4. left \in Nat /\ left <= pos - 2 /\ left < pos
    BY <2>1, <2>3
  <2>5. Passed(tokenvec, pos, left, left)
    BY <2>4 DEF PassedInv
  <2>6. Two(tokenvec[left], tokenvec[left + 1])
    BY <2>1, <2>3, <2>4, <2>5, PassedTwo
  <2> QED
    BY <2>2, <2>6 DEF Two
<1> QED
  BY <1>1, PassedInvariantHolds, PTL
=============================================================================
