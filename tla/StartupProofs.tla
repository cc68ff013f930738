--------------------------- MODULE StartupProofs ---------------------------
(***************************************************************************)
(* The server runs only with the configuration it was asked for, and the   *)
(* terminal's signals do not end it: for every command line.               *)
(***************************************************************************)
EXTENDS Startup, StreamProofs
LOCAL INSTANCE FiniteSetsExt

-----------------------------------------------------------------------------
(* strnstr.                                                                 *)

\* find is at the 0-based place k of s, and within its first slen characters.
IsAt(s, find, slen, k) ==
    /\ k + Len(find) <= Min({slen, Len(s)})
    /\ SubSeq(s, k + 1, k + Len(find)) = find

Places(s, find, slen, k) == {j \in k .. Len(s) : IsAt(s, find, slen, j)}

\* The first place from k on.
Leftmost(s, find, slen, k) ==
    IF Places(s, find, slen, k) = {} THEN Null ELSE Min(Places(s, find, slen, k))

\* A turn of strnstr's outer loop.
Turn(f, s, find, slen, k) ==
    IF slen - k < 1 \/ k = Len(s) THEN Null
    ELSE IF s[k + 1] # find[1] THEN f[k + 1]
    ELSE IF Len(find) - 1 > slen - k - 1 THEN Null
    ELSE IF Prefix(SubSeq(s, k + 2, Len(s)), Len(find) - 1) = Tail(find) THEN k
    ELSE f[k + 1]

\* Characters one by one.
LEMMA IsAtIs ==
    ASSUME NEW Chars, NEW s \in Seq(Chars), NEW find \in Seq(Chars),
           NEW slen \in Nat, NEW k \in Nat
    PROVE  IsAt(s, find, slen, k) <=>
               /\ k + Len(find) <= slen /\ k + Len(find) <= Len(s)
               /\ \A i \in 1 .. Len(find) : s[k + i] = find[i]
<1>1. PICK n \in Nat, m \in Nat : n = Len(s) /\ m = Len(find)
  BY LenProperties
<1>2. k + m <= Min({slen, n}) <=> k + m <= slen /\ k + m <= n
  BY MinOfTwo
<1>3. ASSUME k + m <= n
      PROVE  SubSeq(s, k + 1, k + m) = find <=> \A i \in 1 .. m : s[k + i] = find[i]
  <2>1. PICK t : t = SubSeq(s, k + 1, k + m)
    OBVIOUS
  <2>2. t \in Seq(Chars) /\ Len(t) = m /\ \A i \in 1 .. m : t[i] = s[k + i]
    <3>1. k + 1 \in 1 .. n + 1 /\ k + m \in k .. n
      BY <1>3
    <3> QED
      BY <1>1, <1>3, <2>1, <3>1
  <2>3. t = find <=> \A i \in 1 .. m : t[i] = find[i]
    BY <1>1, <2>2, SeqEqual
  <2> QED
    BY <2>1, <2>2, <2>3
<1> QED
  BY <1>1, <1>2, <1>3 DEF IsAt

\* What is kept of a string.
LEMMA PrefixIs ==
    ASSUME NEW Chars, NEW s \in Seq(Chars), NEW n \in Nat
    PROVE  /\ Prefix(s, n) \in Seq(Chars)
           /\ Len(Prefix(s, n)) = IF Len(s) < n THEN Len(s) ELSE n
           /\ \A i \in 1 .. Len(Prefix(s, n)) : Prefix(s, n)[i] = s[i]
<1>1. PICK l \in Nat : l = Len(s)
  BY LenProperties
<1>2. PICK m \in 0 .. l : /\ m = Min({l, n})
                          /\ m = IF l < n THEN l ELSE n
  BY MinOfTwo
<1>3. Prefix(s, n) = SubSeq(s, 1, m)
  BY <1>1, <1>2 DEF Prefix
<1>4. /\ SubSeq(s, 1, m) \in Seq(Chars) /\ Len(SubSeq(s, 1, m)) = m
      /\ \A i \in 1 .. m : SubSeq(s, 1, m)[i] = s[i]
  BY <1>1, <1>2, Beginning
<1> QED
  BY <1>1, <1>2, <1>3, <1>4

\* strncmp of the rest, after the first character.
LEMMA RestIs ==
    ASSUME NEW Chars, NEW s \in Seq(Chars), NEW find \in Seq(Chars), find # <<>>,
           NEW k \in Nat, k < Len(s)
    PROVE  Prefix(SubSeq(s, k + 2, Len(s)), Len(find) - 1) = Tail(find)
               <=> /\ k + Len(find) <= Len(s)
                   /\ \A i \in 2 .. Len(find) : s[k + i] = find[i]
<1>1. PICK n \in Nat, m \in Nat : n = Len(s) /\ m + 1 = Len(find) /\ m = Len(find) - 1
  BY LenProperties, EmptySeq
<1>2. PICK t \in Seq(Chars) :
          /\ t = Tail(find) /\ Len(t) = m /\ \A i \in 1 .. m : t[i] = find[i + 1]
  <2>1. /\ Tail(find) \in Seq(Chars) /\ Len(Tail(find)) = Len(find) - 1
        /\ \A i \in 1 .. Len(Tail(find)) : Tail(find)[i] = find[i + 1]
    BY HeadTailProperties
  <2>2. Len(Tail(find)) = m
    BY <1>1, <2>1
  <2> QED
    BY <2>1, <2>2, Zenon
<1>3. PICK l \in Nat : l = n - k - 1
  <2>1. k < n
    BY <1>1
  <2>2. n - k - 1 \in Nat
    BY <2>1
  <2> QED
    BY <2>2
<1>4. PICK r \in Seq(Chars) :
          /\ r = SubSeq(s, k + 2, n) /\ Len(r) = l
          /\ \A i \in 1 .. l : r[i] = s[k + 1 + i]
  <2>1. \A i \in k + 2 .. n : s[i] \in Chars
    BY <1>1, ElementOfSeq
  <2>2. k + 2 \in Int /\ n \in Int /\ n - (k + 2) + 1 = l
        /\ (IF k + 2 <= n THEN n - (k + 2) + 1 ELSE 0) = l
    BY <1>1, <1>3
  <2>3. /\ SubSeq(s, k + 2, n) \in Seq(Chars) /\ Len(SubSeq(s, k + 2, n)) = l
        /\ \A i \in 1 .. l : SubSeq(s, k + 2, n)[i] = s[(k + 2) + i - 1]
    BY <2>1, <2>2, SubSeqProperties
  <2>4. \A i \in 1 .. l : (k + 2) + i - 1 = k + 1 + i
    OBVIOUS
  <2>5. \A i \in 1 .. l : SubSeq(s, k + 2, n)[i] = s[k + 1 + i]
    BY <2>3, <2>4
  <2> QED
    BY <2>3, <2>5, Zenon
<1>5. PICK p \in Seq(Chars) :
          /\ p = Prefix(r, m) /\ (l < m => Len(p) = l) /\ (m <= l => Len(p) = m)
          /\ \A i \in 1 .. Len(p) : p[i] = r[i]
  <2>1. /\ Prefix(r, m) \in Seq(Chars)
        /\ Len(Prefix(r, m)) = IF Len(r) < m THEN Len(r) ELSE m
        /\ \A i \in 1 .. Len(Prefix(r, m)) : Prefix(r, m)[i] = r[i]
    BY PrefixIs
  <2>2. /\ l < m => Len(Prefix(r, m)) = l
        /\ m <= l => Len(Prefix(r, m)) = m
    BY <1>4, <2>1
  <2> QED
    BY <2>1, <2>2, Zenon
<1>6. CASE k + (m + 1) <= n
  <2>1. Len(p) = m /\ m <= l
    BY <1>3, <1>5, <1>6
  <2>2. \A i \in 1 .. m : p[i] = s[k + 1 + i]
    <3>1. \A i \in 1 .. m : i \in 1 .. l /\ i \in 1 .. Len(p)
      BY <2>1
    <3> QED
      BY <1>4, <1>5, <3>1
  <2>3. p = t <=> \A i \in 1 .. m : p[i] = t[i]
    BY <1>2, <2>1, SeqEqual
  <2>4. p = t <=> \A i \in 1 .. m : s[k + 1 + i] = find[i + 1]
    BY <1>2, <2>2, <2>3
  <2>5. (\A i \in 1 .. m : s[k + 1 + i] = find[i + 1])
            <=> \A i \in 2 .. m + 1 : s[k + i] = find[i]
    <3>1. ASSUME \A i \in 1 .. m : s[k + 1 + i] = find[i + 1], NEW i \in 2 .. m + 1
          PROVE  s[k + i] = find[i]
      <4>1. i - 1 \in 1 .. m /\ k + 1 + (i - 1) = k + i /\ (i - 1) + 1 = i
        BY <1>1
      <4> QED
        BY <3>1, <4>1
    <3>2. ASSUME \A i \in 2 .. m + 1 : s[k + i] = find[i], NEW i \in 1 .. m
          PROVE  s[k + 1 + i] = find[i + 1]
      <4>1. i + 1 \in 2 .. m + 1 /\ k + 1 + i = k + (i + 1)
        BY <1>1
      <4> QED
        BY <3>2, <4>1
    <3> QED
      BY <3>1, <3>2
  <2> QED
    BY <1>1, <1>2, <1>4, <1>5, <1>6, <2>4, <2>5
<1>7. CASE ~(k + (m + 1) <= n)
  <2>1. Len(p) # Len(t)
    BY <1>2, <1>3, <1>5, <1>7
  <2>2. p # t
    BY <2>1
  <2> QED
    BY <1>1, <1>2, <1>4, <1>5, <1>7, <2>2
<1> QED
  BY <1>6, <1>7

\* The places from k on are k, if it is one, and those from k + 1 on.
LEMMA PlacesFrom ==
    ASSUME NEW s, NEW find, NEW slen, Len(s) \in Nat, NEW k \in Nat, k < Len(s)
    PROVE  /\ ~IsAt(s, find, slen, k) =>
                  Leftmost(s, find, slen, k) = Leftmost(s, find, slen, k + 1)
           /\ IsAt(s, find, slen, k) => Leftmost(s, find, slen, k) = k
<1>1. Places(s, find, slen, k) \subseteq Nat
  BY DEF Places
<1>2. ASSUME ~IsAt(s, find, slen, k)
      PROVE  Places(s, find, slen, k) = Places(s, find, slen, k + 1)
  <2>1. \A j \in k .. Len(s) : j # k => j \in k + 1 .. Len(s)
    OBVIOUS
  <2>2. \A j \in k + 1 .. Len(s) : j \in k .. Len(s)
    OBVIOUS
  <2> QED
    BY <1>2, <2>1, <2>2 DEF Places
<1>3. ASSUME IsAt(s, find, slen, k)
      PROVE  Leftmost(s, find, slen, k) = k
  <2>1. k \in Places(s, find, slen, k)
    BY <1>3 DEF Places
  <2>2. PICK l \in Nat : /\ l = Min(Places(s, find, slen, k))
                         /\ l \in Places(s, find, slen, k) /\ l <= k
    BY <1>1, <2>1, MinOf
  <2>3. k <= l
    BY <2>2 DEF Places
  <2>4. l = k
    BY <2>2, <2>3
  <2> QED
    BY <2>1, <2>2, <2>4 DEF Leftmost
<1> QED
  BY <1>2, <1>3 DEF Leftmost

\* A turn finds the first place from k on if the next turn does from k + 1 on.
LEMMA TurnIs ==
    ASSUME NEW Chars, NEW s \in Seq(Chars), NEW find \in Seq(Chars), find # <<>>,
           NEW slen \in Nat, NEW k \in 0 .. Len(s), NEW f,
           k < Len(s) => f[k + 1] = Leftmost(s, find, slen, k + 1)
    PROVE  Turn(f, s, find, slen, k) = Leftmost(s, find, slen, k)
<1>1. PICK n \in Nat, m \in Nat : n = Len(s) /\ m = Len(find) /\ m > 0
  BY LenProperties, EmptySeq
<1>2. k \in Nat /\ k <= n
  BY <1>1
<1>3. \A j \in Nat : IsAt(s, find, slen, j) <=>
          j + m <= slen /\ j + m <= n /\ \A i \in 1 .. m : s[j + i] = find[i]
  <2> TAKE j \in Nat
  <2>1. IsAt(s, find, slen, j) <=>
            /\ j + Len(find) <= slen /\ j + Len(find) <= Len(s)
            /\ \A i \in 1 .. Len(find) : s[j + i] = find[i]
    BY IsAtIs
  <2> QED
    BY <1>1, <2>1
<1>4. ASSUME k + m > slen \/ k = n PROVE Leftmost(s, find, slen, k) = Null
  <2>1. ASSUME NEW j \in k .. n PROVE ~IsAt(s, find, slen, j)
    <3>1. j \in Nat /\ ~(j + m <= slen /\ j + m <= n)
      BY <1>1, <1>2, <1>4
    <3> QED
      BY <1>3, <3>1
  <2> QED
    BY <1>1, <2>1 DEF Leftmost, Places
<1>5. CASE slen - k < 1 \/ k = n
  <2>1. k + m > slen \/ k = n
    BY <1>1, <1>2, <1>5
  <2> QED
    BY <1>1, <1>4, <1>5, <2>1 DEF Turn
<1>6. CASE ~(slen - k < 1) /\ k < n
  <2>1. Turn(f, s, find, slen, k) =
            IF s[k + 1] # find[1] THEN f[k + 1]
            ELSE IF m - 1 > slen - k - 1 THEN Null
            ELSE IF Prefix(SubSeq(s, k + 2, Len(s)), m - 1) = Tail(find) THEN k
            ELSE f[k + 1]
    BY <1>1, <1>2, <1>6 DEF Turn
  <2>2. f[k + 1] = Leftmost(s, find, slen, k + 1)
    BY <1>1, <1>6
  <2>3. Prefix(SubSeq(s, k + 2, Len(s)), m - 1) = Tail(find)
            <=> k + m <= n /\ \A i \in 2 .. m : s[k + i] = find[i]
    <3>1. k < Len(s)
      BY <1>1, <1>6
    <3>2. Prefix(SubSeq(s, k + 2, Len(s)), Len(find) - 1) = Tail(find)
              <=> /\ k + Len(find) <= Len(s)
                  /\ \A i \in 2 .. Len(find) : s[k + i] = find[i]
      BY <1>2, <3>1, RestIs
    <3> QED
      BY <1>1, <3>2
  <2>4. CASE s[k + 1] # find[1]
    <3>1. ~IsAt(s, find, slen, k)
      BY <1>1, <1>2, <1>3, <2>4
    <3> QED
      BY <1>1, <1>2, <1>6, <2>1, <2>2, <2>4, <3>1, PlacesFrom
  <2>5. CASE s[k + 1] = find[1] /\ m - 1 > slen - k - 1
    <3>1. k + m > slen
      BY <1>1, <1>2, <2>5
    <3> QED
      BY <1>4, <2>1, <2>5, <3>1
  <2>6. CASE s[k + 1] = find[1] /\ ~(m - 1 > slen - k - 1)
    <3>1. k + m <= slen
      BY <1>1, <1>2, <2>6
    <3>2. (\A i \in 1 .. m : s[k + i] = find[i])
              <=> \A i \in 2 .. m : s[k + i] = find[i]
      <4>1. \A i \in 1 .. m : i = 1 \/ i \in 2 .. m
        OBVIOUS
      <4>2. \A i \in 2 .. m : i \in 1 .. m
        OBVIOUS
      <4> QED
        BY <2>6, <4>1, <4>2
    <3>3. IsAt(s, find, slen, k)
              <=> Prefix(SubSeq(s, k + 2, Len(s)), m - 1) = Tail(find)
      BY <1>2, <1>3, <2>3, <3>1, <3>2
    <3> QED
      BY <1>1, <1>2, <1>6, <2>1, <2>2, <2>6, <3>3, PlacesFrom
  <2> QED
    BY <2>4, <2>5, <2>6
<1> QED
  BY <1>1, <1>2, <1>5, <1>6

Searching(f, s, find, slen) ==
    f = [k \in 0 .. Len(s) |-> Turn(f, s, find, slen, k)]

LEMMA SearchingExists ==
    ASSUME NEW Chars, NEW s \in Seq(Chars), NEW find \in Seq(Chars), find # <<>>,
           NEW slen \in Nat
    PROVE  \E f : Searching(f, s, find, slen)
<1> DEFINE f == [k \in 0 .. Len(s) |-> Leftmost(s, find, slen, k)]
<1>0. Len(s) \in Nat
  BY LenProperties
<1>1. ASSUME NEW k \in 0 .. Len(s)
      PROVE  Turn(f, s, find, slen, k) = Leftmost(s, find, slen, k)
  <2>1. k < Len(s) => f[k + 1] = Leftmost(s, find, slen, k + 1)
    BY <1>0
  <2> HIDE DEF f
  <2> QED
    BY <2>1, TurnIs
<1>2. f = [k \in 0 .. Len(s) |-> Turn(f, s, find, slen, k)]
  BY <1>1
<1> QED
  BY <1>2 DEF Searching

\* The search from the end: place by place, it can only be that one.
LEMMA SearchingIs ==
    ASSUME NEW Chars, NEW s \in Seq(Chars), NEW find \in Seq(Chars), find # <<>>,
           NEW slen \in Nat, NEW f, Searching(f, s, find, slen)
    PROVE  f[0] = Leftmost(s, find, slen, 0)
<1>1. PICK n \in Nat : n = Len(s)
  BY LenProperties
<1>2. \A k \in 0 .. n : f[k] = Turn(f, s, find, slen, k)
  BY <1>1 DEF Searching
<1> DEFINE I == {j \in 0 .. n : f[n - j] = Leftmost(s, find, slen, n - j)}
<1>3. 0 \in I
  <2>1. n - 0 = n /\ n \in 0 .. Len(s) /\ ~(n < Len(s))
    BY <1>1
  <2>2. Turn(f, s, find, slen, n) = Leftmost(s, find, slen, n)
    BY <2>1, TurnIs
  <2> QED
    BY <1>2, <2>1, <2>2
<1>4. ASSUME NEW j \in 0 .. n - 1, j \in I PROVE j + 1 \in I
  <2>1. PICK k \in Nat : /\ k = n - (j + 1) /\ k + 1 = n - j
                         /\ k \in 0 .. n /\ k < n /\ j + 1 \in 0 .. n
    <3>1. n - (j + 1) \in Nat
      OBVIOUS
    <3> QED
      BY <3>1
  <2>2. f[k + 1] = Leftmost(s, find, slen, k + 1)
    BY <1>4, <2>1
  <2>3. Turn(f, s, find, slen, k) = Leftmost(s, find, slen, k)
    BY <1>1, <2>1, <2>2, TurnIs
  <2>4. f[k] = Leftmost(s, find, slen, k)
    BY <1>2, <2>1, <2>3
  <2> QED
    BY <2>1, <2>4
<1>5. \A j \in 0 .. n : j \in I
  <2> HIDE DEF I
  <2> QED
    BY <1>3, <1>4, IntervalInduction
<1>6. n \in 0 .. n /\ n - n = 0
  OBVIOUS
<1>7. n \in I
  BY <1>5, <1>6
<1> QED
  BY <1>6, <1>7

LEMMA StrnstrIs ==
    ASSUME NEW Chars, NEW s \in Seq(Chars), NEW find \in Seq(Chars), find # <<>>,
           NEW slen \in Nat
    PROVE  strnstr(s, find, slen) = Leftmost(s, find, slen, 0)
<1> DEFINE f == CHOOSE g : Searching(g, s, find, slen)
<1>1. Searching(f, s, find, slen)
  BY SearchingExists
<1>2. strnstr(s, find, slen) = f[0]
  BY DEF strnstr, Searching, Turn
<1> HIDE DEF f
<1> QED
  BY <1>1, <1>2, SearchingIs

\* A name that fills all of the first slen characters is found at the start or
\* not at all.
LEMMA FoundAtStart ==
    ASSUME NEW Chars, NEW s \in Seq(Chars), NEW find \in Seq(Chars), find # <<>>
    PROVE  strnstr(s, find, Len(find)) # Null <=> Prefix(s, Len(find)) = find
<1>1. PICK n \in Nat, m \in Nat : n = Len(s) /\ m = Len(find) /\ m > 0
  BY LenProperties, EmptySeq
<1>2. strnstr(s, find, m) = Leftmost(s, find, m, 0)
  BY <1>1, StrnstrIs
<1>3. \A j \in Nat : IsAt(s, find, m, j) <=>
          j + m <= m /\ j + m <= n /\ \A i \in 1 .. m : s[j + i] = find[i]
  <2> TAKE j \in Nat
  <2>1. IsAt(s, find, m, j) <=>
            /\ j + Len(find) <= m /\ j + Len(find) <= Len(s)
            /\ \A i \in 1 .. Len(find) : s[j + i] = find[i]
    BY IsAtIs
  <2> QED
    BY <1>1, <2>1
<1>4. IsAt(s, find, m, 0) <=> m <= n /\ \A i \in 1 .. m : s[i] = find[i]
  <2>1. \A i \in 1 .. m : 0 + i = i
    OBVIOUS
  <2>2. IsAt(s, find, m, 0) <=>
            0 + m <= m /\ 0 + m <= n /\ \A i \in 1 .. m : s[0 + i] = find[i]
    BY <1>3
  <2> QED
    BY <2>1, <2>2
<1>5. strnstr(s, find, m) # Null <=> IsAt(s, find, m, 0)
  <2>1. ASSUME NEW j \in 0 .. n, IsAt(s, find, m, j) PROVE j = 0
    BY <1>3, <2>1
  <2>2. Places(s, find, m, 0) # {} <=> IsAt(s, find, m, 0)
    BY <1>1, <2>1 DEF Places
  <2>3. Places(s, find, m, 0) \in SUBSET Nat
    BY DEF Places
  <2>4. ASSUME Places(s, find, m, 0) # {} PROVE Leftmost(s, find, m, 0) # Null
    <3>1. Min(Places(s, find, m, 0)) \in Nat
      BY <2>3, <2>4, MinOf
    <3> QED
      BY <2>4, <3>1, StartupAssumption DEF Leftmost
  <2> QED
    BY <1>2, <2>2, <2>4 DEF Leftmost
<1>6. PICK p \in Seq(Chars) :
          /\ p = Prefix(s, m) /\ (n < m => Len(p) = n) /\ (m <= n => Len(p) = m)
          /\ \A i \in 1 .. Len(p) : p[i] = s[i]
  <2>1. /\ Prefix(s, m) \in Seq(Chars)
        /\ Len(Prefix(s, m)) = IF Len(s) < m THEN Len(s) ELSE m
        /\ \A i \in 1 .. Len(Prefix(s, m)) : Prefix(s, m)[i] = s[i]
    BY PrefixIs
  <2>2. /\ n < m => Len(Prefix(s, m)) = n
        /\ m <= n => Len(Prefix(s, m)) = m
    BY <1>1, <2>1
  <2> QED
    BY <2>1, <2>2, Zenon
<1>7. p = find <=> m <= n /\ \A i \in 1 .. m : s[i] = find[i]
  <2>1. CASE m <= n
    <3>1. Len(p) = m
      BY <1>6, <2>1
    <3>2. p = find <=> \A i \in 1 .. m : p[i] = find[i]
      BY <1>1, <3>1, SeqEqual
    <3> QED
      BY <1>6, <2>1, <3>1, <3>2
  <2>2. CASE n < m
    <3>1. Len(p) # Len(find)
      BY <1>1, <1>6, <2>2
    <3>2. p # find
      BY <3>1
    <3> QED
      BY <2>2, <3>2
  <2> QED
    BY <2>1, <2>2
<1> QED
  BY <1>1, <1>4, <1>5, <1>6, <1>7

-----------------------------------------------------------------------------
(* Types.                                                                   *)

\* The characters, with those of the algorithms' names for the provers, which do
\* not know that a string is in STRING.
Char == STRING \cup {"a", "b", "d", "f", "h", "i", "k", "l", "n", "o", "p", "r", "s", "-"}

\* The command lines: words, of characters.
WellFormed(commands) == commands \subseteq Seq(Seq(Char))

Spec(commands) == Init(commands) /\ [][Next]_vars

Word  == Seq(Char)
Arg   == Word \cup {Null}
File  == Contents \cup {Null}

Params == [hostarg : Arg, redirectarg : Arg, logfile : Arg,
           block_addr_list : File, regex_rules : File, match_rules : File,
           debug : BOOLEAN, libinjection_sqli : BOOLEAN, pcre : BOOLEAN,
           option_algorithm : 0 .. 3]

Loading == {"regex_rules", "match_rules", "block_addr_list"}
Starting == {"host", "redirect", "base", "listen", "serving"}

OptionsType ==
    /\ argv \in Seq(Word) /\ optind \in 0 .. Len(argv) /\ match \in 0 .. 3
    /\ given \in Seq(Letters \X Word) /\ param \in Params

SignalType ==
    /\ caught \subseteq Signals /\ handlers \in Seq(caught)
    /\ pc \in {"signals", "sigpipe", "options"} \cup Loading \cup Starting
              \cup {"exited", "crashed", "killed"}

StartType == OptionsType /\ SignalType

\* What an option that is read has to do with the command line.
OptionRead(i, c, optarg) ==
    /\ i \in optind + 1 .. Len(argv) /\ argv[i] \in Words
    /\ \A j \in optind + 1 .. i - 1 : argv[j] \notin Words
    /\ c = Letter(argv[i]) /\ c \in Letters /\ optarg \in Word
    /\ NeedsArgument(argv[i]) => i < Len(argv) /\ optarg = argv[i + 1]
    /\ IF Accepts(c, optarg)
       THEN /\ param' = Assigned(c, optarg)
            /\ match' = IF c = "m" THEN MatchAfter(optarg) ELSE match
            /\ given' = Append(given, <<c, optarg>>) /\ pc' = pc
       ELSE pc' = "exited" /\ param' = param /\ match' = match /\ given' = given
    /\ optind' = IF NeedsArgument(argv[i]) THEN i + 1 ELSE i
    /\ argv' = argv

LEMMA OptionIs ==
    ASSUME StartType, ParseOption
    PROVE  \E i, c, optarg : OptionRead(i, c, optarg)
<1>1. PICK i \in NextOption :
          LET c      == Letter(argv[i])
              optarg == IF NeedsArgument(argv[i]) THEN argv[i + 1] ELSE <<>>
          IN  /\ ~NeedsArgument(argv[i]) \/ i < Len(argv)
              /\ IF Accepts(c, optarg)
                 THEN /\ param' = Assigned(c, optarg)
                      /\ match' = IF c = "m" THEN MatchAfter(optarg) ELSE match
                      /\ given' = Append(given, <<c, optarg>>)
                      /\ UNCHANGED pc
                 ELSE Exit /\ UNCHANGED <<param, match, given>>
              /\ optind' = IF NeedsArgument(argv[i]) THEN i + 1 ELSE i
  BY DEF ParseOption
<1> DEFINE c == Letter(argv[i])
           optarg == IF NeedsArgument(argv[i]) THEN argv[i + 1] ELSE <<>>
<1>2. /\ i \in optind + 1 .. Len(argv) /\ argv[i] \in Words
      /\ \A j \in optind + 1 .. i - 1 : argv[j] \notin Words
  BY DEF NextOption
<1>3. c \in Letters
  BY <1>2, StartupAssumption DEF Letter, Words
<1>4. optarg \in Word
  <2>1. argv \in Seq(Word) /\ Len(argv) \in Nat /\ optind \in Nat /\ <<>> \in Word
    BY LenProperties DEF StartType, OptionsType, Word
  <2>2. NeedsArgument(argv[i]) => i + 1 \in 1 .. Len(argv)
    BY <1>1, <1>2, <2>1
  <2> QED
    BY <2>1, <2>2, ElementOfSeq
<1>5. argv' = argv
  BY DEF ParseOption
<1>6. NeedsArgument(argv[i]) => i < Len(argv) /\ optarg = argv[i + 1]
  BY <1>1
<1>7. /\ IF Accepts(c, optarg)
         THEN /\ param' = Assigned(c, optarg)
              /\ match' = IF c = "m" THEN MatchAfter(optarg) ELSE match
              /\ given' = Append(given, <<c, optarg>>) /\ pc' = pc
         ELSE pc' = "exited" /\ param' = param /\ match' = match /\ given' = given
      /\ optind' = IF NeedsArgument(argv[i]) THEN i + 1 ELSE i
  BY <1>1 DEF Exit
<1> HIDE DEF c, optarg
<1>8. OptionRead(i, c, optarg)
  BY <1>2, <1>3, <1>4, <1>5, <1>6, <1>7 DEF OptionRead, c
<1> QED
  BY <1>8

\* What is kept of a word is one.
LEMMA PrefixWord ==
    ASSUME NEW w \in Word, NEW n \in Nat
    PROVE  Prefix(w, n) \in Word
BY PrefixIs DEF Word

\* A change of options does not meet the files, nor the other way round.
LEMMA AssignedType ==
    ASSUME StartType, NEW c \in Letters, NEW optarg \in Word,
           c = "m" => MatchAfter(optarg) \in 0 .. 3
    PROVE  /\ Assigned(c, optarg) \in Params
           /\ \A f \in Loading : Assigned(c, optarg)[f] = param[f]
<1>1. Prefix(optarg, 256) \in Arg
  BY PrefixWord DEF Arg
<1>2. param \in Params
  BY DEF StartType, OptionsType
<1>3. CASE c = "m"
  BY <1>2, <1>3 DEF Assigned, Params, Loading
<1>4. CASE c \in {"h", "r", "l"}
  BY <1>1, <1>2, <1>4 DEF Assigned, Params, Loading, xstrndup
<1>5. CASE c \in {"d", "s", "p"}
  BY <1>2, <1>5 DEF Assigned, Params, Loading
<1> QED
  BY <1>3, <1>4, <1>5 DEF Letters

LEMMA MatchAfterType ==
    ASSUME StartType, NEW optarg
    PROVE  MatchAfter(optarg) \in 0 .. 3
<1>1. match \in 0 .. 3
  BY DEF StartType, OptionsType
<1>2. MatchAfter(optarg) \in {1, 2, 3, match}
  BY DEF MatchAfter
<1> QED
  BY <1>1, <1>2

LEMMA OptionsKept ==
    ASSUME StartType, UNCHANGED argv, UNCHANGED opts, param' = param
    PROVE  OptionsType'
BY DEF StartType, OptionsType, opts

LEMMA InitType ==
    ASSUME NEW commands, WellFormed(commands), Init(commands)
    PROVE  StartType
<1>1. argv \in Seq(Word) /\ Len(argv) \in Nat
  <2>1. argv \in Seq(Word)
    BY DEF WellFormed, Init, Word
  <2> QED
    BY <2>1, LenProperties
<1>2. param \in Params
  BY DEF Init, Params, Arg, File
<1>3. OptionsType
  BY <1>1, <1>2 DEF Init, OptionsType
<1>4. SignalType
  BY DEF Init, SignalType
<1> QED
  BY <1>3, <1>4 DEF StartType

LEMMA ParseOptionType ==
    ASSUME StartType, ParseOption
    PROVE  StartType'
<1>1. PICK i, c, optarg : OptionRead(i, c, optarg)
  BY OptionIs
<1>2. i \in Nat /\ optind' \in 0 .. Len(argv') /\ argv' \in Seq(Word)
  <2>1. /\ argv \in Seq(Word) /\ Len(argv) \in Nat /\ optind \in Nat
        /\ i \in optind + 1 .. Len(argv)
    BY <1>1, LenProperties DEF OptionRead, StartType, OptionsType
  <2>2. CASE NeedsArgument(argv[i])
    BY <1>1, <2>1, <2>2 DEF OptionRead
  <2>3. CASE ~NeedsArgument(argv[i])
    BY <1>1, <2>1, <2>3 DEF OptionRead
  <2> QED
    BY <2>1, <2>2, <2>3
<1>3. given' \in Seq(Letters \X Word) /\ match' \in 0 .. 3 /\ param' \in Params
  <2>1. /\ c \in Letters /\ optarg \in Word /\ given \in Seq(Letters \X Word)
        /\ match \in 0 .. 3 /\ param \in Params
    BY <1>1 DEF OptionRead, StartType, OptionsType
  <2>2. MatchAfter(optarg) \in 0 .. 3 /\ Assigned(c, optarg) \in Params
    BY <2>1, MatchAfterType, AssignedType
  <2>3. Append(given, <<c, optarg>>) \in Seq(Letters \X Word)
    BY <2>1, AppendProperties
  <2> QED
    BY <1>1, <2>1, <2>2, <2>3 DEF OptionRead
<1>4. SignalType'
  BY <1>1 DEF ParseOption, StartType, SignalType, sigs, OptionRead
<1> QED
  BY <1>2, <1>3, <1>4 DEF StartType, OptionsType

LEMMA HandlersType ==
    ASSUME StartType, (\E s \in Signals : SignalArrives(s)) \/ KeyPressed
    PROVE  StartType'
<1>1. OptionsType'
  BY OptionsKept DEF SignalArrives, KeyPressed
<1>2. handlers \in Seq(caught) /\ caught' = caught
  BY DEF StartType, SignalType, SignalArrives, KeyPressed
<1>3. handlers' \in Seq(caught)
  <2>1. CASE KeyPressed
    <3>1. Len(handlers) - 1 \in 0 .. Len(handlers)
      BY <1>2, <2>1, LenProperties, EmptySeq DEF KeyPressed
    <3> QED
      BY <1>2, <2>1, <3>1, Beginning DEF KeyPressed
  <2>2. ASSUME NEW s \in Signals, SignalArrives(s) PROVE handlers' \in Seq(caught)
    <3>1. s \in caught => Append(handlers, s) \in Seq(caught)
      BY <1>2, AppendProperties
    <3> QED
      BY <1>2, <2>2, <3>1 DEF SignalArrives
  <2> QED
    BY <2>1, <2>2
<1>4. SignalType'
  BY <1>2, <1>3 DEF StartType, SignalType, SignalArrives, KeyPressed
<1> QED
  BY <1>1, <1>4 DEF StartType

LEMMA TypeStep ==
    ASSUME StartType, [Next]_vars
    PROVE  StartType'
<1>1. CASE load_signal_alarm
  <2>1. SignalType'
    <3>1. caught' \subseteq Signals /\ caught \subseteq caught'
      BY <1>1 DEF load_signal_alarm, HandledSignals, StartType, SignalType
    <3>2. handlers' \in Seq(caught')
      BY <1>1, <3>1, SeqMonotonic DEF load_signal_alarm, StartType, SignalType
    <3> QED
      BY <1>1, <3>1, <3>2 DEF load_signal_alarm, StartType, SignalType, Exit
  <2> QED
    BY <1>1, <2>1, OptionsKept DEF load_signal_alarm, StartType
<1>2. CASE \/ IgnoreSigpipe \/ OptionsEnd \/ ParseHost \/ ParseRedirect
           \/ MakeBase \/ Listen \/ DispatchEnds \/ UNCHANGED vars
  <2>1. OptionsType'
    BY <1>2, OptionsKept
    DEF IgnoreSigpipe, OptionsEnd, ParseHost, ParseRedirect, MakeBase, Listen,
        DispatchEnds, vars, opts
  <2>2. SignalType'
    BY <1>2
    DEF IgnoreSigpipe, OptionsEnd, ParseHost, ParseRedirect, MakeBase, Listen,
        DispatchEnds, vars, sigs, StartType, SignalType, Exit, Loading, Starting
  <2> QED
    BY <2>1, <2>2 DEF StartType
<1>3. CASE load_all_rules
  <2>1. PICK i \in 1 .. 3 :
            LET f == RuleFiles[i]
            IN  /\ At(f)
                /\ \/ \E lines \in Contents :
                          /\ param' = [param EXCEPT ![f] = lines]
                          /\ pc' = AfterFile(f)
                   \/ Exit /\ UNCHANGED param
                /\ UNCHANGED argv /\ UNCHANGED opts /\ UNCHANGED sigs
    BY <1>3 DEF load_all_rules
  <2>2. PICK f : f = RuleFiles[i]
    OBVIOUS
  <2>3. f \in Loading
    BY <2>2 DEF RuleFiles, Loading
  <2>4. param' \in Params
    BY <2>1, <2>2, <2>3 DEF StartType, OptionsType, Params, Loading, File
  <2>5. OptionsType'
    BY <2>1, <2>4 DEF StartType, OptionsType, opts
  <2>6. AfterFile(f) \in Loading \cup {"host"}
    BY <2>3 DEF Loading, AfterFile
  <2>7. pc' \in Loading \cup {"host", "exited"}
    BY <2>1, <2>2, <2>6 DEF Exit
  <2>8. SignalType'
    BY <2>1, <2>7 DEF StartType, SignalType, sigs, Starting
  <2> QED
    BY <2>5, <2>8 DEF StartType
<1>4. CASE MissingArgument
  <2>1. optind' \in 0 .. Len(argv)
    <3>1. PICK i \in NextOption : optind' = i
      BY <1>4 DEF MissingArgument
    <3>2. i \in optind + 1 .. Len(argv) /\ optind \in Nat
      BY <3>1 DEF NextOption, StartType, OptionsType
    <3> QED
      BY <3>1, <3>2
  <2>2. OptionsType'
    BY <1>4, <2>1 DEF MissingArgument, StartType, OptionsType
  <2>3. SignalType'
    BY <1>4 DEF MissingArgument, StartType, SignalType, sigs, Exit
  <2> QED
    BY <2>2, <2>3 DEF StartType
<1> QED
  BY <1>1, <1>2, <1>3, <1>4, ParseOptionType, HandlersType DEF Next

LEMMA AlwaysTyped ==
    ASSUME NEW commands, WellFormed(commands)
    PROVE  Spec(commands) => []StartType
<1>1. Init(commands) => StartType
  BY InitType
<1>2. StartType /\ [Next]_vars => StartType'
  BY TypeStep
<1> QED
  BY <1>1, <1>2, PTL DEF Spec

-----------------------------------------------------------------------------
(* Signals.                                                                 *)

\* Handlers are set up before anything else, and a handler waits only once.
SignalInv ==
    /\ pc \notin {"signals", "exited", "crashed", "killed"} => Signals \subseteq caught
    /\ \A i, j \in 1 .. Len(handlers) : handlers[i] = handlers[j] => i = j

LEMMA HandlersStep ==
    ASSUME StartType, SignalInv, (\E s \in Signals : SignalArrives(s)) \/ KeyPressed
    PROVE  \A i, j \in 1 .. Len(handlers') : handlers'[i] = handlers'[j] => i = j
<1>1. handlers \in Seq(caught) /\ Len(handlers) \in Nat
  BY LenProperties DEF StartType, SignalType
<1>2. ASSUME NEW s \in Signals, SignalArrives(s)
      PROVE  \A i, j \in 1 .. Len(handlers') : handlers'[i] = handlers'[j] => i = j
  <2>1. CASE handlers' = handlers
    BY <2>1 DEF SignalInv
  <2>2. CASE s \in caught /\ handlers' = Append(handlers, s)
    <3>1. PICK n \in Nat : n = Len(handlers)
      BY <1>1
    <3>2. /\ Len(handlers') = n + 1 /\ handlers'[n + 1] = s
          /\ \A i \in 1 .. n : handlers'[i] = handlers[i]
      BY <1>1, <2>2, <3>1, AppendProperties
    <3>3. \A i \in 1 .. n : handlers[i] # s
      BY <1>1, <1>2, <3>1 DEF SignalArrives, Blocked
    <3>4. \A i \in 1 .. n + 1 : i \in 1 .. n \/ i = n + 1
      OBVIOUS
    <3> QED
      BY <3>1, <3>2, <3>3, <3>4 DEF SignalInv
  <2> QED
    BY <1>2, <2>1, <2>2 DEF SignalArrives
<1>3. ASSUME KeyPressed
      PROVE  \A i, j \in 1 .. Len(handlers') : handlers'[i] = handlers'[j] => i = j
  <2>1. Len(handlers) - 1 \in 0 .. Len(handlers)
    BY <1>1, <1>3, EmptySeq DEF KeyPressed
  <2>2. /\ Len(handlers') = Len(handlers) - 1
        /\ \A i \in 1 .. Len(handlers') : handlers'[i] = handlers[i]
    BY <1>1, <1>3, <2>1, Beginning DEF KeyPressed
  <2>3. \A i \in 1 .. Len(handlers') : i \in 1 .. Len(handlers)
    BY <1>1, <2>2
  <2> QED
    BY <2>2, <2>3 DEF SignalInv
<1> QED
  BY <1>2, <1>3

LEMMA SignalStep ==
    ASSUME StartType, SignalInv, [Next]_vars
    PROVE  /\ SignalInv'
           /\ pc \notin {"signals", "killed"} => pc' # "killed"
<1>1. CASE load_signal_alarm
  BY <1>1 DEF SignalInv, load_signal_alarm, HandledSignals, Exit, StartType, SignalType
<1>2. CASE \/ IgnoreSigpipe \/ OptionsEnd \/ ParseHost \/ ParseRedirect \/ MakeBase
           \/ Listen \/ DispatchEnds \/ ParseOption \/ MissingArgument
  <2>1. caught' = caught /\ handlers' = handlers
    BY <1>2 DEF IgnoreSigpipe, OptionsEnd, ParseHost, ParseRedirect, MakeBase,
                Listen, DispatchEnds, ParseOption, MissingArgument, sigs
  <2>2. pc \in {"sigpipe", "options", "host", "redirect", "base", "listen", "serving"}
    BY <1>2 DEF IgnoreSigpipe, OptionsEnd, ParseHost, ParseRedirect, MakeBase,
                Listen, DispatchEnds, ParseOption, MissingArgument, At
  <2>3. pc' # "killed"
    <3>1. CASE ParseOption
      <4>1. pc' = pc \/ pc' = "exited"
        BY <3>1 DEF ParseOption, Exit
      <4> QED
        BY <2>2, <4>1
    <3>2. CASE MissingArgument
      BY <2>2, <3>2 DEF MissingArgument, Exit
    <3> QED
      BY <1>2, <3>1, <3>2 DEF IgnoreSigpipe, OptionsEnd, ParseHost, ParseRedirect,
                              MakeBase, Listen, DispatchEnds, Exit
  <2> QED
    BY <2>1, <2>2, <2>3 DEF SignalInv
<1>3. CASE load_all_rules
  <2>1. PICK i \in 1 .. 3 : /\ pc = RuleFiles[i] /\ UNCHANGED sigs
                            /\ pc' = AfterFile(RuleFiles[i]) \/ pc' = "exited"
    BY <1>3 DEF load_all_rules, At, Exit
  <2>2. RuleFiles[i] \in Loading
    BY DEF RuleFiles, Loading
  <2>3. AfterFile(RuleFiles[i]) \in Loading \cup {"host"}
    BY <2>2 DEF Loading, AfterFile
  <2> QED
    BY <2>1, <2>2, <2>3 DEF SignalInv, Loading, sigs
<1>4. CASE (\E s \in Signals : SignalArrives(s)) \/ KeyPressed
  <2>1. /\ caught' = caught
        /\ \/ pc' = pc
           \/ pc' = "killed" /\ ~(Signals \subseteq caught) /\ ~Stopped
    BY <1>4 DEF SignalArrives, KeyPressed
  <2>2. \A i, j \in 1 .. Len(handlers') : handlers'[i] = handlers'[j] => i = j
    BY <1>4, HandlersStep
  <2> QED
    BY <2>1, <2>2 DEF SignalInv, Stopped
<1>5. CASE UNCHANGED vars
  BY <1>5 DEF vars, SignalInv
<1> QED
  BY <1>1, <1>2, <1>3, <1>4, <1>5 DEF Next

LEMMA AlwaysHandled ==
    ASSUME NEW commands, WellFormed(commands)
    PROVE  Spec(commands) => []SignalInv
<1>1. Init(commands) => SignalInv
  BY DEF Init, SignalInv
<1>2. StartType /\ SignalInv /\ [Next]_vars => SignalInv'
  BY SignalStep
<1>3. Spec(commands) => []StartType
  BY AlwaysTyped
<1> QED
  BY <1>1, <1>2, <1>3, PTL DEF Spec

\* Once load_signal_alarm is through, no signal of the terminal ends the process,
\* as No_Pause_Waf's message says, wherever main is.
THEOREM SignalsHandled ==
    ASSUME NEW commands, WellFormed(commands)
    PROVE  Spec(commands) => NotTerminated
<1>1. StartType /\ SignalInv /\ [Next]_vars
          => [pc \notin {"signals", "killed"} => pc' # "killed"]_vars
  BY SignalStep
<1>2. Spec(commands) => []StartType
  BY AlwaysTyped
<1>3. Spec(commands) => []SignalInv
  BY AlwaysHandled
<1> QED
  BY <1>1, <1>2, <1>3, PTL DEF Spec, NotTerminated

\* However signals interrupt each other's handlers, at most three wait for a key:
\* No_Pause_Waf gives the loop back after three.
THEOREM KeysResume ==
    ASSUME NEW commands, WellFormed(commands)
    PROVE  Spec(commands) => []ThreeKeysResume
<1>1. StartType /\ SignalInv => ThreeKeysResume
  <2> SUFFICES ASSUME StartType, SignalInv, ~(Len(handlers) <= 3) PROVE FALSE
    BY DEF ThreeKeysResume
  <2>1. handlers \in Seq(caught) /\ Len(handlers) \in Nat
    BY LenProperties DEF StartType, SignalType
  <2>2. /\ 1 \in 1 .. Len(handlers) /\ 2 \in 1 .. Len(handlers)
        /\ 3 \in 1 .. Len(handlers) /\ 4 \in 1 .. Len(handlers)
    BY <2>1
  <2>3. caught \subseteq {"SIGINT", "SIGTSTP", "SIGQUIT"}
    BY StartupAssumption DEF StartType, SignalType
  <2>4. \A i \in 1 .. Len(handlers) : handlers[i] \in {"SIGINT", "SIGTSTP", "SIGQUIT"}
    BY <2>1, <2>3, ElementOfSeq
  <2>5. /\ handlers[1] # handlers[2] /\ handlers[1] # handlers[3]
        /\ handlers[1] # handlers[4] /\ handlers[2] # handlers[3]
        /\ handlers[2] # handlers[4] /\ handlers[3] # handlers[4]
    BY <2>2 DEF SignalInv
  <2> QED
    BY <2>2, <2>4, <2>5
<1>2. Spec(commands) => []StartType
  BY AlwaysTyped
<1>3. Spec(commands) => []SignalInv
  BY AlwaysHandled
<1> QED
  BY <1>1, <1>2, <1>3, PTL

-----------------------------------------------------------------------------
(* Options.                                                                 *)

Asked(c) == {i \in DOMAIN given : given[i][1] = c}

\* What the last option of a letter leaves of its argument.
AddressAsked(c, a) ==
    IF Asked(c) = {} THEN a = Null ELSE a = Prefix(LastOf(c), 256)

LEMMA GivenLast ==
    ASSUME StartType, NEW c \in Letters, NEW optarg \in Word,
           given' = Append(given, <<c, optarg>>)
    PROVE  /\ Asked(c)' # {} /\ LastOf(c)' = optarg
           /\ \A d : d # c => /\ Asked(d)' = Asked(d)
                              /\ Asked(d) # {} => LastOf(d)' = LastOf(d)
<1>1. PICK n \in Nat : n = Len(given)
  BY LenProperties DEF StartType, OptionsType
<1>2. /\ DOMAIN given = 1 .. n /\ DOMAIN given' = 1 .. n + 1
      /\ \A i \in 1 .. n : given'[i] = given[i]
      /\ given'[n + 1] = <<c, optarg>>
  BY <1>1, AppendProperties, LenProperties DEF StartType, OptionsType
<1>3. Asked(c)' # {} /\ LastOf(c)' = optarg
  <2>1. /\ n + 1 \in Asked(c)' /\ Asked(c)' \in SUBSET Int
        /\ \A i \in Asked(c)' : i <= n + 1
    BY <1>2 DEF Asked
  <2>2. Max(Asked(c)') \in Asked(c)' /\ n + 1 <= Max(Asked(c)')
    BY <2>1, MaxOf
  <2>3. Max(Asked(c)') = n + 1
    BY <2>1, <2>2
  <2>4. LastOf(c)' = given'[Max(Asked(c)')][2]
    BY DEF LastOf, Asked
  <2>5. given'[n + 1][2] = optarg
    BY <1>2
  <2> QED
    BY <2>1, <2>3, <2>4, <2>5
<1>4. ASSUME NEW d, d # c
      PROVE  /\ Asked(d)' = Asked(d)
             /\ Asked(d) # {} => LastOf(d)' = LastOf(d)
  <2>1. Asked(d)' = Asked(d)
    <3>1. \A i \in 1 .. n + 1 : i \in 1 .. n \/ i = n + 1
      OBVIOUS
    <3>2. \A i \in 1 .. n : i \in 1 .. n + 1
      OBVIOUS
    <3> QED
      BY <1>2, <1>4, <3>1, <3>2 DEF Asked
  <2>2. ASSUME Asked(d) # {} PROVE LastOf(d)' = LastOf(d)
    <3>1. PICK T : T = Asked(d) /\ T \in SUBSET Int /\ \A i \in T : i <= n
      <4>1. \A i \in Asked(d) : i \in 1 .. n
        BY <1>2 DEF Asked
      <4> QED
        BY <4>1
    <3>2. Max(Asked(d)) \in Asked(d)
      <4>1. n \in Int /\ T # {}
        BY <2>2, <3>1
      <4>2. Max(T) \in T
        BY <3>1, <4>1, MaxOf
      <4> QED
        BY <3>1, <4>2
    <3>3. Max(Asked(d)) \in 1 .. n
      BY <1>2, <3>2 DEF Asked
    <3>4. /\ LastOf(d)' = given'[Max(Asked(d)')][2]
          /\ LastOf(d) = given[Max(Asked(d))][2]
      BY DEF LastOf, Asked
    <3> QED
      BY <1>2, <2>1, <3>3, <3>4
  <2> QED
    BY <2>1, <2>2
<1> QED
  BY <1>3, <1>4

\* What an option changes.
LEMMA AssignedIs ==
    ASSUME StartType, NEW c \in Letters, NEW optarg \in Word
    PROVE  LET q == Assigned(c, optarg)
           IN  /\ q.hostarg = IF c = "h" THEN Prefix(optarg, 256) ELSE param.hostarg
               /\ q.redirectarg =
                      IF c = "r" THEN Prefix(optarg, 256) ELSE param.redirectarg
               /\ q.option_algorithm =
                      IF c = "m" THEN MatchAfter(optarg) ELSE param.option_algorithm
               /\ q.debug = IF c = "d" THEN TRUE ELSE param.debug
               /\ q.libinjection_sqli =
                      IF c = "s" THEN TRUE ELSE param.libinjection_sqli
               /\ q.pcre = IF c = "p" THEN TRUE ELSE param.pcre
<1>1. param \in Params
  BY DEF StartType, OptionsType
<1>2. CASE c = "h"
  BY <1>1, <1>2 DEF Assigned, Params, xstrndup
<1>3. CASE c = "r"
  BY <1>1, <1>3 DEF Assigned, Params, xstrndup
<1>4. CASE c = "l"
  BY <1>1, <1>4 DEF Assigned, Params, xstrndup
<1>5. CASE c = "m"
  BY <1>1, <1>5 DEF Assigned, Params
<1>6. CASE c = "d"
  BY <1>1, <1>6 DEF Assigned, Params
<1>7. CASE c = "s"
  BY <1>1, <1>7 DEF Assigned, Params
<1>8. CASE c = "p"
  BY <1>1, <1>8 DEF Assigned, Params
<1> QED
  BY <1>2, <1>3, <1>4, <1>5, <1>6, <1>7, <1>8 DEF Letters

\* A beginning of a beginning.
LEMMA PrefixTwice ==
    ASSUME NEW a \in Word, NEW m \in Nat, NEW n \in Nat, m <= n
    PROVE  Prefix(Prefix(a, n), m) = Prefix(a, m)
<1>1. PICK l \in Nat : l = Len(a)
  BY LenProperties DEF Word
<1>2. PICK p \in Seq(Char) :
          /\ p = Prefix(a, n) /\ (l < n => Len(p) = l) /\ (n <= l => Len(p) = n)
          /\ \A i \in 1 .. Len(p) : p[i] = a[i]
  <2>1. /\ Prefix(a, n) \in Seq(Char)
        /\ Len(Prefix(a, n)) = IF Len(a) < n THEN Len(a) ELSE n
        /\ \A i \in 1 .. Len(Prefix(a, n)) : Prefix(a, n)[i] = a[i]
    BY PrefixIs DEF Word
  <2>2. /\ l < n => Len(Prefix(a, n)) = l
        /\ n <= l => Len(Prefix(a, n)) = n
    BY <1>1, <2>1
  <2> QED
    BY <2>1, <2>2, Zenon
<1>3. PICK q \in Seq(Char) :
          /\ q = Prefix(a, m) /\ (l < m => Len(q) = l) /\ (m <= l => Len(q) = m)
          /\ \A i \in 1 .. Len(q) : q[i] = a[i]
  <2>1. /\ Prefix(a, m) \in Seq(Char)
        /\ Len(Prefix(a, m)) = IF Len(a) < m THEN Len(a) ELSE m
        /\ \A i \in 1 .. Len(Prefix(a, m)) : Prefix(a, m)[i] = a[i]
    BY PrefixIs DEF Word
  <2>2. /\ l < m => Len(Prefix(a, m)) = l
        /\ m <= l => Len(Prefix(a, m)) = m
    BY <1>1, <2>1
  <2> QED
    BY <2>1, <2>2, Zenon
<1>4. PICK r \in Seq(Char) :
          /\ r = Prefix(p, m) /\ Len(r) = Len(q)
          /\ \A i \in 1 .. Len(r) : r[i] = p[i] /\ i \in 1 .. Len(p)
  <2>1. /\ Prefix(p, m) \in Seq(Char)
        /\ Len(Prefix(p, m)) = IF Len(p) < m THEN Len(p) ELSE m
        /\ \A i \in 1 .. Len(Prefix(p, m)) : Prefix(p, m)[i] = p[i]
    BY PrefixIs
  <2>2. Len(p) \in Nat /\ Len(Prefix(p, m)) <= Len(p)
    BY <2>1, LenProperties
  <2>3. Len(Prefix(p, m)) = Len(q)
    BY <1>1, <1>2, <1>3, <2>1
  <2>4. \A i \in 1 .. Len(Prefix(p, m)) : i \in 1 .. Len(p)
    BY <2>1, <2>2, LenProperties
  <2> QED
    BY <2>1, <2>3, <2>4
<1>5. \A i \in 1 .. Len(r) : r[i] = q[i]
  BY <1>2, <1>3, <1>4
<1>6. r = q
  BY <1>4, <1>5, SeqEqual
<1> QED
  BY <1>2, <1>3, <1>4, <1>6

-----------------------------------------------------------------------------
(* The configuration.                                                       *)

\* The word names an algorithm, as AlgorithmAsAsked says.
NameOf(a) == IF Prefix(a, 3) = Dfa THEN 1
             ELSE IF Prefix(a, 8) = Horspool THEN 2
             ELSE IF Prefix(a, 10) = KarpRabin THEN 3 ELSE 0

Named == {i \in DOMAIN given : given[i][1] = "m" /\ NameOf(given[i][2]) # 0}

AlgorithmInv ==
    /\ param.option_algorithm = match
    /\ match = IF Named = {} THEN 0 ELSE NameOf(given[Max(Named)][2])

AddressInv ==
    /\ AddressAsked("h", param.hostarg)
    /\ AddressAsked("r", param.redirectarg)

\* Every file is read before the next, and the server starts after the last.
FilesInv ==
    /\ pc \in {"match_rules", "block_addr_list"} \cup Starting =>
           Readable(param.regex_rules)
    /\ pc \in {"block_addr_list"} \cup Starting => Readable(param.match_rules)
    /\ pc \in Starting => Readable(param.block_addr_list)

\* Addresses are parsed in turn; a host that is only a number stays unparsed.
ParsedInv ==
    /\ pc \in {"signals", "sigpipe", "options", "host"} \cup Loading =>
           listen_on = Null
    /\ pc \in {"redirect", "base", "listen", "serving"} =>
           listen_on = Null \/ (listen_on = param.hostarg /\ listen_on \in Sockaddrs)
    /\ pc \in {"base", "listen", "serving"} =>
           connect_to = param.redirectarg /\ connect_to \in Sockaddrs
    /\ pc = "serving" => listen_on # Null

\* The word before i takes word i for its argument.
Taken(i) == \/ i > 1 /\ argv[i - 1] \in DOMAIN Short
            \/ i > 1 /\ argv[i - 1] \in DOMAIN Long
                     /\ Long[argv[i - 1]] \in {"h", "r", "m", "l"}

\* The words consumed have had their effect, and the rest none.
FlagsInv ==
    /\ \A c \in {"d", "s", "p"} :
           /\ \A i \in 1 .. optind :
                  argv[i] \in DOMAIN Long /\ Long[argv[i]] = c =>
                      FlagOf(c) \/ Taken(i)
           /\ FlagOf(c) => \E i \in DOMAIN argv :
                               argv[i] \in Words /\ Letter(argv[i]) = c
    /\ pc \in Loading \cup Starting =>
           \A i \in optind + 1 .. Len(argv) : argv[i] \notin Words

ConfigInv == AlgorithmInv /\ AddressInv /\ FilesInv /\ ParsedInv /\ FlagsInv

\* What no step but an option changes.
LEMMA OptionsStay ==
    ASSUME StartType, [Next]_vars, ~ParseOption
    PROVE  /\ argv' = argv /\ match' = match /\ given' = given
           /\ param'.hostarg = param.hostarg
           /\ param'.redirectarg = param.redirectarg
           /\ param'.option_algorithm = param.option_algorithm
           /\ param'.debug = param.debug /\ param'.pcre = param.pcre
           /\ param'.libinjection_sqli = param.libinjection_sqli
           /\ optind' = optind \/ MissingArgument
<1>1. CASE load_all_rules
  <2>1. PICK f \in Loading :
            /\ param' = param \/ \E lines : param' = [param EXCEPT ![f] = lines]
            /\ argv' = argv /\ opts' = opts
    BY <1>1 DEF load_all_rules, RuleFiles, Loading
  <2>2. param \in Params
    BY DEF StartType, OptionsType
  <2> QED
    BY <2>1, <2>2 DEF opts, Params, Loading
<1>2. CASE MissingArgument
  BY <1>2 DEF MissingArgument
<1>3. CASE ~load_all_rules /\ ~MissingArgument
  BY <1>3 DEF Next, vars, opts, load_signal_alarm, IgnoreSigpipe, OptionsEnd,
              ParseHost, ParseRedirect, MakeBase, Listen, DispatchEnds,
              SignalArrives, KeyPressed
<1> QED
  BY <1>1, <1>2, <1>3

\* An algorithm is named by its first characters, and by no others.
LEMMA MatchAfterIs ==
    ASSUME StartType, NEW optarg \in Word
    PROVE  MatchAfter(optarg) =
               IF NameOf(optarg) # 0 THEN NameOf(optarg) ELSE match
<1>1. PICK a \in Word : a = strlcpy(optarg, 11) /\ a = Prefix(optarg, 10)
  <2>1. Prefix(optarg, 10) \in Word
    BY PrefixWord
  <2> QED
    BY <2>1 DEF strlcpy
<1>2. /\ Dfa \in Seq(Char) /\ Horspool \in Seq(Char) /\ KarpRabin \in Seq(Char)
      /\ Len(Dfa) = 3 /\ Len(Horspool) = 8 /\ Len(KarpRabin) = 10
      /\ Dfa # <<>> /\ Horspool # <<>> /\ KarpRabin # <<>>
  <2>1. Dfa \in Seq(Char) /\ Len(Dfa) = 3
    <3>1. {"d", "f", "a"} \subseteq Char
      BY DEF Char
    <3> QED
      BY <3>1 DEF Dfa
  <2>2. Horspool \in Seq(Char) /\ Len(Horspool) = 8
    <3>1. {"h", "o", "r", "s", "p", "l"} \subseteq Char
      BY DEF Char
    <3> QED
      BY <3>1 DEF Horspool
  <2>3. KarpRabin \in Seq(Char) /\ Len(KarpRabin) = 10
    <3>1. {"k", "a", "r", "p", "-", "b", "i", "n"} \subseteq Char
      BY DEF Char
    <3> QED
      BY <3>1 DEF KarpRabin
  <2>4. Dfa # <<>> /\ Horspool # <<>> /\ KarpRabin # <<>>
    BY DEF Dfa, Horspool, KarpRabin
  <2> QED
    BY <2>1, <2>2, <2>3, <2>4
<1>3. /\ strnstr(a, Dfa, Len(Dfa)) # Null <=> Prefix(a, Len(Dfa)) = Dfa
      /\ strnstr(a, Horspool, Len(Horspool)) # Null
             <=> Prefix(a, Len(Horspool)) = Horspool
      /\ strnstr(a, KarpRabin, Len(KarpRabin)) # Null
             <=> Prefix(a, Len(KarpRabin)) = KarpRabin
  <2>1. a \in Seq(Char)
    BY DEF Word
  <2> QED
    BY <1>2, <2>1, FoundAtStart
<1>4. /\ Prefix(a, 3) = Prefix(optarg, 3) /\ Prefix(a, 8) = Prefix(optarg, 8)
      /\ Prefix(a, 10) = Prefix(optarg, 10)
  BY <1>1, PrefixTwice
<1>5. MatchAfter(optarg) = IF Prefix(optarg, 10) = KarpRabin THEN 3
                           ELSE IF Prefix(optarg, 8) = Horspool THEN 2
                           ELSE IF Prefix(optarg, 3) = Dfa THEN 1 ELSE match
  BY <1>1, <1>2, <1>3, <1>4 DEF MatchAfter
<1>6. ASSUME NEW n \in Nat, NEW w \in Word, w # <<>>, Prefix(optarg, n) = w
      PROVE  optarg[1] = w[1]
  <2>1. /\ Prefix(optarg, n) \in Seq(Char)
        /\ \A i \in 1 .. Len(Prefix(optarg, n)) : Prefix(optarg, n)[i] = optarg[i]
    BY PrefixIs DEF Word
  <2>2. Len(w) \in Nat /\ 1 \in 1 .. Len(w)
    BY <1>6, LenProperties, EmptySeq DEF Word
  <2> QED
    BY <1>6, <2>1, <2>2
<1>7. Dfa[1] = "d" /\ Horspool[1] = "h" /\ KarpRabin[1] = "k"
  BY DEF Dfa, Horspool, KarpRabin
<1>8. /\ Prefix(optarg, 3) = Dfa => optarg[1] = "d"
      /\ Prefix(optarg, 8) = Horspool => optarg[1] = "h"
      /\ Prefix(optarg, 10) = KarpRabin => optarg[1] = "k"
  BY <1>2, <1>6, <1>7 DEF Word
<1>9. NameOf(optarg) = IF Prefix(optarg, 3) = Dfa THEN 1
                       ELSE IF Prefix(optarg, 8) = Horspool THEN 2
                       ELSE IF Prefix(optarg, 10) = KarpRabin THEN 3 ELSE 0
  BY DEF NameOf
<1>10. /\ ~(Prefix(optarg, 3) = Dfa /\ Prefix(optarg, 8) = Horspool)
       /\ ~(Prefix(optarg, 3) = Dfa /\ Prefix(optarg, 10) = KarpRabin)
       /\ ~(Prefix(optarg, 8) = Horspool /\ Prefix(optarg, 10) = KarpRabin)
  BY <1>8
<1>11. CASE Prefix(optarg, 3) = Dfa
  BY <1>5, <1>9, <1>10, <1>11
<1>12. CASE Prefix(optarg, 3) # Dfa /\ Prefix(optarg, 8) = Horspool
  BY <1>5, <1>9, <1>10, <1>12
<1>13. CASE Prefix(optarg, 3) # Dfa /\ Prefix(optarg, 8) # Horspool
  BY <1>5, <1>9, <1>13
<1> QED
  BY <1>11, <1>12, <1>13

LEMMA InitConfig ==
    ASSUME NEW commands, WellFormed(commands), Init(commands)
    PROVE  ConfigInv
<1>1. DOMAIN given = {} /\ Len(given) = 0
  BY DEF Init
<1>2. AlgorithmInv /\ AddressInv
  BY <1>1 DEF Init, AlgorithmInv, Named, AddressInv, AddressAsked, Asked
<1>3. FilesInv /\ ParsedInv
  BY DEF Init, FilesInv, ParsedInv, Starting, Loading
<1>4. FlagsInv
  BY DEF Init, FlagsInv, FlagOf, Starting, Loading
<1> QED
  BY <1>2, <1>3, <1>4 DEF ConfigInv

LEMMA AddressStep ==
    ASSUME StartType, ConfigInv, [Next]_vars
    PROVE  AddressInv'
<1>1. CASE ParseOption
  <2>1. PICK i, c, optarg : OptionRead(i, c, optarg)
    BY <1>1, OptionIs
  <2>2. CASE Accepts(c, optarg)
    <3>1. /\ c \in Letters /\ optarg \in Word /\ param' = Assigned(c, optarg)
          /\ given' = Append(given, <<c, optarg>>)
      BY <2>1, <2>2 DEF OptionRead
    <3>2. /\ param'.hostarg = IF c = "h" THEN Prefix(optarg, 256) ELSE param.hostarg
          /\ param'.redirectarg =
                 IF c = "r" THEN Prefix(optarg, 256) ELSE param.redirectarg
      BY <3>1, AssignedIs
    <3>3. /\ Asked(c)' # {} /\ LastOf(c)' = optarg
          /\ \A d : d # c => /\ Asked(d)' = Asked(d)
                             /\ Asked(d) # {} => LastOf(d)' = LastOf(d)
      BY <3>1, GivenLast
    <3>4. /\ AddressAsked("h", param.hostarg)
          /\ AddressAsked("r", param.redirectarg)
      BY DEF ConfigInv, AddressInv
    <3>5. ASSUME NEW d, d = c PROVE Asked(d)' # {} /\ LastOf(d)' = optarg
      BY <3>3, <3>5
    <3>6. IF Asked("h")' = {} THEN param'.hostarg = Null
          ELSE param'.hostarg = Prefix(LastOf("h")', 256)
      BY <3>2, <3>3, <3>4, <3>5 DEF AddressAsked
    <3>7. IF Asked("r")' = {} THEN param'.redirectarg = Null
          ELSE param'.redirectarg = Prefix(LastOf("r")', 256)
      BY <3>2, <3>3, <3>4, <3>5 DEF AddressAsked
    <3> QED
      BY <3>6, <3>7 DEF AddressInv, AddressAsked
  <2>3. CASE ~Accepts(c, optarg)
    BY <2>1, <2>3 DEF OptionRead, ConfigInv, AddressInv, AddressAsked, Asked, LastOf
  <2> QED
    BY <2>2, <2>3
<1>2. CASE ~ParseOption
  <2>1. /\ given' = given /\ param'.hostarg = param.hostarg
        /\ param'.redirectarg = param.redirectarg
    BY <1>2, OptionsStay
  <2>2. \A d : Asked(d)' = Asked(d) /\ LastOf(d)' = LastOf(d)
    BY <2>1 DEF Asked, LastOf
  <2> QED
    BY <2>1, <2>2 DEF ConfigInv, AddressInv, AddressAsked
<1> QED
  BY <1>1, <1>2

\* Another option more, the last that names an algorithm is it or the one before.
LEMMA NamedLast ==
    ASSUME StartType, NEW c \in Letters, NEW optarg \in Word,
           given' = Append(given, <<c, optarg>>)
    PROVE  /\ c = "m" /\ NameOf(optarg) # 0 =>
                  Named' # {} /\ given'[Max(Named')][2] = optarg
           /\ ~(c = "m" /\ NameOf(optarg) # 0) =>
                  /\ Named' = Named
                  /\ Named # {} => given'[Max(Named)] = given[Max(Named)]
<1>1. PICK n \in Nat : n = Len(given)
  BY LenProperties DEF StartType, OptionsType
<1>2. /\ DOMAIN given = 1 .. n /\ DOMAIN given' = 1 .. n + 1
      /\ \A i \in 1 .. n : given'[i] = given[i]
      /\ given'[n + 1] = <<c, optarg>>
  BY <1>1, AppendProperties, LenProperties DEF StartType, OptionsType
<1>3. Named' = {i \in 1 .. n + 1 : given'[i][1] = "m" /\ NameOf(given'[i][2]) # 0}
  BY <1>2 DEF Named, NameOf
<1>4. ASSUME c = "m", NameOf(optarg) # 0
      PROVE  Named' # {} /\ given'[Max(Named')][2] = optarg
  <2>1. n + 1 \in Named' /\ Named' \in SUBSET Int /\ \A i \in Named' : i <= n + 1
    BY <1>2, <1>3, <1>4
  <2>2. Max(Named') \in Named' /\ n + 1 <= Max(Named')
    BY <2>1, MaxOf
  <2>3. Max(Named') = n + 1
    <3>1. Max(Named') \in Int /\ Max(Named') <= n + 1
      BY <2>1, <2>2
    <3> QED
      BY <2>2, <3>1
  <2> QED
    BY <1>2, <2>1, <2>3
<1>5. ASSUME ~(c = "m" /\ NameOf(optarg) # 0)
      PROVE  /\ Named' = Named
             /\ Named # {} => given'[Max(Named)] = given[Max(Named)]
  <2>1. \A i \in 1 .. n + 1 : i \in 1 .. n \/ i = n + 1
    OBVIOUS
  <2>2. \A i \in 1 .. n : i \in 1 .. n + 1
    OBVIOUS
  <2>3. Named' = Named
    BY <1>2, <1>3, <1>5, <2>1, <2>2 DEF Named
  <2>4. ASSUME Named # {} PROVE given'[Max(Named)] = given[Max(Named)]
    <3>1. PICK T : T = Named /\ T \in SUBSET Int /\ \A i \in T : i <= n
      <4>1. \A i \in Named : i \in 1 .. n
        BY <1>2 DEF Named
      <4> QED
        BY <4>1
    <3>2. Max(Named) \in Named
      <4>1. n \in Int /\ T # {}
        BY <2>4, <3>1
      <4>2. Max(T) \in T
        BY <3>1, <4>1, MaxOf
      <4> QED
        BY <3>1, <4>2
    <3>3. Max(Named) \in 1 .. n
      BY <1>2, <3>2 DEF Named
    <3> QED
      BY <1>2, <3>3
  <2> QED
    BY <2>3, <2>4
<1> QED
  BY <1>4, <1>5

LEMMA AlgorithmStep ==
    ASSUME StartType, ConfigInv, [Next]_vars
    PROVE  AlgorithmInv'
<1>0. AlgorithmInv
  BY DEF ConfigInv
<1>1. CASE ParseOption
  <2>1. PICK i, c, optarg : OptionRead(i, c, optarg)
    BY <1>1, OptionIs
  <2>2. CASE Accepts(c, optarg)
    <3>1. /\ c \in Letters /\ optarg \in Word /\ param' = Assigned(c, optarg)
          /\ given' = Append(given, <<c, optarg>>)
          /\ match' = IF c = "m" THEN MatchAfter(optarg) ELSE match
      BY <2>1, <2>2 DEF OptionRead
    <3>2. param'.option_algorithm =
              IF c = "m" THEN MatchAfter(optarg) ELSE param.option_algorithm
      BY <3>1, AssignedIs
    <3>3. MatchAfter(optarg) =
              IF NameOf(optarg) # 0 THEN NameOf(optarg) ELSE match
      BY <3>1, MatchAfterIs
    <3>4. param'.option_algorithm = match'
      BY <1>0, <3>1, <3>2 DEF AlgorithmInv
    <3>5. CASE c = "m" /\ NameOf(optarg) # 0
      <4>1. Named' # {} /\ given'[Max(Named')][2] = optarg
        BY <3>1, <3>5, NamedLast
      <4>2. match' = NameOf(given'[Max(Named')][2])
        BY <3>1, <3>3, <3>5, <4>1
      <4> QED
        BY <3>4, <4>1, <4>2 DEF AlgorithmInv, NameOf
    <3>6. CASE ~(c = "m" /\ NameOf(optarg) # 0)
      <4>1. /\ Named' = Named
            /\ Named # {} => given'[Max(Named)] = given[Max(Named)]
        BY <3>1, <3>6, NamedLast
      <4>2. match' = match
        BY <3>1, <3>3, <3>6
      <4>3. match' = IF Named' = {} THEN 0 ELSE NameOf(given'[Max(Named')][2])
        BY <1>0, <4>1, <4>2 DEF AlgorithmInv
      <4> QED
        BY <3>4, <4>3 DEF AlgorithmInv, NameOf
    <3> QED
      BY <3>5, <3>6
  <2>3. CASE ~Accepts(c, optarg)
    BY <1>0, <2>1, <2>3 DEF OptionRead, AlgorithmInv, Named, NameOf
  <2> QED
    BY <2>2, <2>3
<1>2. CASE ~ParseOption
  BY <1>0, <1>2, OptionsStay DEF AlgorithmInv, Named, NameOf
<1> QED
  BY <1>1, <1>2

\* What a step of each kind does to the place, the files and the addresses.
LEMMA FilesStep ==
    ASSUME StartType, ConfigInv, [Next]_vars
    PROVE  FilesInv'
<1>0. FilesInv /\ param \in Params
  BY DEF ConfigInv, StartType, OptionsType
<1>1. CASE load_all_rules
  <2>1. PICK f \in Loading :
            /\ pc = f
            /\ \/ \E lines \in Contents :
                      /\ Readable(lines)
                      /\ param' = [param EXCEPT ![f] = lines]
                      /\ pc' = AfterFile(f)
               \/ pc' = "exited"
    BY <1>1 DEF load_all_rules, At, Exit, RuleFiles, Loading
  <2>2. CASE pc' = "exited"
    BY <2>2 DEF FilesInv, Starting
  <2>3. ASSUME NEW lines \in Contents, Readable(lines),
               param' = [param EXCEPT ![f] = lines], pc' = AfterFile(f)
        PROVE  FilesInv'
    <3>1. CASE f = "regex_rules"
      BY <1>0, <2>1, <2>3, <3>1 DEF FilesInv, AfterFile, Starting, Params
    <3>2. CASE f = "match_rules"
      BY <1>0, <2>1, <2>3, <3>2 DEF FilesInv, AfterFile, Starting, Params
    <3>3. CASE f = "block_addr_list"
      BY <1>0, <2>1, <2>3, <3>3 DEF FilesInv, AfterFile, Starting, Params
    <3> QED
      BY <3>1, <3>2, <3>3 DEF Loading
  <2> QED
    BY <2>1, <2>2, <2>3
<1>2. CASE ParseOption
  <2>1. pc' \in {"options", "exited"}
    BY <1>2 DEF ParseOption, At, Exit
  <2> QED
    BY <2>1 DEF FilesInv, Starting
<1>3. CASE MissingArgument
  <2>1. pc' \in {"options", "exited"}
    BY <1>3 DEF MissingArgument, At, Exit
  <2> QED
    BY <2>1 DEF FilesInv, Starting
<1>4. CASE load_signal_alarm \/ IgnoreSigpipe \/ OptionsEnd
  <2>1. pc' \in {"signals", "sigpipe", "options", "regex_rules", "exited"}
    BY <1>4 DEF load_signal_alarm, IgnoreSigpipe, OptionsEnd, At, Exit
  <2> QED
    BY <2>1 DEF FilesInv, Starting
<1>5. CASE \/ ParseHost \/ ParseRedirect \/ MakeBase \/ Listen \/ DispatchEnds
  <2>1. /\ pc \in Starting /\ param' = param
        /\ pc' \in Starting \cup {"exited", "crashed"}
    BY <1>5 DEF ParseHost, ParseRedirect, MakeBase, Listen, DispatchEnds, At, Exit,
                Starting
  <2> QED
    BY <1>0, <2>1 DEF FilesInv, Starting
<1>6. CASE (\E s \in Signals : SignalArrives(s)) \/ KeyPressed \/ UNCHANGED vars
  <2>1. param' = param /\ (pc' = pc \/ pc' = "killed")
    BY <1>6 DEF SignalArrives, KeyPressed, vars
  <2> QED
    BY <1>0, <2>1 DEF FilesInv, Starting
<1> QED
  BY <1>1, <1>2, <1>3, <1>4, <1>5, <1>6 DEF Next

LEMMA ParsedStep ==
    ASSUME StartType, ConfigInv, [Next]_vars
    PROVE  ParsedInv'
<1>0. ParsedInv
  BY DEF ConfigInv
<1>1. CASE \/ load_signal_alarm \/ IgnoreSigpipe \/ OptionsEnd \/ ParseOption
           \/ MissingArgument
  <2>1. /\ listen_on' = listen_on /\ pc \in {"signals", "sigpipe", "options"}
        /\ pc' \in {"signals", "sigpipe", "options", "regex_rules", "exited"}
    BY <1>1 DEF load_signal_alarm, IgnoreSigpipe, OptionsEnd, ParseOption,
                MissingArgument, At, Exit, addr
  <2> QED
    BY <1>0, <2>1 DEF ParsedInv, Loading
<1>2. CASE load_all_rules
  <2>1. /\ listen_on' = listen_on /\ pc \in Loading
        /\ pc' \in Loading \cup {"host", "exited"}
    <3>1. PICK f \in Loading :
              pc = f /\ UNCHANGED addr /\ (pc' = AfterFile(f) \/ pc' = "exited")
      BY <1>2 DEF load_all_rules, At, Exit, RuleFiles, Loading
    <3> QED
      BY <3>1 DEF Loading, AfterFile, addr
  <2> QED
    BY <1>0, <2>1 DEF ParsedInv, Loading
<1>3. CASE ParseHost
  <2>1. /\ pc = "host" /\ param' = param
        /\ \/ listen_on' = listen_on /\ pc' \in {"crashed", "redirect", "exited"}
           \/ /\ listen_on' = param.hostarg /\ param.hostarg \in Sockaddrs
              /\ pc' = "redirect"
    BY <1>3 DEF ParseHost, At, Exit
  <2> QED
    BY <1>0, <2>1 DEF ParsedInv, Loading
<1>4. CASE ParseRedirect
  BY <1>0, <1>4 DEF ParseRedirect, RedirectOk, At, Exit, ParsedInv, Loading
<1>5. CASE MakeBase \/ Listen \/ DispatchEnds
  BY <1>0, <1>5 DEF MakeBase, Listen, DispatchEnds, At, Exit, addr, ParsedInv, Loading
<1>6. CASE (\E s \in Signals : SignalArrives(s)) \/ KeyPressed \/ UNCHANGED vars
  <2>1. /\ param' = param /\ listen_on' = listen_on /\ connect_to' = connect_to
        /\ pc' = pc \/ pc' = "killed"
    BY <1>6 DEF SignalArrives, KeyPressed, vars, addr
  <2> QED
    BY <1>0, <2>1 DEF ParsedInv, Loading
<1> QED
  BY <1>1, <1>2, <1>3, <1>4, <1>5, <1>6 DEF Next

\* Every letter but those of the flags may be refused, a flag never is.
LEMMA FlagIs ==
    ASSUME StartType, NEW i, NEW c, NEW optarg, OptionRead(i, c, optarg),
           NEW f \in {"d", "s", "p"}
    PROVE  FlagOf(f)' = IF c = f THEN TRUE ELSE FlagOf(f)
<1>1. c \in Letters /\ optarg \in Word
  BY DEF OptionRead
<1>2. CASE Accepts(c, optarg)
  <2>1. param' = Assigned(c, optarg)
    BY <1>2 DEF OptionRead
  <2>2. /\ param'.debug = IF c = "d" THEN TRUE ELSE param.debug
        /\ param'.libinjection_sqli = IF c = "s" THEN TRUE ELSE param.libinjection_sqli
        /\ param'.pcre = IF c = "p" THEN TRUE ELSE param.pcre
    BY <1>1, <2>1, AssignedIs
  <2> QED
    BY <2>2 DEF FlagOf
<1>3. CASE ~Accepts(c, optarg)
  <2>1. c \notin {"d", "s", "p"}
    BY <1>3 DEF Accepts
  <2>2. param' = param
    BY <1>3 DEF OptionRead
  <2> QED
    BY <2>1, <2>2 DEF FlagOf
<1> QED
  BY <1>2, <1>3

\* What is consumed is an option, its argument, or no option; a flag that is on
\* stays on, and only an option turns it on.
LEMMA ConsumedIs ==
    ASSUME StartType, ParseOption \/ MissingArgument
    PROVE  \E i \in optind + 1 .. Len(argv) :
               /\ argv[i] \in Words
               /\ \A j \in 1 .. optind' :
                      \/ j \in 1 .. optind \/ argv[j] \notin Words \/ j = i
                      \/ NeedsArgument(argv[i]) /\ j = i + 1
               /\ \A f \in {"d", "s", "p"} :
                      /\ FlagOf(f) => FlagOf(f)'
                      /\ FlagOf(f)' => FlagOf(f) \/ Letter(argv[i]) = f
                      /\ Letter(argv[i]) = f => FlagOf(f)' \/ NeedsArgument(argv[i])
<1>1. PICK i \in optind + 1 .. Len(argv) :
          /\ argv[i] \in Words
          /\ \A j \in optind + 1 .. i - 1 : argv[j] \notin Words
          /\ optind' = i \/ (NeedsArgument(argv[i]) /\ optind' = i + 1)
          /\ \A f \in {"d", "s", "p"} :
                 /\ FlagOf(f) => FlagOf(f)'
                 /\ FlagOf(f)' => FlagOf(f) \/ Letter(argv[i]) = f
                 /\ Letter(argv[i]) = f => FlagOf(f)' \/ NeedsArgument(argv[i])
  <2>1. CASE ParseOption
    <3>1. PICK i, c, optarg : OptionRead(i, c, optarg)
      BY <2>1, OptionIs
    <3>2. \A f \in {"d", "s", "p"} :
              FlagOf(f)' = IF Letter(argv[i]) = f THEN TRUE ELSE FlagOf(f)
      BY <3>1, FlagIs DEF OptionRead
    <3>3. /\ i \in optind + 1 .. Len(argv) /\ argv[i] \in Words
          /\ \A j \in optind + 1 .. i - 1 : argv[j] \notin Words
          /\ optind' = IF NeedsArgument(argv[i]) THEN i + 1 ELSE i
      BY <3>1, Zenon DEF OptionRead
    <3>4. optind' = i \/ (NeedsArgument(argv[i]) /\ optind' = i + 1)
      BY <3>3
    <3> QED
      BY <3>2, <3>3, <3>4
  <2>2. CASE MissingArgument
    <3>1. PICK i \in NextOption : NeedsArgument(argv[i]) /\ optind' = i
      BY <2>2 DEF MissingArgument
    <3>2. \A f \in {"d", "s", "p"} : FlagOf(f)' = FlagOf(f)
      BY <2>2 DEF MissingArgument, FlagOf
    <3>3. /\ i \in optind + 1 .. Len(argv) /\ argv[i] \in Words
          /\ \A j \in optind + 1 .. i - 1 : argv[j] \notin Words
      BY DEF NextOption
    <3> QED
      BY <3>1, <3>2, <3>3
  <2> QED
    BY <2>1, <2>2
<1>2. Len(argv) \in Nat /\ optind \in Nat /\ i \in Nat
  BY <1>1, LenProperties DEF StartType, OptionsType
<1>3. ASSUME NEW j \in 1 .. optind'
      PROVE  \/ j \in 1 .. optind \/ argv[j] \notin Words \/ j = i
             \/ NeedsArgument(argv[i]) /\ j = i + 1
  <2>1. j \in 1 .. i \/ (NeedsArgument(argv[i]) /\ j = i + 1)
    <3>1. CASE optind' = i
      BY <3>1
    <3>2. CASE NeedsArgument(argv[i]) /\ optind' = i + 1
      BY <1>2, <3>2
    <3> QED
      BY <1>1, <3>1, <3>2
  <2>2. j \in 1 .. i => j \in 1 .. optind \/ j \in optind + 1 .. i - 1 \/ j = i
    BY <1>2
  <2> QED
    BY <1>1, <2>1, <2>2
<1> QED
  BY <1>1, <1>3

\* A word of two dashes with a flag takes no argument and has one letter.
LEMMA FlagWord ==
    ASSUME NEW w \in DOMAIN Long, Long[w] \in {"d", "s", "p"}
    PROVE  ~NeedsArgument(w) /\ Letter(w) = Long[w] /\ w \in Words
BY StartupAssumption DEF NeedsArgument, Letter, Words

\* The words after the options are none.
LEMMA NoneLeftOver ==
    ASSUME StartType, NextOption = {}
    PROVE  \A i \in optind + 1 .. Len(argv) : argv[i] \notin Words
<1>1. PICK n \in Nat, o \in Nat : n = Len(argv) /\ o = optind
  BY LenProperties DEF StartType, OptionsType
<1>2. SUFFICES ASSUME NEW i \in o + 1 .. n, argv[i] \in Words PROVE FALSE
  BY <1>1
<1> DEFINE T == {j \in o + 1 .. n : argv[j] \in Words}
<1>3. T \in SUBSET Nat /\ T # {}
  BY <1>2
<1>4. PICK l \in T : \A t \in T : l <= t
  BY <1>3, LeastNatural
<1>5. \A j \in o + 1 .. l - 1 : argv[j] \notin Words
  <2>1. \A j \in o + 1 .. l - 1 : j \in o + 1 .. n /\ ~(l <= j)
    BY <1>4
  <2> QED
    BY <1>4, <2>1
<1>6. l \in NextOption
  BY <1>1, <1>4, <1>5 DEF NextOption
<1> QED
  BY <1>6

LEMMA FlagsStep ==
    ASSUME StartType, ConfigInv, [Next]_vars
    PROVE  FlagsInv'
<1>0. /\ \A c \in {"d", "s", "p"} :
             /\ \A i \in 1 .. optind :
                    argv[i] \in DOMAIN Long /\ Long[argv[i]] = c =>
                        FlagOf(c) \/ Taken(i)
             /\ FlagOf(c) => \E i \in DOMAIN argv :
                                 argv[i] \in Words /\ Letter(argv[i]) = c
      /\ pc \in Loading \cup Starting =>
             \A i \in optind + 1 .. Len(argv) : argv[i] \notin Words
  BY DEF ConfigInv, FlagsInv
<1>1. PICK n \in Nat : n = Len(argv) /\ DOMAIN argv = 1 .. n /\ optind \in 0 .. n
  BY LenProperties DEF StartType, OptionsType
<1>2. ASSUME NEW i \in Nat, i > 0, argv[i] \in Words, NeedsArgument(argv[i])
      PROVE  Taken(i + 1)
  <2>1. i + 1 - 1 = i /\ i + 1 > 1
    BY <1>2
  <2> QED
    BY <1>2, <2>1 DEF Taken, NeedsArgument, Words
<1>3. argv' = argv /\ \A i : Taken(i)' = Taken(i)
  <2>1. argv' = argv
    BY OptionsStay, OptionIs DEF OptionRead
  <2> QED
    BY <2>1 DEF Taken
<1>4. CASE ParseOption \/ MissingArgument
  <2>1. PICK i \in optind + 1 .. n :
            /\ argv[i] \in Words
            /\ \A j \in 1 .. optind' :
                   \/ j \in 1 .. optind \/ argv[j] \notin Words \/ j = i
                   \/ NeedsArgument(argv[i]) /\ j = i + 1
            /\ \A f \in {"d", "s", "p"} :
                   /\ FlagOf(f) => FlagOf(f)'
                   /\ FlagOf(f)' => FlagOf(f) \/ Letter(argv[i]) = f
                   /\ Letter(argv[i]) = f => FlagOf(f)' \/ NeedsArgument(argv[i])
    BY <1>1, <1>4, ConsumedIs
  <2>2. i \in Nat /\ i > 0 /\ i \in DOMAIN argv
    BY <1>1
  <2>3. ASSUME NEW c \in {"d", "s", "p"}, NEW j \in 1 .. optind',
               argv[j] \in DOMAIN Long, Long[argv[j]] = c
        PROVE  FlagOf(c)' \/ Taken(j)
    <3>1. CASE j \in 1 .. optind
      BY <1>0, <2>1, <2>3, <3>1
    <3>2. CASE j = i
      BY <2>1, <2>3, <3>2, FlagWord
    <3>3. CASE NeedsArgument(argv[i]) /\ j = i + 1
      BY <1>2, <2>1, <2>2, <3>3
    <3>4. argv[j] \in Words
      BY <2>3 DEF Words
    <3> QED
      BY <2>1, <3>1, <3>2, <3>3, <3>4
  <2>4. ASSUME NEW c \in {"d", "s", "p"}, FlagOf(c)'
        PROVE  \E j \in DOMAIN argv : argv[j] \in Words /\ Letter(argv[j]) = c
    BY <1>0, <2>1, <2>2, <2>4
  <2>5. pc' \in {"options", "exited"}
    BY <1>4 DEF ParseOption, MissingArgument, At, Exit
  <2>6. pc' \notin Loading \cup Starting
    BY <2>5 DEF Loading, Starting
  <2> QED
    BY <1>3, <2>3, <2>4, <2>6 DEF FlagsInv
<1>5. CASE ~ParseOption /\ ~MissingArgument
  <2>1. optind' = optind /\ \A c \in {"d", "s", "p"} : FlagOf(c)' = FlagOf(c)
    BY <1>5, OptionsStay DEF FlagOf
  <2>2. ASSUME pc' \in Loading \cup Starting
        PROVE  \A i \in optind + 1 .. Len(argv) : argv[i] \notin Words
    <3>1. CASE OptionsEnd
      BY <3>1, NoneLeftOver DEF OptionsEnd
    <3>2. CASE ~OptionsEnd
      <4>1. pc \in Loading \cup Starting
        BY <1>5, <2>2, <3>2
        DEF Next, vars, load_signal_alarm, IgnoreSigpipe, load_all_rules, RuleFiles,
            ParseHost, ParseRedirect, MakeBase, Listen, DispatchEnds, SignalArrives,
            KeyPressed, At, Exit, Loading, Starting
      <4> QED
        BY <1>0, <4>1
    <3> QED
      BY <3>1, <3>2
  <2> QED
    BY <1>0, <1>3, <2>1, <2>2 DEF FlagsInv
<1> QED
  BY <1>4, <1>5

LEMMA AlwaysConfigured ==
    ASSUME NEW commands, WellFormed(commands)
    PROVE  Spec(commands) => []ConfigInv
<1>1. Init(commands) => ConfigInv
  BY InitConfig
<1>2. StartType /\ ConfigInv /\ [Next]_vars => ConfigInv'
  BY AlgorithmStep, AddressStep, FilesStep, ParsedStep, FlagsStep DEF ConfigInv
<1>3. Spec(commands) => []StartType
  BY AlwaysTyped
<1> QED
  BY <1>1, <1>2, <1>3, PTL DEF Spec

\* Of every command line, the server is reached with all three texts read and both
\* of the addresses last asked for parsed: parser_opts, load_all_rules and
\* start_octopus_server end the process wherever one of them is missing.
THEOREM ServedAsAsked ==
    ASSUME NEW commands, WellFormed(commands)
    PROVE  Spec(commands) => []ServesComplete
<1>1. StartType /\ ConfigInv => ServesComplete
  <2> SUFFICES ASSUME StartType, ConfigInv, pc = "serving" PROVE ServesComplete
    BY DEF ServesComplete
  <2>1. /\ Readable(param.regex_rules) /\ Readable(param.match_rules)
        /\ Readable(param.block_addr_list)
    BY DEF ConfigInv, FilesInv, Starting
  <2>2. \A i \in 1 .. 3 : param[RuleFiles[i]] \notin {Null, <<>>}
    BY <2>1 DEF RuleFiles, Readable
  <2>3. /\ listen_on = param.hostarg /\ connect_to = param.redirectarg
        /\ {listen_on, connect_to} \subseteq Sockaddrs
    BY DEF ConfigInv, ParsedInv
  <2>4. Null \notin Sockaddrs
    BY StartupAssumption
  <2>5. /\ Asked("h") # {} /\ listen_on = Prefix(LastOf("h"), 256)
        /\ Asked("r") # {} /\ connect_to = Prefix(LastOf("r"), 256)
    BY <2>3, <2>4 DEF ConfigInv, AddressInv, AddressAsked
  <2>6. \A c \in {"h", "r"} : \E i \in DOMAIN given : given[i][1] = c
    BY <2>5 DEF Asked
  <2> QED
    BY <2>2, <2>3, <2>5, <2>6 DEF ServesComplete
<1>2. Spec(commands) => []StartType
  BY AlwaysTyped
<1>3. Spec(commands) => []ConfigInv
  BY AlwaysConfigured
<1> QED
  BY <1>1, <1>2, <1>3, PTL

\* Whatever -m is given, and however often, the algorithm that filter_check runs is
\* the one the last name spelt in full asks for, else none.
THEOREM AlgorithmAsNamed ==
    ASSUME NEW commands, WellFormed(commands)
    PROVE  Spec(commands) => []AlgorithmAsAsked
<1>1. ConfigInv => AlgorithmAsAsked
  <2> SUFFICES ASSUME ConfigInv PROVE AlgorithmAsAsked
    OBVIOUS
  <2>1. param.option_algorithm =
            IF Named = {} THEN 0 ELSE NameOf(given[Max(Named)][2])
    BY DEF ConfigInv, AlgorithmInv
  <2> QED
    BY <2>1 DEF AlgorithmAsAsked, Named, NameOf
<1>2. Spec(commands) => []ConfigInv
  BY AlwaysConfigured
<1> QED
  BY <1>1, <1>2, PTL

\* No flag in its long form is lost between the words of a command line, and none
\* is invented, wherever getopt_long meets it.
THEOREM FlagsAsWritten ==
    ASSUME NEW commands, WellFormed(commands)
    PROVE  Spec(commands) => []FlagsAsAsked
<1>1. StartType /\ ConfigInv => FlagsAsAsked
  <2> SUFFICES ASSUME StartType, ConfigInv, pc = "serving", NEW c \in {"d", "s", "p"}
               PROVE  /\ \A i \in DOMAIN argv :
                             argv[i] \in DOMAIN Long /\ Long[argv[i]] = c =>
                                 FlagOf(c) \/ Taken(i)
                      /\ FlagOf(c) => \E i \in DOMAIN argv :
                                          argv[i] \in Words /\ Letter(argv[i]) = c
    BY DEF FlagsAsAsked, Taken
  <2>1. PICK n \in Nat : n = Len(argv) /\ DOMAIN argv = 1 .. n /\ optind \in 0 .. n
    BY LenProperties DEF StartType, OptionsType
  <2>2. \A i \in DOMAIN argv : i \in 1 .. optind \/ i \in optind + 1 .. n
    BY <2>1
  <2>3. \A i \in optind + 1 .. n : argv[i] \notin DOMAIN Long
    BY <2>1 DEF ConfigInv, FlagsInv, Starting, Words
  <2> QED
    BY <2>2, <2>3 DEF ConfigInv, FlagsInv
<1>2. Spec(commands) => []StartType
  BY AlwaysTyped
<1>3. Spec(commands) => []ConfigInv
  BY AlwaysConfigured
<1> QED
  BY <1>1, <1>2, <1>3, PTL

\* strnstr finds the first place where one word of the command line lies within
\* the first slen characters of another, and none that sticks out.
THEOREM StrnstrIsFirst ==
    ASSUME NEW commands, WellFormed(commands)
    PROVE  Spec(commands) => []StrnstrFindsFirst
<1>1. StartType => StrnstrFindsFirst
  <2> SUFFICES ASSUME StartType,
                      NEW i \in DOMAIN argv, NEW j \in DOMAIN argv,
                      NEW slen \in 0 .. Len(argv[i]) + 1
               PROVE  LET s    == argv[i]
                          find == argv[j]
                          at   == {k \in 0 .. Len(s) :
                                       /\ k + Len(find) <= Min({slen, Len(s)})
                                       /\ SubSeq(s, k + 1, k + Len(find)) = find}
                      IN  strnstr(s, find, slen) = IF at = {} THEN Null ELSE Min(at)
    BY DEF StrnstrFindsFirst
  <2>1. PICK s \in Seq(Char), find \in Seq(Char) : s = argv[i] /\ find = argv[j]
    <3>1. argv[i] \in Seq(Char) /\ argv[j] \in Seq(Char)
      BY ElementOfSeq, LenProperties DEF StartType, OptionsType, Word
    <3> QED
      BY <3>1
  <2>2. slen \in Nat
    BY <2>1, LenProperties
  <2>3. CASE find # <<>>
    <3>1. strnstr(s, find, slen) = Leftmost(s, find, slen, 0)
      BY <2>2, <2>3, StrnstrIs
    <3> QED
      BY <2>1, <3>1 DEF Leftmost, Places, IsAt
  <2>4. CASE find = <<>>
    <3>1. strnstr(s, find, slen) = 0
      BY <2>4 DEF strnstr
    <3>2. IsAt(s, find, slen, 0)
      <4>1. \A z \in Nat : IsAt(s, find, slen, z) <=>
                /\ z + Len(find) <= slen /\ z + Len(find) <= Len(s)
                /\ \A k \in 1 .. Len(find) : s[z + k] = find[k]
        BY <2>2, IsAtIs
      <4> QED
        BY <2>2, <2>4, <4>1, LenProperties
    <3>3. 0 \in Places(s, find, slen, 0) /\ Places(s, find, slen, 0) \in SUBSET Nat
      BY <3>2, LenProperties DEF Places
    <3>4. /\ Min(Places(s, find, slen, 0)) \in Nat
          /\ Min(Places(s, find, slen, 0)) <= 0
      BY <3>3, MinOf
    <3>5. strnstr(s, find, slen) = Leftmost(s, find, slen, 0)
      BY <3>1, <3>3, <3>4 DEF Leftmost
    <3> QED
      BY <2>1, <3>5 DEF Leftmost, Places, IsAt
  <2> QED
    BY <2>3, <2>4
<1>2. Spec(commands) => []StartType
  BY AlwaysTyped
<1> QED
  BY <1>1, <1>2, PTL
=============================================================================
