------------------------------ MODULE SqliProofs ------------------------------
(***************************************************************************)
(* Proofs about the SQL injection detector: every parser finds its token   *)
(* inside the text and moves on in it, and the fold of the tokens keeps to *)
(* its window.                                                             *)
(***************************************************************************)
EXTENDS Sqli, StreamProofs
LOCAL INSTANCE FiniteSetsExt
LOCAL INSTANCE SequencesExt

-----------------------------------------------------------------------------
(* Tokens.                                                                  *)

\* The types that the parsers write themselves.
MarkTypes == {"c", "s", "X", "?", ":", ".", "\\", "(", ")", ",", ";", "{", "}"}

TokenTypes == KeywordTypes \cup MarkTypes

Marks == {Null, "'", "\"", "TICK", "u", "q", "$"}

\* The tokens of texts over the characters Char.
Tokens(Char) ==
    [type : TokenTypes \cup {Null}, pos : Nat, len : Nat, val : Seq(Char),
     open : Marks, close : Marks]

\* The types that syntax_merge_words takes, and that of variables, some of which
\* become functions.
WordTypes == {"k", "n", "o", "U", "f", "E", "T", "t", "&", "v"}

\* A token that may be a word of a phrase.
Named(t) == t.type \in WordTypes /\ t.val # <<>> /\ t.val[1] \in Letters

TokenEnd(t) == t.pos + t.len

\* No word starts at p.
NoWordAt(s, p) == p = Len(s) \/ At(s, p) \notin Letters

\* What is read up to p, and nothing that goes on behind it.
EndsBefore(t, s, p) == Named(t) => TokenEnd(t) < p \/ NoWordAt(s, p)

\* What the white list relies on: a comment has two characters, or starts with
\* a character that is asked for first.
LongComment(t, n) == FirstChar(t) \in {"#", "/"} \/ t.pos + 2 <= n

\* A token of these characters of the text, and no word cut in two behind it.
Neat(s, r) ==
    /\ r.tok.val = Part(s, r.tok.pos, r.tok.len)
    /\ EndsBefore(r.tok, s, r.pos)
    /\ r.tok.type = "c" => LongComment(r.tok, Len(s))

\* A token that is closed, or goes to the end of the text.
Shut(s, r) ==
    /\ r.tok.val = Part(s, r.tok.pos, r.tok.len)
    /\ r.tok.type # "c"
    /\ TokenEnd(r.tok) < r.pos \/ r.pos = Len(s)

\* What a parser that starts at i may give: a token of a type in types inside
\* what it reads, which is at least one character.
Parses(Char, s, i, types) ==
    {r \in [tok : Tokens(Char), pos : i + 1 .. Len(s), stats : SUBSET {"hash", "ddx"}] :
        /\ r.tok.type \in types
        /\ i <= r.tok.pos /\ r.tok.pos + r.tok.len <= r.pos
        /\ Neat(s, r)}

-----------------------------------------------------------------------------
(* Characters.                                                              *)

Punctuation ==
    {"!", "\"", "#", "$", "%", "&", "'", "(", ")", "*", "+", ",", "-", "/",
     ":", ";", "<", "=", ">", "?", "@"}

LEMMA LettersAre ==
    Letters \subseteq
        {"a", "b", "c", "d", "e", "f", "g", "h", "i", "j", "k", "l", "m",
         "n", "o", "p", "q", "r", "s", "t", "u", "v", "w", "x", "y", "z",
         "A", "B", "C", "D", "E", "F", "G", "H", "I", "J", "K", "L", "M",
         "N", "O", "P", "Q", "R", "S", "T", "U", "V", "W", "X", "Y", "Z"}
<1>1. ASSUME NEW k \in 1 .. 26
      PROVE  /\ LowerCase[k] \in
                   {"a", "b", "c", "d", "e", "f", "g", "h", "i", "j", "k", "l", "m",
                    "n", "o", "p", "q", "r", "s", "t", "u", "v", "w", "x", "y", "z"}
             /\ UpperCase[k] \in
                   {"A", "B", "C", "D", "E", "F", "G", "H", "I", "J", "K", "L", "M",
                    "N", "O", "P", "Q", "R", "S", "T", "U", "V", "W", "X", "Y", "Z"}
  <2>1. \/ k \in 1 .. 13 \/ k \in 14 .. 26
    OBVIOUS
  <2> QED
    BY <2>1 DEF LowerCase, UpperCase
<1> QED
  BY <1>1 DEF Letters

\* What is no letter.
LEMMA NoLetters ==
    /\ \A c \in WordStops \cup VarStops \cup {Null, ".", "TICK", "[", "]", "{", "}"} :
           c \notin Letters
    /\ \A c \in Digits \cup Punctuation \cup {"\\", "^", "~", "|"} : c \notin Letters
<1> DEFINE L == {"a", "b", "c", "d", "e", "f", "g", "h", "i", "j", "k", "l", "m",
         "n", "o", "p", "q", "r", "s", "t", "u", "v", "w", "x", "y", "z",
         "A", "B", "C", "D", "E", "F", "G", "H", "I", "J", "K", "L", "M",
         "N", "O", "P", "Q", "R", "S", "T", "U", "V", "W", "X", "Y", "Z"}
<1>1. Letters \subseteq L
  BY LettersAre
<1>2. Blank \notin L
  BY Zenon DEF Blank
<1>3. Spaces \cap L = {}
  BY <1>2 DEF Spaces, Null
<1> HIDE DEF L
<1> DEFINE M == {"[", "]", "{", "}", "<", ">", ":", "\\", "?", "=", "@", "!", "#",
                 "~", "+", "-", "*", "/", "&", "|", "^", "%", "(", ")", ",", "'",
                 ";", "\"", ".", "TICK", Null}
<1>4. M \cap L = {}
  BY DEF L, Null
<1>5. (Digits \cup Punctuation) \cap L = {}
  BY DEF L, Digits, Punctuation
<1>6. WordStops \subseteq Spaces \cup M
  BY DEF WordStops
<1>7. VarStops \subseteq Spaces \cup M
  BY <1>6 DEF VarStops
<1>8. {Null, ".", "TICK", "[", "]", "{", "}", "\\", "^", "~", "|"} \subseteq M
  OBVIOUS
<1> HIDE DEF M
<1> QED
  BY <1>1, <1>3, <1>4, <1>5, <1>6, <1>7, <1>8

-----------------------------------------------------------------------------
(* Searching a text.                                                        *)

LEMMA SearchInText ==
    ASSUME NEW n \in Nat, NEW i \in Nat, NEW T \in SUBSET (i .. n - 1), i <= n
    PROVE  \A s : Len(s) = n =>
              /\ FirstOf(s, T) \in i .. n
              /\ FirstOf(s, T) < n => FirstOf(s, T) \in T
<1> TAKE s
<1>1. CASE T = {}
  BY <1>1 DEF FirstOf
<1>2. CASE T # {}
  <2>1. T \in SUBSET Nat
    OBVIOUS
  <2>2. Min(T) \in T
    BY <1>2, <2>1, MinOf
  <2>3. FirstOf(s, T) = Min(T) /\ Min(T) \in i .. n - 1
    BY <1>2, <2>2 DEF FirstOf
  <2> QED
    BY <2>2, <2>3
<1> QED
  BY <1>1, <1>2

LEMMA memchrInText ==
    ASSUME NEW s, NEW cs, Len(s) \in Nat, NEW i \in 0 .. Len(s)
    PROVE  /\ memchr(s, i, cs) \in i .. Len(s)
           /\ memchr(s, i, cs) < Len(s) => At(s, memchr(s, i, cs)) \in cs
<1> DEFINE T == {k \in i .. Len(s) - 1 : At(s, k) \in cs}
<1>1. T \in SUBSET (i .. Len(s) - 1)
  OBVIOUS
<1>2. memchr(s, i, cs) = FirstOf(s, T)
  BY DEF memchr
<1>3. /\ FirstOf(s, T) \in i .. Len(s)
      /\ FirstOf(s, T) < Len(s) => FirstOf(s, T) \in T
  BY <1>1, SearchInText
<1> QED
  BY <1>2, <1>3

LEMMA memchr2InText ==
    ASSUME NEW s, NEW c0, NEW c1, Len(s) \in Nat, NEW i \in 0 .. Len(s)
    PROVE  /\ memchr2(s, i, Len(s), c0, c1) \in i .. Len(s)
           /\ \/ memchr2(s, i, Len(s), c0, c1) = Len(s)
              \/ memchr2(s, i, Len(s), c0, c1) + 2 <= Len(s)
<1> DEFINE T == {k \in i .. Len(s) - 2 : At(s, k) = c0 /\ At(s, k + 1) = c1}
<1>1. T \in SUBSET (i .. Len(s) - 1) /\ \A k \in T : k + 2 <= Len(s)
  OBVIOUS
<1>2. memchr2(s, i, Len(s), c0, c1) = FirstOf(s, T)
  BY DEF memchr2
<1>3. /\ FirstOf(s, T) \in i .. Len(s)
      /\ FirstOf(s, T) < Len(s) => FirstOf(s, T) \in T
  BY <1>1, SearchInText
<1> QED
  BY <1>1, <1>2, <1>3

LEMMA SpanInText ==
    ASSUME NEW s, NEW cs, Len(s) \in Nat, NEW i \in 0 .. Len(s)
    PROVE  /\ Span(s, i, cs) \in 0 .. Len(s) - i
           /\ strlenspn(s, i, cs) \in 0 .. Len(s) - i
           /\ strlencspn(s, i, cs) \in 0 .. Len(s) - i
           /\ i < Len(s) /\ At(s, i) \in cs => Span(s, i, cs) > 0
           /\ i < Len(s) /\ At(s, i) \notin cs /\ At(s, i) # Null =>
                  strlencspn(s, i, cs) > 0
<1>1. ASSUME NEW d
      PROVE  /\ Span(s, i, d) \in 0 .. Len(s) - i
             /\ i < Len(s) /\ At(s, i) \in d => Span(s, i, d) > 0
  <2> DEFINE T == {k \in i .. Len(s) - 1 : At(s, k) \notin d}
  <2>1. T \in SUBSET (i .. Len(s) - 1)
    OBVIOUS
  <2>2. Span(s, i, d) = FirstOf(s, T) - i
    BY DEF Span
  <2>3. /\ FirstOf(s, T) \in i .. Len(s)
        /\ FirstOf(s, T) < Len(s) => FirstOf(s, T) \in T
    BY <2>1, SearchInText
  <2>4. At(s, i) \in d => i \notin T
    OBVIOUS
  <2> HIDE DEF T
  <2> QED
    BY <2>2, <2>3, <2>4
<1>2. /\ memchr(s, i, cs \cup {Null}) \in i .. Len(s)
      /\ memchr(s, i, cs \cup {Null}) < Len(s) =>
             At(s, memchr(s, i, cs \cup {Null})) \in cs \cup {Null}
  BY memchrInText
<1> QED
  BY <1>1, <1>2 DEF strlenspn, strlencspn

\* What a search for the end of a word finds.
LEMMA StopFound ==
    ASSUME NEW Char, NEW s \in Seq(Char), NEW i \in 0 .. Len(s), NEW cs,
           \A c \in cs \cup {Null} : c \notin Letters
    PROVE  /\ strlencspn(s, i, cs) \in 0 .. Len(s) - i
           /\ NoWordAt(s, i + strlencspn(s, i, cs))
<1> DEFINE m == memchr(s, i, cs \cup {Null})
<1>1. /\ m \in i .. Len(s)
      /\ m < Len(s) => At(s, m) \in cs \cup {Null}
  BY memchrInText
<1>2. strlencspn(s, i, cs) = m - i
  BY DEF strlencspn
<1> HIDE DEF m
<1>3. i + (m - i) = m
  BY <1>1
<1> QED
  BY <1>1, <1>2, <1>3 DEF NoWordAt

-----------------------------------------------------------------------------
(* What the parsers are built from.                                         *)

LEMMA PartInText ==
    ASSUME NEW Char, NEW s \in Seq(Char), NEW i \in Nat, NEW n \in Nat,
           i + n <= Len(s)
    PROVE  /\ Part(s, i, n) \in Seq(Char)
           /\ Len(Part(s, i, n)) = n
           /\ \A k \in 0 .. n - 1 : At(Part(s, i, n), k) = At(s, i + k)
<1>1. /\ SubSeq(s, i + 1, i + n) \in Seq(Char)
      /\ Len(SubSeq(s, i + 1, i + n)) = n
      /\ \A k \in 1 .. n : SubSeq(s, i + 1, i + n)[k] = s[i + k]
  OBVIOUS
<1>2. ASSUME NEW k \in 0 .. n - 1
      PROVE  SubSeq(s, i + 1, i + n)[k + 1] = s[i + k + 1]
  <2>1. k + 1 \in 1 .. n /\ i + (k + 1) = i + k + 1
    OBVIOUS
  <2> QED
    BY <1>1, <2>1
<1> QED
  BY <1>1, <1>2 DEF Part, At

\* A token that is assigned keeps its characters, or the first of them.
LEMMA AssignedToken ==
    ASSUME NEW Char, NEW s \in Seq(Char), NEW type \in TokenTypes,
           NEW i \in Nat, NEW n \in Nat, i + n <= Len(s)
    PROVE  /\ st_assign(s, type, i, n) \in Tokens(Char)
           /\ st_assign(s, type, i, n).type = type
           /\ st_assign(s, type, i, n).pos = i
           /\ st_assign(s, type, i, n).len \in 0 .. n
           /\ st_assign(s, type, i, n).val =
                  Part(s, i, st_assign(s, type, i, n).len)
           /\ n < TokenSize => st_assign(s, type, i, n).len = n
           /\ n > 0 => /\ st_assign(s, type, i, n).val # <<>>
                       /\ st_assign(s, type, i, n).val[1] = At(s, i)
<1> DEFINE last == IF n < TokenSize THEN n ELSE TokenSize - 1
<1>1. last \in 0 .. n /\ (n < TokenSize => last = n) /\ (n > 0 => last > 0)
  BY SqliTokensAssumption
<1>2. Part(s, i, last) \in Seq(Char)
  BY <1>1, PartInText
<1> DEFINE R(l, v) == [NoToken EXCEPT !.type = type, !.pos = i, !.len = l, !.val = v]
<1>3. st_assign(s, type, i, n) = R(last, Part(s, i, last))
  BY DEF st_assign
<1>4. ASSUME NEW l \in Nat, NEW v \in Seq(Char)
      PROVE  /\ R(l, v) \in Tokens(Char)
             /\ R(l, v).type = type /\ R(l, v).pos = i
             /\ R(l, v).len = l /\ R(l, v).val = v
  <2>1. NoToken \in Tokens(Char)
    BY EmptySeq DEF NoToken, Tokens, Marks
  <2> QED
    BY <2>1 DEF Tokens, NoToken
<1> HIDE DEF R, last
<1>5. n > 0 => Part(s, i, last) # <<>> /\ Part(s, i, last)[1] = At(s, i)
  <2>1. ASSUME n > 0 PROVE 0 \in 0 .. last - 1 /\ i + 0 = i
    BY <1>1, <2>1
  <2>2. /\ Len(Part(s, i, last)) = last
        /\ \A k \in 0 .. last - 1 : At(Part(s, i, last), k) = At(s, i + k)
    BY <1>1, PartInText
  <2> QED
    BY <1>1, <2>1, <2>2, EmptySeq DEF At
<1> QED
  BY <1>1, <1>2, <1>3, <1>4, <1>5

LEMMA ParsedParses ==
    ASSUME NEW Char, NEW s, NEW i \in Nat, NEW types \in SUBSET TokenTypes,
           NEW t \in Tokens(Char), t.type \in types, Len(s) \in Nat,
           NEW p \in i + 1 .. Len(s), i <= t.pos, t.pos + t.len <= p,
           Neat(s, Parsed(t, p))
    PROVE  Parsed(t, p) \in Parses(Char, s, i, types)
<1>1. Parsed(t, p) = [tok |-> t, pos |-> p, stats |-> {}]
  BY DEF Parsed
<1>2. {} \in SUBSET {"hash", "ddx"}
  OBVIOUS
<1> QED
  BY <1>1, <1>2 DEF Parses

\* A token of n characters from i on, when the text is read up to p.
LEMMA NeatToken ==
    ASSUME NEW Char, NEW s \in Seq(Char), NEW type \in TokenTypes,
           NEW i \in Nat, NEW n \in Nat, i + n <= Len(s), NEW p,
           type \in WordTypes => NoWordAt(s, p) \/ (n > 0 /\ At(s, i) \notin Letters),
           type = "c" => i + 2 <= Len(s) \/ (n > 0 /\ At(s, i) \in {"#", "/"})
    PROVE  Neat(s, Parsed(st_assign(s, type, i, n), p))
<1> DEFINE tok == st_assign(s, type, i, n)
<1>1. /\ tok \in Tokens(Char) /\ tok.type = type /\ tok.pos = i
      /\ tok.val = Part(s, i, tok.len)
      /\ n > 0 => tok.val # <<>> /\ tok.val[1] = At(s, i)
  BY AssignedToken
<1> DEFINE r == Parsed(tok, p)
<1>2. r.tok = tok /\ r.pos = p
  BY DEF Parsed
<1> HIDE DEF tok, r
<1>3. EndsBefore(tok, s, p)
  BY <1>1 DEF EndsBefore, Named
<1>4. type = "c" => LongComment(tok, Len(s))
  BY <1>1 DEF LongComment, FirstChar
<1>5. Neat(s, r)
  BY <1>1, <1>2, <1>3, <1>4 DEF Neat
<1> QED
  BY <1>5 DEF r, tok

LEMMA ShutIsNeat ==
    ASSUME NEW s, NEW r, Shut(s, r) PROVE Neat(s, r)
BY DEF Shut, Neat, EndsBefore, NoWordAt

LEMMA TakeParses ==
    ASSUME NEW Char, NEW s \in Seq(Char), NEW types \in SUBSET TokenTypes,
           NEW type \in types,
           NEW i \in Nat, NEW j \in Nat, NEW n \in Nat, i <= j,
           i < j + n, j + n <= Len(s),
           type \in WordTypes =>
               NoWordAt(s, j + n) \/ (n > 0 /\ At(s, j) \notin Letters),
           type = "c" => j + 2 <= Len(s) \/ (n > 0 /\ At(s, j) \in {"#", "/"})
    PROVE  Take(s, type, j, n) \in Parses(Char, s, i, types)
<1> DEFINE tok == st_assign(s, type, j, n)
<1>1. /\ tok \in Tokens(Char) /\ tok.type = type
      /\ tok.pos = j /\ tok.len \in 0 .. n
  BY AssignedToken
<1>3. j + n \in i + 1 .. Len(s)
  OBVIOUS
<1>4. Neat(s, Parsed(tok, j + n))
  BY NeatToken
<1>5. Take(s, type, j, n) = Parsed(tok, j + n)
  BY DEF Take
<1> HIDE DEF tok
<1> QED
  BY <1>1, <1>3, <1>4, <1>5, ParsedParses

\* A string from j to e, with a closing delimiter of w characters if it has one.
LEMMA TakeStringParses ==
    ASSUME NEW Char, NEW s \in Seq(Char), NEW i \in Nat, NEW j \in Nat, i <= j,
           NEW e \in j .. Len(s), NEW w \in Nat, e = Len(s) \/ e + w <= Len(s),
           w > 0, i < Len(s),
           NEW open \in Marks, NEW close \in Marks
    PROVE  /\ TakeString(s, j, e, w, open, close) \in Parses(Char, s, i, {"s"})
           /\ Shut(s, TakeString(s, j, e, w, open, close))
<1> DEFINE tok == st_assign(s, "s", j, e - j)
           shut == IF e < Len(s) THEN close ELSE Null
           end == IF e < Len(s) THEN e + w ELSE Len(s)
<1>1. /\ tok \in Tokens(Char) /\ tok.type = "s"
      /\ tok.pos = j /\ tok.len \in 0 .. e - j /\ tok.val = Part(s, j, tok.len)
  <2>1. "s" \in TokenTypes
    BY DEF TokenTypes, MarkTypes
  <2>2. e - j \in Nat /\ j + (e - j) <= Len(s)
    OBVIOUS
  <2> QED
    BY <2>1, <2>2, AssignedToken
<1>2. shut \in Marks
  BY DEF Marks
<1>3. TakeString(s, j, e, w, open, close) =
          [tok |-> [tok EXCEPT !.open = open, !.close = shut],
           pos |-> end, stats |-> {}]
  BY DEF TakeString, Parsed
<1>4. /\ [tok EXCEPT !.open = open, !.close = shut] \in Tokens(Char)
      /\ [tok EXCEPT !.open = open, !.close = shut].type = "s"
      /\ [tok EXCEPT !.open = open, !.close = shut].pos = j
      /\ [tok EXCEPT !.open = open, !.close = shut].len = tok.len
      /\ [tok EXCEPT !.open = open, !.close = shut].val = tok.val
  BY <1>1, <1>2 DEF Tokens
<1>5. /\ end \in i + 1 .. Len(s) /\ j + tok.len <= end
      /\ j + tok.len < end \/ end = Len(s)
  BY <1>1
<1>6. ASSUME NEW t \in Tokens(Char), t.type = "s", t.pos = j, t.len = tok.len,
             t.val = tok.val
      PROVE  /\ [tok |-> t, pos |-> end, stats |-> {}] \in Parses(Char, s, i, {"s"})
             /\ Shut(s, [tok |-> t, pos |-> end, stats |-> {}])
  <2>1. Shut(s, [tok |-> t, pos |-> end, stats |-> {}])
    <3> HIDE DEF tok, end
    <3> QED
      BY <1>1, <1>5, <1>6 DEF Shut, TokenEnd
  <2>2. Neat(s, [tok |-> t, pos |-> end, stats |-> {}])
    BY <2>1, ShutIsNeat
  <2> HIDE DEF tok, end
  <2> QED
    BY <1>5, <1>6, <2>1, <2>2 DEF Parses
<1> QED
  BY <1>3, <1>4, <1>6

LEMMA Weaker ==
    ASSUME NEW Char, NEW s, NEW i, NEW small, NEW large \in SUBSET TokenTypes,
           small \subseteq large
    PROVE  Parses(Char, s, i, small) \subseteq Parses(Char, s, i, large)
BY DEF Parses

LEMMA LookupType ==
    ASSUME NEW w
    PROVE  lookup(w) \in KeywordTypes \cup {Null}
BY SqliTokensAssumption DEF lookup

-----------------------------------------------------------------------------
(* Strings: where they are closed.                                          *)

\* A function that is defined at each place by its value at a later one.
LEMMA JumpExists ==
    ASSUME NEW n \in Nat, NEW start \in 0 .. n,
           NEW stop \in [start .. n -> BOOLEAN],
           NEW at \in [start .. n -> start .. n],
           \A q \in start .. n : ~stop[q] => q < at[q]
    PROVE  \E g \in [start .. n -> start .. n] :
              \A q \in start .. n : g[q] = IF stop[q] THEN at[q] ELSE g[at[q]]
<1> DEFINE Good(g, k) ==
              \A q \in n - k .. n : q >= start =>
                  g[q] = IF stop[q] THEN at[q] ELSE g[at[q]]
           I == {k \in 0 .. n : \E g \in [start .. n -> start .. n] : Good(g, k)}
<1>1. 0 \in I
  <2>1. stop[n]
    OBVIOUS
  <2>2. Good(at, 0)
    BY <2>1
  <2> QED
    BY <2>2
<1>2. ASSUME NEW k \in 0 .. n - 1, k \in I PROVE k + 1 \in I
  <2>1. PICK g \in [start .. n -> start .. n] : Good(g, k)
    BY <1>2
  <2> DEFINE p == n - (k + 1)
             v == IF stop[p] THEN at[p] ELSE g[at[p]]
             h == [g EXCEPT ![p] = v]
  <2> SUFFICES \E f \in [start .. n -> start .. n] : Good(f, k + 1)
    <3>1. k + 1 \in 0 .. n
      OBVIOUS
    <3> HIDE DEF Good, p, v, h
    <3> QED
      BY <3>1
  <2>2. CASE p < start
    <3>1. Good(g, k + 1)
      BY <2>1, <2>2
    <3> HIDE DEF Good
    <3> QED
      BY <3>1
  <2>3. CASE p >= start
    <3>1. p \in start .. n /\ v \in start .. n
      BY <2>3
    <3>2. h \in [start .. n -> start .. n]
      BY <3>1
    <3>3. ASSUME NEW q \in p .. n
          PROVE  h[q] = IF stop[q] THEN at[q] ELSE h[at[q]]
      <4>0. q \in start .. n
        BY <2>3
      <4>1. q \in start .. n /\ at[q] \in start .. n
        BY <4>0
      <4>2. CASE q = p
        <5>1. h[q] = v
          BY <3>1, <4>2
        <5>2. ~stop[q] => h[at[q]] = g[at[q]]
          BY <3>1, <4>1, <4>2
        <5> QED
          BY <4>2, <5>1, <5>2
      <4>3. CASE q # p
        <5>1. q \in n - k .. n /\ q >= start
          BY <4>1, <4>3
        <5>2. h[q] = g[q]
          BY <4>1, <4>3
        <5>3. ~stop[q] => h[at[q]] = g[at[q]]
          BY <4>1, <5>1
        <5>4. g[q] = IF stop[q] THEN at[q] ELSE g[at[q]]
          BY <2>1, <5>1
        <5> QED
          BY <5>2, <5>3, <5>4
      <4> QED
        BY <4>2, <4>3
    <3>4. Good(h, k + 1)
      BY <3>3
    <3> HIDE DEF h, Good
    <3> QED
      BY <3>2, <3>4
  <2>4. p < start \/ p >= start
    OBVIOUS
  <2> QED
    BY <2>2, <2>3, <2>4, Zenon
<1>3. n \in I
  <2> HIDE DEF I
  <2>1. \A k \in 0 .. n - 1 : k \in I => k + 1 \in I
    BY <1>2
  <2>2. \A k \in 0 .. n : k \in I
    BY <1>1, <2>1, IntervalInduction
  <2> QED
    BY <2>2
<1>4. PICK g \in [start .. n -> start .. n] : Good(g, n)
  BY <1>3
<1>5. \A q \in start .. n : q \in n - n .. n /\ q >= start
  OBVIOUS
<1> QED
  BY <1>4, <1>5

\* The function that parse_string_core looks its closing delimiter up in.
Closing(f, s, start, delim) ==
    f = [q \in start .. Len(s) |->
            LET d == memchr(s, q, {delim})
            IN  IF d = Len(s) THEN d
                ELSE IF is_backslash_escaped(s, start, d) THEN f[d + 1]
                ELSE IF is_double_delim_escaped(s, d) THEN f[d + 2]
                ELSE d]

LEMMA ClosingExists ==
    ASSUME NEW s, NEW delim, Len(s) \in Nat, NEW start \in 0 .. Len(s)
    PROVE  \E f : Closing(f, s, start, delim)
<1> DEFINE n == Len(s)
           D(q) == memchr(s, q, {delim})
           back(q) == D(q) # n /\ is_backslash_escaped(s, start, D(q))
           double(q) == D(q) # n /\ is_double_delim_escaped(s, D(q))
           stop == [q \in start .. n |-> ~back(q) /\ ~double(q)]
           at == [q \in start .. n |->
                    IF back(q) THEN D(q) + 1
                    ELSE IF double(q) THEN D(q) + 2 ELSE D(q)]
<1>1. \A q \in start .. n : D(q) \in q .. n
  BY memchrInText
<1>2. \A q \in start .. n : double(q) => D(q) + 1 < n
  BY DEF is_double_delim_escaped
<1>3. ASSUME NEW q \in start .. n
      PROVE  at[q] \in start .. n /\ (~stop[q] => q < at[q])
  <2>1. D(q) \in q .. n /\ (double(q) => D(q) + 1 < n)
    BY <1>1, <1>2
  <2>2. \/ back(q) /\ at[q] = D(q) + 1 /\ D(q) # n
        \/ double(q) /\ at[q] = D(q) + 2
        \/ stop[q] /\ at[q] = D(q)
    OBVIOUS
  <2> HIDE DEF D, stop, at, back, double
  <2> QED
    BY <2>1, <2>2
<1>4. /\ n \in Nat /\ start \in 0 .. n
      /\ stop \in [start .. n -> BOOLEAN] /\ at \in [start .. n -> start .. n]
  <2> HIDE DEF D
  <2> QED
    BY <1>3
<1>5. PICK g \in [start .. n -> start .. n] :
          \A q \in start .. n : g[q] = IF stop[q] THEN at[q] ELSE g[at[q]]
  <2> HIDE DEF stop, at, n
  <2> QED
    BY <1>3, <1>4, JumpExists
<1> DEFINE body(q) == LET d == memchr(s, q, {delim})
                      IN  IF d = Len(s) THEN d
                          ELSE IF is_backslash_escaped(s, start, d) THEN g[d + 1]
                          ELSE IF is_double_delim_escaped(s, d) THEN g[d + 2]
                          ELSE d
<1>6. \A q \in start .. n : g[q] = body(q)
  BY <1>5
<1>7. g = [q \in start .. n |-> body(q)]
  <2> HIDE DEF body
  <2> QED
    BY <1>6
<1> QED
  BY <1>7 DEF Closing

LEMMA ClosingInText ==
    ASSUME NEW s, NEW delim, Len(s) \in Nat, NEW start \in 0 .. Len(s),
           NEW f, Closing(f, s, start, delim)
    PROVE  f[start] \in start .. Len(s)
<1> DEFINE n == Len(s)
           D(q) == memchr(s, q, {delim})
           I == {k \in 0 .. n : \A q \in start .. n : q >= n - k => f[q] \in q .. n}
<1>1. \A q \in start .. n : D(q) \in q .. n
  BY memchrInText
<1>2. ASSUME NEW q \in start .. n
      PROVE  \/ f[q] = D(q)
             \/ D(q) + 1 <= n /\ f[q] = f[D(q) + 1]
             \/ D(q) + 2 <= n /\ f[q] = f[D(q) + 2]
  <2>1. f[q] = IF D(q) = n THEN D(q)
               ELSE IF is_backslash_escaped(s, start, D(q)) THEN f[D(q) + 1]
               ELSE IF is_double_delim_escaped(s, D(q)) THEN f[D(q) + 2]
               ELSE D(q)
    BY DEF Closing
  <2>2. is_double_delim_escaped(s, D(q)) => D(q) + 1 < n
    BY DEF is_double_delim_escaped
  <2> HIDE DEF D
  <2> QED
    BY <1>1, <2>1, <2>2
<1>3. 0 \in I
  <2>1. ASSUME NEW q \in start .. n, q >= n - 0 PROVE f[q] \in q .. n
    <3>0. D(q) \in q .. n
      BY <1>1
    <3>1. q = n /\ D(q) = n
      BY <2>1, <3>0
    <3> HIDE DEF D
    <3> QED
      BY <1>2, <3>1
  <2> QED
    BY <2>1
<1>4. ASSUME NEW k \in 0 .. n - 1, k \in I PROVE k + 1 \in I
  <2>1. ASSUME NEW q \in start .. n, q >= n - (k + 1) PROVE f[q] \in q .. n
    <3>1. D(q) \in q .. n
      BY <1>1
    <3>2. \A r \in start .. n : r > q => f[r] \in r .. n
      BY <1>4, <2>1
    <3> HIDE DEF D, I
    <3> QED
      BY <1>2, <3>1, <3>2
  <2> QED
    BY <2>1
<1>5. n \in I
  <2> HIDE DEF I
  <2>1. \A k \in 0 .. n - 1 : k \in I => k + 1 \in I
    BY <1>4
  <2>2. \A k \in 0 .. n : k \in I
    BY <1>3, <2>1, IntervalInduction
  <2> QED
    BY <2>2
<1> QED
  BY <1>5

-----------------------------------------------------------------------------
(* The parsers.  Each finds its token in the text and moves on in it.       *)

LEMMA ParsesFrom ==
    ASSUME NEW Char, NEW s, NEW i \in Nat, NEW j \in Nat, i <= j,
           NEW r \in Parses(Char, s, j, TokenTypes), Len(s) \in Nat
    PROVE  r \in Parses(Char, s, i, TokenTypes)
<1>1. r.tok \in Tokens(Char) /\ r.tok.pos \in Nat
  BY DEF Parses, Tokens
<1> QED
  BY <1>1 DEF Parses

\* The token, or the statistics, may be changed where the place is not.
LEMMA ChangedParses ==
    ASSUME NEW Char, NEW s, NEW i, NEW r \in Parses(Char, s, i, TokenTypes)
    PROVE  /\ Shut(s, r) =>
                 \A t \in TokenTypes \ {"c"} :
                     /\ [r EXCEPT !.tok.type = t] \in Parses(Char, s, i, TokenTypes)
                     /\ Shut(s, [r EXCEPT !.tok.type = t])
           /\ \A st \in SUBSET {"hash", "ddx"} :
                 [r EXCEPT !.stats = st] \in Parses(Char, s, i, TokenTypes)
<1>1. ASSUME Shut(s, r), NEW t \in TokenTypes \ {"c"}
      PROVE  /\ [r EXCEPT !.tok.type = t] \in Parses(Char, s, i, TokenTypes)
             /\ Shut(s, [r EXCEPT !.tok.type = t])
  <2> DEFINE q == [r EXCEPT !.tok.type = t]
  <2>1. /\ q.tok.pos = r.tok.pos /\ q.tok.len = r.tok.len /\ q.tok.val = r.tok.val
        /\ q.tok.type = t /\ q.pos = r.pos
        /\ q \in [tok : Tokens(Char), pos : i + 1 .. Len(s), stats : SUBSET {"hash", "ddx"}]
    BY DEF Parses, Tokens
  <2> HIDE DEF q
  <2>2. Shut(s, q)
    BY <1>1, <2>1 DEF Shut, TokenEnd
  <2> QED
    BY <2>1, <2>2, ShutIsNeat DEF Parses, q
<1>2. ASSUME NEW st \in SUBSET {"hash", "ddx"}
      PROVE  [r EXCEPT !.stats = st] \in Parses(Char, s, i, TokenTypes)
  <2> DEFINE q == [r EXCEPT !.stats = st]
  <2>1. /\ q.tok = r.tok /\ q.pos = r.pos
        /\ q \in [tok : Tokens(Char), pos : i + 1 .. Len(s), stats : SUBSET {"hash", "ddx"}]
    BY DEF Parses
  <2> HIDE DEF q
  <2>2. Neat(s, q)
    BY <2>1 DEF Parses, Neat
  <2> QED
    BY <2>1, <2>2 DEF Parses, q
<1> QED
  BY <1>1, <1>2

LEMMA TypesAreTypes ==
    /\ KeywordTypes \subseteq TokenTypes /\ MarkTypes \subseteq TokenTypes
    /\ {"o", "?", "c", "X", "1", "\\", ":", "n", "s", "v", ".", "f"}
           \subseteq TokenTypes
BY DEF TokenTypes, KeywordTypes, MarkTypes

LEMMA OneParses ==
    ASSUME NEW Char, NEW s \in Seq(Char), NEW i \in 0 .. Len(s) - 1,
           NEW type \in TokenTypes, NEW n \in 1 .. Len(s) - i,
           type \in WordTypes => NoWordAt(s, i + n) \/ At(s, i) \notin Letters,
           type = "c" => At(s, i) \in {"#", "/"}
    PROVE  Take(s, type, i, n) \in Parses(Char, s, i, TokenTypes)
BY TakeParses

LEMMA operator1Parses ==
    ASSUME NEW Char, NEW s \in Seq(Char), NEW i \in 0 .. Len(s) - 1,
           At(s, i) \notin Letters
    PROVE  /\ parse_operator1(s, i) \in Parses(Char, s, i, TokenTypes)
           /\ parse_other(s, i) \in Parses(Char, s, i, TokenTypes)
           /\ At(s, i) \in TokenTypes \ {"c"} =>
                  parse_char(s, i) \in Parses(Char, s, i, TokenTypes)
<1>1. 1 \in 1 .. Len(s) - i
  OBVIOUS
<1> QED
  BY <1>1, OneParses, TypesAreTypes DEF parse_operator1, parse_other, parse_char

LEMMA eol_commentParses ==
    ASSUME NEW Char, NEW s \in Seq(Char), NEW i \in 0 .. Len(s) - 1,
           At(s, i) = "#" \/ i + 2 <= Len(s)
    PROVE  parse_eol_comment(s, i) \in Parses(Char, s, i, TokenTypes)
<1> DEFINE e == memchr(s, i, {"LF"})
           tok == st_assign(s, "c", i, e - i)
<1>1. e \in i .. Len(s)
  BY memchrInText
<1>2. e - i \in Nat /\ i + (e - i) <= Len(s) /\ "c" \in TokenTypes
  BY <1>1, TypesAreTypes
<1>3. /\ tok \in Tokens(Char) /\ tok.type = "c"
      /\ tok.pos = i /\ tok.len \in 0 .. e - i
  <2> HIDE DEF e
  <2> QED
    BY <1>2, AssignedToken
<1> DEFINE end == IF e < Len(s) THEN e + 1 ELSE e
<1>4. parse_eol_comment(s, i) = Parsed(tok, end)
  BY DEF parse_eol_comment
<1>5. end \in i + 1 .. Len(s) /\ e <= end
  <2> HIDE DEF e
  <2> QED
    BY <1>1
<1>6. ASSUME NEW t \in Tokens(Char), t.type = "c", t.pos = i,
             t.len \in 0 .. e - i,
             Neat(s, Parsed(t, end))
      PROVE  Parsed(t, end) \in Parses(Char, s, i, TokenTypes)
  <2>1. i + t.len <= end
    <3> HIDE DEF e, end
    <3> QED
      BY <1>1, <1>5, <1>6
  <2> HIDE DEF e, end
  <2> QED
    BY <1>2, <1>5, <1>6, <2>1, ParsedParses
<1>7. Neat(s, Parsed(tok, end))
  <2>1. At(s, i) = "#" => e # i
    BY memchrInText
  <2>2. "c" \notin WordTypes
    BY DEF WordTypes
  <2> HIDE DEF e, end
  <2>3. i + 2 <= Len(s) \/ (e - i > 0 /\ At(s, i) \in {"#", "/"})
    BY <1>1, <2>1
  <2> QED
    BY <1>2, <2>2, <2>3, NeatToken
<1> HIDE DEF e, end, tok
<1> QED
  BY <1>3, <1>4, <1>6, <1>7

LEMMA hash_dashParses ==
    ASSUME NEW Char, NEW s \in Seq(Char), NEW i \in 0 .. Len(s) - 1, NEW sql,
           At(s, i) \notin Letters
    PROVE  /\ At(s, i) = "#" => parse_hash(s, i, sql) \in Parses(Char, s, i, TokenTypes)
           /\ parse_dash(s, i, sql) \in Parses(Char, s, i, TokenTypes)
<1>1. /\ parse_operator1(s, i) \in Parses(Char, s, i, TokenTypes)
      /\ At(s, i) = "#" \/ i + 1 # Len(s) =>
             parse_eol_comment(s, i) \in Parses(Char, s, i, TokenTypes)
  BY operator1Parses, eol_commentParses
<1>2. \A r \in Parses(Char, s, i, TokenTypes), st \in SUBSET {"hash", "ddx"} :
          [r EXCEPT !.stats = st] \in Parses(Char, s, i, TokenTypes)
  BY ChangedParses
<1>3. {"hash"} \in SUBSET {"hash", "ddx"} /\ {"ddx"} \in SUBSET {"hash", "ddx"}
  OBVIOUS
<1> QED
  BY <1>1, <1>2, <1>3 DEF parse_hash, parse_dash

LEMMA slashParses ==
    ASSUME NEW Char, NEW s \in Seq(Char), NEW i \in 0 .. Len(s) - 1,
           At(s, i) = "/", At(s, i) \notin Letters
    PROVE  parse_slash(s, i) \in Parses(Char, s, i, TokenTypes)
<1> DEFINE e == memchr2(s, i + 2, Len(s), "*", "/")
           n == (IF e < Len(s) THEN e + 2 ELSE e) - i
<1>1. CASE i + 1 = Len(s) \/ At(s, i + 1) # "*"
  BY <1>1, operator1Parses DEF parse_slash
<1>2. CASE ~(i + 1 = Len(s) \/ At(s, i + 1) # "*")
  <2>1. i + 2 \in 0 .. Len(s)
    BY <1>2
  <2>2. e \in i + 2 .. Len(s) /\ (e = Len(s) \/ e + 2 <= Len(s))
    BY <2>1, memchr2InText
  <2>3. n \in 1 .. Len(s) - i
    <3> HIDE DEF e
    <3> QED
      BY <2>2
  <2>4. PICK type \in {"X", "c"} : parse_slash(s, i) = Take(s, type, i, n)
    BY <1>2 DEF parse_slash
  <2> HIDE DEF n
  <2> QED
    BY <2>3, <2>4, OneParses, TypesAreTypes
<1> QED
  BY <1>1, <1>2

LEMMA backslashParses ==
    ASSUME NEW Char, NEW s \in Seq(Char), NEW i \in 0 .. Len(s) - 1,
           At(s, i) \notin Letters
    PROVE  parse_backslash(s, i) \in Parses(Char, s, i, TokenTypes)
<1>1. 1 \in 1 .. Len(s) - i
  OBVIOUS
<1>2. i + 1 < Len(s) => 2 \in 1 .. Len(s) - i
  OBVIOUS
<1> QED
  BY <1>1, <1>2, OneParses, TypesAreTypes DEF parse_backslash

LEMMA operator2Parses ==
    ASSUME NEW Char, NEW s \in Seq(Char), NEW i \in 0 .. Len(s) - 1,
           At(s, i) \notin Letters
    PROVE  parse_operator2(s, i) \in Parses(Char, s, i, TokenTypes)
<1>1. 1 \in 1 .. Len(s) - i
  OBVIOUS
<1>2. i + 1 # Len(s) => 2 \in 1 .. Len(s) - i
  OBVIOUS
<1>3. i + 2 < Len(s) => 3 \in 1 .. Len(s) - i
  OBVIOUS
<1>4. lookup(Part(s, i, 2)) # Null => lookup(Part(s, i, 2)) \in TokenTypes \ {"c"}
  BY LookupType, TypesAreTypes DEF KeywordTypes
<1> QED
  BY <1>1, <1>2, <1>3, <1>4, OneParses, TypesAreTypes, operator1Parses
  DEF parse_operator2

LEMMA string_coreParses ==
    ASSUME NEW Char, NEW s \in Seq(Char), NEW i \in 0 .. Len(s) - 1,
           NEW delim \in Marks, NEW offset \in 0 .. Len(s) - i
    PROVE  /\ parse_string_core(s, i, delim, offset)
                  \in Parses(Char, s, i, TokenTypes)
           /\ Shut(s, parse_string_core(s, i, delim, offset))
<1> DEFINE start == i + offset
           f == CHOOSE g : Closing(g, s, start, delim)
           open == IF offset > 0 THEN delim ELSE Null
<1>1. start \in 0 .. Len(s) /\ open \in Marks /\ Len(s) \in Nat
  <2>1. Len(s) \in Nat
    OBVIOUS
  <2>2. Null \in Marks
    BY DEF Marks
  <2> QED
    BY <2>1, <2>2
<1>2. Closing(f, s, start, delim)
  <2> HIDE DEF start
  <2>1. \E g : Closing(g, s, start, delim)
    BY <1>1, ClosingExists
  <2> QED
    BY <2>1
<1>3. f[start] \in start .. Len(s)
  <2> HIDE DEF start, f
  <2> QED
    BY <1>1, <1>2, ClosingInText
<1>4. parse_string_core(s, i, delim, offset) =
          TakeString(s, start, f[start], 1, open, delim)
  BY DEF parse_string_core, Closing
<1>5. \A e \in start .. Len(s) :
          /\ TakeString(s, start, e, 1, open, delim) \in Parses(Char, s, i, {"s"})
          /\ Shut(s, TakeString(s, start, e, 1, open, delim))
  <2> TAKE e \in start .. Len(s)
  <2>1. /\ start \in Nat /\ i <= start /\ i \in Nat /\ i < Len(s)
        /\ e = Len(s) \/ e + 1 <= Len(s)
    OBVIOUS
  <2> HIDE DEF start, open
  <2> QED
    BY <1>1, <2>1, TakeStringParses
<1>6. Parses(Char, s, i, {"s"}) \subseteq Parses(Char, s, i, TokenTypes)
  BY Weaker, TypesAreTypes
<1> HIDE DEF start, f, open
<1> QED
  BY <1>3, <1>4, <1>5, <1>6

LEMMA stringParses ==
    ASSUME NEW Char, NEW s \in Seq(Char), NEW i \in 0 .. Len(s) - 1,
           At(s, i) \in Marks
    PROVE  /\ parse_string(s, i) \in Parses(Char, s, i, TokenTypes)
           /\ Shut(s, parse_string(s, i))
<1>1. 1 \in 0 .. Len(s) - i
  OBVIOUS
<1> QED
  BY <1>1, string_coreParses DEF parse_string

LEMMA SamePart ==
    ASSUME NEW Char, NEW s \in Seq(Char), NEW i \in Nat, NEW n \in Nat,
           i + n <= Len(s), NEW k \in 0 .. n
    PROVE  Part(Part(s, i, n), 0, k) = Part(s, i, k)
<1> DEFINE t == Part(s, i, n)
<1>1. /\ t \in Seq(Char) /\ Len(t) = n
      /\ \A j \in 0 .. n - 1 : At(t, j) = At(s, i + j)
  BY PartInText
<1>2. /\ Part(t, 0, k) \in Seq(Char) /\ Len(Part(t, 0, k)) = k
      /\ \A j \in 0 .. k - 1 : At(Part(t, 0, k), j) = At(t, 0 + j)
  <2> HIDE DEF t
  <2> QED
    BY <1>1, PartInText
<1>3. /\ Part(s, i, k) \in Seq(Char) /\ Len(Part(s, i, k)) = k
      /\ \A j \in 0 .. k - 1 : At(Part(s, i, k), j) = At(s, i + j)
  BY PartInText
<1>4. ASSUME NEW j \in 1 .. k PROVE Part(t, 0, k)[j] = Part(s, i, k)[j]
  <2>1. j - 1 \in 0 .. k - 1 /\ j - 1 \in 0 .. n - 1 /\ 0 + (j - 1) = j - 1
    OBVIOUS
  <2>2. At(Part(t, 0, k), j - 1) = At(Part(s, i, k), j - 1)
    <3> HIDE DEF t
    <3> QED
      BY <1>1, <1>2, <1>3, <2>1
  <2>3. \A u : At(u, j - 1) = u[j]
    BY DEF At
  <2> QED
    BY <2>2, <2>3
<1> HIDE DEF t
<1>5. Part(t, 0, k) = Part(s, i, k)
  BY <1>2, <1>3, <1>4, SeqEqual
<1> QED
  BY <1>5 DEF t

\* What starts a word.
WordStart(c) == c \notin WordStops \cup {Null, ".", "TICK"}

LEMMA wordParses ==
    ASSUME NEW Char, NEW s \in Seq(Char), NEW i \in 0 .. Len(s) - 1,
           WordStart(At(s, i))
    PROVE  parse_word(s, i) \in Parses(Char, s, i, TokenTypes)
<1> DEFINE n == strlencspn(s, i, WordStops)
           tok == st_assign(s, "n", i, n)
           cuts == {k \in 0 .. tok.len - 1 :
                        /\ At(tok.val, k) \in {".", "TICK"}
                        /\ lookup(Part(tok.val, 0, k)) \notin {Null, "n"}}
           known == n < TokenSize /\ lookup(tok.val) # Null
<1>1. n \in 1 .. Len(s) - i
  <2>1. At(s, i) \notin WordStops /\ At(s, i) # Null
    BY DEF WordStart
  <2>2. n \in 0 .. Len(s) - i /\ n > 0
    BY <2>1, SpanInText
  <2> QED
    BY <2>2
<1>2. /\ tok \in Tokens(Char) /\ tok.type = "n" /\ tok.pos = i
      /\ tok.len \in 0 .. n /\ tok.val = Part(s, i, tok.len)
  <2> HIDE DEF n
  <2> QED
    BY <1>1, AssignedToken, TypesAreTypes
<1>3. CASE cuts # {}
  <2>1. cuts \in SUBSET Nat
    OBVIOUS
  <2>2. PICK m : m = Min(cuts)
    OBVIOUS
  <2>3. m \in cuts
    <3> HIDE DEF cuts
    <3> QED
      BY <1>3, <2>1, <2>2, MinOf
  <2>4. m \in 0 .. tok.len - 1
    BY <2>3
  <2>5. At(tok.val, m) = At(s, i + m) /\ Part(tok.val, 0, m) = Part(s, i, m)
    <3> HIDE DEF tok, n
    <3>1. /\ i \in Nat /\ tok.len \in Nat /\ i + tok.len <= Len(s)
          /\ m \in 0 .. tok.len
      BY <1>1, <1>2, <2>4
    <3>2. At(Part(s, i, tok.len), m) = At(s, i + m)
      BY <2>4, <3>1, PartInText
    <3>3. Part(Part(s, i, tok.len), 0, m) = Part(s, i, m)
      BY <3>1, SamePart
    <3> QED
      BY <1>2, <3>2, <3>3
  <2>6. m # 0
    BY <2>3, <2>5 DEF WordStart
  <2>7. lookup(Part(s, i, m)) \in TokenTypes
    BY <2>3, <2>5, LookupType, TypesAreTypes
  <2>8. m \in 1 .. Len(s) - i
    <3> HIDE DEF tok, n
    <3> QED
      BY <1>1, <1>2, <2>4, <2>6
  <2>9. parse_word(s, i) = Take(s, lookup(Part(s, i, m)), i, m)
    BY <1>3, <2>2 DEF parse_word
  <2>10. NoWordAt(s, i + m)
    BY <2>3, <2>5, NoLetters DEF NoWordAt
  <2>11. lookup(Part(s, i, m)) # "c"
    BY <2>3, <2>5, LookupType DEF KeywordTypes
  <2> QED
    BY <2>7, <2>8, <2>9, <2>10, <2>11, OneParses
<1>4. CASE cuts = {}
  <2> DEFINE type == IF known THEN lookup(tok.val) ELSE "n"
             R(t) == Parsed([t EXCEPT !.type = type], i + n)
  <2>1. type \in TokenTypes \ {"c"}
    <3> HIDE DEF tok, n
    <3> QED
      BY LookupType, TypesAreTypes DEF KeywordTypes
  <2>2. parse_word(s, i) = R(tok)
    BY <1>4 DEF parse_word
  <2>4. NoWordAt(s, i + n)
    <3>1. \A c \in WordStops \cup {Null} : c \notin Letters
      BY NoLetters
    <3>2. i \in 0 .. Len(s)
      OBVIOUS
    <3> QED
      BY <3>1, <3>2, StopFound
  <2>3. ASSUME NEW t \in Tokens(Char), t.pos = i, t.len \in 0 .. n,
               t.val = Part(s, i, t.len)
        PROVE  R(t) \in Parses(Char, s, i, TokenTypes)
    <3> DEFINE u == [t EXCEPT !.type = type]
    <3>1. /\ u \in Tokens(Char) /\ u.type \in TokenTypes \ {"c"}
          /\ u.pos = i /\ u.len = t.len /\ u.val = t.val
      <4> HIDE DEF type
      <4> QED
        BY <2>1, <2>3 DEF Tokens
    <3>2. i + n \in i + 1 .. Len(s) /\ i + t.len <= i + n
      <4> HIDE DEF n
      <4> QED
        BY <1>1, <2>3
    <3>3. i \in Nat /\ Len(s) \in Nat /\ R(t) = Parsed(u, i + n)
      OBVIOUS
    <3> HIDE DEF R, u, n
    <3>5. Neat(s, Parsed(u, i + n))
      BY <2>3, <2>4, <3>1 DEF Neat, EndsBefore, Parsed
    <3>4. Parsed(u, i + n) \in Parses(Char, s, i, TokenTypes)
      BY <3>1, <3>2, <3>3, <3>5, ParsedParses
    <3> QED
      BY <3>3, <3>4
  <2> HIDE DEF R, tok
  <2> QED
    BY <1>2, <2>2, <2>3
<1> QED
  BY <1>3, <1>4

LEMMA estringParses ==
    ASSUME NEW Char, NEW s \in Seq(Char), NEW i \in 0 .. Len(s) - 1,
           WordStart(At(s, i))
    PROVE  parse_estring(s, i) \in Parses(Char, s, i, TokenTypes)
<1>1. i + 2 < Len(s) => 2 \in 0 .. Len(s) - i
  OBVIOUS
<1>2. "'" \in Marks
  BY DEF Marks
<1> QED
  BY <1>1, <1>2, wordParses, string_coreParses DEF parse_estring

LEMMA ustringParses ==
    ASSUME NEW Char, NEW s \in Seq(Char), NEW i \in 0 .. Len(s) - 1,
           WordStart(At(s, i))
    PROVE  parse_ustring(s, i) \in Parses(Char, s, i, TokenTypes)
<1>1. CASE ~(i + 2 < Len(s) /\ Part(s, i + 1, 2) = <<"&", "'">>)
  <2>1. parse_ustring(s, i) = parse_word(s, i)
    BY <1>1 DEF parse_ustring
  <2> QED
    BY <2>1, wordParses
<1>2. CASE i + 2 < Len(s) /\ Part(s, i + 1, 2) = <<"&", "'">>
  <2>1. At(Part(s, i + 1, 2), 1) = At(s, (i + 1) + 1)
    BY <1>2, PartInText
  <2>2. At(s, i + 2) = "'"
    BY <1>2, <2>1 DEF At
  <2>3. /\ parse_string(s, i + 2) \in Parses(Char, s, i + 2, TokenTypes)
        /\ Shut(s, parse_string(s, i + 2))
    <3>1. i + 2 \in 0 .. Len(s) - 1
      BY <1>2
    <3>2. At(s, i + 2) \in Marks
      BY <2>2 DEF Marks
    <3> QED
      BY <3>1, <3>2, stringParses
  <2>4. parse_string(s, i + 2) \in Parses(Char, s, i, TokenTypes)
    <3>1. i \in Nat /\ i + 2 \in Nat /\ i <= i + 2 /\ Len(s) \in Nat
      OBVIOUS
    <3> QED
      BY <2>3, <3>1, ParsesFrom
  <2>5. PICK r \in Parses(Char, s, i, TokenTypes) : r = parse_string(s, i + 2)
    BY <2>4
  <2>6. r.tok.close \in Marks
    BY DEF Parses, Tokens
  <2> DEFINE c == IF r.tok.close = "'" THEN "u" ELSE r.tok.close
  <2>7. "u" \in Marks /\ c \in Marks
    BY <2>6 DEF Marks
  <2>8. parse_ustring(s, i) = [r EXCEPT !.tok.open = "u", !.tok.close = c]
    BY <1>2, <2>5 DEF parse_ustring, Parses, Tokens
  <2> HIDE DEF c
  <2>9. [r EXCEPT !.tok.open = "u", !.tok.close = c]
            \in Parses(Char, s, i, TokenTypes)
    <3> DEFINE q == [r EXCEPT !.tok.open = "u", !.tok.close = c]
    <3>1. /\ q \in [tok : Tokens(Char), pos : i + 1 .. Len(s), stats : SUBSET {"hash", "ddx"}]
          /\ q.tok.type = r.tok.type /\ q.tok.pos = r.tok.pos
          /\ q.tok.len = r.tok.len /\ q.tok.val = r.tok.val /\ q.pos = r.pos
      BY <2>7 DEF Parses, Tokens
    <3> HIDE DEF q
    <3>2. Neat(s, q)
      BY <2>3, <2>5, <3>1, ShutIsNeat DEF Shut, TokenEnd
    <3> QED
      BY <3>1, <3>2 DEF Parses, q
  <2> QED
    BY <2>8, <2>9
<1> QED
  BY <1>1, <1>2

LEMMA qstring_coreParses ==
    ASSUME NEW Char, NEW s \in Seq(Char), NEW i \in 0 .. Len(s) - 1,
           WordStart(At(s, i)), NEW offset \in {0, 1}
    PROVE  parse_qstring_core(s, i, offset) \in Parses(Char, s, i, TokenTypes)
<1> DEFINE p == i + offset
           closer == Closer(At(s, p + 2))
           e == memchr2(s, p + 3, Len(s), closer, "'")
           string == TakeString(s, p + 3, e, 2, "q", "q")
<1>1. \/ parse_qstring_core(s, i, offset) = parse_word(s, i)
      \/ p + 2 < Len(s) /\ parse_qstring_core(s, i, offset) = string
  BY DEF parse_qstring_core
<1>2. ASSUME p + 2 < Len(s)
      PROVE  string \in Parses(Char, s, i, {"s"})
  <2>1. p + 3 \in 0 .. Len(s) /\ Len(s) \in Nat
    BY <1>2
  <2>2. e \in p + 3 .. Len(s) /\ (e = Len(s) \/ e + 2 <= Len(s))
    <3> HIDE DEF closer
    <3> QED
      BY <2>1, memchr2InText
  <2>3. i \in Nat /\ p + 3 \in Nat /\ i <= p + 3 /\ i < Len(s) /\ "q" \in Marks
    BY DEF Marks
  <2> HIDE DEF e, p
  <2> QED
    BY <2>2, <2>3, TakeStringParses
<1>3. Parses(Char, s, i, {"s"}) \subseteq Parses(Char, s, i, TokenTypes)
  BY Weaker, TypesAreTypes
<1>4. parse_word(s, i) \in Parses(Char, s, i, TokenTypes)
  BY wordParses
<1> HIDE DEF string, p
<1> QED
  BY <1>1, <1>2, <1>3, <1>4

LEMMA QuotedNumberParses ==
    ASSUME NEW Char, NEW s \in Seq(Char), NEW i \in 0 .. Len(s) - 1,
           WordStart(At(s, i)), NEW digits
    PROVE  QuotedNumber(s, i, digits) \in Parses(Char, s, i, TokenTypes)
<1> DEFINE e == i + 2 + strlenspn(s, i + 2, digits)
<1>1. \/ QuotedNumber(s, i, digits) = parse_word(s, i)
      \/ /\ i + 2 < Len(s) /\ e < Len(s)
         /\ QuotedNumber(s, i, digits) = Take(s, "1", i, e + 1 - i)
  <2>1. \/ i + 2 >= Len(s) \/ At(s, i + 1) # "'" \/ e >= Len(s)
        \/ At(s, e) # "'"
        \/ i + 2 < Len(s) /\ ~(e >= Len(s)) /\ ~(i + 2 >= Len(s))
    OBVIOUS
  <2>2. i + 2 < Len(s) /\ ~(e >= Len(s)) => e < Len(s)
    <3>1. ASSUME i + 2 < Len(s) PROVE i + 2 \in 0 .. Len(s)
      BY <3>1
    <3>2. ASSUME i + 2 < Len(s) PROVE strlenspn(s, i + 2, digits) \in Nat
      BY <3>1, <3>2, SpanInText
    <3> QED
      BY <3>2
  <2> HIDE DEF e
  <2>3. QuotedNumber(s, i, digits) =
            IF i + 2 >= Len(s) \/ At(s, i + 1) # "'" \/ e >= Len(s)
            THEN parse_word(s, i)
            ELSE IF At(s, e) # "'" THEN parse_word(s, i)
            ELSE Take(s, "1", i, e + 1 - i)
    BY DEF QuotedNumber, e
  <2> QED
    BY <2>1, <2>2, <2>3
<1>2. ASSUME i + 2 < Len(s), e < Len(s)
      PROVE  Take(s, "1", i, e + 1 - i) \in Parses(Char, s, i, TokenTypes)
  <2>1. i + 2 \in 0 .. Len(s)
    BY <1>2
  <2>2. strlenspn(s, i + 2, digits) \in Nat
    BY <2>1, SpanInText
  <2>3. e + 1 - i \in 1 .. Len(s) - i
    BY <1>2, <2>2
  <2>4. "1" \notin WordTypes
    BY DEF WordTypes
  <2> HIDE DEF e
  <2> QED
    BY <2>3, <2>4, OneParses, TypesAreTypes
<1>3. parse_word(s, i) \in Parses(Char, s, i, TokenTypes)
  BY wordParses
<1> HIDE DEF e
<1> QED
  BY <1>1, <1>2, <1>3

LEMMA quotedParses ==
    ASSUME NEW Char, NEW s \in Seq(Char), NEW i \in 0 .. Len(s) - 1,
           WordStart(At(s, i))
    PROVE  /\ parse_qstring(s, i) \in Parses(Char, s, i, TokenTypes)
           /\ parse_nqstring(s, i) \in Parses(Char, s, i, TokenTypes)
           /\ parse_bstring(s, i) \in Parses(Char, s, i, TokenTypes)
           /\ parse_xstring(s, i) \in Parses(Char, s, i, TokenTypes)
BY qstring_coreParses, estringParses, QuotedNumberParses
DEF parse_qstring, parse_nqstring, parse_bstring, parse_xstring

LEMMA bwordParses ==
    ASSUME NEW Char, NEW s \in Seq(Char), NEW i \in 0 .. Len(s) - 1,
           At(s, i) \notin Letters
    PROVE  parse_bword(s, i) \in Parses(Char, s, i, TokenTypes)
<1> DEFINE e == memchr(s, i, {"]"})
           n == (IF e < Len(s) THEN e + 1 ELSE e) - i
<1>1. e \in i .. Len(s)
  BY memchrInText
<1>2. n \in 1 .. Len(s) - i
  <2> HIDE DEF e
  <2> QED
    BY <1>1
<1>3. parse_bword(s, i) = Take(s, "n", i, n)
  BY DEF parse_bword
<1> HIDE DEF n
<1> QED
  BY <1>2, <1>3, OneParses, TypesAreTypes

LEMMA tickParses ==
    ASSUME NEW Char, NEW s \in Seq(Char), NEW i \in 0 .. Len(s) - 1
    PROVE  /\ parse_tick(s, i) \in Parses(Char, s, i, TokenTypes)
           /\ Shut(s, parse_tick(s, i))
<1> DEFINE r == parse_string_core(s, i, "TICK", 1)
           type == IF lookup(r.tok.val) = "f" THEN "f" ELSE "n"
<1>1. r \in Parses(Char, s, i, TokenTypes) /\ Shut(s, r)
  <2>1. 1 \in 0 .. Len(s) - i /\ "TICK" \in Marks
    BY DEF Marks
  <2> QED
    BY <2>1, string_coreParses
<1>2. type \in TokenTypes \ {"c"}
  BY TypesAreTypes
<1>3. parse_tick(s, i) = [r EXCEPT !.tok.type = type]
  BY DEF parse_tick
<1> HIDE DEF r, type
<1>4. /\ [r EXCEPT !.tok.type = type] \in Parses(Char, s, i, TokenTypes)
      /\ Shut(s, [r EXCEPT !.tok.type = type])
  BY <1>1, <1>2, ChangedParses
<1> QED
  BY <1>3, <1>4

LEMMA varParses ==
    ASSUME NEW Char, NEW s \in Seq(Char), NEW i \in 0 .. Len(s) - 1
    PROVE  parse_var(s, i) \in Parses(Char, s, i, TokenTypes)
<1> DEFINE p == IF i + 1 < Len(s) /\ At(s, i + 1) = "@" THEN i + 2 ELSE i + 1
<1>1. p \in i + 1 .. Len(s) /\ p \in Nat /\ i \in Nat /\ i <= p /\ Len(s) \in Nat
  OBVIOUS
<1>2. "v" \in TokenTypes \ {"c"}
  BY TypesAreTypes
<1>3. parse_var(s, i) =
          IF p < Len(s) /\ At(s, p) = "TICK"
          THEN [parse_tick(s, p) EXCEPT !.tok.type = "v"]
          ELSE IF p < Len(s) /\ At(s, p) \in {"'", "\""}
          THEN [parse_string(s, p) EXCEPT !.tok.type = "v"]
          ELSE Take(s, "v", p, strlencspn(s, p, VarStops))
  BY DEF parse_var
<1> HIDE DEF p
<1>4. ASSUME NEW r \in Parses(Char, s, p, TokenTypes), Shut(s, r)
      PROVE  [r EXCEPT !.tok.type = "v"] \in Parses(Char, s, i, TokenTypes)
  <2>1. r \in Parses(Char, s, i, TokenTypes)
    BY <1>1, ParsesFrom
  <2> QED
    BY <1>2, <1>4, <2>1, ChangedParses
<1>5. CASE p < Len(s) /\ At(s, p) = "TICK"
  <2>1. parse_tick(s, p) \in Parses(Char, s, p, TokenTypes) /\ Shut(s, parse_tick(s, p))
    <3>1. p \in 0 .. Len(s) - 1
      BY <1>1, <1>5
    <3> QED
      BY <3>1, tickParses
  <2> QED
    BY <1>3, <1>4, <1>5, <2>1
<1>6. CASE p < Len(s) /\ At(s, p) \in {"'", "\""}
  <2>1. parse_string(s, p) \in Parses(Char, s, p, TokenTypes) /\ Shut(s, parse_string(s, p))
    <3>0. p < Len(s)
      BY <1>6
    <3>1. p \in 0 .. Len(s) - 1
      BY <1>1, <3>0
    <3>2. At(s, p) \in Marks
      BY <1>6 DEF Marks
    <3> QED
      BY <3>1, <3>2, stringParses
  <2>2. parse_var(s, i) = [parse_string(s, p) EXCEPT !.tok.type = "v"]
    BY <1>3, <1>6
  <2> QED
    BY <1>4, <2>1, <2>2
<1>7. CASE /\ ~(p < Len(s) /\ At(s, p) = "TICK")
           /\ ~(p < Len(s) /\ At(s, p) \in {"'", "\""})
  <2> DEFINE n == strlencspn(s, p, VarStops)
  <2>1. n \in 0 .. Len(s) - p /\ NoWordAt(s, p + n)
    <3>1. \A c \in VarStops \cup {Null} : c \notin Letters
      BY NoLetters
    <3>2. p \in 0 .. Len(s)
      BY <1>1
    <3> QED
      BY <3>1, <3>2, StopFound
  <2>2. parse_var(s, i) = Take(s, "v", p, n)
    BY <1>3, <1>7
  <2>3. n \in Nat /\ i < p + n /\ p + n <= Len(s)
    <3> HIDE DEF n
    <3> QED
      BY <1>1, <2>1
  <2> HIDE DEF n
  <2> QED
    BY <1>1, <1>2, <2>1, <2>2, <2>3, TakeParses
<1> QED
  BY <1>5, <1>6, <1>7

LEMMA moneyParses ==
    ASSUME NEW Char, NEW s \in Seq(Char), NEW i \in 0 .. Len(s) - 1,
           WordStart(At(s, i)), At(s, i) \notin Letters
    PROVE  parse_money(s, i) \in Parses(Char, s, i, TokenTypes)
<1> DEFINE n == strlenspn(s, i + 1, Digits \cup {".", ","})
           m == strlenspn(s, i + 1, Letters)
           start == i + m + 2
           needle == Part(s, i, m + 2)
           e == my_memmem(s, m + 2, Len(s) - start, needle)
           e2 == memchr2(s, i + 2, Len(s), "$", "$")
           text == TakeString(s, i + 2, e2, 2, "$", "$")
           tagged == TakeString(s, start, IF e < start THEN Len(s) ELSE e,
                                m + 2, "$", "$")
<1>1. \/ parse_money(s, i) = Take(s, "n", i, 1)
      \/ i + 1 # Len(s) /\ parse_money(s, i) = parse_word(s, i)
      \/ i + 1 # Len(s) /\ parse_money(s, i) = Take(s, "1", i, 1 + n)
      \/ i + 1 # Len(s) /\ parse_money(s, i) = text
      \/ /\ i + 1 # Len(s) /\ i + m + 1 # Len(s)
         /\ parse_money(s, i) = tagged
  BY DEF parse_money
<1>2. /\ i \in Nat /\ Len(s) \in Nat /\ i < Len(s) /\ "$" \in Marks
      /\ i + 1 \in 0 .. Len(s)
  BY DEF Marks
<1>3. n \in 0 .. Len(s) - (i + 1) /\ m \in 0 .. Len(s) - (i + 1)
  BY <1>2, SpanInText
<1> HIDE DEF n, m
<1>4. /\ Take(s, "n", i, 1) \in Parses(Char, s, i, TokenTypes)
      /\ Take(s, "1", i, 1 + n) \in Parses(Char, s, i, TokenTypes)
  <2>1. 1 \in 1 .. Len(s) - i /\ 1 + n \in 1 .. Len(s) - i
    BY <1>2, <1>3
  <2> QED
    BY <2>1, OneParses, TypesAreTypes
<1>5. Parses(Char, s, i, {"s"}) \subseteq Parses(Char, s, i, TokenTypes)
  BY Weaker, TypesAreTypes
<1>6. ASSUME i + 1 # Len(s) PROVE text \in Parses(Char, s, i, TokenTypes)
  <2>1. i + 2 \in 0 .. Len(s)
    BY <1>2, <1>6
  <2>2. e2 \in i + 2 .. Len(s) /\ (e2 = Len(s) \/ e2 + 2 <= Len(s))
    BY <2>1, memchr2InText
  <2>3. i + 2 \in Nat /\ i <= i + 2
    BY <1>2
  <2> HIDE DEF e2
  <2>4. TakeString(s, i + 2, e2, 2, "$", "$") \in Parses(Char, s, i, {"s"})
    BY <1>2, <2>2, <2>3, TakeStringParses
  <2> QED
    BY <1>5, <2>4
<1>7. ASSUME i + m + 1 # Len(s)
      PROVE  tagged \in Parses(Char, s, i, TokenTypes)
  <2>1. start \in Nat /\ start <= Len(s) /\ i <= start
    BY <1>2, <1>3, <1>7
  <2>2. Len(needle) = m + 2
    <3>1. m + 2 \in Nat /\ i + (m + 2) <= Len(s)
      BY <1>2, <1>3, <1>7
    <3> QED
      BY <1>2, <3>1, PartInText
  <2> DEFINE T == {k \in m + 2 .. m + 2 + (Len(s) - start) - Len(needle) :
                        Part(s, k, Len(needle)) = needle}
  <2>3. e = FirstOf(s, T)
    BY DEF my_memmem
  <2>4. T \subseteq 0 .. Len(s) - start
    <3> HIDE DEF needle, start
    <3> QED
      BY <1>2, <1>3, <2>1, <2>2
  <2>5. start >= 2
    BY <1>2, <1>3
  <2>6. T \subseteq 0 .. Len(s) - 1
    <3> HIDE DEF T, start
    <3> QED
      BY <1>2, <2>1, <2>4, <2>5
  <2>7. e \in 0 .. Len(s) /\ (e < Len(s) => e \in T)
    <3> HIDE DEF T, e
    <3> QED
      BY <1>2, <2>3, <2>6, SearchInText
  <2> DEFINE close == IF e < start THEN Len(s) ELSE e
  <2>8. /\ close \in start .. Len(s)
        /\ close = Len(s) \/ close + (m + 2) <= Len(s)
    <3>1. e < Len(s) => e <= Len(s) - start
      <4> HIDE DEF T, e, start
      <4> QED
        BY <1>2, <2>1, <2>4, <2>7
    <3>2. e < Len(s) => e + (m + 2) <= Len(s)
      <4> HIDE DEF e
      <4> QED
        BY <1>2, <1>3, <2>7, <3>1
    <3> HIDE DEF e, start
    <3> QED
      BY <1>2, <2>1, <2>7, <3>2
  <2>9. m + 2 \in Nat /\ m + 2 > 0
    BY <1>3
  <2> HIDE DEF close, start
  <2>10. TakeString(s, start, close, m + 2, "$", "$")
             \in Parses(Char, s, i, {"s"})
    BY <1>2, <2>1, <2>8, <2>9, TakeStringParses
  <2> QED
    BY <1>5, <2>10 DEF close
<1>8. parse_word(s, i) \in Parses(Char, s, i, TokenTypes)
  BY wordParses
<1> HIDE DEF text, tagged
<1> QED
  BY <1>1, <1>4, <1>6, <1>7, <1>8

LEMMA PrefixedNumberParses ==
    ASSUME NEW Char, NEW s \in Seq(Char), NEW i \in 0 .. Len(s) - 1,
           i + 1 < Len(s), NEW digits, At(s, i) \notin Letters
    PROVE  PrefixedNumber(s, i, digits) \in Parses(Char, s, i, TokenTypes)
<1> DEFINE n == strlenspn(s, i + 2, digits)
<1>1. i + 2 \in 0 .. Len(s)
  OBVIOUS
<1>2. n \in 0 .. Len(s) - (i + 2)
  BY <1>1, SpanInText
<1>3. 2 + n \in 1 .. Len(s) - i
  BY <1>2
<1>4. PICK type \in {"n", "1"} : PrefixedNumber(s, i, digits) = Take(s, type, i, 2 + n)
  BY DEF PrefixedNumber
<1> HIDE DEF n
<1> QED
  BY <1>3, <1>4, OneParses, TypesAreTypes

LEMMA numberParses ==
    ASSUME NEW Char, NEW s \in Seq(Char), NEW i \in 0 .. Len(s) - 1,
           At(s, i) \in Digits \cup {"."}
    PROVE  parse_number(s, i) \in Parses(Char, s, i, TokenTypes)
<1> DEFINE Is(k, cs) == k < Len(s) /\ At(s, k) \in cs
           whole == i + Span(s, i, Digits)
           dot   == Is(whole, {"."})
           frac  == IF dot THEN whole + 1 + Span(s, whole + 1, Digits) ELSE whole
           exp   == Is(frac, {"E", "e"})
           sign  == IF ~exp THEN frac
                    ELSE IF Is(frac + 1, {"+", "-"}) THEN frac + 2 ELSE frac + 1
           power == IF exp THEN sign + Span(s, sign, Digits) ELSE sign
           suffix == /\ Is(power, {"d", "D", "f", "F"})
                     /\ \/ power + 1 = Len(s)
                        \/ Is(power + 1, Spaces \cup {";", "u", "U"})
           end   == IF suffix THEN power + 1 ELSE power
           type  == IF exp /\ power = sign THEN "n" ELSE "1"
<1>1. \/ i + 1 < Len(s) /\ parse_number(s, i) = PrefixedNumber(s, i, HexDigits)
      \/ i + 1 < Len(s) /\ parse_number(s, i) = PrefixedNumber(s, i, {"0", "1"})
      \/ parse_number(s, i) = Take(s, ".", i, 1)
      \/ ~(dot /\ frac = i + 1) /\ parse_number(s, i) = Take(s, type, i, end - i)
  BY DEF parse_number
<1>0. At(s, i) \notin Letters
  BY NoLetters
<1>2. i \in Nat /\ Len(s) \in Nat /\ i < Len(s) /\ At(s, i) \notin Letters
  BY <1>0
<1>3. /\ Span(s, i, Digits) \in 0 .. Len(s) - i
      /\ At(s, i) \in Digits => Span(s, i, Digits) > 0
  BY <1>2, SpanInText
<1>4. /\ whole \in i .. Len(s)
      /\ At(s, i) \in Digits => whole > i
  <2> QED
    BY <1>2, <1>3
<1>5. At(s, i) \notin Digits /\ whole = i => dot
  BY <1>2
<1>6. /\ frac \in whole .. Len(s)
      /\ dot => frac >= whole + 1
  <2>1. CASE dot
    <3>1. whole + 1 \in 0 .. Len(s)
      <4>1. whole < Len(s)
        BY <2>1
      <4> HIDE DEF whole, dot
      <4> QED
        BY <1>2, <1>4, <4>1
    <3>2. Span(s, whole + 1, Digits) \in 0 .. Len(s) - (whole + 1)
      <4> HIDE DEF whole
      <4> QED
        BY <1>2, <3>1, SpanInText
    <3>3. frac = whole + 1 + Span(s, whole + 1, Digits)
      BY <2>1
    <3> HIDE DEF whole, frac, dot
    <3> QED
      BY <1>2, <1>4, <3>1, <3>2, <3>3
  <2>2. CASE ~dot
    <3>1. frac = whole
      BY <2>2
    <3> HIDE DEF whole, frac, dot
    <3> QED
      BY <1>2, <1>4, <2>2, <3>1
  <2> QED
    BY <2>1, <2>2
<1>7. ~(dot /\ frac = i + 1) => frac > i
  <2> HIDE DEF whole, frac, dot
  <2> QED
    BY <1>2, <1>4, <1>5, <1>6
<1> HIDE DEF whole, frac, dot
<1>8. sign \in frac .. Len(s)
  <2>1. frac \in 0 .. Len(s)
    BY <1>2, <1>4, <1>6
  <2> QED
    BY <1>2, <2>1
<1>9. power \in sign .. Len(s)
  <2>1. sign \in 0 .. Len(s)
    <3> HIDE DEF sign, exp
    <3> QED
      BY <1>2, <1>4, <1>6, <1>8
  <2>2. Span(s, sign, Digits) \in 0 .. Len(s) - sign
    <3> HIDE DEF sign, exp
    <3> QED
      BY <1>2, <2>1, SpanInText
  <2> HIDE DEF sign, exp
  <2> QED
    BY <1>2, <2>1, <2>2
<1>10. end \in power .. Len(s)
  <2>1. suffix => power < Len(s)
    OBVIOUS
  <2>2. power \in Nat
    <3> HIDE DEF power, sign, exp
    <3> QED
      BY <1>2, <1>4, <1>6, <1>8, <1>9
  <2> HIDE DEF power, suffix
  <2> QED
    BY <1>2, <1>9, <2>1, <2>2
<1>11. ~(dot /\ frac = i + 1) =>
           Take(s, type, i, end - i) \in Parses(Char, s, i, TokenTypes)
  <2>1. type \in TokenTypes \ {"c"}
    BY TypesAreTypes
  <2> HIDE DEF type, end, power, sign, exp, suffix
  <2>2. ASSUME ~(dot /\ frac = i + 1) PROVE end - i \in 1 .. Len(s) - i
    BY <1>2, <1>4, <1>6, <1>7, <1>8, <1>9, <1>10, <2>2
  <2> QED
    BY <1>2, <2>1, <2>2, OneParses
<1>12. Take(s, ".", i, 1) \in Parses(Char, s, i, TokenTypes)
  <2>1. 1 \in 1 .. Len(s) - i
    BY <1>2
  <2> QED
    BY <1>2, <2>1, OneParses, TypesAreTypes
<1> HIDE DEF type, end, power, sign, exp, suffix
<1> QED
  BY <1>1, <1>2, <1>11, <1>12, PrefixedNumberParses

-----------------------------------------------------------------------------
(* The tokenizer.                                                           *)

LEMMA PunctuationParses ==
    ASSUME NEW Char, NEW s \in Seq(Char), NEW i \in 0 .. Len(s) - 1, NEW sql,
           At(s, i) \in Punctuation
    PROVE  PunctuationParser(s, i, sql) \in Parses(Char, s, i, TokenTypes)
<1> DEFINE c == At(s, i)
           P == Parses(Char, s, i, TokenTypes)
<1>0. c \notin Letters
  BY NoLetters
<1>1. /\ parse_operator2(s, i) \in P /\ parse_operator1(s, i) \in P
      /\ parse_other(s, i) \in P /\ (c = "/" => parse_slash(s, i) \in P)
      /\ c = "#" => parse_hash(s, i, sql) \in P
      /\ parse_dash(s, i, sql) \in P
      /\ parse_var(s, i) \in P
  BY <1>0, operator2Parses, operator1Parses, slashParses, hash_dashParses, varParses
<1>2. c \in {"'", "\""} => parse_string(s, i) \in P
  BY stringParses DEF Marks
<1>3. c = "$" => parse_money(s, i) \in P
  <2>1. c = "$" => WordStart(c)
    BY Zenon DEF WordStart, WordStops, Spaces, Null, Blank
  <2> QED
    BY <1>0, <2>1, moneyParses
<1>4. c \in {"(", ")", ",", ";"} => parse_char(s, i) \in P
  <2>1. c \in {"(", ")", ",", ";"} => c \in TokenTypes \ {"c"}
    BY DEF TokenTypes, MarkTypes
  <2> QED
    BY <1>0, <2>1, operator1Parses
<1> DEFINE r == PunctuationParser(s, i, sql)
<1>5. /\ c \in {"!", "&", "*", ":", "<", "=", ">"} => r = parse_operator2(s, i)
      /\ c \in {"'", "\""} => r = parse_string(s, i)
      /\ c = "#" => r = parse_hash(s, i, sql)
      /\ c = "$" => r = parse_money(s, i)
      /\ c \in {"%", "+"} => r = parse_operator1(s, i)
      /\ c \in {"(", ")", ",", ";"} => r = parse_char(s, i)
      /\ c = "-" => r = parse_dash(s, i, sql)
      /\ c = "/" => r = parse_slash(s, i)
      /\ c = "?" => r = parse_other(s, i)
      /\ c = "@" => r = parse_var(s, i)
  BY DEF PunctuationParser
<1> HIDE DEF r, P
<1> QED
  BY <1>1, <1>2, <1>3, <1>4, <1>5 DEF Punctuation, r, P

LEMMA WordParses ==
    ASSUME NEW Char, NEW s \in Seq(Char), NEW i \in 0 .. Len(s) - 1,
           At(s, i) \notin Blanks, At(s, i) \notin Digits \cup {"."},
           At(s, i) \notin Punctuation
    PROVE  WordParser(s, i) \in Parses(Char, s, i, TokenTypes)
<1> DEFINE c == At(s, i)
           P == Parses(Char, s, i, TokenTypes)
<1>0. c \in {"[", "]", "\\", "^", "~", "{", "}", "|"} => c \notin Letters
  BY NoLetters
<1>1. /\ c \in {"[", "]", "\\", "^", "~", "{", "}", "|"} =>
             /\ parse_bword(s, i) \in P /\ parse_backslash(s, i) \in P
             /\ parse_other(s, i) \in P /\ parse_operator1(s, i) \in P
             /\ parse_operator2(s, i) \in P
      /\ parse_tick(s, i) \in P
  BY <1>0, bwordParses, backslashParses, operator1Parses, tickParses, operator2Parses
<1>2. c \in {"{", "}"} => parse_char(s, i) \in P
  <2>1. c \in {"{", "}"} => c \in TokenTypes \ {"c"}
    BY DEF TokenTypes, MarkTypes
  <2> QED
    BY <1>0, <2>1, operator1Parses
<1>3. c \notin {"[", "]", "\\", "^", "~", "TICK", "{", "}", "|"} => WordStart(c)
  BY DEF WordStart, WordStops, Punctuation, Blanks, Spaces, Null, Digits
<1>4. c \notin {"[", "]", "\\", "^", "~", "TICK", "{", "}", "|"} =>
          /\ parse_bstring(s, i) \in P /\ parse_estring(s, i) \in P
          /\ parse_nqstring(s, i) \in P /\ parse_qstring(s, i) \in P
          /\ parse_ustring(s, i) \in P /\ parse_xstring(s, i) \in P
          /\ parse_word(s, i) \in P
  BY <1>3, quotedParses, estringParses, ustringParses, wordParses
<1> QED
  BY <1>1, <1>2, <1>4 DEF WordParser

\* The tokenizer finds no token in what is left of the text, and reads all of
\* it; or it finds one there, and moves on.
LEMMA TokenizerParses ==
    ASSUME NEW Char, NEW s \in Seq(Char), NEW p \in 0 .. Len(s),
           NEW quote, NEW sql
    PROVE  \/ libinjection_sqli_tokenize(s, p, quote, sql) = Parsed(NoToken, Len(s))
           \/ libinjection_sqli_tokenize(s, p, quote, sql)
                  \in Parses(Char, s, p, TokenTypes)
<1> DEFINE T == {k \in p .. Len(s) - 1 : At(s, k) \notin Blanks}
           i == FirstOf(s, T)
<1>1. i \in p .. Len(s) /\ (i < Len(s) => i \in T)
  <2>1. T \in SUBSET (p .. Len(s) - 1)
    OBVIOUS
  <2> HIDE DEF T
  <2> QED
    BY <2>1, SearchInText
<1>2. CASE p = 0 /\ quote # "none" /\ s # <<>>
  <2>1. libinjection_sqli_tokenize(s, p, quote, sql) =
            parse_string_core(s, 0, flag2delim(quote), 0)
    BY <1>2 DEF libinjection_sqli_tokenize
  <2>2. flag2delim(quote) \in Marks
    BY DEF flag2delim, Marks
  <2>3. Len(s) # 0
    BY <1>2, EmptySeq
  <2>4. 0 \in 0 .. Len(s) - 1 /\ 0 \in 0 .. Len(s) - 0
    BY <2>3
  <2>5. parse_string_core(s, 0, flag2delim(quote), 0)
            \in Parses(Char, s, 0, TokenTypes)
    BY <2>2, <2>4, string_coreParses
  <2> QED
    BY <1>2, <2>1, <2>5
<1>3. CASE ~(p = 0 /\ quote # "none" /\ s # <<>>) /\ i = Len(s)
  BY <1>3 DEF libinjection_sqli_tokenize
<1>4. CASE ~(p = 0 /\ quote # "none" /\ s # <<>>) /\ i # Len(s)
  <2>1. libinjection_sqli_tokenize(s, p, quote, sql) = char_parse_map(s, i, sql)
    BY <1>4 DEF libinjection_sqli_tokenize
  <2>2. i < Len(s)
    <3> HIDE DEF i
    <3> QED
      BY <1>1, <1>4
  <2>3. At(s, i) \notin Blanks
    BY <1>1, <2>2
  <2> HIDE DEF i
  <2>4. i \in 0 .. Len(s) - 1 /\ i \in Nat /\ p \in Nat /\ p <= i /\ Len(s) \in Nat
    BY <1>1, <2>2
  <2>5. char_parse_map(s, i, sql) \in Parses(Char, s, i, TokenTypes)
    <3>1. CASE At(s, i) \in Digits \cup {"."}
      <4>1. char_parse_map(s, i, sql) = parse_number(s, i)
        BY <2>3, <3>1 DEF char_parse_map, Digits
      <4> QED
        BY <2>4, <3>1, <4>1, numberParses
    <3>2. CASE At(s, i) \notin Digits \cup {"."} /\ At(s, i) \in Punctuation
      <4>1. char_parse_map(s, i, sql) = PunctuationParser(s, i, sql)
        BY <2>3, <3>2 DEF char_parse_map, Punctuation, Digits
      <4> QED
        BY <2>4, <3>2, <4>1, PunctuationParses
    <3>3. CASE At(s, i) \notin Digits \cup {"."} /\ At(s, i) \notin Punctuation
      <4>1. char_parse_map(s, i, sql) = WordParser(s, i)
        BY <2>3, <3>3 DEF char_parse_map, Punctuation
      <4> QED
        BY <2>3, <2>4, <3>3, <4>1, WordParses
    <3> QED
      BY <3>1, <3>2, <3>3
  <2> QED
    BY <2>1, <2>4, <2>5, ParsesFrom
<1> QED
  BY <1>2, <1>3, <1>4

-----------------------------------------------------------------------------
(* The inductive invariant.                                                 *)

\* No result yet.
Folding == pc \notin {"done", "judge"}

Sources(Char) ==
    [s : Seq(Char), pos : Nat, quote : {"none", "single", "double"},
     sql : {"ansi", "mysql"}, tokens : Nat, stats : SUBSET {"hash", "ddx"}]

SqliType(Char) ==
    /\ src \in Sources(Char)
    /\ src.pos <= Len(src.s)
    /\ tokenvec \in [Slots -> Tokens(Char)]
    /\ last_comment \in Tokens(Char)
    /\ pos \in 0 .. 6 /\ left \in 0 .. 6 /\ (Folding => left <= pos)
    /\ more \in BOOLEAN
    /\ pc \in {"skip", "two", "three", "full", "end", "done", "judge"}
    /\ tlen \in 0 .. 6
    /\ fingerprint \in Seq(TokenTypes \cup {Null})

\* The tokens that are kept have types, and no comment is among them.
KeptInv == Folding => \A k \in 0 .. pos - 1 : tokenvec[k].type \notin {Null, "c"}

\* There is a result only at the end; a sixth token in it is evil.
ResultInv ==
    /\ Folding => tlen = 0
    /\ tlen = 6 => tokenvec[5].type = "X"

\* Every token that is kept starts before the comment that comes last.
CommentInv ==
    /\ Folding =>
        /\ \A k \in 0 .. pos - 1 : tokenvec[k].pos <= src.pos
        /\ last_comment.type = "c" =>
            /\ last_comment.pos <= src.pos
            /\ \A k \in 0 .. pos - 1 : tokenvec[k].pos <= last_comment.pos
    /\ pc = "skip" => last_comment.type # "c"
    /\ pc = "end" => ~more \/ left >= MaxTokens
    /\ CommentIsLast

\* The types of tokens k and k + 1 are not ones that are folded.
Repeated == {"s", ";", "(", ")"}
Apart(k) ==
    ~(tokenvec[k].type = tokenvec[k + 1].type /\ tokenvec[k].type \in Repeated)

\* The tokens up to left are apart.  The loop ends only when it has looked at
\* all of them: left has reached pos, or five tokens; or when FoldFive has left
\* two tokens, of which the first is no repeated one.
RepeatInv ==
    /\ Folding =>
        /\ \A k \in 0 .. pos - 2 : k < left => Apart(k)
        /\ more /\ left < MaxTokens => left < pos \/ left = 0
    /\ pc = "skip" => more /\ left = 0
    /\ pc = "two" => left < MaxTokens /\ (~more => pos - left < 2)
    /\ pc = "three" =>
        /\ left < MaxTokens /\ (~more => pos - left < 3)
        /\ left + 1 < pos /\ Apart(left)
    /\ pc = "full" /\ ~more => left = pos
    /\ pc = "end" /\ ~more =>
           left = pos \/ (pos <= 2 /\ tokenvec[0].type \notin Repeated)
    /\ NothingRepeated

\* An evil token stands for all the tokens.
EvilInv ==
    pc = "judge" /\ (\E k \in 0 .. tlen - 1 : tokenvec[k].type = "X") =>
        fingerprint = <<"X">>

SqliInv(Char) ==
    /\ SqliType(Char) /\ KeptInv /\ ResultInv /\ CommentInv /\ RepeatInv /\ EvilInv

-----------------------------------------------------------------------------
(* The rules of the fold.                                                   *)

LEMMA FirstRule ==
    ASSUME NEW rules, NEW n \in Nat, DOMAIN rules = 1 .. n
    PROVE  \/ First(rules) = "none" /\ \A k \in 1 .. n : ~rules[k].when
           \/ \E k \in 1 .. n : rules[k].when /\ First(rules) = rules[k].rule
<1> DEFINE T == {k \in DOMAIN rules : rules[k].when}
<1>1. CASE T = {}
  BY <1>1 DEF First
<1>2. CASE T # {}
  <2>1. T \in SUBSET Nat
    OBVIOUS
  <2>2. Min(T) \in T
    BY <1>2, <2>1, MinOf
  <2>3. First(rules) = rules[Min(T)].rule
    BY <1>2 DEF First
  <2> QED
    BY <2>2, <2>3
<1> QED
  BY <1>1, <1>2

\* What the name of a rule for two tokens says of them.
LEMMA TwoTokenRuleSays ==
    ASSUME NEW a, NEW b
    PROVE  /\ TwoTokenRule(a, b) = "merge" => MergedType(a, b) # Null
           /\ TwoTokenRule(a, b) = "like" => a.type = "o"
           /\ TwoTokenRule(a, b) = "collate" => a.type = "A" /\ b.type = "n"
           /\ TwoTokenRule(a, b) = "if" => a.type = ";" /\ b.type = "f"
           /\ TwoTokenRule(a, b) = "function" => a.type \in {"n", "v"} /\ b.type = "("
           /\ TwoTokenRule(a, b) = "backslash" => a.type = "\\"
           /\ TwoTokenRule(a, b) = "in" => a.type = "k"
           /\ TwoTokenRule(a, b) = "none" =>
                  ~(a.type = b.type /\ a.type \in Repeated)
<1> DEFINE rules == <<
    Rule("strings",    a.type = "s" /\ b.type = "s"),
    Rule("semicolons", a.type = ";" /\ b.type = ";"),
    Rule("unary",      /\ a.type \in {"o", "&"}
                       /\ st_is_unary_op(b) \/ b.type = "t"),
    Rule("leftunary",  a.type = "(" /\ st_is_unary_op(b)),
    Rule("merge",      MergedType(a, b) # Null),
    Rule("if",         /\ a.type = ";" /\ b.type = "f" /\ b.len >= 2
                       /\ IsPrefix(<<"I", "F">>, Upper(b.val))),
    Rule("function",   /\ a.type \in {"n", "v"} /\ b.type = "("
                       /\ IsWord(a, FunctionWords)),
    Rule("in",         /\ a.type = "k"
                       /\ IsWord(a, {InWord, NotWord \o InWord})),
    Rule("like",       /\ a.type = "o"
                       /\ IsWord(a, {LikeWord, NotWord \o LikeWord})),
    Rule("cast",       /\ a.type = "t"
                       /\ b.type \in Operands \cup {"t", "(", "f"}),
    Rule("collate",    a.type = "A" /\ b.type = "n"),
    Rule("backslash",  a.type = "\\"),
    Rule("lefts",      a.type = "(" /\ b.type = "("),
    Rule("rights",     a.type = ")" /\ b.type = ")"),
    Rule("brace",      a.type = "{" /\ b.type = "n"),
    Rule("endbrace",   b.type = "}")>>
<1>1. TwoTokenRule(a, b) = First(rules)
  BY DEF TwoTokenRule
<1>2. DOMAIN rules = 1 .. 16
  OBVIOUS
<1>3. \A k \in 1 .. 16 : \/ k = 1 \/ k = 2 \/ k = 3 \/ k = 4 \/ k = 5 \/ k = 6
                         \/ k = 7 \/ k = 8 \/ k = 9 \/ k = 10 \/ k = 11
                         \/ k = 12 \/ k = 13 \/ k = 14 \/ k = 15 \/ k = 16
  OBVIOUS
<1>4. /\ rules[1].rule = "strings" /\ rules[2].rule = "semicolons"
      /\ rules[3].rule = "unary" /\ rules[4].rule = "leftunary"
      /\ rules[5].rule = "merge" /\ rules[6].rule = "if"
      /\ rules[7].rule = "function" /\ rules[8].rule = "in"
      /\ rules[9].rule = "like" /\ rules[10].rule = "cast"
      /\ rules[11].rule = "collate" /\ rules[12].rule = "backslash"
      /\ rules[13].rule = "lefts" /\ rules[14].rule = "rights"
      /\ rules[15].rule = "brace" /\ rules[16].rule = "endbrace"
  BY DEF Rule
<1>5. /\ rules[1].when = (a.type = "s" /\ b.type = "s")
      /\ rules[2].when = (a.type = ";" /\ b.type = ";")
      /\ rules[5].when = (MergedType(a, b) # Null)
      /\ rules[13].when = (a.type = "(" /\ b.type = "(")
      /\ rules[14].when = (a.type = ")" /\ b.type = ")")
  BY DEF Rule
<1>6. rules[9].when => a.type = "o"
  BY DEF Rule
<1>7. rules[11].when => a.type = "A" /\ b.type = "n"
  BY DEF Rule
<1>a. rules[6].when => a.type = ";" /\ b.type = "f"
  BY DEF Rule
<1>b. rules[7].when => a.type \in {"n", "v"} /\ b.type = "("
  BY DEF Rule
<1>c. rules[8].when => a.type = "k"
  BY DEF Rule
<1>d. rules[12].when => a.type = "\\"
  BY DEF Rule
<1> HIDE DEF rules
<1>8. \/ First(rules) = "none" /\ \A k \in 1 .. 16 : ~rules[k].when
      \/ \E k \in 1 .. 16 : rules[k].when /\ First(rules) = rules[k].rule
  BY <1>2, FirstRule
<1>9. CASE First(rules) = "none" /\ \A k \in 1 .. 16 : ~rules[k].when
  <2>1. ~rules[1].when /\ ~rules[2].when /\ ~rules[13].when /\ ~rules[14].when
    BY <1>9
  <2> QED
    BY <1>1, <1>5, <1>9, <2>1 DEF Repeated
<1>10. CASE \E k \in 1 .. 16 : rules[k].when /\ First(rules) = rules[k].rule
  <2>1. PICK k \in 1 .. 16 : rules[k].when /\ First(rules) = rules[k].rule
    BY <1>10
  <2>2. /\ First(rules) # "none"
        /\ First(rules) = "merge" => k = 5
        /\ First(rules) = "like" => k = 9
        /\ First(rules) = "collate" => k = 11
        /\ First(rules) = "if" => k = 6
        /\ First(rules) = "function" => k = 7
        /\ First(rules) = "in" => k = 8
        /\ First(rules) = "backslash" => k = 12
    BY <1>3, <1>4, <2>1
  <2> QED
    BY <1>1, <1>5, <1>6, <1>7, <1>a, <1>b, <1>c, <1>d, <2>1, <2>2
<1> QED
  BY <1>8, <1>9, <1>10

LEMMA MergedTypeIs ==
    ASSUME NEW a, NEW b
    PROVE  MergedType(a, b) \in KeywordTypes \cup {Null}
BY LookupType DEF MergedType

LEMMA MergedToken ==
    ASSUME NEW Char, Blank \in Char, NEW a \in Tokens(Char), NEW b \in Tokens(Char),
           MergedType(a, b) # Null
    PROVE  /\ syntax_merge_words(a, b) \in Tokens(Char)
           /\ syntax_merge_words(a, b).type \in KeywordTypes
           /\ syntax_merge_words(a, b).pos = a.pos
<1>1. MergedType(a, b) \in KeywordTypes
  BY MergedTypeIs
<1>2. /\ a.pos \in Nat /\ a.len \in Nat /\ b.len \in Nat
      /\ a.val \in Seq(Char) /\ b.val \in Seq(Char)
      /\ a.open \in Marks /\ a.close \in Marks
  BY DEF Tokens
<1>3. a.val \o <<Blank>> \o b.val \in Seq(Char) /\ a.len + b.len + 1 \in Nat
  <2>1. ASSUME NEW x \in Nat, NEW y \in Nat PROVE x + y + 1 \in Nat
    OBVIOUS
  <2>2. ASSUME NEW x \in Seq(Char), NEW y \in Seq(Char), NEW e \in Char
        PROVE  x \o <<e>> \o y \in Seq(Char)
    <3>1. <<e>> \in Seq(Char)
      OBVIOUS
    <3> QED
      BY <3>1, ConcatProperties
  <2> QED
    BY <1>2, <2>1, <2>2
<1> DEFINE type == MergedType(a, b)
           n == a.len + b.len + 1
           v == a.val \o <<Blank>> \o b.val
           open == a.open
           close == a.close
           p == a.pos
           m == [NoToken EXCEPT !.type = type, !.pos = p, !.len = n, !.val = v,
                                !.open = open, !.close = close]
<1>a. v \in Seq(Char) /\ n \in Nat
  BY <1>3
<1>4. NoToken \in Tokens(Char)
  BY EmptySeq DEF NoToken, Tokens, Marks
<1>5. syntax_merge_words(a, b) = m
  BY Zenon DEF syntax_merge_words
<1>6. type \in TokenTypes /\ p \in Nat /\ open \in Marks /\ close \in Marks
  BY <1>1, <1>2, TypesAreTypes
<1>7. m \in Tokens(Char) /\ m.type = type /\ m.pos = p
  <2> HIDE DEF type, n, v, open, close, p
  <2> QED
    BY <1>a, <1>4, <1>6 DEF Tokens
<1> QED
  BY <1>1, <1>5, <1>7

-----------------------------------------------------------------------------
(* Folding tokens that have been read.                                      *)

LEMMA RetypedToken ==
    ASSUME NEW Char, NEW vec \in [Slots -> Tokens(Char)], NEW k \in Slots,
           NEW type \in TokenTypes \cup {Null},
           NEW w, w = [vec EXCEPT ![k].type = type]
    PROVE  /\ w \in [Slots -> Tokens(Char)]
           /\ w[k].type = type /\ w[k].pos = vec[k].pos
           /\ \A j \in Slots : j # k => w[j] = vec[j]
<1>1. vec[k] \in Tokens(Char)
  OBVIOUS
<1>2. /\ [vec[k] EXCEPT !.type = type] \in Tokens(Char)
      /\ [vec[k] EXCEPT !.type = type].type = type
      /\ [vec[k] EXCEPT !.type = type].pos = vec[k].pos
  BY <1>1 DEF Tokens
<1>3. w = [vec EXCEPT ![k] = [vec[k] EXCEPT !.type = type]]
  OBVIOUS
<1> QED
  BY <1>2, <1>3

\* A step that reads nothing: every token it keeps was kept before, or is one
\* that was, with another type.
Rearranged(Char) ==
    /\ src' = src /\ more' = more /\ last_comment' = last_comment
    /\ tlen' = tlen /\ fingerprint' = fingerprint
    /\ tokenvec' \in [Slots -> Tokens(Char)]
    /\ pos' \in 0 .. pos /\ left' \in 0 .. pos'
    /\ pc' \in {"two", "three", "full", "end"}
    /\ \A k \in 0 .. pos' - 1 :
           /\ tokenvec'[k].type \notin {Null, "c"}
           /\ \E m \in 0 .. pos - 1 : tokenvec'[k].pos = tokenvec[m].pos

LEMMA RearrangedKeeps ==
    ASSUME NEW Char, SqliInv(Char), Folding, Rearranged(Char), RepeatInv',
           pc' = "end" => ~more \/ left' >= MaxTokens
    PROVE  SqliInv(Char)'
<1>1. Folding' /\ pc' # "judge" /\ pc' # "done"
  BY DEF Rearranged, Folding
<1>2. SqliType(Char)'
  BY <1>1 DEF SqliInv, SqliType, Rearranged
<1>3. KeptInv'
  BY <1>1 DEF KeptInv, Rearranged
<1>4. ResultInv'
  BY <1>1 DEF SqliInv, ResultInv, Rearranged
<1>5. CommentInv'
  <2>1. /\ \A k \in 0 .. pos - 1 : tokenvec[k].pos <= src.pos
        /\ last_comment.type = "c" =>
            /\ last_comment.pos <= src.pos
            /\ \A k \in 0 .. pos - 1 : tokenvec[k].pos <= last_comment.pos
    BY DEF SqliInv, CommentInv
  <2>2. CommentIsLast'
    BY <1>1 DEF CommentIsLast
  <2>3. /\ \A k \in 0 .. pos' - 1 : tokenvec'[k].pos <= src'.pos
        /\ last_comment'.type = "c" =>
            /\ last_comment'.pos <= src'.pos
            /\ \A k \in 0 .. pos' - 1 : tokenvec'[k].pos <= last_comment'.pos
    BY <2>1 DEF Rearranged
  <2>4. pc' = "end" => ~more' \/ left' >= MaxTokens
    BY DEF Rearranged
  <2>5. pc' # "skip"
    BY DEF Rearranged
  <2> QED
    BY <2>2, <2>3, <2>4, <2>5 DEF CommentInv
<1>6. EvilInv'
  BY <1>1 DEF EvilInv
<1> QED
  BY <1>2, <1>3, <1>4, <1>5, <1>6 DEF SqliInv

\* What the actions may rely on while tokens are folded.
LEMMA FoldingFacts ==
    ASSUME NEW Char, SqliInv(Char), Folding
    PROVE  /\ tokenvec \in [Slots -> Tokens(Char)]
           /\ pos \in 0 .. 6 /\ left \in 0 .. pos /\ tlen = 0
           /\ more \in BOOLEAN
           /\ \A k \in 0 .. pos - 1 : /\ k \in Slots
                                      /\ tokenvec[k] \in Tokens(Char)
                                      /\ tokenvec[k].type \in TokenTypes
                                      /\ tokenvec[k].type \notin {Null, "c"}
           /\ \A k \in 0 .. pos - 2 : k < left => Apart(k)
<1>1. /\ tokenvec \in [Slots -> Tokens(Char)]
      /\ pos \in 0 .. 6 /\ left \in 0 .. pos /\ more \in BOOLEAN
  BY DEF SqliInv, SqliType, Folding
<1>2. tlen = 0
  BY DEF SqliInv, ResultInv
<1>3. ASSUME NEW k \in 0 .. pos - 1
      PROVE  /\ k \in Slots
             /\ tokenvec[k] \in Tokens(Char)
             /\ tokenvec[k].type \in TokenTypes
             /\ tokenvec[k].type \notin {Null, "c"}
  <2>1. k \in Slots
    BY <1>1 DEF Slots
  <2>2. tokenvec[k] \in Tokens(Char)
    BY <1>1, <2>1
  <2>3. tokenvec[k].type \notin {Null, "c"}
    BY DEF SqliInv, KeptInv
  <2> QED
    BY <2>1, <2>2, <2>3 DEF Tokens
<1>4. \A k \in 0 .. pos - 2 : k < left => Apart(k)
  BY DEF SqliInv, RepeatInv
<1> QED
  BY <1>1, <1>2, <1>3, <1>4

\* A rule is looked for among tokens that have been read, before the end.
LEMMA TwoTokensFacts ==
    ASSUME NEW Char, NEW rules, SqliInv(Char), TwoTokens(rules),
           UNCHANGED fingerprint
    PROVE  /\ Folding /\ pc = "two" /\ pos - left >= 2
           /\ left < MaxTokens /\ more = TRUE
           /\ src' = src /\ more' = more /\ last_comment' = last_comment
           /\ fingerprint' = fingerprint
           /\ left \in 0 .. pos - 2 /\ left + 1 \in 0 .. pos - 1
<1>1. pc = "two" /\ pos - left >= 2 /\ Folding
  BY DEF TwoTokens, Folding
<1>2. pos \in 0 .. 6 /\ left \in 0 .. pos /\ more \in BOOLEAN
  BY <1>1, FoldingFacts
<1>3. left < MaxTokens /\ (~more => pos - left < 2)
  BY <1>1 DEF SqliInv, RepeatInv
<1>4. ~(pos - left < 2)
  BY <1>1, <1>2
<1>5. more = TRUE
  BY <1>2, <1>3, <1>4
<1> QED
  BY <1>1, <1>2, <1>3, <1>5 DEF TwoTokens

LEMMA ThreeTokensFacts ==
    ASSUME NEW Char, NEW rules, SqliInv(Char), ThreeTokens(rules),
           UNCHANGED fingerprint
    PROVE  /\ Folding /\ pc = "three" /\ pos - left >= 3
           /\ left < MaxTokens /\ more = TRUE /\ Apart(left)
           /\ src' = src /\ more' = more /\ last_comment' = last_comment
           /\ fingerprint' = fingerprint
           /\ left \in 0 .. pos - 3 /\ left + 1 \in 0 .. pos - 2
           /\ left + 2 \in 0 .. pos - 1
<1>1. pc = "three" /\ pos - left >= 3 /\ Folding
  BY DEF ThreeTokens, Folding
<1>2. pos \in 0 .. 6 /\ left \in 0 .. pos /\ more \in BOOLEAN
  BY <1>1, FoldingFacts
<1>3. /\ left < MaxTokens /\ (~more => pos - left < 3)
      /\ Apart(left)
  BY <1>1 DEF SqliInv, RepeatInv
<1>4. ~(pos - left < 3) /\ left + 1 < pos
  BY <1>1, <1>2
<1>5. more = TRUE
  BY <1>2, <1>3, <1>4
<1> QED
  BY <1>1, <1>2, <1>3, <1>4, <1>5 DEF ThreeTokens

\* After a rule, the loop starts again.
LEMMA RestartKeepsApart ==
    ASSUME NEW Char, SqliInv(Char), more' = TRUE, pc' = "full",
           pos' \in Nat, left' \in Nat, left' < pos' \/ left' = 0,
           \A k \in 0 .. pos' - 2 : k < left' => Apart(k)'
    PROVE  RepeatInv'
<1>1. /\ pc' # "skip" /\ pc' # "two" /\ pc' # "three" /\ pc' # "end"
      /\ pc' # "done"
  OBVIOUS
<1>2. NothingRepeated'
  BY <1>1 DEF NothingRepeated
<1> QED
  BY <1>1, <1>2 DEF RepeatInv

\* What a rule keeps are tokens that were there, or these with other types.  It
\* writes no type that could be repeated before the place that the loop starts
\* again at.
RuleKept ==
    \A k \in 0 .. pos' - 1 :
        \/ /\ tokenvec'[k].type = tokenvec[k].type
           /\ tokenvec'[k].pos = tokenvec[k].pos
        \/ /\ tokenvec'[k].type \notin {Null, "c"}
           /\ k <= left' => left' = 0 \/ tokenvec'[k].type \notin Repeated
           /\ \E m \in 0 .. pos - 1 : tokenvec'[k].pos = tokenvec[m].pos

LEMMA Window ==
    ASSUME NEW p \in Nat, NEW l \in Nat, NEW q \in Nat, NEW m \in Nat,
           q <= p, m <= l, m < q \/ m = 0
    PROVE  /\ m \in 0 .. q
           /\ \A k \in 0 .. q - 1 : k \in 0 .. p - 1
           /\ \A k \in 0 .. q - 2 : k < m =>
                /\ k \in 0 .. q - 1 /\ k + 1 \in 0 .. q - 1
                /\ k \in 0 .. p - 2 /\ k < l /\ k <= m /\ k + 1 <= m /\ m # 0
OBVIOUS

LEMMA RuleKeeps ==
    ASSUME NEW Char, SqliInv(Char), Folding, more = TRUE,
           src' = src, more' = more, last_comment' = last_comment,
           fingerprint' = fingerprint, tlen' = tlen, pc' = "full",
           pos' \in 0 .. pos, left' \in 0 .. left, left' < pos' \/ left' = 0,
           tokenvec' \in [Slots -> Tokens(Char)], RuleKept
    PROVE  SqliInv(Char)'
<1>1. /\ pos \in 0 .. 6 /\ left \in 0 .. pos
      /\ \A k \in 0 .. pos - 1 : tokenvec[k].type \notin {Null, "c"}
      /\ \A k \in 0 .. pos - 2 : k < left => Apart(k)
  BY FoldingFacts
<1>2. /\ pos \in Nat /\ left \in Nat /\ pos' \in Nat /\ left' \in Nat
      /\ pos' <= pos /\ left' <= left
  BY <1>1
<1>a. /\ left' \in 0 .. pos'
      /\ \A k \in 0 .. pos' - 1 : k \in 0 .. pos - 1
      /\ \A k \in 0 .. pos' - 2 : k < left' =>
            /\ k \in 0 .. pos' - 1 /\ k + 1 \in 0 .. pos' - 1
            /\ k \in 0 .. pos - 2 /\ k < left /\ k <= left' /\ k + 1 <= left'
            /\ left' # 0
  BY <1>2, Window
<1>3. Rearranged(Char)
  <2>1. left' \in 0 .. pos'
    BY <1>a
  <2>2. ASSUME NEW k \in 0 .. pos' - 1
        PROVE  /\ tokenvec'[k].type \notin {Null, "c"}
               /\ \E m \in 0 .. pos - 1 : tokenvec'[k].pos = tokenvec[m].pos
    <3>1. k \in 0 .. pos - 1
      BY <1>a
    <3> QED
      BY <1>1, <3>1 DEF RuleKept
  <2> QED
    BY <2>1, <2>2 DEF Rearranged
<1>4. ASSUME NEW k \in 0 .. pos' - 2, k < left' PROVE Apart(k)'
  <2>1. /\ k \in 0 .. pos' - 1 /\ k + 1 \in 0 .. pos' - 1
        /\ k \in 0 .. pos - 2 /\ k < left /\ k <= left' /\ k + 1 <= left'
        /\ left' # 0
    BY <1>a, <1>4
  <2>2. Apart(k)
    BY <1>1, <2>1
  <2>3. CASE /\ tokenvec'[k].type = tokenvec[k].type
            /\ tokenvec'[k + 1].type = tokenvec[k + 1].type
    BY <2>2, <2>3 DEF Apart
  <2>4. CASE tokenvec'[k].type # tokenvec[k].type
    <3>1. tokenvec'[k].type \notin Repeated
      BY <2>1, <2>4 DEF RuleKept
    <3> QED
      BY <3>1 DEF Apart
  <2>5. CASE tokenvec'[k + 1].type # tokenvec[k + 1].type
    <3>1. tokenvec'[k + 1].type \notin Repeated
      BY <2>1, <2>5 DEF RuleKept
    <3> QED
      BY <3>1 DEF Apart
  <2> QED
    BY <2>3, <2>4, <2>5
<1>5. RepeatInv'
  <2>1. more' = TRUE /\ pos' \in Nat /\ left' \in Nat
    OBVIOUS
  <2> QED
    BY <1>4, <2>1, RestartKeepsApart
<1> QED
  BY <1>3, <1>5, RearrangedKeeps

\* Rules that drop tokens and change none.
LEMMA DropKeeps ==
    ASSUME NEW Char, SqliInv(Char), Folding, more = TRUE,
           src' = src, more' = more, last_comment' = last_comment,
           fingerprint' = fingerprint, UNCHANGED tokenvec,
           NEW n \in Nat, NEW l \in 0 .. left, l + n < pos \/ l = 0, n <= pos,
           Drop(n, l)
    PROVE  SqliInv(Char)'
<1>1. pos \in 0 .. 6 /\ left \in 0 .. pos /\ tokenvec \in [Slots -> Tokens(Char)]
  BY FoldingFacts
<1>2. /\ pos' \in 0 .. pos /\ left' \in 0 .. left
      /\ (left' < pos' \/ left' = 0) /\ pc' = "full" /\ tlen' = tlen
  BY <1>1 DEF Drop
<1>3. RuleKept /\ tokenvec' \in [Slots -> Tokens(Char)]
  BY <1>1 DEF RuleKept
<1> QED
  BY <1>2, <1>3, RuleKeeps

LEMMA DroppingKeeps ==
    ASSUME NEW Char, SqliInv(Char), UNCHANGED fingerprint,
           FoldRepeated \/ FoldSecond \/ FoldLeftUnary \/ FoldExpression
    PROVE  SqliInv(Char)'
<1>1. CASE FoldRepeated
  <2>1. TwoTokens({"strings", "semicolons"}) /\ Drop(1, left) /\ UNCHANGED tokenvec
    BY <1>1 DEF FoldRepeated
  <2>2. /\ Folding /\ left \in 0 .. pos - 2 /\ pos - left >= 2 /\ more = TRUE
        /\ src' = src /\ more' = more /\ last_comment' = last_comment
        /\ fingerprint' = fingerprint
    BY <2>1, TwoTokensFacts
  <2>3. /\ 1 \in Nat /\ left \in 0 .. left /\ left + 1 < pos /\ 1 <= pos
    BY <2>2, FoldingFacts
  <2> QED
    BY <2>1, <2>2, <2>3, DropKeeps
<1>2. CASE FoldSecond
  <2>1. /\ TwoTokens({"unary", "lefts", "rights", "endbrace"})
        /\ Drop(1, 0) /\ UNCHANGED tokenvec
    BY <1>2 DEF FoldSecond
  <2>2. /\ Folding /\ left \in 0 .. pos - 2 /\ pos - left >= 2 /\ more = TRUE
        /\ src' = src /\ more' = more /\ last_comment' = last_comment
        /\ fingerprint' = fingerprint
    BY <2>1, TwoTokensFacts
  <2>3. /\ 1 \in Nat /\ 0 \in 0 .. left /\ 1 <= pos
    BY <2>2, FoldingFacts
  <2> QED
    BY <2>1, <2>2, <2>3, DropKeeps
<1>3. CASE FoldLeftUnary
  <2>1. TwoTokens({"leftunary"}) /\ Drop(1, BackOne) /\ UNCHANGED tokenvec
    BY <1>3 DEF FoldLeftUnary
  <2>2. /\ Folding /\ left \in 0 .. pos - 2 /\ pos - left >= 2 /\ more = TRUE
        /\ src' = src /\ more' = more /\ last_comment' = last_comment
        /\ fingerprint' = fingerprint
    BY <2>1, TwoTokensFacts
  <2>3. /\ 1 \in Nat /\ BackOne \in 0 .. left /\ BackOne + 1 < pos /\ 1 <= pos
    BY <2>2, FoldingFacts DEF BackOne
  <2> QED
    BY <2>1, <2>2, <2>3, DropKeeps
<1>4. CASE FoldExpression
  <2>1. ThreeTokens({"expression"}) /\ Drop(2, 0) /\ UNCHANGED tokenvec
    BY <1>4 DEF FoldExpression
  <2>2. /\ Folding /\ left \in 0 .. pos - 3 /\ pos - left >= 3 /\ more = TRUE
        /\ src' = src /\ more' = more /\ last_comment' = last_comment
        /\ fingerprint' = fingerprint
    BY <2>1, ThreeTokensFacts
  <2>3. /\ 2 \in Nat /\ 0 \in 0 .. left /\ 2 <= pos
    BY <2>2, FoldingFacts
  <2> QED
    BY <2>1, <2>2, <2>3, DropKeeps
<1> QED
  BY <1>1, <1>2, <1>3, <1>4

\* Rules that drop tokens and write one.
LEMMA PutKeeps ==
    ASSUME NEW Char, SqliInv(Char), Folding, more = TRUE,
           src' = src, more' = more, last_comment' = last_comment,
           fingerprint' = fingerprint,
           NEW n \in Nat, NEW l \in 0 .. left, l + n < pos \/ l = 0, n <= pos,
           Drop(n, l),
           NEW k \in 0 .. pos - 1, k > l \/ l = 0,
           NEW w \in Tokens(Char), w.type \notin {Null, "c"},
           \E m \in 0 .. pos - 1 : w.pos = tokenvec[m].pos,
           tokenvec' = [tokenvec EXCEPT ![k] = w]
    PROVE  SqliInv(Char)'
<1>1. pos \in 0 .. 6 /\ left \in 0 .. pos /\ tokenvec \in [Slots -> Tokens(Char)]
  BY FoldingFacts
<1>2. /\ pos' \in 0 .. pos /\ left' \in 0 .. left
      /\ (left' < pos' \/ left' = 0) /\ pc' = "full" /\ tlen' = tlen /\ left' = l
  BY <1>1 DEF Drop
<1>3. k \in Slots /\ \A j \in 0 .. pos' - 1 : j \in Slots
  <2>1. pos' \in 0 .. 6
    BY <1>1, <1>2
  <2>2. k \in Slots
    BY <1>1 DEF Slots
  <2>3. \A q \in 0 .. 6 : \A j \in 0 .. q - 1 : j \in Slots
    BY DEF Slots
  <2> QED
    BY <2>1, <2>2, <2>3
<1>4. tokenvec' \in [Slots -> Tokens(Char)]
  BY <1>1
<1>5. RuleKept
  <2> SUFFICES ASSUME NEW j \in 0 .. pos' - 1
               PROVE  \/ /\ tokenvec'[j].type = tokenvec[j].type
                         /\ tokenvec'[j].pos = tokenvec[j].pos
                      \/ /\ tokenvec'[j].type \notin {Null, "c"}
                         /\ j <= left' => left' = 0 \/ tokenvec'[j].type \notin Repeated
                         /\ \E m \in 0 .. pos - 1 : tokenvec'[j].pos = tokenvec[m].pos
    BY DEF RuleKept
  <2>1. CASE j # k
    BY <1>1, <1>3, <2>1
  <2>2. CASE j = k
    <3>1. tokenvec'[j] = w
      BY <1>1, <1>3, <2>2
    <3>2. j <= left' => left' = 0
      BY <1>1, <1>2, <2>2
    <3> QED
      BY <3>1, <3>2
  <2> QED
    BY <2>1, <2>2
<1> QED
  BY <1>2, <1>4, <1>5, RuleKeeps

LEMMA PuttingKeeps ==
    ASSUME NEW Char, Blank \in Char, SqliInv(Char), UNCHANGED fingerprint,
           FoldMerge \/ FoldCast \/ FoldSign \/ FoldComma
    PROVE  SqliInv(Char)'
<1>1. CASE FoldMerge
  <2>1. /\ TwoTokens({"merge"}) /\ Drop(1, BackOne)
        /\ tokenvec' = [tokenvec EXCEPT ![left] = syntax_merge_words(A, B)]
    BY <1>1 DEF FoldMerge
  <2>2. /\ Folding /\ left \in 0 .. pos - 2 /\ pos - left >= 2 /\ more = TRUE
        /\ src' = src /\ more' = more /\ last_comment' = last_comment
        /\ fingerprint' = fingerprint /\ left + 1 \in 0 .. pos - 1
    BY <2>1, TwoTokensFacts
  <2>3. /\ 1 \in Nat /\ BackOne \in 0 .. left /\ BackOne + 1 < pos /\ 1 <= pos
        /\ left \in 0 .. pos - 1 /\ (left > BackOne \/ BackOne = 0)
    BY <2>2, FoldingFacts DEF BackOne
  <2>4. A \in Tokens(Char) /\ B \in Tokens(Char)
    BY <2>2, <2>3, FoldingFacts DEF A, B
  <2>5. MergedType(A, B) # Null
    BY <2>1, TwoTokenRuleSays DEF TwoTokens
  <2>6. /\ syntax_merge_words(A, B) \in Tokens(Char)
        /\ syntax_merge_words(A, B).type \in KeywordTypes
        /\ syntax_merge_words(A, B).pos = A.pos
    BY <2>4, <2>5, MergedToken
  <2>7. syntax_merge_words(A, B).type \notin {Null, "c"}
    BY <2>6 DEF KeywordTypes, Null
  <2>8. \E m \in 0 .. pos - 1 : syntax_merge_words(A, B).pos = tokenvec[m].pos
    BY <2>3, <2>6 DEF A
  <2> QED
    BY <2>1, <2>2, <2>3, <2>6, <2>7, <2>8, PutKeeps
<1>2. CASE FoldCast
  <2>1. /\ TwoTokens({"cast"}) /\ Drop(1, 0)
        /\ tokenvec' = [tokenvec EXCEPT ![left] = B]
    BY <1>2 DEF FoldCast
  <2>2. /\ Folding /\ left \in 0 .. pos - 2 /\ pos - left >= 2 /\ more = TRUE
        /\ src' = src /\ more' = more /\ last_comment' = last_comment
        /\ fingerprint' = fingerprint /\ left + 1 \in 0 .. pos - 1
    BY <2>1, TwoTokensFacts
  <2>3. 1 \in Nat /\ 0 \in 0 .. left /\ 1 <= pos /\ left \in 0 .. pos - 1
    BY <2>2, FoldingFacts
  <2>4. B \in Tokens(Char) /\ B.type \notin {Null, "c"}
    BY <2>2, FoldingFacts DEF B
  <2>5. \E m \in 0 .. pos - 1 : B.pos = tokenvec[m].pos
    BY <2>2 DEF B
  <2> QED
    BY <2>1, <2>2, <2>3, <2>4, <2>5, PutKeeps
<1>3. CASE FoldSign \/ FoldComma
  <2>1. \E n \in {1, 3} : \E rules :
            /\ ThreeTokens(rules) /\ Drop(n, 0)
            /\ tokenvec' = [tokenvec EXCEPT ![left + 1] = C]
    BY <1>3 DEF FoldSign, FoldComma
  <2>0. PICK n \in {1, 3} : \E rules :
            /\ ThreeTokens(rules) /\ Drop(n, 0)
            /\ tokenvec' = [tokenvec EXCEPT ![left + 1] = C]
    BY <2>1
  <2>a. PICK rules :
            /\ ThreeTokens(rules) /\ Drop(n, 0)
            /\ tokenvec' = [tokenvec EXCEPT ![left + 1] = C]
    BY <2>0
  <2>2. /\ Folding /\ left \in 0 .. pos - 3 /\ pos - left >= 3 /\ more = TRUE
        /\ src' = src /\ more' = more /\ last_comment' = last_comment
        /\ fingerprint' = fingerprint /\ left + 2 \in 0 .. pos - 1
    BY <2>a, ThreeTokensFacts
  <2>3. n \in Nat /\ 0 \in 0 .. left /\ n <= pos /\ left + 1 \in 0 .. pos - 1
    BY <2>2, FoldingFacts
  <2>4. C \in Tokens(Char) /\ C.type \notin {Null, "c"}
    BY <2>2, FoldingFacts DEF C
  <2>5. \E m \in 0 .. pos - 1 : C.pos = tokenvec[m].pos
    BY <2>2 DEF C
  <2> QED
    BY <2>a, <2>2, <2>3, <2>4, <2>5, PutKeeps
<1> QED
  BY <1>1, <1>2, <1>3

\* The types of a token and the next are written.
LEMMA RetypedTwo ==
    ASSUME NEW Char, NEW vec \in [Slots -> Tokens(Char)],
           NEW k \in Slots, k + 1 \in Slots,
           NEW t \in TokenTypes \cup {Null}, NEW u \in TokenTypes \cup {Null},
           NEW w, w = [vec EXCEPT ![k].type = t, ![k + 1].type = u]
    PROVE  /\ w \in [Slots -> Tokens(Char)]
           /\ w[k].type = t /\ w[k].pos = vec[k].pos
           /\ w[k + 1].type = u /\ w[k + 1].pos = vec[k + 1].pos
           /\ \A j \in Slots : j # k /\ j # k + 1 => w[j] = vec[j]
<1>1. k + 1 # k
  BY DEF Slots
<1> DEFINE x == [vec[k] EXCEPT !.type = t]
           y == [vec[k + 1] EXCEPT !.type = u]
<1>2. x \in Tokens(Char) /\ x.type = t /\ x.pos = vec[k].pos
  <2>1. vec[k] \in Tokens(Char)
    OBVIOUS
  <2> QED
    BY <2>1 DEF Tokens
<1>3. y \in Tokens(Char) /\ y.type = u /\ y.pos = vec[k + 1].pos
  <2>1. vec[k + 1] \in Tokens(Char)
    OBVIOUS
  <2> QED
    BY <2>1 DEF Tokens
<1>4. w = [vec EXCEPT ![k] = x, ![k + 1] = y]
  BY <1>1
<1> HIDE DEF x, y
<1> QED
  BY <1>1, <1>2, <1>3, <1>4

LEMMA FoldRetypeKeeps ==
    ASSUME NEW Char, SqliInv(Char), UNCHANGED fingerprint, FoldRetype
    PROVE  SqliInv(Char)'
<1> DEFINE rule == TwoTokenRule(A, B)
           t == CASE rule = "function" -> "f"
                  [] rule = "in" -> IF B.type = "(" THEN "o" ELSE "n"
                  [] OTHER -> tokenvec[left].type
           u == IF rule = "if" THEN "T" ELSE tokenvec[left + 1].type
<1>1. TwoTokens({"if", "function", "in"}) /\ Drop(0, left)
  BY DEF FoldRetype
<1>2. /\ Folding /\ left \in 0 .. pos - 2 /\ pos - left >= 2 /\ more = TRUE
      /\ src' = src /\ more' = more /\ last_comment' = last_comment
      /\ fingerprint' = fingerprint /\ left + 1 \in 0 .. pos - 1
  BY <1>1, TwoTokensFacts
<1>3. /\ pos \in 0 .. 6 /\ left \in 0 .. pos /\ left \in 0 .. pos - 1
      /\ tokenvec \in [Slots -> Tokens(Char)]
      /\ tokenvec[left].type \in TokenTypes \ {Null, "c"}
      /\ tokenvec[left + 1].type \in TokenTypes \ {Null, "c"}
      /\ left \in Slots /\ left + 1 \in Slots
  BY <1>2, FoldingFacts
<1>4. {"f", "o", "n", "T"} \subseteq TokenTypes \ (Repeated \cup {Null, "c"})
  BY DEF TokenTypes, KeywordTypes, Repeated, Null
<1>5. rule \in {"if", "function", "in"}
  BY <1>1 DEF TwoTokens
<1>6. t = tokenvec[left].type \/ t \in {"f", "o", "n"}
  BY <1>5
<1>7. u = tokenvec[left + 1].type \/ u = "T"
  OBVIOUS
<1>8. tokenvec' = [tokenvec EXCEPT ![left].type = t, ![left + 1].type = u]
  BY DEF FoldRetype
<1> HIDE DEF t, u, rule
<1>9. t \in TokenTypes \ {Null, "c"} /\ u \in TokenTypes \ {Null, "c"}
  BY <1>3, <1>4, <1>6, <1>7
<1>10. /\ tokenvec' \in [Slots -> Tokens(Char)]
       /\ tokenvec'[left].type = t /\ tokenvec'[left].pos = tokenvec[left].pos
       /\ tokenvec'[left + 1].type = u
       /\ tokenvec'[left + 1].pos = tokenvec[left + 1].pos
       /\ \A j \in Slots : j # left /\ j # left + 1 => tokenvec'[j] = tokenvec[j]
  BY <1>3, <1>8, <1>9, RetypedTwo
<1>11. /\ pos' \in 0 .. pos /\ left' \in 0 .. left
       /\ (left' < pos' \/ left' = 0) /\ pc' = "full" /\ tlen' = tlen
       /\ left' = left /\ pos' = pos
  BY <1>1, <1>2, <1>3 DEF Drop
<1>12. RuleKept
  <2> SUFFICES ASSUME NEW j \in 0 .. pos' - 1
               PROVE  \/ /\ tokenvec'[j].type = tokenvec[j].type
                         /\ tokenvec'[j].pos = tokenvec[j].pos
                      \/ /\ tokenvec'[j].type \notin {Null, "c"}
                         /\ j <= left' => left' = 0 \/ tokenvec'[j].type \notin Repeated
                         /\ \E m \in 0 .. pos - 1 : tokenvec'[j].pos = tokenvec[m].pos
    BY DEF RuleKept
  <2>1. j \in 0 .. pos - 1 /\ j \in Slots
    BY <1>2, <1>11, FoldingFacts
  <2>2. CASE j # left /\ j # left + 1
    BY <1>10, <2>1, <2>2
  <2>3. CASE j = left
    BY <1>4, <1>6, <1>9, <1>10, <2>1, <2>3
  <2>4. CASE j = left + 1
    BY <1>4, <1>7, <1>9, <1>10, <2>1, <2>4
  <2> QED
    BY <2>2, <2>3, <2>4
<1> QED
  BY <1>2, <1>10, <1>11, <1>12, RuleKeeps

LEMMA FoldBackslashKeeps ==
    ASSUME NEW Char, SqliInv(Char), UNCHANGED fingerprint, FoldBackslash
    PROVE  SqliInv(Char)'
<1>1. TwoTokens({"backslash"})
  BY DEF FoldBackslash
<1>2. /\ Folding /\ left \in 0 .. pos - 2 /\ pos - left >= 2 /\ more = TRUE
      /\ src' = src /\ more' = more /\ last_comment' = last_comment
      /\ fingerprint' = fingerprint /\ left + 1 \in 0 .. pos - 1
  BY <1>1, TwoTokensFacts
<1>3. 0 \in Nat /\ 1 \in Nat /\ 0 \in 0 .. left /\ 0 <= pos /\ 1 <= pos
  BY <1>2, FoldingFacts
<1>4. left \in 0 .. pos - 1
  BY <1>2, FoldingFacts
<1>5. CASE st_is_arithmetic_op(B)
  <2> DEFINE w == [tokenvec[left] EXCEPT !.type = "1"]
  <2>1. Drop(0, 0) /\ tokenvec' = [tokenvec EXCEPT ![left] = w]
    BY <1>5 DEF FoldBackslash
  <2>2. tokenvec[left] \in Tokens(Char)
    BY <1>2, <1>4, FoldingFacts
  <2>3. "1" \in TokenTypes /\ "1" \notin {Null, "c"}
    BY DEF TokenTypes, KeywordTypes, Null
  <2>4. w \in Tokens(Char) /\ w.type = "1" /\ w.pos = tokenvec[left].pos
    BY <2>2, <2>3 DEF Tokens
  <2> HIDE DEF w
  <2>5. \E m \in 0 .. pos - 1 : w.pos = tokenvec[m].pos
    BY <1>4, <2>4
  <2> QED
    BY <1>2, <1>3, <1>4, <2>1, <2>3, <2>4, <2>5, PutKeeps
<1>6. CASE ~st_is_arithmetic_op(B)
  <2>1. Drop(1, 0) /\ tokenvec' = [tokenvec EXCEPT ![left] = B]
    BY <1>6 DEF FoldBackslash
  <2>2. B \in Tokens(Char) /\ B.type \notin {Null, "c"}
    BY <1>2, FoldingFacts DEF B
  <2>3. \E m \in 0 .. pos - 1 : B.pos = tokenvec[m].pos
    BY <1>2 DEF B
  <2> QED
    BY <1>2, <1>3, <1>4, <2>1, <2>2, <2>3, PutKeeps
<1> QED
  BY <1>5, <1>6

\* The types of the first n tokens.
LEMMA ResultIs ==
    ASSUME NEW vec, NEW n \in 0 .. 8
    PROVE  LET r == SubSeq([k \in 1 .. 8 |-> vec[k - 1].type], 1, n)
           IN  /\ r \in Seq({vec[k].type : k \in Slots})
               /\ Len(r) = n /\ DOMAIN r = 1 .. n
               /\ \A k \in 1 .. n : r[k] = vec[k - 1].type
<1> DEFINE S == {vec[k].type : k \in Slots}
           f == [k \in 1 .. 8 |-> vec[k - 1].type]
<1>1. \A k \in 1 .. n : f[k] \in S /\ f[k] = vec[k - 1].type
  <2> TAKE k \in 1 .. n
  <2>1. k \in 1 .. 8 /\ k - 1 \in Slots
    BY DEF Slots
  <2>2. f[k] = vec[k - 1].type
    BY <2>1
  <2> QED
    BY <2>1, <2>2
<1>2. n \in Int /\ 1 \in Int /\ (IF 1 <= n THEN n - 1 + 1 ELSE 0) = n
  OBVIOUS
<1> HIDE DEF f, S
<1>3. /\ SubSeq(f, 1, n) \in Seq(S)
      /\ Len(SubSeq(f, 1, n)) = IF 1 <= n THEN n - 1 + 1 ELSE 0
      /\ \A i \in 1 .. n - 1 + 1 : SubSeq(f, 1, n)[i] = f[1 + i - 1]
  BY <1>1, <1>2, SubSeqProperties
<1>4. \A i \in 1 .. n : i \in 1 .. n - 1 + 1 /\ 1 + i - 1 = i
  OBVIOUS
<1>5. /\ SubSeq(f, 1, n) \in Seq(S) /\ Len(SubSeq(f, 1, n)) = n
      /\ \A k \in 1 .. n : SubSeq(f, 1, n)[k] = vec[k - 1].type
  BY <1>1, <1>2, <1>3, <1>4
<1>6. DOMAIN SubSeq(f, 1, n) = 1 .. n
  BY <1>5, LenProperties
<1> QED
  BY <1>5, <1>6 DEF f, S

LEMMA Places ==
    ASSUME NEW n \in Nat
    PROVE  /\ \A k \in 1 .. n - 1 :
                  /\ k \in 1 .. n /\ k + 1 \in 1 .. n /\ k - 1 \in 0 .. n - 2
                  /\ (k - 1) + 1 = k /\ (k + 1) - 1 = k
           /\ \A k \in 1 .. n :
                  /\ k - 1 \in 0 .. n - 1 /\ (k - 1 = n - 1 => k = n)
                  /\ \A j \in 1 .. k - 1 : j - 1 \in 0 .. k - 1 - 1
OBVIOUS

\* The steps that end the fold.
LEMMA DoneKeeps ==
    ASSUME NEW Char, SqliType(Char)', pc' = "done",
           tlen' = 6 => tokenvec'[5].type = "X",
           \A k \in 0 .. tlen' - 2 : Apart(k)',
           \A k \in 0 .. tlen' - 1 : tokenvec'[k].type = "c" =>
               /\ k = tlen' - 1 /\ ~more'
               /\ \A j \in 0 .. k - 1 : tokenvec'[j].pos <= tokenvec'[k].pos
    PROVE  SqliInv(Char)'
<1>1. tlen' \in 0 .. 6 /\ tlen' \in 0 .. 8 /\ tlen' \in Nat
  BY DEF SqliType
<1>a. /\ \A k \in 1 .. tlen' - 1 :
             /\ k \in 1 .. tlen' /\ k + 1 \in 1 .. tlen' /\ k - 1 \in 0 .. tlen' - 2
             /\ (k - 1) + 1 = k /\ (k + 1) - 1 = k
      /\ \A k \in 1 .. tlen' :
             /\ k - 1 \in 0 .. tlen' - 1 /\ (k - 1 = tlen' - 1 => k = tlen')
             /\ \A j \in 1 .. k - 1 : j - 1 \in 0 .. k - 1 - 1
  BY <1>1, Places
<1>2. ~Folding'
  BY DEF Folding
<1>3. \A k \in 1 .. tlen' : Result'[k] = tokenvec'[k - 1].type
  BY <1>1, ResultIs DEF Result
<1>4. NothingRepeated'
  <2> SUFFICES ASSUME NEW k \in 1 .. tlen' - 1
               PROVE  ~(Result'[k] = Result'[k + 1] /\ Result'[k] \in Repeated)
    BY DEF NothingRepeated, Repeated
  <2>1. /\ k \in 1 .. tlen' /\ k + 1 \in 1 .. tlen' /\ k - 1 \in 0 .. tlen' - 2
        /\ (k - 1) + 1 = k /\ (k + 1) - 1 = k
    BY <1>a
  <2>2. Result'[k] = tokenvec'[k - 1].type /\ Result'[k + 1] = tokenvec'[k].type
    BY <1>3, <2>1
  <2>3. Apart(k - 1)'
    BY <2>1
  <2> QED
    BY <2>1, <2>2, <2>3 DEF Apart
<1>5. CommentIsLast'
  <2> SUFFICES ASSUME NEW k \in 1 .. tlen', Result'[k] = "c"
               PROVE  /\ k = tlen' /\ ~more'
                      /\ \A j \in 1 .. k - 1 :
                             tokenvec'[j - 1].pos <= tokenvec'[k - 1].pos
    BY DEF CommentIsLast
  <2>1. k - 1 \in 0 .. tlen' - 1 /\ (k - 1 = tlen' - 1 => k = tlen')
    BY <1>a
  <2>2. tokenvec'[k - 1].type = "c"
    BY <1>3
  <2>3. /\ k - 1 = tlen' - 1 /\ ~more'
        /\ \A j \in 0 .. k - 1 - 1 : tokenvec'[j].pos <= tokenvec'[k - 1].pos
    BY <2>1, <2>2
  <2>4. \A j \in 1 .. k - 1 : j - 1 \in 0 .. k - 1 - 1
    BY <1>a
  <2> QED
    BY <2>1, <2>3, <2>4
<1>6. KeptInv' /\ ResultInv' /\ EvilInv'
  BY <1>2 DEF KeptInv, ResultInv, EvilInv
<1>7. CommentInv'
  BY <1>2, <1>5 DEF CommentInv
<1>8. RepeatInv'
  BY <1>2, <1>4 DEF RepeatInv
<1> QED
  BY <1>6, <1>7, <1>8 DEF SqliInv

LEMMA FoldBraceKeeps ==
    ASSUME NEW Char, SqliInv(Char), UNCHANGED fingerprint, FoldBrace
    PROVE  SqliInv(Char)'
<1>1. TwoTokens({"brace"})
  BY DEF FoldBrace
<1>2. /\ Folding /\ left \in 0 .. pos - 2 /\ pos - left >= 2 /\ more = TRUE
      /\ src' = src /\ more' = more /\ last_comment' = last_comment
      /\ fingerprint' = fingerprint /\ left + 1 \in 0 .. pos - 1
      /\ left < MaxTokens
  BY <1>1, TwoTokensFacts
<1>3. /\ pos \in 0 .. 6 /\ left \in 0 .. pos /\ tokenvec \in [Slots -> Tokens(Char)]
      /\ \A k \in 0 .. pos - 1 : k \in Slots /\ tokenvec[k].type \notin {Null, "c"}
      /\ \A k \in 0 .. pos - 2 : k < left => Apart(k)
  BY <1>2, FoldingFacts
<1>4. CASE Drop(2, 0) /\ UNCHANGED tokenvec
  <2>1. 2 \in Nat /\ 0 \in 0 .. left /\ 2 <= pos
    BY <1>2, <1>3
  <2> QED
    BY <1>2, <1>4, <2>1, DropKeeps
<1>5. CASE /\ tokenvec' = [tokenvec EXCEPT ![left + 1].type = "X"]
           /\ tlen' = left + 2 /\ pc' = "done"
           /\ UNCHANGED <<pos, left>>
  <2>1. left \in 0 .. 4 /\ left + 1 \in Slots
    BY <1>2, <1>3 DEF MaxTokens, Slots
  <2>2. "X" \in TokenTypes /\ "X" \notin {Null, "c"} \cup Repeated
    BY DEF TokenTypes, MarkTypes, Repeated, Null
  <2>3. /\ tokenvec' \in [Slots -> Tokens(Char)]
        /\ tokenvec'[left + 1].type = "X"
        /\ \A j \in Slots : j # left + 1 => tokenvec'[j] = tokenvec[j]
    BY <1>3, <1>5, <2>1, <2>2, RetypedToken
  <2>4. tlen' \in 0 .. 6 /\ (tlen' = 6 => left + 1 = 5)
    BY <1>5, <2>1
  <2>5. SqliType(Char)'
    <3>1. ~Folding'
      BY <1>5 DEF Folding
    <3> QED
      BY <1>2, <1>5, <2>3, <2>4, <3>1 DEF SqliInv, SqliType
  <2>6. ASSUME NEW k \in 0 .. tlen' - 1 PROVE tokenvec'[k].type # "c"
    <3>1. k \in 0 .. pos - 1
      BY <1>2, <1>3, <1>5, <2>1
    <3>2. k \in Slots /\ tokenvec[k].type # "c"
      BY <1>3, <3>1
    <3> QED
      BY <2>2, <2>3, <3>2
  <2>7. ASSUME NEW k \in 0 .. tlen' - 2 PROVE Apart(k)'
    <3>1. /\ k \in Slots /\ k + 1 \in Slots /\ k # left + 1
          /\ k \in 0 .. pos - 2 /\ (k + 1 # left + 1 => k < left)
      BY <1>2, <1>3, <1>5, <2>1 DEF Slots
    <3>2. CASE k + 1 = left + 1
      BY <2>2, <2>3, <3>2 DEF Apart
    <3>3. CASE k + 1 # left + 1
      <4>1. Apart(k)
        BY <1>3, <3>1, <3>3
      <4>2. tokenvec'[k] = tokenvec[k] /\ tokenvec'[k + 1] = tokenvec[k + 1]
        BY <2>3, <3>1, <3>3
      <4> QED
        BY <4>1, <4>2 DEF Apart
    <3> QED
      BY <3>2, <3>3
  <2> QED
    BY <1>5, <2>3, <2>4, <2>5, <2>6, <2>7, DoneKeeps
<1> QED
  BY <1>4, <1>5 DEF FoldBrace

LEMMA ToThreeKeeps ==
    ASSUME NEW Char, SqliInv(Char), UNCHANGED fingerprint, ToThree
    PROVE  SqliInv(Char)'
<1> DEFINE rule == TwoTokenRule(A, B)
           type == rule = "collate" /\ \E k \in DOMAIN B.val : B.val[k] = "_"
           t == IF rule = "like" /\ B.type = "(" THEN "f" ELSE tokenvec[left].type
           u == IF type THEN "t" ELSE tokenvec[left + 1].type
<1>1. TwoTokens({"none", "like", "collate"})
  BY DEF ToThree
<1>2. /\ Folding /\ left \in 0 .. pos - 2 /\ pos - left >= 2 /\ more = TRUE
      /\ src' = src /\ more' = more /\ last_comment' = last_comment
      /\ fingerprint' = fingerprint /\ left + 1 \in 0 .. pos - 1
      /\ left < MaxTokens
  BY <1>1, TwoTokensFacts
<1>3. /\ pos \in 0 .. 6 /\ left \in 0 .. pos /\ left \in 0 .. pos - 1
      /\ tokenvec \in [Slots -> Tokens(Char)]
      /\ tokenvec[left].type \in TokenTypes \ {Null, "c"}
      /\ tokenvec[left + 1].type \in TokenTypes \ {Null, "c"}
      /\ left \in Slots /\ left + 1 \in Slots
      /\ \A k \in 0 .. pos - 1 : k \in Slots /\ tokenvec[k].type \notin {Null, "c"}
      /\ \A k \in 0 .. pos - 2 : k < left => Apart(k)
  BY <1>2, FoldingFacts
<1>4. {"f", "t"} \subseteq TokenTypes \ (Repeated \cup {Null, "c"})
  BY DEF TokenTypes, KeywordTypes, Repeated, Null
<1>5. rule \in {"none", "like", "collate"}
  BY <1>1 DEF TwoTokens
<1>6. /\ rule = "none" => ~(A.type = B.type /\ A.type \in Repeated)
      /\ rule # "none" => A.type \notin Repeated
  BY <1>5, TwoTokenRuleSays DEF Repeated
<1>7. /\ tokenvec' = [tokenvec EXCEPT ![left].type = t, ![left + 1].type = u]
      /\ left' = IF type THEN 0 ELSE left
      /\ pc' = "three" /\ pos' = pos /\ tlen' = tlen
  BY DEF ToThree
<1>8. /\ t = A.type \/ t = "f"
      /\ u = B.type \/ u = "t"
      /\ rule = "none" => t = A.type /\ u = B.type
  BY DEF A, B
<1>9. left' = 0 \/ left' = left
  BY <1>7
<1> HIDE DEF t, u, rule, type
<1>10. t \in TokenTypes \ {Null, "c"} /\ u \in TokenTypes \ {Null, "c"}
  BY <1>3, <1>4, <1>8 DEF A, B
<1>11. /\ tokenvec' \in [Slots -> Tokens(Char)]
       /\ tokenvec'[left].type = t /\ tokenvec'[left].pos = tokenvec[left].pos
       /\ tokenvec'[left + 1].type = u
       /\ tokenvec'[left + 1].pos = tokenvec[left + 1].pos
       /\ \A j \in Slots : j # left /\ j # left + 1 => tokenvec'[j] = tokenvec[j]
  BY <1>3, <1>7, <1>10, RetypedTwo
<1>12. ASSUME NEW k \in 0 .. pos - 1
       PROVE  /\ tokenvec'[k].type \notin {Null, "c"}
              /\ tokenvec'[k].pos = tokenvec[k].pos
              /\ tokenvec'[k].type = tokenvec[k].type \/ tokenvec'[k].type \notin Repeated
  <2>1. k \in Slots /\ tokenvec[k].type \notin {Null, "c"}
    BY <1>3
  <2>2. CASE k = left
    BY <1>4, <1>8, <1>10, <1>11, <2>2 DEF A
  <2>3. CASE k = left + 1
    BY <1>4, <1>8, <1>10, <1>11, <2>3 DEF B
  <2>4. CASE k # left /\ k # left + 1
    BY <1>11, <2>1, <2>4
  <2> QED
    BY <2>2, <2>3, <2>4
<1>13. ASSUME NEW k \in 0 .. pos - 2, k <= left PROVE Apart(k)'
  <2>1. CASE k = left
    <3>1. CASE rule = "none"
      BY <1>6, <1>8, <1>11, <2>1, <3>1 DEF Apart
    <3>2. CASE rule # "none"
      <4>1. t \notin Repeated
        BY <1>4, <1>6, <1>8, <3>2
      <4> QED
        BY <1>11, <2>1, <4>1 DEF Apart
    <3> QED
      BY <3>1, <3>2
  <2>2. CASE k # left
    <3>1. k < left /\ k \in 0 .. pos - 1 /\ k + 1 \in 0 .. pos - 1
      BY <1>3, <1>13, <2>2
    <3>2. Apart(k)
      BY <1>3, <3>1
    <3>3. /\ tokenvec'[k].type = tokenvec[k].type
             \/ tokenvec'[k].type \notin Repeated
          /\ tokenvec'[k + 1].type = tokenvec[k + 1].type
             \/ tokenvec'[k + 1].type \notin Repeated
      BY <1>12, <3>1
    <3> QED
      BY <3>2, <3>3 DEF Apart
  <2> QED
    BY <2>1, <2>2
<1>14. Rearranged(Char)
  <2>1. pos' \in 0 .. pos /\ left' \in 0 .. pos'
    BY <1>3, <1>7, <1>9
  <2> QED
    BY <1>2, <1>7, <1>11, <1>12, <2>1 DEF Rearranged
<1>15. RepeatInv'
  <2>1. NothingRepeated'
    BY <1>7 DEF NothingRepeated
  <2>2. /\ \A k \in 0 .. pos' - 2 : k < left' => Apart(k)'
        /\ more' /\ left' < MaxTokens => left' < pos' \/ left' = 0
        /\ left' < MaxTokens /\ (~more' => pos' - left' < 3)
        /\ left' + 1 < pos' /\ Apart(left)'
    <3>1. ASSUME NEW k \in 0 .. pos' - 2, k < left' PROVE Apart(k)'
      BY <1>3, <1>7, <1>9, <1>13, <3>1
    <3>2. left' < pos' \/ left' = 0
      BY <1>2, <1>3, <1>7, <1>9
    <3>3. left' < MaxTokens
      BY <1>2, <1>9 DEF MaxTokens
    <3>4. left' \in 0 .. pos - 2 /\ left' <= left
      BY <1>2, <1>3, <1>9
    <3>5. \A k \in 0 .. pos - 2 : k <= left => Apart(k)'
      BY <1>13
    <3>6. Apart(left)'
      BY <3>4, <3>5 DEF Apart
    <3>7. left' + 1 < pos'
      BY <1>3, <1>7, <3>4
    <3> QED
      BY <1>2, <3>1, <3>2, <3>3, <3>6, <3>7
  <2> QED
    BY <1>7, <2>1, <2>2 DEF RepeatInv
<1> QED
  BY <1>7, <1>14, <1>15, <1>2, RearrangedKeeps

LEMMA AdvanceKeeps ==
    ASSUME NEW Char, SqliInv(Char), UNCHANGED fingerprint, Advance
    PROVE  SqliInv(Char)'
<1> DEFINE t == IF ThreeTokenRule(A, B, C) = "nofunction" THEN "n"
                ELSE tokenvec[left].type
<1>1. ThreeTokens({"none", "nofunction"})
  BY DEF Advance
<1>2. /\ Folding /\ left \in 0 .. pos - 3 /\ pos - left >= 3 /\ more = TRUE
      /\ src' = src /\ more' = more /\ last_comment' = last_comment
      /\ fingerprint' = fingerprint /\ Apart(left)
  BY <1>1, ThreeTokensFacts
<1>3. /\ pos \in 0 .. 6 /\ left \in 0 .. pos - 1
      /\ tokenvec \in [Slots -> Tokens(Char)]
      /\ tokenvec[left].type \in TokenTypes \ {Null, "c"} /\ left \in Slots
      /\ \A k \in 0 .. pos - 1 : k \in Slots /\ tokenvec[k].type \notin {Null, "c"}
      /\ \A k \in 0 .. pos - 2 : k < left => Apart(k)
  <2>1. left \in 0 .. pos - 1 /\ pos \in 0 .. 6
    BY <1>2, FoldingFacts
  <2> QED
    BY <1>2, <2>1, FoldingFacts
<1>4. "n" \in TokenTypes \ (Repeated \cup {Null, "c"})
  BY DEF TokenTypes, KeywordTypes, Repeated, Null
<1>5. /\ tokenvec' = [tokenvec EXCEPT ![left].type = t]
      /\ left' = left + 1 /\ pc' = "full" /\ pos' = pos - 0 /\ tlen' = tlen
  BY DEF Advance, Drop
<1>6. t = tokenvec[left].type \/ t = "n"
  OBVIOUS
<1> HIDE DEF t
<1>7. /\ tokenvec' \in [Slots -> Tokens(Char)]
      /\ tokenvec'[left].type = t /\ tokenvec'[left].pos = tokenvec[left].pos
      /\ \A j \in Slots : j # left => tokenvec'[j] = tokenvec[j]
  BY <1>3, <1>4, <1>5, <1>6, RetypedToken
<1>8. pos' = pos /\ left' < pos' /\ left' \in 0 .. pos'
  BY <1>2, <1>3, <1>5
<1>9. ASSUME NEW k \in 0 .. pos - 1
      PROVE  /\ tokenvec'[k].type \notin {Null, "c"}
             /\ tokenvec'[k].pos = tokenvec[k].pos
             /\ tokenvec'[k].type = tokenvec[k].type \/ tokenvec'[k].type \notin Repeated
  <2>1. k \in Slots /\ tokenvec[k].type \notin {Null, "c"}
    BY <1>3
  <2>2. CASE k = left
    BY <1>4, <1>6, <1>7, <2>1, <2>2
  <2>3. CASE k # left
    BY <1>7, <2>1, <2>3
  <2> QED
    BY <2>2, <2>3
<1>10. ASSUME NEW k \in 0 .. pos - 2, k < left + 1 PROVE Apart(k)'
  <2>1. k \in 0 .. pos - 1 /\ k + 1 \in 0 .. pos - 1 /\ (k < left \/ k = left)
    BY <1>3, <1>10
  <2>2. Apart(k)
    BY <1>2, <1>3, <2>1
  <2>3. /\ tokenvec'[k].type = tokenvec[k].type
           \/ tokenvec'[k].type \notin Repeated
        /\ tokenvec'[k + 1].type = tokenvec[k + 1].type
           \/ tokenvec'[k + 1].type \notin Repeated
    BY <1>9, <2>1
  <2> QED
    BY <2>2, <2>3 DEF Apart
<1>11. Rearranged(Char)
  BY <1>2, <1>3, <1>5, <1>7, <1>8, <1>9 DEF Rearranged
<1>12. RepeatInv'
  <2>1. more' = TRUE /\ pc' = "full" /\ pos' \in Nat /\ left' \in Nat
    BY <1>2, <1>3, <1>5, <1>8
  <2>2. \A k \in 0 .. pos' - 2 : k < left' => Apart(k)'
    BY <1>5, <1>8, <1>10
  <2> QED
    BY <1>8, <2>1, <2>2, RestartKeepsApart
<1> QED
  BY <1>2, <1>5, <1>11, <1>12, RearrangedKeeps

LEMMA FoldFiveKeeps ==
    ASSUME NEW Char, SqliInv(Char), UNCHANGED fingerprint, FoldFive
    PROVE  SqliInv(Char)'
<1>1. /\ Folding /\ src' = src /\ more' = more /\ last_comment' = last_comment
      /\ tlen' = tlen /\ left' = 0 /\ fingerprint' = fingerprint
      /\ pc' = IF more THEN "two" ELSE "end"
      /\ pos >= MaxTokens /\ IsFiveTokens
  BY DEF FoldFive, Folding
<1>2. /\ pos \in 0 .. 6 /\ tokenvec \in [Slots -> Tokens(Char)] /\ more \in BOOLEAN
      /\ \A k \in 0 .. pos - 1 : k \in Slots /\ tokenvec[k] \in Tokens(Char)
      /\ \A k \in 0 .. pos - 1 : tokenvec[k].type \notin {Null, "c"}
  BY <1>1, FoldingFacts
<1>3. 0 \in 0 .. pos - 1 /\ 0 \in Slots /\ 1 \in Slots
  BY <1>1, <1>2 DEF MaxTokens, Slots
<1>4. tokenvec[0].type \in {"1", "n"}
  <2> DEFINE t == [k \in 0 .. 4 |-> tokenvec[k].type]
  <2>1. t[0] = tokenvec[0].type
    OBVIOUS
  <2>2. t[0] = "1" \/ t[0] = "n"
    <3> HIDE DEF t
    <3>1. IsFiveTokens => t[0] = "1" \/ t[0] = "n"
      BY Zenon DEF IsFiveTokens, t
    <3> QED
      BY <1>1, <3>1
  <2> QED
    BY <2>1, <2>2
<1>5. /\ pos' \in {1, 2} /\ pos' \in 0 .. pos
      /\ tokenvec' \in [Slots -> Tokens(Char)] /\ tokenvec'[0] = tokenvec[0]
      /\ \A k \in 0 .. pos' - 1 :
             /\ tokenvec'[k].type \notin {Null, "c"}
             /\ \E m \in 0 .. pos - 1 : tokenvec'[k].pos = tokenvec[m].pos
  <2>1. CASE pos > MaxTokens
    <3>1. pos' = 2 /\ tokenvec' = [tokenvec EXCEPT ![1] = tokenvec[5]]
      BY <2>1 DEF FoldFive, MaxTokens
    <3>2. 5 \in 0 .. pos - 1
      BY <1>2, <2>1 DEF MaxTokens
    <3>3. /\ tokenvec' \in [Slots -> Tokens(Char)] /\ tokenvec'[0] = tokenvec[0]
          /\ tokenvec'[1] = tokenvec[5]
      BY <1>2, <1>3, <3>1, <3>2
    <3>4. \A k \in 0 .. 2 - 1 : k = 0 \/ k = 1
      OBVIOUS
    <3>5. 2 \in 0 .. pos
      BY <1>2, <3>2
    <3> QED
      BY <1>2, <1>3, <3>1, <3>2, <3>3, <3>4, <3>5
  <2>2. CASE ~(pos > MaxTokens)
    <3>1. pos' = 1 /\ tokenvec' = tokenvec
      BY <2>2 DEF FoldFive
    <3>2. \A k \in 0 .. 1 - 1 : k = 0
      OBVIOUS
    <3>3. 1 \in 0 .. pos
      BY <1>1, <1>2 DEF MaxTokens
    <3> QED
      BY <1>2, <1>3, <3>1, <3>2, <3>3
  <2> QED
    BY <2>1, <2>2
<1>6. Rearranged(Char)
  <2>1. left' \in 0 .. pos' /\ pc' \in {"two", "three", "full", "end"}
    BY <1>1, <1>5
  <2> QED
    BY <1>1, <1>5, <2>1 DEF Rearranged
<1>7. RepeatInv'
  <2>1. NothingRepeated'
    BY <1>1 DEF NothingRepeated
  <2>2. \A k \in 0 .. pos' - 2 : ~(k < left')
    BY <1>1, <1>5
  <2>3. 0 < MaxTokens
    BY DEF MaxTokens
  <2>4. tokenvec'[0].type \notin Repeated /\ pos' <= 2
    <3>1. tokenvec'[0].type \in {"1", "n"}
      BY <1>4, <1>5
    <3>2. pos' <= 2
      BY <1>5
    <3> QED
      BY <3>1, <3>2 DEF Repeated
  <2> QED
    BY <1>1, <1>2, <2>1, <2>2, <2>3, <2>4 DEF RepeatInv
<1> QED
  BY <1>1, <1>2, <1>6, <1>7, RearrangedKeeps

LEMMA LoopOrEndKeeps ==
    ASSUME NEW Char, SqliInv(Char), UNCHANGED fingerprint, LoopOrEnd
    PROVE  SqliInv(Char)'
<1>1. /\ Folding /\ pc = "full" /\ src' = src /\ more' = more
      /\ last_comment' = last_comment /\ tlen' = tlen /\ left' = left
      /\ pos' = pos /\ tokenvec' = tokenvec /\ fingerprint' = fingerprint
      /\ pc' = IF more /\ left < MaxTokens THEN "two" ELSE "end"
  BY DEF LoopOrEnd, Folding
<1>2. /\ pos \in 0 .. 6 /\ left \in 0 .. pos /\ more \in BOOLEAN
      /\ tokenvec \in [Slots -> Tokens(Char)]
      /\ \A k \in 0 .. pos - 1 : tokenvec[k].type \notin {Null, "c"}
      /\ \A k \in 0 .. pos - 2 : k < left => Apart(k)
  BY <1>1, FoldingFacts
<1>3. pos \in 0 .. pos
  BY <1>2
<1>4. Rearranged(Char)
  BY <1>1, <1>2, <1>3 DEF Rearranged
<1>5. left < MaxTokens \/ left >= MaxTokens
  BY <1>2 DEF MaxTokens
<1>6. RepeatInv'
  <2>1. NothingRepeated'
    BY <1>1 DEF NothingRepeated
  <2>2. /\ more /\ left < MaxTokens => left < pos \/ left = 0
        /\ ~more => left = pos
    BY <1>1 DEF SqliInv, RepeatInv
  <2>3. \A k \in 0 .. pos' - 2 : k < left' => Apart(k)'
    BY <1>1, <1>2 DEF Apart
  <2> QED
    BY <1>1, <2>1, <2>2, <2>3 DEF RepeatInv
<1> QED
  BY <1>1, <1>4, <1>5, <1>6, RearrangedKeeps

LEMMA TooFewKeeps ==
    ASSUME NEW Char, SqliInv(Char), UNCHANGED fingerprint,
           FewerThanTwo \/ FewerThanThree
    PROVE  SqliInv(Char)'
<1>1. /\ Folding /\ src' = src /\ more' = more
      /\ last_comment' = last_comment /\ tlen' = tlen /\ left' = pos
      /\ pos' = pos /\ tokenvec' = tokenvec /\ fingerprint' = fingerprint
      /\ pc' = "full"
  BY DEF FewerThanTwo, FewerThanThree, TooFew, Folding
<1>2. /\ pos \in 0 .. 6 /\ left \in 0 .. pos /\ more \in BOOLEAN
      /\ tokenvec \in [Slots -> Tokens(Char)]
      /\ \A k \in 0 .. pos - 1 : tokenvec[k].type \notin {Null, "c"}
      /\ \A k \in 0 .. pos - 2 : k < left => Apart(k)
  BY <1>1, FoldingFacts
<1>3. pos \in 0 .. pos
  BY <1>2
<1>4. Rearranged(Char)
  BY <1>1, <1>2, <1>3 DEF Rearranged
<1>5. ASSUME NEW k \in 0 .. pos - 2 PROVE Apart(k)
  <2>1. CASE k < left
    BY <1>2, <2>1
  <2>2. CASE ~(k < left)
    <3>1. ~FewerThanTwo
      BY <1>2, <2>2 DEF FewerThanTwo, TooFew
    <3>2. pc = "three" /\ pos - left < 3
      BY <3>1 DEF FewerThanThree, TooFew
    <3>3. Apart(left)
      BY <3>2 DEF SqliInv, RepeatInv
    <3>4. k = left
      BY <1>2, <2>2, <3>2
    <3> QED
      BY <3>3, <3>4
  <2> QED
    BY <2>1, <2>2
<1>6. more => ~(pos < MaxTokens)
  <2>1. PICK n \in {2, 3} : TooFew(n)
    BY DEF FewerThanTwo, FewerThanThree
  <2>2. ~(more /\ pos <= MaxTokens)
    BY <2>1 DEF TooFew, Wanted
  <2>3. pos \in 0 .. 6
    BY <1>2
  <2> QED
    BY <2>2, <2>3 DEF MaxTokens
<1>7. RepeatInv'
  <2>1. NothingRepeated'
    BY <1>1 DEF NothingRepeated
  <2>2. \A k \in 0 .. pos' - 2 : k < left' => Apart(k)'
    BY <1>1, <1>5 DEF Apart
  <2> QED
    BY <1>1, <1>6, <2>1, <2>2 DEF RepeatInv
<1> QED
  BY <1>1, <1>4, <1>7, RearrangedKeeps

LEMMA Before ==
    ASSUME NEW n \in Nat, NEW p \in Nat, n <= p, n <= MaxTokens
    PROVE  /\ \A k \in 0 .. n - 1 : k \in 0 .. p - 1
           /\ \A k \in 0 .. n - 2 : k \in 0 .. p - 2 /\ k < MaxTokens - 1
BY DEF MaxTokens

LEMMA FinishKeeps ==
    ASSUME NEW Char, SqliInv(Char), UNCHANGED fingerprint, Finish
    PROVE  SqliInv(Char)'
<1>1. /\ Folding /\ pc = "end" /\ src' = src /\ more' = more /\ pos' = pos
      /\ last_comment' = last_comment /\ fingerprint' = fingerprint
      /\ left' = tlen' /\ pc' = "done"
  BY DEF Finish, Folding
<1>2. /\ pos \in 0 .. 6 /\ left \in 0 .. pos /\ more \in BOOLEAN
      /\ tokenvec \in [Slots -> Tokens(Char)]
      /\ \A k \in 0 .. pos - 1 : k \in Slots /\ tokenvec[k].type \notin {Null, "c"}
      /\ \A k \in 0 .. pos - 2 : k < left => Apart(k)
  BY <1>1, FoldingFacts
<1>3. /\ ~more \/ left >= MaxTokens
      /\ ~more => left = pos \/ (pos <= 2 /\ tokenvec[0].type \notin Repeated)
  BY <1>1 DEF SqliInv, CommentInv, RepeatInv
<1>4. ASSUME NEW k \in 0 .. pos - 2, k < MaxTokens - 1 PROVE Apart(k)
  <2>1. CASE k < left
    BY <1>2, <2>1
  <2>2. CASE ~(k < left)
    <3>1. ~more
      BY <1>2, <1>3, <1>4, <2>2 DEF MaxTokens
    <3>2. pos <= 2 /\ tokenvec[0].type \notin Repeated
      BY <1>2, <1>3, <2>2, <3>1
    <3>3. k = 0
      BY <1>2, <3>2
    <3> QED
      BY <3>2, <3>3 DEF Apart
  <2> QED
    BY <2>1, <2>2
<1>5. CASE pos < MaxTokens /\ last_comment.type = "c"
  <2>1. tokenvec' = [tokenvec EXCEPT ![pos] = last_comment] /\ tlen' = pos + 1
    BY <1>5 DEF Finish
  <2>2. pos \in Slots /\ tlen' \in 0 .. 5 /\ ~(left >= MaxTokens)
    BY <1>2, <1>5, <2>1 DEF Slots, MaxTokens
  <2>3. last_comment \in Tokens(Char)
    BY DEF SqliInv, SqliType
  <2>4. /\ tokenvec' \in [Slots -> Tokens(Char)]
        /\ tokenvec'[pos] = last_comment
        /\ \A k \in Slots : k # pos => tokenvec'[k] = tokenvec[k]
    BY <1>2, <2>1, <2>2, <2>3
  <2>5. ASSUME NEW k \in 0 .. pos - 1 PROVE tokenvec'[k] = tokenvec[k]
    <3>1. k # pos
      BY <1>2
    <3> QED
      BY <1>2, <2>4, <3>1
  <2>6. SqliType(Char)'
    <3>1. ~Folding' /\ tlen' \in 0 .. 6
      BY <1>1, <2>2 DEF Folding
    <3> QED
      BY <1>1, <2>4, <3>1 DEF SqliInv, SqliType
  <2>7. ASSUME NEW k \in 0 .. tlen' - 2 PROVE Apart(k)'
    <3>1. /\ k \in 0 .. pos - 1 /\ (k + 1 = pos \/ k + 1 \in 0 .. pos - 1)
          /\ (k + 1 # pos => k \in 0 .. pos - 2 /\ k < MaxTokens - 1)
      BY <1>2, <1>5, <2>1 DEF MaxTokens
    <3>2. CASE k + 1 = pos
      <4>1. tokenvec'[k + 1].type = "c"
        BY <1>5, <2>4, <3>2
      <4> QED
        BY <4>1 DEF Apart, Repeated
    <3>3. CASE k + 1 # pos
      <4>1. Apart(k) /\ tokenvec'[k] = tokenvec[k] /\ tokenvec'[k + 1] = tokenvec[k + 1]
        BY <1>4, <2>5, <3>1, <3>3
      <4> QED
        BY <4>1 DEF Apart
    <3> QED
      BY <3>2, <3>3
  <2>8. ASSUME NEW k \in 0 .. tlen' - 1, tokenvec'[k].type = "c"
        PROVE  /\ k = tlen' - 1 /\ ~more'
               /\ \A j \in 0 .. k - 1 : tokenvec'[j].pos <= tokenvec'[k].pos
    <3>1. k = pos \/ k \in 0 .. pos - 1
      BY <1>2, <2>1
    <3>2. k = pos
      BY <1>2, <2>5, <2>8, <3>1
    <3>3. k = tlen' - 1
      BY <1>2, <2>1, <3>2
    <3>4. \A j \in 0 .. pos - 1 : tokenvec[j].pos <= last_comment.pos
      BY <1>1, <1>5 DEF SqliInv, CommentInv
    <3> QED
      BY <1>1, <1>3, <2>2, <2>4, <2>5, <3>2, <3>3, <3>4
  <2>9. tlen' # 6
    BY <2>2
  <2> QED
    BY <1>1, <2>6, <2>7, <2>8, <2>9, DoneKeeps
<1>6. CASE ~(pos < MaxTokens /\ last_comment.type = "c")
  <2>1. tlen' = Min({pos, MaxTokens}) /\ tokenvec' = tokenvec
    BY <1>6 DEF Finish
  <2>2. tlen' \in 0 .. 5 /\ tlen' <= pos /\ tlen' <= MaxTokens
    <3>1. {pos, MaxTokens} \in SUBSET Nat /\ {pos, MaxTokens} # {}
      BY <1>2 DEF MaxTokens
    <3>2. /\ Min({pos, MaxTokens}) \in {pos, MaxTokens}
          /\ \A n \in {pos, MaxTokens} : Min({pos, MaxTokens}) <= n
      BY <3>1, MinOf
    <3>3. /\ tlen' = pos \/ tlen' = MaxTokens
          /\ tlen' <= pos /\ tlen' <= MaxTokens
      BY <2>1, <3>2
    <3> QED
      BY <1>2, <3>3 DEF MaxTokens
  <2>7. /\ \A k \in 0 .. tlen' - 1 : k \in 0 .. pos - 1
        /\ \A k \in 0 .. tlen' - 2 : k \in 0 .. pos - 2 /\ k < MaxTokens - 1
    <3>1. tlen' \in Nat /\ pos \in Nat
      BY <1>2, <2>2
    <3> QED
      BY <2>2, <3>1, Before
  <2>3. SqliType(Char)'
    <3>1. ~Folding' /\ tlen' \in 0 .. 6
      BY <1>1, <2>2 DEF Folding
    <3> QED
      BY <1>1, <1>2, <2>1, <3>1 DEF SqliInv, SqliType
  <2>4. ASSUME NEW k \in 0 .. tlen' - 2 PROVE Apart(k)'
    <3>1. k \in 0 .. pos - 2 /\ k < MaxTokens - 1
      BY <2>7
    <3> QED
      BY <1>4, <2>1, <3>1 DEF Apart
  <2>5. ASSUME NEW k \in 0 .. tlen' - 1 PROVE tokenvec'[k].type # "c"
    <3>1. k \in 0 .. pos - 1
      BY <2>7
    <3> QED
      BY <1>2, <2>1, <3>1
  <2>6. tlen' # 6
    BY <2>2
  <2> QED
    BY <1>1, <2>3, <2>4, <2>5, <2>6, DoneKeeps
<1> QED
  BY <1>5, <1>6

-----------------------------------------------------------------------------
(* Reading a token.                                                         *)

LEMMA TokenRead ==
    ASSUME NEW Char, NEW st \in Sources(Char), st.pos <= Len(st.s)
    PROVE  LET t == Tokenize(st)
           IN  /\ t.tok \in Tokens(Char) /\ t.src \in Sources(Char)
               /\ t.more \in BOOLEAN /\ (t.more <=> t.tok.type # Null)
               /\ t.src.pos <= Len(t.src.s) /\ st.pos <= t.src.pos
               /\ t.more => /\ st.pos < t.src.pos /\ st.pos <= t.tok.pos
                            /\ t.tok.pos <= t.src.pos
                            /\ t.src.tokens = st.tokens + 1
               /\ ~t.more => t.src.tokens = st.tokens
<1> DEFINE r == libinjection_sqli_tokenize(st.s, st.pos, st.quote, st.sql)
           q == r.pos
           u == st.stats \cup r.stats
           n == IF r.tok.type # Null THEN st.tokens + 1 ELSE st.tokens
           w == [st EXCEPT !.pos = q, !.stats = u, !.tokens = n]
           t == Tokenize(st)
<1>1. /\ st.s \in Seq(Char) /\ st.pos \in 0 .. Len(st.s) /\ st.tokens \in Nat
      /\ st.stats \in SUBSET {"hash", "ddx"} /\ Len(st.s) \in Nat
  <2>1. /\ st.s \in Seq(Char) /\ st.pos \in Nat /\ st.tokens \in Nat
        /\ st.stats \in SUBSET {"hash", "ddx"}
    BY DEF Sources
  <2>2. Len(st.s) \in Nat
    BY <2>1
  <2> QED
    BY <2>1, <2>2
<1>2. \/ r = Parsed(NoToken, Len(st.s))
      \/ r \in Parses(Char, st.s, st.pos, TokenTypes)
  BY <1>1, TokenizerParses
<1>3. t.more = (r.tok.type # Null) /\ t.tok = r.tok /\ t.src = w
  BY DEF Tokenize, Read
<1>4. NoToken \in Tokens(Char) /\ NoToken.type = Null
  BY EmptySeq DEF NoToken, Tokens, Marks
<1>5. Null \notin TokenTypes
  BY DEF TokenTypes, KeywordTypes, MarkTypes, Null
<1> HIDE DEF r
<1>6. CASE r = Parsed(NoToken, Len(st.s))
  <2>1. /\ r.tok = NoToken /\ r.pos = Len(st.s)
        /\ r.stats \in SUBSET {"hash", "ddx"}
    BY <1>6 DEF Parsed
  <2>2. q \in Nat /\ u \in SUBSET {"hash", "ddx"} /\ n \in Nat /\ n = st.tokens
    BY <1>1, <1>4, <2>1
  <2>3. w \in Sources(Char) /\ w.s = st.s /\ w.pos = q /\ w.tokens = n
    <3> HIDE DEF q, u, n
    <3> QED
      BY <2>2 DEF Sources
  <2> HIDE DEF w, q, u, n, t
  <2>4. /\ t.tok = NoToken /\ t.src = w /\ t.more = FALSE /\ q = Len(st.s)
    BY <1>3, <1>4, <2>1 DEF q
  <2>5. /\ w.pos <= Len(w.s) /\ st.pos <= w.pos /\ w.tokens = st.tokens
    BY <1>1, <2>2, <2>3, <2>4
  <2>6. /\ t.tok \in Tokens(Char) /\ t.src \in Sources(Char)
        /\ t.more \in BOOLEAN /\ (t.more <=> t.tok.type # Null)
        /\ t.src.pos <= Len(t.src.s) /\ st.pos <= t.src.pos
        /\ ~t.more => t.src.tokens = st.tokens
    BY <1>4, <2>3, <2>4, <2>5
  <2> QED
    BY <2>4, <2>6 DEF t
<1>7. CASE r \in Parses(Char, st.s, st.pos, TokenTypes)
  <2>1. /\ r.tok \in Tokens(Char) /\ r.pos \in st.pos + 1 .. Len(st.s)
        /\ r.stats \in SUBSET {"hash", "ddx"} /\ r.tok.type \in TokenTypes
        /\ st.pos <= r.tok.pos /\ r.tok.pos + r.tok.len <= r.pos
    BY <1>7 DEF Parses
  <2>2. /\ q \in Nat /\ u \in SUBSET {"hash", "ddx"} /\ n \in Nat
        /\ st.pos < q /\ st.pos <= q /\ q <= Len(st.s)
    BY <1>1, <2>1
  <2>3. w \in Sources(Char) /\ w.s = st.s /\ w.pos = q /\ w.tokens = n
    <3> HIDE DEF q, u, n
    <3> QED
      BY <2>2 DEF Sources
  <2>4. r.tok.pos <= q
    <3>1. r.tok.pos \in Nat /\ r.tok.len \in Nat /\ q \in Nat
      BY <2>1, <2>2 DEF Tokens
    <3> QED
      BY <2>1, <3>1
  <2>5. r.tok.type # Null /\ n = st.tokens + 1
    BY <1>5, <2>1
  <2> HIDE DEF w, q, u, n, t
  <2>6. /\ t.tok = r.tok /\ t.src = w /\ t.more = TRUE
    BY <1>3, <2>5
  <2>8. st.pos <= r.tok.pos /\ r.tok \in Tokens(Char)
    BY <2>1
  <2>7. /\ t.tok \in Tokens(Char) /\ t.src \in Sources(Char)
        /\ t.more \in BOOLEAN /\ (t.more <=> t.tok.type # Null)
        /\ t.src.pos <= Len(t.src.s) /\ st.pos <= t.src.pos
        /\ st.pos < t.src.pos /\ st.pos <= t.tok.pos
        /\ t.tok.pos <= t.src.pos /\ t.src.tokens = st.tokens + 1
    BY <2>2, <2>3, <2>4, <2>5, <2>6, <2>8, Zenon
  <2> QED
    BY <2>6, <2>7 DEF t
<1> QED
  BY <1>2, <1>6, <1>7

LEMMA FetchKeeps ==
    ASSUME NEW Char, SqliInv(Char), UNCHANGED fingerprint, FetchTwo \/ FetchThree
    PROVE  SqliInv(Char)'
<1> DEFINE t == Tokenize(src)
<1>1. /\ pc \in {"two", "three"} /\ more /\ pos <= MaxTokens /\ FetchToken
      /\ pc = "two" => pos - left < 2
      /\ pc = "three" => pos - left < 3
  BY DEF FetchTwo, FetchThree, Wanted
<1>2. Folding
  BY <1>1 DEF Folding
<1>3. /\ pos \in 0 .. 5 /\ left \in 0 .. pos /\ tlen = 0
      /\ tokenvec \in [Slots -> Tokens(Char)]
      /\ \A k \in 0 .. pos - 1 : k \in Slots /\ tokenvec[k] \in Tokens(Char)
                                 /\ tokenvec[k].type \notin {Null, "c"}
      /\ \A k \in 0 .. pos - 2 : k < left => Apart(k)
  <2>1. pos \in 0 .. 6
    BY <1>2, FoldingFacts
  <2>2. pos \in 0 .. 5
    BY <1>1, <2>1 DEF MaxTokens
  <2> QED
    BY <1>2, <2>2, FoldingFacts
<1>4. src \in Sources(Char) /\ src.pos <= Len(src.s) /\ last_comment \in Tokens(Char)
  BY DEF SqliInv, SqliType
<1>5. /\ t.tok \in Tokens(Char) /\ t.src \in Sources(Char)
      /\ t.more \in BOOLEAN /\ (t.more <=> t.tok.type # Null)
      /\ t.src.pos <= Len(t.src.s) /\ src.pos <= t.src.pos
      /\ t.more => src.pos <= t.tok.pos /\ t.tok.pos <= t.src.pos
  BY <1>4, TokenRead
<1>6. /\ src' = t.src /\ more' = t.more
      /\ tokenvec' = [tokenvec EXCEPT ![pos] = t.tok]
      /\ last_comment' = IF ~t.more THEN last_comment
                         ELSE IF t.tok.type = "c" THEN t.tok
                         ELSE [last_comment EXCEPT !.type = Null]
      /\ pos' = IF t.more /\ t.tok.type # "c" THEN pos + 1 ELSE pos
      /\ left' = left /\ pc' = pc /\ tlen' = tlen
  BY <1>1 DEF FetchToken
<1> HIDE DEF t
<1>7. pos \in Slots
  BY <1>3 DEF Slots
<1>8. /\ tokenvec' \in [Slots -> Tokens(Char)] /\ tokenvec'[pos] = t.tok
      /\ \A k \in Slots : k # pos => tokenvec'[k] = tokenvec[k]
  BY <1>3, <1>5, <1>6, <1>7
<1>9. \A k \in 0 .. pos - 1 : tokenvec'[k] = tokenvec[k]
  <2>1. \A k \in 0 .. pos - 1 : k # pos
    BY <1>3
  <2> QED
    BY <1>3, <1>8, <2>1
<1>10. /\ pos' \in 0 .. 6 /\ left' \in 0 .. 6 /\ left' <= pos'
       /\ pos' = pos \/ (pos' = pos + 1 /\ t.more /\ t.tok.type # "c")
       /\ \A k \in 0 .. pos' - 1 :
              k \in 0 .. pos - 1 \/ (k = pos /\ t.more /\ t.tok.type # "c")
  <2>1. CASE t.more /\ t.tok.type # "c"
    <3>1. pos' = pos + 1 /\ left' = left
      BY <1>6, <2>1
    <3> QED
      BY <1>3, <2>1, <3>1
  <2>2. CASE ~(t.more /\ t.tok.type # "c")
    <3>1. pos' = pos /\ left' = left
      BY <1>6, <2>2
    <3> QED
      BY <1>3, <3>1
  <2> QED
    BY <2>1, <2>2
<1>11. last_comment' \in Tokens(Char)
  <2>1. [last_comment EXCEPT !.type = Null] \in Tokens(Char)
    BY <1>4 DEF Tokens
  <2> QED
    BY <1>4, <1>5, <1>6, <2>1
<1>12. Folding' /\ pc' \in {"two", "three"} /\ pc' = pc
  BY <1>1, <1>6 DEF Folding
<1>13. SqliType(Char)'
  BY <1>5, <1>6, <1>8, <1>10, <1>11, <1>12 DEF SqliInv, SqliType
<1>14. KeptInv'
  <2> SUFFICES ASSUME NEW k \in 0 .. pos' - 1
               PROVE  tokenvec'[k].type \notin {Null, "c"}
    BY DEF KeptInv
  <2>1. CASE k \in 0 .. pos - 1
    BY <1>3, <1>9, <2>1
  <2>2. CASE k = pos /\ t.more /\ t.tok.type # "c"
    BY <1>5, <1>8, <2>2
  <2> QED
    BY <1>10, <2>1, <2>2
<1>15. ResultInv' /\ EvilInv'
  BY <1>3, <1>6, <1>12 DEF ResultInv, EvilInv
<1>16. CommentInv'
  <2>1. /\ \A k \in 0 .. pos - 1 : tokenvec[k].pos <= src.pos
        /\ last_comment.type = "c" =>
            /\ last_comment.pos <= src.pos
            /\ \A k \in 0 .. pos - 1 : tokenvec[k].pos <= last_comment.pos
    BY <1>2 DEF SqliInv, CommentInv
  <2>2. \A x \in Tokens(Char) : x.pos \in Nat
    BY DEF Tokens
  <2>3. src.pos \in Nat /\ t.src.pos \in Nat
    BY <1>4, <1>5 DEF Sources
  <2>4. \A x \in Nat, y \in Nat, z \in Nat : x <= y /\ y <= z => x <= z
    OBVIOUS
  <2>5. ASSUME NEW k \in 0 .. pos' - 1 PROVE tokenvec'[k].pos <= src'.pos
    <3>1. CASE k \in 0 .. pos - 1
      <4>1. tokenvec[k].pos \in Nat /\ tokenvec[k].pos <= src.pos
        BY <1>3, <2>1, <2>2, <3>1
      <4> QED
        BY <1>5, <1>6, <1>9, <2>3, <2>4, <3>1, <4>1
    <3>2. CASE k = pos /\ t.more
      BY <1>5, <1>6, <1>8, <3>2
    <3> QED
      BY <1>10, <3>1, <3>2
  <2>6. ASSUME last_comment'.type = "c"
        PROVE  /\ last_comment'.pos <= src'.pos
               /\ \A k \in 0 .. pos' - 1 : tokenvec'[k].pos <= last_comment'.pos
    <3>1. CASE ~t.more
      <4>1. last_comment' = last_comment /\ pos' = pos
        BY <1>6, <3>1
      <4>2. last_comment.pos \in Nat /\ last_comment.pos <= src.pos
        BY <1>4, <2>1, <2>2, <2>6, <4>1
      <4>3. last_comment.pos <= src'.pos
        BY <1>5, <1>6, <2>3, <2>4, <4>2
      <4> QED
        BY <1>9, <2>1, <2>6, <4>1, <4>3
    <3>2. CASE t.more /\ t.tok.type = "c"
      <4>1. last_comment' = t.tok /\ pos' = pos
        BY <1>6, <3>2
      <4>2. ASSUME NEW k \in 0 .. pos - 1 PROVE tokenvec'[k].pos <= t.tok.pos
        <5>1. tokenvec[k].pos \in Nat /\ tokenvec[k].pos <= src.pos
          BY <1>3, <2>1, <2>2
        <5> QED
          BY <1>5, <1>9, <2>2, <2>3, <2>4, <3>2, <5>1
      <4> QED
        BY <1>5, <1>6, <3>2, <4>1, <4>2
    <3>3. CASE t.more /\ t.tok.type # "c"
      <4>1. last_comment'.type = Null
        BY <1>4, <1>6, <3>3 DEF Tokens
      <4> QED
        BY <2>6, <4>1 DEF Null
    <3> QED
      BY <3>1, <3>2, <3>3
  <2>7. CommentIsLast'
    BY <1>12 DEF CommentIsLast
  <2>8. pc' # "skip" /\ pc' # "end"
    BY <1>12
  <2> QED
    BY <2>5, <2>6, <2>7, <2>8 DEF CommentInv
<1>17. RepeatInv'
  <2>1. /\ left < MaxTokens
        /\ more /\ left < MaxTokens => left < pos \/ left = 0
        /\ pc = "three" => left + 1 < pos /\ Apart(left)
    BY <1>1, <1>2 DEF SqliInv, RepeatInv
  <2>2. left < pos \/ left = 0
    BY <1>1, <2>1
  <2>3. ASSUME NEW k \in 0 .. pos - 2, Apart(k) PROVE Apart(k)'
    <3>1. k \in 0 .. pos - 1 /\ k + 1 \in 0 .. pos - 1
      BY <1>3
    <3> QED
      BY <1>9, <2>3, <3>1 DEF Apart
  <2>4. ASSUME NEW k \in 0 .. pos' - 2, k < left' PROVE Apart(k)'
    <3>1. k \in 0 .. pos - 2 /\ k < left
      BY <1>3, <1>6, <1>10, <2>2, <2>4
    <3> QED
      BY <1>3, <2>3, <3>1
  <2>5. left' < pos' \/ left' = 0
    BY <1>3, <1>6, <1>10, <2>2
  <2>6. ~more' => pos' = pos
    BY <1>6
  <2>7. pc' = "two" /\ ~more' => pos' - left' < 2
    BY <1>1, <1>6, <2>6
  <2>8. pc' = "three" =>
            /\ ~more' => pos' - left' < 3
            /\ left' + 1 < pos' /\ Apart(left)'
    <3> SUFFICES ASSUME pc' = "three"
                 PROVE  /\ ~more' => pos' - left' < 3
                        /\ left' + 1 < pos' /\ Apart(left)'
      OBVIOUS
    <3>1. left + 1 < pos /\ Apart(left) /\ pos - left < 3
      BY <1>1, <1>6, <2>1
    <3>2. left \in 0 .. pos - 2
      BY <1>3, <3>1
    <3>3. Apart(left)'
      <4>1. \A k \in 0 .. pos - 2 : Apart(k) => Apart(k)'
        BY <2>3
      <4>2. left' = left
        BY <1>6
      <4> QED
        BY <3>1, <3>2, <4>1, <4>2 DEF Apart
    <3>4. left' + 1 < pos'
      BY <1>3, <1>6, <1>10, <3>1
    <3> QED
      BY <1>6, <2>6, <3>1, <3>3, <3>4
  <2>9. NothingRepeated'
    BY <1>12 DEF NothingRepeated
  <2>10. left' < MaxTokens
    BY <1>6, <2>1
  <2> QED
    BY <1>12, <2>4, <2>5, <2>7, <2>8, <2>9, <2>10 DEF RepeatInv
<1> QED
  BY <1>13, <1>14, <1>15, <1>16, <1>17 DEF SqliInv

LEMMA SkipInitialKeeps ==
    ASSUME NEW Char, SqliInv(Char), UNCHANGED fingerprint, SkipInitial
    PROVE  SqliInv(Char)'
<1> DEFINE t == Tokenize(src)
           skip == t.tok.type \in {"c", "(", "t"} \/ st_is_unary_op(t.tok)
<1>1. /\ src' = t.src /\ more' = t.more
      /\ tokenvec' = [tokenvec EXCEPT ![0] = t.tok]
      /\ pos' = IF t.more /\ ~skip THEN 1 ELSE 0
      /\ pc' = IF ~t.more THEN "done" ELSE IF skip THEN "skip" ELSE "full"
      /\ left' = left /\ last_comment' = last_comment /\ tlen' = tlen
  BY DEF SkipInitial
<1>2. pc = "skip" /\ Folding
  BY DEF SkipInitial, Folding
<1>3. src \in Sources(Char) /\ src.pos <= Len(src.s) /\ last_comment \in Tokens(Char)
  BY DEF SqliInv, SqliType
<1>4. /\ t.tok \in Tokens(Char) /\ t.src \in Sources(Char)
      /\ t.more \in BOOLEAN /\ (t.more <=> t.tok.type # Null)
      /\ t.src.pos <= Len(t.src.s)
      /\ t.more => t.tok.pos <= t.src.pos
  BY <1>3, TokenRead
<1>5. left = 0 /\ last_comment.type # "c" /\ tlen = 0
  BY <1>2 DEF SqliInv, RepeatInv, CommentInv, ResultInv
<1>6. t.tok.type = "c" => skip
  OBVIOUS
<1> HIDE DEF skip, t
<1>7. tokenvec' \in [Slots -> Tokens(Char)] /\ tokenvec'[0] = t.tok
  <2>1. 0 \in Slots /\ tokenvec \in [Slots -> Tokens(Char)]
    BY DEF Slots, SqliInv, SqliType
  <2> QED
    BY <1>1, <1>4, <2>1
<1>8. /\ pos' \in {0, 1} /\ pos' \in 0 .. 6 /\ left' = 0 /\ left' \in 0 .. 6
      /\ left' <= pos'
  BY <1>1, <1>5
<1>9. pc' \in {"skip", "full", "done"} /\ tlen' = 0 /\ tlen' \in 0 .. 6
  BY <1>1, <1>5
<1>10. SqliType(Char)'
  BY <1>1, <1>3, <1>4, <1>7, <1>8, <1>9 DEF SqliInv, SqliType
<1>11. CASE ~t.more
  <2>1. pc' = "done" /\ tlen' # 6
    BY <1>1, <1>9, <1>11
  <2>2. (\A k : k \notin 0 .. tlen' - 2) /\ (\A k : k \notin 0 .. tlen' - 1)
    BY <1>9
  <2> QED
    BY <1>10, <2>1, <2>2, DoneKeeps
<1>12. CASE t.more
  <2>1. /\ Folding' /\ pc' \in {"skip", "full"} /\ more' = TRUE
        /\ pos' = 1 => t.tok.type # "c" /\ pc' = "full"
    BY <1>1, <1>4, <1>6, <1>12 DEF Folding
  <2>2. \A k \in 0 .. pos' - 1 : k = 0 /\ pos' = 1
    <3>1. \A q \in {0, 1} : \A k \in 0 .. q - 1 : k = 0 /\ q = 1
      OBVIOUS
    <3> QED
      BY <1>8, <3>1
  <2>3. KeptInv'
    BY <1>4, <1>7, <1>12, <2>1, <2>2 DEF KeptInv
  <2>4. ResultInv' /\ EvilInv'
    BY <1>9, <2>1 DEF ResultInv, EvilInv
  <2>5. CommentInv'
    <3>1. CommentIsLast'
      BY <2>1 DEF CommentIsLast
    <3>2. \A k \in 0 .. pos' - 1 : tokenvec'[k].pos <= src'.pos
      BY <1>1, <1>4, <1>7, <1>12, <2>2
    <3> QED
      BY <1>1, <1>5, <2>1, <3>1, <3>2 DEF CommentInv
  <2>6. RepeatInv'
    <3>1. NothingRepeated'
      BY <2>1 DEF NothingRepeated
    <3>2. \A k \in 0 .. pos' - 2 : ~(k < left')
      BY <1>8
    <3> QED
      BY <1>8, <2>1, <3>1, <3>2 DEF RepeatInv
  <2> QED
    BY <1>10, <2>3, <2>4, <2>5, <2>6 DEF SqliInv
<1> QED
  BY <1>4, <1>11, <1>12

-----------------------------------------------------------------------------
(* The contexts.                                                            *)

LEMMA StartsKept ==
    ASSUME NEW Char, NEW s \in Seq(Char),
           NEW quote \in {"none", "single", "double"}, NEW sql \in {"ansi", "mysql"},
           FoldInit(Source(s, quote, sql)), fingerprint = <<>>
    PROVE  SqliInv(Char)
<1>1. /\ src = Source(s, quote, sql) /\ tokenvec = [k \in Slots |-> NoToken]
      /\ pos = 0 /\ left = 0 /\ more = TRUE /\ last_comment = NoToken
      /\ pc = "skip" /\ tlen = 0
  BY DEF FoldInit
<1>2. NoToken \in Tokens(Char) /\ NoToken.type = Null
  BY EmptySeq DEF NoToken, Tokens, Marks
<1>3. src \in Sources(Char) /\ src.pos = 0 /\ src.s = s
  BY <1>1 DEF Source, Sources
<1>4. Len(s) \in Nat
  OBVIOUS
<1>5. SqliType(Char)
  <2>1. fingerprint \in Seq(TokenTypes \cup {Null})
    BY EmptySeq
  <2>2. 0 \in 0 .. 6 /\ 0 <= Len(s) /\ 0 <= 0
    BY <1>4
  <2> QED
    BY <1>1, <1>2, <1>3, <2>1, <2>2 DEF SqliType
<1>6. Folding /\ \A k : k \notin 0 .. pos - 1 /\ k \notin 0 .. pos - 2
  BY <1>1 DEF Folding
<1>7. KeptInv /\ ResultInv /\ EvilInv
  BY <1>1, <1>6 DEF KeptInv, ResultInv, EvilInv
<1>8. CommentInv
  BY <1>1, <1>2, <1>6 DEF CommentInv, CommentIsLast, Null
<1>9. RepeatInv
  BY <1>1, <1>6 DEF RepeatInv, NothingRepeated
<1> QED
  BY <1>5, <1>7, <1>8, <1>9 DEF SqliInv

LEMMA RestartsKept ==
    ASSUME NEW Char, NEW s \in Seq(Char),
           NEW quote \in {"none", "single", "double"}, NEW sql \in {"ansi", "mysql"},
           src' = Source(s, quote, sql), tokenvec' = [k \in Slots |-> NoToken],
           pos' = 0, left' = 0, more' = TRUE, last_comment' = NoToken,
           pc' = "skip", tlen' = 0, fingerprint' = <<>>
    PROVE  SqliInv(Char)'
<1>2. NoToken \in Tokens(Char) /\ NoToken.type = Null
  BY EmptySeq DEF NoToken, Tokens, Marks
<1>3. src' \in Sources(Char) /\ src'.pos = 0 /\ src'.s = s
  BY DEF Source, Sources
<1>4. Len(s) \in Nat
  OBVIOUS
<1>5. SqliType(Char)'
  <2>1. fingerprint' \in Seq(TokenTypes \cup {Null})
    BY EmptySeq
  <2>2. 0 \in 0 .. 6 /\ 0 <= Len(s) /\ 0 <= 0
    BY <1>4
  <2> QED
    BY <1>2, <1>3, <2>1, <2>2 DEF SqliType
<1>6. Folding' /\ \A k : k \notin 0 .. pos' - 1 /\ k \notin 0 .. pos' - 2
  BY DEF Folding
<1>7. KeptInv' /\ ResultInv' /\ EvilInv'
  BY <1>6 DEF KeptInv, ResultInv, EvilInv
<1>8. CommentInv'
  BY <1>2, <1>6 DEF CommentInv, CommentIsLast, Null
<1>9. RepeatInv'
  BY <1>6 DEF RepeatInv, NothingRepeated
<1> QED
  BY <1>5, <1>7, <1>8, <1>9 DEF SqliInv

LEMMA ResetKeeps ==
    ASSUME NEW Char, SqliInv(Char), Reset
    PROVE  SqliInv(Char)'
<1>1. PICK c \in NextContexts : src' = Source(src.s, c.quote, c.sql)
  BY DEF Reset
<1>2. /\ c.quote \in {"none", "single", "double"} /\ c.sql \in {"ansi", "mysql"}
      /\ src.s \in Seq(Char)
  <2>1. src \in Sources(Char)
    BY DEF SqliInv, SqliType
  <2>2. src.quote \in {"none", "single", "double"} /\ src.s \in Seq(Char)
    BY <2>1 DEF Sources
  <2>3. \/ c = [quote |-> src.quote, sql |-> "mysql"]
        \/ c = [quote |-> "single", sql |-> "ansi"]
        \/ c = [quote |-> "double", sql |-> "mysql"]
    BY <1>1, Zenon DEF NextContexts
  <2> QED
    BY <2>2, <2>3
<1>3. /\ tokenvec' = [k \in Slots |-> NoToken]
      /\ pos' = 0 /\ left' = 0 /\ more' = TRUE /\ last_comment' = NoToken
      /\ pc' = "skip" /\ tlen' = 0 /\ fingerprint' = <<>>
  BY DEF Reset
<1> QED
  BY <1>1, <1>2, <1>3, RestartsKept

LEMMA FingerprintKeeps ==
    ASSUME NEW Char, Blank \in Char, "X" \in Char, SqliInv(Char),
           libinjection_sqli_fingerprint
    PROVE  SqliInv(Char)'
<1> DEFINE types == IF tlen > 2 /\ PhpBacktick(tokenvec[tlen - 1])
                    THEN [Result EXCEPT ![tlen] = "c"] ELSE Result
           evil  == \E k \in 1 .. tlen : types[k] = "X"
<1>1. /\ pc = "done" /\ pc' = "judge" /\ src' = src /\ pos' = pos /\ left' = left
      /\ more' = more /\ last_comment' = last_comment /\ tlen' = tlen
      /\ fingerprint' = IF evil THEN <<"X">> ELSE types
      /\ tokenvec' = IF evil
              THEN [tokenvec EXCEPT ![0].type = "X", ![0].val = <<"X">>,
                                    ![1].type = Null]
              ELSE [k \in Slots |-> IF k < tlen
                      THEN [tokenvec[k] EXCEPT !.type = types[k + 1]]
                      ELSE tokenvec[k]]
  BY DEF libinjection_sqli_fingerprint
<1>2. /\ tokenvec \in [Slots -> Tokens(Char)] /\ tlen \in 0 .. 6 /\ tlen \in 0 .. 8
      /\ tlen \in Nat
      /\ tlen = 6 => tokenvec[5].type = "X"
  BY DEF SqliInv, SqliType, ResultInv
<1>3. \A k \in Slots : tokenvec[k].type \in TokenTypes \cup {Null}
  BY <1>2 DEF Tokens
<1> DEFINE S == TokenTypes \cup {Null}
<1>4. /\ Result \in Seq(S) /\ Len(Result) = tlen /\ DOMAIN Result = 1 .. tlen
      /\ \A k \in 1 .. tlen : Result[k] = tokenvec[k - 1].type
  <2>1. /\ Result \in Seq({tokenvec[k].type : k \in Slots})
        /\ Len(Result) = tlen /\ DOMAIN Result = 1 .. tlen
        /\ \A k \in 1 .. tlen : Result[k] = tokenvec[k - 1].type
    BY <1>2, ResultIs DEF Result
  <2>2. {tokenvec[k].type : k \in Slots} \subseteq S
    BY <1>3
  <2> QED
    BY <2>1, <2>2, SeqMonotonic
<1>5. "X" \in S /\ "c" \in S /\ Null \in S
  BY DEF TokenTypes, MarkTypes
<1>6. types \in Seq(S) /\ \A k \in 1 .. tlen : types[k] \in S
  <2>1. CASE tlen > 2 /\ PhpBacktick(tokenvec[tlen - 1])
    <3>1. tlen \in 1 .. Len(Result)
      BY <1>2, <1>4, <2>1
    <3>2. /\ [Result EXCEPT ![tlen] = "c"] \in Seq(S)
          /\ Len([Result EXCEPT ![tlen] = "c"]) = Len(Result)
      BY <1>4, <1>5, <3>1, ExceptSeq
    <3>3. types = [Result EXCEPT ![tlen] = "c"]
      BY <2>1
    <3> HIDE DEF types, S
    <3> QED
      BY <1>4, <3>2, <3>3, ElementOfSeq
  <2>2. CASE ~(tlen > 2 /\ PhpBacktick(tokenvec[tlen - 1]))
    <3>1. types = Result
      BY <2>2
    <3> HIDE DEF types, S
    <3> QED
      BY <1>4, <3>1, ElementOfSeq
  <2> QED
    BY <2>1, <2>2
<1>7. tlen = 6 => types[6] = "X"
  <2> SUFFICES ASSUME tlen = 6 PROVE types[6] = "X"
    OBVIOUS
  <2>1. ~PhpBacktick(tokenvec[tlen - 1])
    BY <1>2 DEF PhpBacktick
  <2>2. types = Result /\ 6 \in 1 .. tlen /\ 6 - 1 = 5
    BY <2>1
  <2>3. Result[6] = tokenvec[5].type
    BY <1>4, <2>2
  <2> QED
    BY <1>2, <2>2, <2>3
<1> HIDE DEF types
<1>8. ~Folding'
  BY <1>1 DEF Folding
<1>9. CASE evil
  <2>1. fingerprint' = <<"X">>
    BY <1>1, <1>9
  <2>2. fingerprint' \in Seq(S)
    <3> HIDE DEF S
    <3> QED
      BY <1>5, <2>1
  <2> HIDE DEF evil
  <2> DEFINE v == [tokenvec EXCEPT ![0].type = "X"]
             x == <<"X">>
             w == [v EXCEPT ![0].val = x]
  <2>3. tokenvec' = [w EXCEPT ![1].type = Null]
    BY <1>1, <1>9
  <2>4. 0 \in Slots /\ 1 \in Slots /\ 5 \in Slots /\ 5 # 0 /\ 5 # 1
    BY DEF Slots
  <2>5. x \in Seq(Char) /\ "X" \in TokenTypes \cup {Null} /\ Null \in TokenTypes \cup {Null}
    BY <1>5
  <2> HIDE DEF x
  <2>6. v \in [Slots -> Tokens(Char)] /\ v[5] = tokenvec[5]
    BY <1>2, <2>4, <2>5, RetypedToken
  <2> HIDE DEF v
  <2>7. w \in [Slots -> Tokens(Char)] /\ w[5] = v[5]
    <3>1. v[0] \in Tokens(Char)
      BY <2>4, <2>6
    <3> DEFINE y == [v[0] EXCEPT !.val = x]
    <3>2. y \in Tokens(Char)
      BY <2>5, <3>1 DEF Tokens
    <3>3. w = [v EXCEPT ![0] = y]
      OBVIOUS
    <3> HIDE DEF y
    <3> QED
      BY <2>4, <2>6, <3>2, <3>3
  <2> HIDE DEF w
  <2>8. tokenvec' \in [Slots -> Tokens(Char)] /\ tokenvec'[5] = tokenvec[5]
    BY <2>3, <2>4, <2>5, <2>6, <2>7, RetypedToken
  <2>9. SqliType(Char)'
    BY <1>1, <1>8, <2>2, <2>8 DEF SqliInv, SqliType
  <2>10. KeptInv' /\ ResultInv' /\ EvilInv'
    BY <1>1, <1>2, <1>8, <2>1, <2>8 DEF KeptInv, ResultInv, EvilInv
  <2>11. CommentInv' /\ RepeatInv'
    BY <1>1, <1>8 DEF CommentInv, RepeatInv, CommentIsLast, NothingRepeated
  <2> QED
    BY <2>9, <2>10, <2>11 DEF SqliInv
<1>10. CASE ~evil
  <2>1. fingerprint' = types /\ fingerprint' \in Seq(S)
    BY <1>1, <1>6, <1>10
  <2>2. tokenvec' = [k \in Slots |-> IF k < tlen
                        THEN [tokenvec[k] EXCEPT !.type = types[k + 1]]
                        ELSE tokenvec[k]]
    BY <1>1, <1>10
  <2>3. \A k \in 1 .. tlen : types[k] # "X"
    BY <1>10
  <2> HIDE DEF evil
  <2>4. \A k \in 0 .. tlen - 1 : k + 1 \in 1 .. tlen /\ k \in Slots /\ k < tlen
    BY <1>2 DEF Slots
  <2>5. ASSUME NEW k \in Slots, k < tlen
        PROVE  [tokenvec[k] EXCEPT !.type = types[k + 1]] \in Tokens(Char)
    <3>1. k + 1 \in 1 .. tlen
      BY <1>2, <2>5 DEF Slots
    <3>2. types[k + 1] \in S /\ tokenvec[k] \in Tokens(Char)
      BY <1>2, <1>6, <3>1
    <3> QED
      BY <3>2 DEF Tokens
  <2>6. tokenvec' \in [Slots -> Tokens(Char)]
    BY <1>2, <2>2, <2>5
  <2>7. ASSUME NEW k \in 0 .. tlen - 1 PROVE tokenvec'[k].type # "X"
    <3>1. tokenvec'[k] = [tokenvec[k] EXCEPT !.type = types[k + 1]]
      BY <2>2, <2>4
    <3>2. tokenvec[k] \in Tokens(Char)
      BY <1>2, <2>4
    <3>3. tokenvec'[k].type = types[k + 1]
      BY <3>1, <3>2 DEF Tokens
    <3> QED
      BY <2>3, <2>4, <3>3
  <2>8. tlen # 6
    <3>1. 6 \in 1 .. 6
      OBVIOUS
    <3> QED
      BY <1>7, <2>3, <3>1
  <2>9. SqliType(Char)'
    BY <1>1, <1>8, <2>1, <2>6 DEF SqliInv, SqliType
  <2>10. KeptInv' /\ ResultInv' /\ EvilInv'
    BY <1>1, <1>8, <2>7, <2>8 DEF KeptInv, ResultInv, EvilInv
  <2>11. CommentInv' /\ RepeatInv'
    BY <1>1, <1>8 DEF CommentInv, RepeatInv, CommentIsLast, NothingRepeated
  <2> QED
    BY <2>9, <2>10, <2>11 DEF SqliInv
<1> QED
  BY <1>9, <1>10

-----------------------------------------------------------------------------
(* The invariant holds of every behaviour.                                  *)

LEMMA FoldKeeps ==
    ASSUME NEW Char, Blank \in Char, SqliInv(Char), Fold
    PROVE  SqliInv(Char)'
<1>1. FoldNext /\ UNCHANGED fingerprint
  BY DEF Fold
<1>2. CASE SkipInitial
  BY <1>1, <1>2, SkipInitialKeeps
<1>3. CASE FoldFive
  BY <1>1, <1>3, FoldFiveKeeps
<1>4. CASE LoopOrEnd
  BY <1>1, <1>4, LoopOrEndKeeps
<1>5. CASE Finish
  BY <1>1, <1>5, FinishKeeps
<1>6. CASE FetchTwo \/ FetchThree
  BY <1>1, <1>6, FetchKeeps
<1>7. CASE FewerThanTwo \/ FewerThanThree
  BY <1>1, <1>7, TooFewKeeps
<1>8. CASE FoldRepeated \/ FoldSecond \/ FoldLeftUnary \/ FoldExpression
  BY <1>1, <1>8, DroppingKeeps
<1>9. CASE FoldMerge \/ FoldCast \/ FoldSign \/ FoldComma
  BY <1>1, <1>9, PuttingKeeps
<1>10. CASE FoldRetype
  BY <1>1, <1>10, FoldRetypeKeeps
<1>11. CASE FoldBackslash
  BY <1>1, <1>11, FoldBackslashKeeps
<1>12. CASE FoldBrace
  BY <1>1, <1>12, FoldBraceKeeps
<1>13. CASE ToThree
  BY <1>1, <1>13, ToThreeKeeps
<1>14. CASE Advance
  BY <1>1, <1>14, AdvanceKeeps
<1> QED
  BY <1>1, <1>2, <1>3, <1>4, <1>5, <1>6, <1>7, <1>8, <1>9, <1>10, <1>11, <1>12,
     <1>13, <1>14 DEF FoldNext

LEMMA SameKept ==
    ASSUME NEW Char, SqliInv(Char), UNCHANGED foldVars, UNCHANGED fingerprint
    PROVE  SqliInv(Char)'
<1>1. /\ src' = src /\ tokenvec' = tokenvec /\ pos' = pos /\ left' = left
      /\ more' = more /\ last_comment' = last_comment /\ pc' = pc /\ tlen' = tlen
      /\ fingerprint' = fingerprint
  BY DEF foldVars
<1>2. SqliType(Char)' /\ KeptInv' /\ ResultInv' /\ EvilInv'
  BY <1>1 DEF SqliInv, SqliType, KeptInv, ResultInv, EvilInv, Folding
<1>3. CommentInv'
  BY <1>1 DEF SqliInv, CommentInv, CommentIsLast, Result, Folding
<1>4. RepeatInv'
  BY <1>1 DEF SqliInv, RepeatInv, NothingRepeated, Result, Apart, Folding
<1> QED
  BY <1>2, <1>3, <1>4 DEF SqliInv

LEMMA StepKeeps ==
    ASSUME NEW Char, Blank \in Char, "X" \in Char, SqliInv(Char), [Next]_vars
    PROVE  SqliInv(Char)'
<1>1. CASE Fold
  BY <1>1, FoldKeeps
<1>2. CASE libinjection_sqli_fingerprint
  BY <1>2, FingerprintKeeps
<1>3. CASE Sqli
  BY <1>3, SameKept DEF Sqli
<1>4. CASE Reset
  BY <1>4, ResetKeeps
<1>5. CASE Benign
  BY <1>5, SameKept DEF Benign
<1>6. CASE UNCHANGED vars
  <2>1. UNCHANGED foldVars /\ UNCHANGED fingerprint
    BY <1>6 DEF vars, foldVars
  <2> QED
    BY <2>1, SameKept
<1> QED
  BY <1>1, <1>2, <1>3, <1>4, <1>5, <1>6 DEF Next, Returned

\* The characters of the texts, and those that the fold writes itself.
Written(Char) == Char \cup {Blank, "X"}

\* SqliInv is an invariant of the detector, on every set of texts.
THEOREM InvariantHolds ==
    ASSUME NEW CONSTANT Char, NEW CONSTANT texts \in SUBSET Seq(Char)
    PROVE  Init(texts) /\ [][Next]_vars => []SqliInv(Written(Char))
<1>1. Init(texts) => SqliInv(Written(Char))
  <2> SUFFICES ASSUME Init(texts) PROVE SqliInv(Written(Char))
    OBVIOUS
  <2>1. PICK s \in texts : FoldInit(Source(s, "none", "ansi"))
    BY DEF Init
  <2>2. s \in Seq(Written(Char))
    <3>1. s \in Seq(Char) /\ Char \subseteq Written(Char)
      BY DEF Written
    <3> QED
      BY <3>1, SeqMonotonic
  <2>3. fingerprint = <<>>
    BY DEF Init
  <2> QED
    BY <2>1, <2>2, <2>3, StartsKept
<1>2. SqliInv(Written(Char)) /\ [Next]_vars => SqliInv(Written(Char))'
  BY StepKeeps DEF Written
<1> QED
  BY <1>1, <1>2, PTL

-----------------------------------------------------------------------------
(* The properties of the fold.                                              *)

\* The fold keeps to its window of tokenvec: what it drops was there, and at
\* most six tokens are read.
THEOREM FoldKeepsToWindow ==
    ASSUME NEW CONSTANT Char, NEW CONSTANT texts \in SUBSET Seq(Char)
    PROVE  Init(texts) /\ [][Next]_vars => []WindowInBounds
<1>1. SqliInv(Written(Char)) => WindowInBounds
  <2> SUFFICES ASSUME SqliInv(Written(Char)) PROVE WindowInBounds
    OBVIOUS
  <2>1. /\ pos \in 0 .. 6 /\ left \in 0 .. 6 /\ (Folding => left <= pos)
        /\ tlen \in 0 .. 6
    BY DEF SqliInv, SqliType
  <2>2. tlen > MaxTokens => tlen = MaxTokens + 1 /\ tokenvec[MaxTokens].type = "X"
    <3>1. tlen = 6 => tokenvec[5].type = "X"
      BY DEF SqliInv, ResultInv
    <3>2. tlen > 5 => tlen = 6
      BY <2>1
    <3> QED
      BY <3>1, <3>2 DEF MaxTokens
  <2>3. Folding => /\ 0 <= left /\ left <= pos /\ pos <= MaxTokens + 1
                   /\ \A k \in 0 .. pos - 1 : tokenvec[k].type \notin {Null, "c"}
    <3>1. Folding => \A k \in 0 .. pos - 1 : tokenvec[k].type \notin {Null, "c"}
      BY DEF SqliInv, KeptInv
    <3>2. 0 <= left /\ pos <= MaxTokens + 1
      BY <2>1 DEF MaxTokens
    <3> QED
      BY <2>1, <3>1, <3>2
  <2> QED
    BY <2>2, <2>3 DEF WindowInBounds, Folding
<1> QED
  BY <1>1, InvariantHolds, PTL

\* A comment is in the fingerprint only as its last token, after which the text
\* holds no other.
THEOREM CommentsAreLast ==
    ASSUME NEW CONSTANT Char, NEW CONSTANT texts \in SUBSET Seq(Char)
    PROVE  Init(texts) /\ [][Next]_vars => []CommentIsLast
<1>1. SqliInv(Written(Char)) => CommentIsLast
  BY DEF SqliInv, CommentInv
<1> QED
  BY <1>1, InvariantHolds, PTL

\* Strings, semicolons and parentheses are not repeated in a fingerprint.
THEOREM RepeatsAreFolded ==
    ASSUME NEW CONSTANT Char, NEW CONSTANT texts \in SUBSET Seq(Char)
    PROVE  Init(texts) /\ [][Next]_vars => []NothingRepeated
<1>1. SqliInv(Written(Char)) => NothingRepeated
  BY DEF SqliInv, RepeatInv
<1> QED
  BY <1>1, InvariantHolds, PTL

-----------------------------------------------------------------------------
(* The properties of the scan.                                              *)

\* A step that reads the text calls the tokenizer once.
LEMMA SourceRead ==
    ASSUME [Next]_vars
    PROVE  src' = src \/ src' = Tokenize(src).src \/ src'.tokens = 0
<1>1. CASE Fold
  <2>1. CASE SkipInitial
    BY <2>1 DEF SkipInitial
  <2>2. CASE FetchTwo \/ FetchThree
    BY <2>2 DEF FetchTwo, FetchThree, FetchToken
  <2>3. CASE FoldFive \/ LoopOrEnd \/ Finish \/ FewerThanTwo \/ FewerThanThree
    BY <2>3 DEF FoldFive, LoopOrEnd, Finish, FewerThanTwo, FewerThanThree, TooFew
  <2>4. CASE FoldRepeated \/ FoldSecond \/ FoldLeftUnary \/ FoldMerge \/ FoldRetype
    BY <2>4 DEF FoldRepeated, FoldSecond, FoldLeftUnary, FoldMerge, FoldRetype,
                TwoTokens
  <2>5. CASE FoldCast \/ FoldBackslash \/ FoldBrace \/ ToThree
    BY <2>5 DEF FoldCast, FoldBackslash, FoldBrace, ToThree, TwoTokens
  <2>6. CASE FoldExpression \/ FoldSign \/ FoldComma \/ Advance
    BY <2>6 DEF FoldExpression, FoldSign, FoldComma, Advance, ThreeTokens
  <2> QED
    BY <1>1, <2>1, <2>2, <2>3, <2>4, <2>5, <2>6 DEF Fold, FoldNext
<1>2. CASE libinjection_sqli_fingerprint
  BY <1>2 DEF libinjection_sqli_fingerprint
<1>3. CASE Sqli \/ Benign
  BY <1>3 DEF Sqli, Benign, foldVars
<1>4. CASE Reset
  BY <1>4 DEF Reset, Source
<1>5. CASE UNCHANGED vars
  BY <1>5 DEF vars
<1> QED
  BY <1>1, <1>2, <1>3, <1>4, <1>5 DEF Next, Returned

\* The tokenizer finds no token without moving on in the text.
THEOREM TokensMoveOn ==
    ASSUME NEW CONSTANT Char, NEW CONSTANT texts \in SUBSET Seq(Char)
    PROVE  Init(texts) /\ [][Next]_vars => ScanAdvances
<1>1. SqliInv(Written(Char)) /\ [Next]_vars =>
          [src'.tokens > src.tokens => src'.pos > src.pos]_vars
  <2> SUFFICES ASSUME SqliInv(Written(Char)), [Next]_vars, src'.tokens > src.tokens
               PROVE  src'.pos > src.pos
    OBVIOUS
  <2>1. src \in Sources(Written(Char)) /\ src.pos <= Len(src.s)
    BY DEF SqliInv, SqliType
  <2>2. src.tokens \in Nat /\ src.pos \in Nat
    BY <2>1 DEF Sources
  <2>3. src' = Tokenize(src).src
    BY <2>2, SourceRead
  <2> DEFINE t == Tokenize(src)
  <2>4. /\ t.src \in Sources(Written(Char)) /\ t.more \in BOOLEAN
        /\ t.more => src.pos < t.src.pos
        /\ ~t.more => t.src.tokens = src.tokens
    BY <2>1, TokenRead
  <2> HIDE DEF t
  <2>5. src' = t.src
    BY <2>3 DEF t
  <2>6. src'.tokens # src.tokens
    BY <2>2
  <2>7. src.pos < src'.pos
    BY <2>4, <2>5, <2>6
  <2>8. src'.pos \in Nat
    BY <2>4, <2>5 DEF Sources
  <2> QED
    BY <2>2, <2>7, <2>8
<1> QED
  BY <1>1, InvariantHolds, PTL DEF ScanAdvances

\* The dialect makes a difference only at "#" and at "--", which are counted.
LEMMA DialectsAgree ==
    ASSUME NEW Char, NEW s \in Seq(Char), NEW p \in 0 .. Len(s), NEW quote,
           libinjection_sqli_tokenize(s, p, quote, "ansi").stats = {}
    PROVE  libinjection_sqli_tokenize(s, p, quote, "ansi") =
           libinjection_sqli_tokenize(s, p, quote, "mysql")
<1> DEFINE T == {k \in p .. Len(s) - 1 : At(s, k) \notin Blanks}
           i == FirstOf(s, T)
<1>1. i \in p .. Len(s) /\ (i < Len(s) => i \in T)
  <2>1. T \in SUBSET (p .. Len(s) - 1)
    OBVIOUS
  <2> HIDE DEF T
  <2> QED
    BY <2>1, SearchInText
<1>2. CASE (p = 0 /\ quote # "none" /\ s # <<>>) \/ i = Len(s)
  BY <1>2 DEF libinjection_sqli_tokenize
<1>3. CASE ~(p = 0 /\ quote # "none" /\ s # <<>>) /\ i # Len(s)
  <2>1. /\ libinjection_sqli_tokenize(s, p, quote, "ansi") = char_parse_map(s, i, "ansi")
        /\ libinjection_sqli_tokenize(s, p, quote, "mysql") = char_parse_map(s, i, "mysql")
    BY <1>3 DEF libinjection_sqli_tokenize
  <2>2. At(s, i) \notin Blanks
    <3>1. i < Len(s)
      <4> HIDE DEF i
      <4> QED
        BY <1>1, <1>3
    <3> QED
      BY <1>1, <3>1
  <2> HIDE DEF i
  <2>3. CASE At(s, i) \notin Digits \cup {"."} /\ At(s, i) = "#"
    <3>1. char_parse_map(s, i, "ansi") = PunctuationParser(s, i, "ansi")
      BY <2>2, <2>3 DEF char_parse_map
    <3>2. PunctuationParser(s, i, "ansi") = parse_hash(s, i, "ansi")
      BY <2>3 DEF PunctuationParser
    <3>3. parse_hash(s, i, "ansi").stats = {"hash"}
      BY DEF parse_hash, parse_operator1, Take, Parsed
    <3> QED
      BY <2>1, <3>1, <3>2, <3>3
  <2>4. CASE At(s, i) \notin Digits \cup {"."} /\ At(s, i) = "-"
    <3>1. /\ char_parse_map(s, i, "ansi") = PunctuationParser(s, i, "ansi")
          /\ char_parse_map(s, i, "mysql") = PunctuationParser(s, i, "mysql")
      BY <2>2, <2>4 DEF char_parse_map
    <3>2. /\ PunctuationParser(s, i, "ansi") = parse_dash(s, i, "ansi")
          /\ PunctuationParser(s, i, "mysql") = parse_dash(s, i, "mysql")
      BY <2>4 DEF PunctuationParser
    <3>3. \/ parse_dash(s, i, "ansi") = parse_dash(s, i, "mysql")
          \/ parse_dash(s, i, "ansi") = [parse_eol_comment(s, i) EXCEPT !.stats = {"ddx"}]
      BY Zenon DEF parse_dash
    <3>4. [parse_eol_comment(s, i) EXCEPT !.stats = {"ddx"}].stats = {"ddx"}
      BY DEF parse_eol_comment, Parsed
    <3> QED
      BY <2>1, <3>1, <3>2, <3>3, <3>4
  <2>5. CASE At(s, i) \in Digits \cup {"."}
    <3>1. \A sql : char_parse_map(s, i, sql) = parse_number(s, i)
      BY <2>2, <2>5 DEF char_parse_map, Digits
    <3> QED
      BY <2>1, <3>1
  <2>6. CASE At(s, i) \notin Digits \cup {"."} /\ At(s, i) \in Punctuation \ {"#", "-"}
    <3>1. /\ char_parse_map(s, i, "ansi") = PunctuationParser(s, i, "ansi")
          /\ char_parse_map(s, i, "mysql") = PunctuationParser(s, i, "mysql")
      BY <2>2, <2>6 DEF char_parse_map, Punctuation
    <3>2. PunctuationParser(s, i, "ansi") = PunctuationParser(s, i, "mysql")
      BY <2>6 DEF PunctuationParser, Punctuation
    <3> QED
      BY <2>1, <3>1, <3>2
  <2>7. CASE At(s, i) \notin Digits \cup {"."} /\ At(s, i) \notin Punctuation
    <3>1. \A sql : char_parse_map(s, i, sql) = WordParser(s, i)
      BY <2>2, <2>7 DEF char_parse_map, Punctuation
    <3> QED
      BY <2>1, <3>1
  <2> QED
    BY <2>3, <2>4, <2>5, <2>6, <2>7
<1> QED
  BY <1>1, <1>2, <1>3

\* A MySQL pass that is left out would have read the same tokens: as long as
\* nothing is counted, ANSI and MySQL find the same next one.
THEOREM SkippedPassIsNoLoss ==
    ASSUME NEW CONSTANT Char, NEW CONSTANT texts \in SUBSET Seq(Char)
    PROVE  Init(texts) /\ [][Next]_vars => []SkippedPassIsTheSame
<1>1. SqliInv(Written(Char)) => SkippedPassIsTheSame
  <2> SUFFICES ASSUME SqliInv(Written(Char)) PROVE SkippedPassIsTheSame
    OBVIOUS
  <2>1. src \in Sources(Written(Char)) /\ src.pos <= Len(src.s)
    BY DEF SqliInv, SqliType
  <2>2. src.s \in Seq(Written(Char)) /\ src.pos \in Nat /\ Len(src.s) \in Nat
    BY <2>1 DEF Sources
  <2>3. src.pos \in 0 .. Len(src.s)
    BY <2>1, <2>2
  <2> QED
    BY <2>2, <2>3, DialectsAgree DEF SkippedPassIsTheSame
<1> QED
  BY <1>1, InvariantHolds, PTL

-----------------------------------------------------------------------------
(* The verdict.                                                             *)

LEMMA UpperX ==
    Upper(<<"X">>) = <<"X">>
<1>1. "X" \in Letters
  <2>1. UpperCase[24] = "X" /\ 24 \in 1 .. 26
    BY DEF UpperCase
  <2> QED
    BY <2>1 DEF Letters
<1>2. ToUpper["X"] = "X"
  <2> DEFINE P(k) == "X" \in {LowerCase[k], UpperCase[k]}
             n == CHOOSE k \in 1 .. 26 : P(k)
  <2>1. ToUpper["X"] = UpperCase[n]
    BY <1>1 DEF ToUpper
  <2>2. UpperCase[24] = "X" /\ 24 \in 1 .. 26
    BY DEF UpperCase
  <2>3. n \in 1 .. 26 /\ P(n)
    BY <2>2
  <2>4. \A k \in 1 .. 26 : LowerCase[k] # "X"
    BY DEF LowerCase
  <2> QED
    BY <2>1, <2>3, <2>4
<1>3. DOMAIN <<"X">> = {1} /\ <<"X">>[1] = "X"
  OBVIOUS
<1>4. Upper(<<"X">>) = [k \in {1} |-> "X"]
  BY <1>1, <1>2, <1>3 DEF Upper
<1>5. <<"X">> = [k \in {1} |-> "X"]
  OBVIOUS
<1> QED
  BY <1>4, <1>5

\* A text with a token that could not be parsed reliably is reported, if the
\* fold keeps the token.
THEOREM EvilIsReported ==
    ASSUME NEW CONSTANT Char, NEW CONSTANT texts \in SUBSET Seq(Char)
    PROVE  Init(texts) /\ [][Next]_vars => []EvilIsSqli
<1>1. SqliInv(Written(Char)) => EvilIsSqli
  <2> SUFFICES ASSUME SqliInv(Written(Char)), pc = "judge",
                      \E k \in 0 .. tlen - 1 : tokenvec[k].type = "X"
               PROVE  IsSqli
    BY DEF EvilIsSqli
  <2>1. fingerprint = <<"X">>
    BY DEF SqliInv, EvilInv
  <2>2. Table!IsFingerprint(<<"X">>)
    BY DEF Table!IsFingerprint
  <2>3. libinjection_sqli_blacklist(<<"X">>)
    BY <2>2, UpperX DEF libinjection_sqli_blacklist
  <2>4. Len(<<"X">>) = 1
    OBVIOUS
  <2>5. libinjection_sqli_not_whitelist(<<"X">>, tokenvec, src)
    BY <2>4 DEF libinjection_sqli_not_whitelist
  <2> QED
    BY <2>1, <2>3, <2>5 DEF IsSqli, libinjection_sqli_check_fingerprint
<1> QED
  BY <1>1, InvariantHolds, PTL
=============================================================================
