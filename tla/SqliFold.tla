------------------------------ MODULE SqliFold ------------------------------
(***************************************************************************)
(* libinjection_sqli_fold: the tokens of a text are read one by one into   *)
(* tokenvec and folded in place, until five that cannot be folded are left *)
(* or the text ends.                                                       *)
(***************************************************************************)
EXTENDS SqliTokens
LOCAL INSTANCE FiniteSetsExt
LOCAL INSTANCE SequencesExt

VARIABLES
    src,            \* the text and how far it is read: see Source
    tokenvec,
    pos,            \* where the next token goes
    left,           \* how many tokens are folded already
    more,           \* the last call of the tokenizer found a token
    last_comment,
    pc,             \* where the loop is
    tlen            \* the result

foldVars == <<src, tokenvec, pos, left, more, last_comment, pc, tlen>>

MaxTokens == 5      \* LIBINJECTION_SQLI_MAX_TOKENS

Slots == 0 .. 7     \* tokenvec[8]

\* The part of libinjection_sqli_state that the tokenizer uses: the text, the
\* position in it, the flags, stats_tokens and the comments of one dialect.
Source(s, quote, sql) ==
    [s |-> s, pos |-> 0, quote |-> quote, sql |-> sql, tokens |-> 0,
     stats |-> {}]

\* What a call of the tokenizer that parsed r gives.
Read(st, r) ==
    [more |-> r.tok.type # Null, tok |-> r.tok,
     src  |-> [st EXCEPT !.pos = r.pos, !.stats = @ \cup r.stats,
                         !.tokens = IF r.tok.type # Null THEN @ + 1 ELSE @]]

Tokenize(st) ==
    Read(st, libinjection_sqli_tokenize(st.s, st.pos, st.quote, st.sql))

FoldInit(source) ==
    /\ src = source
    /\ tokenvec = [k \in Slots |-> NoToken]
    /\ pos = 0 /\ left = 0 /\ more = TRUE
    /\ last_comment = NoToken
    /\ pc = "skip" /\ tlen = 0

-----------------------------------------------------------------------------
(* Reading tokens.                                                          *)

\* The first token that is no comment, left parenthesis, type or unary operator
\* stays; the ones before it are overwritten.
SkipInitial ==
    /\ pc = "skip"
    /\ \E t \in {Tokenize(src)} :
           LET skip == t.tok.type \in {"c", "(", "t"} \/ st_is_unary_op(t.tok)
           IN  /\ src' = t.src
               /\ more' = t.more
               /\ tokenvec' = [tokenvec EXCEPT ![0] = t.tok]
               /\ pos' = IF t.more /\ ~skip THEN 1 ELSE 0
               /\ pc' = IF ~t.more THEN "done" ELSE IF skip THEN "skip" ELSE "full"
    /\ UNCHANGED <<left, last_comment, tlen>>

\* Mutant: the vector's length does not stop the reading.
Wanted_Unbounded(n) == more /\ pos - left < n

\* Mutant: one token too many is read.
Wanted_OneMore(n) == more /\ pos <= MaxTokens /\ pos - left <= n

\* One call of the tokenizer by the loops that want n tokens from left on.
Wanted(n) == more /\ pos <= MaxTokens /\ pos - left < n

\* Mutant: a token does not make the comment before it forgotten.
FetchToken_KeepComment ==
    \E t \in {Tokenize(src)} :
        /\ src' = t.src
        /\ more' = t.more
        /\ tokenvec' = [tokenvec EXCEPT ![pos] = t.tok]
        /\ last_comment' = IF t.tok.type = "c" THEN t.tok ELSE last_comment
        /\ pos' = IF t.more /\ t.tok.type # "c" THEN pos + 1 ELSE pos
        /\ UNCHANGED <<left, pc, tlen>>

FetchToken ==
    \E t \in {Tokenize(src)} :
        /\ src' = t.src
        /\ more' = t.more
        /\ tokenvec' = [tokenvec EXCEPT ![pos] = t.tok]
        /\ last_comment' = IF ~t.more THEN last_comment
                           ELSE IF t.tok.type = "c" THEN t.tok
                           ELSE [last_comment EXCEPT !.type = Null]
        /\ pos' = IF t.more /\ t.tok.type # "c" THEN pos + 1 ELSE pos
        /\ UNCHANGED <<left, pc, tlen>>

FetchTwo == pc = "two" /\ Wanted(2) /\ FetchToken

FetchThree == pc = "three" /\ Wanted(3) /\ FetchToken

\* There are no more tokens for the rules to look at.
TooFew(n) ==
    /\ ~Wanted(n) /\ pos - left < n
    /\ left' = pos
    /\ pc' = "full"
    /\ UNCHANGED <<src, tokenvec, pos, more, last_comment, tlen>>

FewerThanTwo == pc = "two" /\ TooFew(2)

FewerThanThree == pc = "three" /\ TooFew(3)

-----------------------------------------------------------------------------
(* Five tokens.                                                             *)

\* The expressions of five tokens that are folded to their first one.
IsFiveTokens ==
    LET t == [k \in 0 .. 4 |-> tokenvec[k].type]
    IN  \/ /\ t[0] = "1" /\ t[1] \in {"o", ","}
           /\ t[2] = "(" /\ t[3] = "1" /\ t[4] = ")"
        \/ /\ t[0] = "n" /\ t[1] = "o"
           /\ t[2] = "(" /\ t[3] \in {"n", "1"} /\ t[4] = ")"
        \/ t[0] = "1" /\ t[1] = ")" /\ t[2] = "," /\ t[3] = "(" /\ t[4] = "1"
        \/ t[0] = "n" /\ t[1] = ")" /\ t[2] = "o" /\ t[3] = "(" /\ t[4] = "n"

\* A sixth token, read to tell what the fifth one is, stays.
FoldFive ==
    /\ pc = "full" /\ pos >= MaxTokens /\ IsFiveTokens
    /\ IF pos > MaxTokens
       THEN pos' = 2 /\ tokenvec' = [tokenvec EXCEPT ![1] = tokenvec[MaxTokens]]
       ELSE pos' = 1 /\ UNCHANGED tokenvec
    /\ left' = 0
    /\ pc' = IF more THEN "two" ELSE "end"
    /\ UNCHANGED <<src, more, last_comment, tlen>>

LoopOrEnd ==
    /\ pc = "full" /\ ~(pos >= MaxTokens /\ IsFiveTokens)
    /\ pc' = IF more /\ left < MaxTokens THEN "two" ELSE "end"
    /\ UNCHANGED <<src, tokenvec, pos, left, more, last_comment, tlen>>

\* left = pos; a comment at the end is added, a sixth token is cut off.
Finish ==
    /\ pc = "end"
    /\ IF pos < MaxTokens /\ last_comment.type = "c"
       THEN /\ tokenvec' = [tokenvec EXCEPT ![pos] = last_comment]
            /\ tlen' = pos + 1
       ELSE tlen' = Min({pos, MaxTokens}) /\ UNCHANGED tokenvec
    /\ left' = tlen'
    /\ pc' = "done"
    /\ UNCHANGED <<src, pos, more, last_comment>>

-----------------------------------------------------------------------------
(* Words.                                                                   *)

InWord == <<"I", "N">>
LikeWord == <<"L", "I", "K", "E">>
NotWord == <<"N", "O", "T", Blank>>
UserWord == <<"U", "S", "E", "R">>
TimeWord == <<"T", "I", "M", "E">>
StampWord == <<"S", "T", "A", "M", "P">>
CurrentWord == <<"C", "U", "R", "R", "E", "N", "T", "_">>
LocalWord == <<"L", "O", "C", "A", "L">>

\* Names that are functions when a parenthesis follows.
FunctionWords ==
    {UserWord, UserWord \o <<"_", "I", "D">>, UserWord \o <<"_", "N", "A", "M", "E">>,
     <<"D", "A", "T", "A", "B", "A", "S", "E">>,
     <<"P", "A", "S", "S", "W", "O", "R", "D">>,
     CurrentWord \o UserWord, CurrentWord \o <<"D", "A", "T", "E">>,
     CurrentWord \o TimeWord, CurrentWord \o TimeWord \o StampWord,
     LocalWord \o TimeWord, LocalWord \o TimeWord \o StampWord}

IsWord(t, words) == Upper(t.val) \in words

\* Of the phrases of sql_keywords none ends in the name of a function.  A name or
\* a function among them has no underscore; a phrase that ends in IN, in LIKE or
\* in another phrase has none either, and is no type.
ASSUME SqliFoldAssumption ==
    \A w \in DOMAIN Keywords : \A k \in 1 .. Len(w) :
        LET rest  == SubSeq(w, k + 1, Len(w))
            plain == Keywords[w] # "t" /\ \A i \in 1 .. Len(w) : w[i] # "_"
        IN  w[k] = Blank =>
                /\ rest \notin FunctionWords
                /\ Keywords[w] \in {"n", "v", "f"} => plain
                /\ \/ rest \in {InWord, NotWord \o InWord, LikeWord, NotWord \o LikeWord}
                   \/ rest \in DOMAIN Keywords /\ \E i \in 1 .. Len(rest) : rest[i] = Blank
                   => plain

\* syntax_merge_words: two words that are one phrase of the table.
MergedType(a, b) ==
    IF /\ a.type \in {"k", "n", "o", "U", "f", "E", "T", "t"}
       /\ b.type \in {"k", "n", "o", "U", "f", "E", "T", "t", "&"}
       /\ a.len + b.len + 1 < TokenSize
    THEN lookup(a.val \o <<Blank>> \o b.val) ELSE Null

syntax_merge_words(a, b) ==
    [NoToken EXCEPT !.type = MergedType(a, b), !.pos = a.pos,
                    !.len = a.len + b.len + 1,
                    !.val = a.val \o <<Blank>> \o b.val,
                    !.open = a.open, !.close = a.close]

-----------------------------------------------------------------------------
(* The rules.  The code tries them in this order: the first that applies is *)
(* the one that is taken.                                                   *)

First(rules) ==
    LET applicable == {k \in DOMAIN rules : rules[k].when}
    IN  IF applicable = {} THEN "none" ELSE rules[Min(applicable)].rule

Rule(name, condition) == [rule |-> name, when |-> condition]

Operands == {"1", "n", "v", "s"}

TwoTokenRule(a, b) == First(<<
    Rule("strings",    a.type = "s" /\ b.type = "s"),
    Rule("semicolons", a.type = ";" /\ b.type = ";"),
    Rule("unary",      /\ a.type \in {"o", "&"}
                       /\ st_is_unary_op(b) \/ b.type = "t"),
    Rule("leftunary",  a.type = "(" /\ st_is_unary_op(b)),
    Rule("merge",      MergedType(a, b) # Null),
    Rule("if",         /\ a.type = ";" /\ b.type = "f" /\ b.len >= 2
                       /\ IsPrefix(<<"I", "F">>, Upper(b.val))),
    Rule("function",   /\ a.type \in {"n", "v"} /\ b.type = "("
                       /\ IsWord(a, FunctionWords)),
    Rule("in",         /\ a.type = "k"
                       /\ IsWord(a, {InWord, NotWord \o InWord})),
    Rule("like",       /\ a.type = "o"
                       /\ IsWord(a, {LikeWord, NotWord \o LikeWord})),
    Rule("cast",       /\ a.type = "t"
                       /\ b.type \in Operands \cup {"t", "(", "f"}),
    Rule("collate",    a.type = "A" /\ b.type = "n"),
    Rule("backslash",  a.type = "\\"),
    Rule("lefts",      a.type = "(" /\ b.type = "("),
    Rule("rights",     a.type = ")" /\ b.type = ")"),
    Rule("brace",      a.type = "{" /\ b.type = "n"),
    Rule("endbrace",   b.type = "}")>>)

ThreeTokenRule(a, b, c) == First(<<
    Rule("expression", a.type = "1" /\ b.type = "o" /\ c.type = "1"),
    Rule("expression", a.type = "o" /\ b.type # "(" /\ c.type = "o"),
    Rule("expression", a.type = "&" /\ c.type = "&"),
    Rule("expression", a.type = "v" /\ b.type = "o" /\ c.type \in {"v", "1", "n"}),
    Rule("expression", a.type \in {"n", "1"} /\ b.type = "o" /\ c.type \in {"1", "n"}),
    Rule("expression", /\ a.type \in Operands /\ c.type = "t"
                       /\ b.type = "o" /\ b.val = <<":", ":">>),
    Rule("expression", a.type \in Operands /\ b.type = "," /\ c.type \in Operands),
    Rule("sign",       /\ a.type \in {"E", "B", ","} /\ st_is_unary_op(b)
                       /\ c.type = "("),
    Rule("sign",       /\ a.type \in {"k", "E", "B"} /\ st_is_unary_op(b)
                       /\ c.type \in Operands \cup {"f"}),
    Rule("comma",      a.type = "," /\ st_is_unary_op(b) /\ c.type \in Operands),
    Rule("sign",       a.type = "," /\ st_is_unary_op(b) /\ c.type = "f"),
    Rule("expression", a.type = "n" /\ b.type = "." /\ c.type = "n"),
    Rule("sign",       a.type = "E" /\ b.type = "." /\ c.type = "n"),
    Rule("nofunction", /\ a.type = "f" /\ b.type = "(" /\ c.type # ")"
                       /\ IsWord(a, {UserWord})) >>)

-----------------------------------------------------------------------------
(* Two tokens.                                                              *)

A == tokenvec[left]
B == tokenvec[left + 1]
C == tokenvec[left + 2]

TwoTokens(rules) ==
    /\ pc = "two" /\ ~Wanted(2) /\ pos - left >= 2
    /\ TwoTokenRule(A, B) \in rules
    /\ UNCHANGED <<src, more, last_comment>>

\* The last n tokens are dropped, and the loop looks at the tokens from l on.
Drop(n, l) == pos' = pos - n /\ left' = l /\ pc' = "full" /\ UNCHANGED tlen

BackOne == IF left > 0 THEN left - 1 ELSE left

\* Mutant: the string or semicolon that stays is taken for folded.
FoldRepeated_Past ==
    TwoTokens({"strings", "semicolons"}) /\ Drop(1, left + 1) /\ UNCHANGED tokenvec

FoldRepeated ==
    TwoTokens({"strings", "semicolons"}) /\ Drop(1, left) /\ UNCHANGED tokenvec

FoldSecond ==
    /\ TwoTokens({"unary", "lefts", "rights", "endbrace"})
    /\ Drop(1, 0) /\ UNCHANGED tokenvec

FoldLeftUnary ==
    TwoTokens({"leftunary"}) /\ Drop(1, BackOne) /\ UNCHANGED tokenvec

FoldMerge ==
    /\ TwoTokens({"merge"})
    /\ Drop(1, BackOne)
    /\ tokenvec' = [tokenvec EXCEPT ![left] = syntax_merge_words(A, B)]

\* IF after a semicolon; a function's name; IN before a list, or by itself.
FoldRetype ==
    /\ TwoTokens({"if", "function", "in"})
    /\ Drop(0, left)
    /\ LET rule == TwoTokenRule(A, B)
       IN  tokenvec' = [tokenvec EXCEPT
                ![left].type = CASE rule = "function" -> "f"
                                 [] rule = "in" -> IF B.type = "(" THEN "o" ELSE "n"
                                 [] OTHER -> @,
                ![left + 1].type = IF rule = "if" THEN "T" ELSE @]

FoldCast ==
    /\ TwoTokens({"cast"})
    /\ Drop(1, 0)
    /\ tokenvec' = [tokenvec EXCEPT ![left] = B]

FoldBackslash ==
    /\ TwoTokens({"backslash"})
    /\ IF st_is_arithmetic_op(B)
       THEN Drop(0, 0) /\ tokenvec' = [tokenvec EXCEPT ![left].type = "1"]
       ELSE Drop(1, 0) /\ tokenvec' = [tokenvec EXCEPT ![left] = B]

\* "{ `" is evil at once; otherwise "{ name" is dropped.
FoldBrace ==
    /\ TwoTokens({"brace"})
    /\ \/ /\ B.len = 0
          /\ tokenvec' = [tokenvec EXCEPT ![left + 1].type = "X"]
          /\ tlen' = left + 2
          /\ pc' = "done"
          /\ UNCHANGED <<pos, left>>
       \/ B.len > 0 /\ Drop(2, 0) /\ UNCHANGED tokenvec

\* No rule, LIKE (a function before a parenthesis) and COLLATE (a name with an
\* underscore is a type) go on to three tokens.
ToThree ==
    /\ TwoTokens({"none", "like", "collate"})
    /\ LET rule == TwoTokenRule(A, B)
           type == rule = "collate" /\ \E k \in DOMAIN B.val : B.val[k] = "_"
       IN  /\ tokenvec' = [tokenvec EXCEPT
                ![left].type = IF rule = "like" /\ B.type = "(" THEN "f" ELSE @,
                ![left + 1].type = IF type THEN "t" ELSE @]
           /\ left' = IF type THEN 0 ELSE left
    /\ pc' = "three"
    /\ UNCHANGED <<pos, tlen>>

-----------------------------------------------------------------------------
(* Three tokens.                                                            *)

ThreeTokens(rules) ==
    /\ pc = "three" /\ ~Wanted(3) /\ pos - left >= 3
    /\ ThreeTokenRule(A, B, C) \in rules
    /\ UNCHANGED <<src, more, last_comment>>

FoldExpression ==
    ThreeTokens({"expression"}) /\ Drop(2, 0) /\ UNCHANGED tokenvec

FoldSign ==
    /\ ThreeTokens({"sign"})
    /\ Drop(1, 0)
    /\ tokenvec' = [tokenvec EXCEPT ![left + 1] = C]

FoldComma ==
    /\ ThreeTokens({"comma"})
    /\ Drop(3, 0)
    /\ tokenvec' = [tokenvec EXCEPT ![left + 1] = C]

\* Mutant: the loop looks at the three tokens again once USER is a name.
Advance_Again ==
    /\ ThreeTokens({"none", "nofunction"})
    /\ LET user == ThreeTokenRule(A, B, C) = "nofunction"
       IN  /\ Drop(0, IF user THEN left ELSE left + 1)
           /\ tokenvec' = [tokenvec EXCEPT ![left].type = IF user THEN "n" ELSE @]

\* The first of the three tokens is folded.  (USER with arguments is a name.)
Advance ==
    /\ ThreeTokens({"none", "nofunction"})
    /\ Drop(0, left + 1)
    /\ tokenvec' = [tokenvec EXCEPT
            ![left].type = IF ThreeTokenRule(A, B, C) = "nofunction" THEN "n" ELSE @]

FoldNext ==
    \/ SkipInitial \/ FoldFive \/ LoopOrEnd \/ Finish
    \/ FetchTwo \/ FewerThanTwo \/ FetchThree \/ FewerThanThree
    \/ FoldRepeated \/ FoldSecond \/ FoldLeftUnary \/ FoldMerge \/ FoldRetype
    \/ FoldCast \/ FoldBackslash \/ FoldBrace \/ ToThree
    \/ FoldExpression \/ FoldSign \/ FoldComma \/ Advance
-----------------------------------------------------------------------------
(* Properties.                                                              *)

Result == SubSeq([k \in 1 .. 8 |-> tokenvec[k - 1].type], 1, tlen)

\* The window of the loop: at most six tokens are read, the tokens that a rule
\* looks at have been read, and what it drops was there (assert(pos >= 3)).  A
\* sixth token is in the result only if it makes the whole text evil.
WindowInBounds ==
    /\ tlen > MaxTokens => tlen = MaxTokens + 1 /\ tokenvec[MaxTokens].type = "X"
    /\ pc \notin {"done", "judge"} =>
        /\ 0 <= left /\ left <= pos /\ pos <= MaxTokens + 1
        /\ \A k \in 0 .. pos - 1 : tokenvec[k].type \notin {Null, "c"}

\* A comment is in the fingerprint only as its last token, and only when no
\* token comes after it in the text.
CommentIsLast ==
    pc = "done" => \A k \in 1 .. tlen :
        Result[k] = "c" =>
            /\ k = tlen /\ ~more
            /\ \A j \in 1 .. k - 1 :
                   tokenvec[j - 1].pos <= tokenvec[k - 1].pos

\* Strings, semicolons and parentheses are not repeated in a fingerprint.
NothingRepeated ==
    pc = "done" => \A k \in 1 .. tlen - 1 :
        ~(Result[k] = Result[k + 1] /\ Result[k] \in {"s", ";", "(", ")"})

\* Dropping tokens shortens tokenvec, so the tokens that a rule has looked at
\* must be the last ones.  The rules on two tokens that compare marks only fire
\* there; the others may match tokens that the loop has gone past, when a word
\* among them was given another type, and then drop what they have not matched.
DropsWhatItMatched ==
    /\ pc = "two" /\ ~Wanted(2) /\ pos - left >= 2
    /\ TwoTokenRule(A, B) \in {"strings", "semicolons", "unary", "leftunary",
                              "backslash", "lefts", "rights", "endbrace"}
    => pos = left + 2
==================================================
