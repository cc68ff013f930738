------------------------------- MODULE MCSqli -------------------------------
(***************************************************************************)
(* libinjection_sqli on texts put together from a few lexemes.             *)
(***************************************************************************)
EXTENDS Sqli, TLC

\* The words of sql_keywords that the texts hold.
MCKeywords ==
    (<<":", ":">> :> "o") @@
    (<<"B", "O", "O", "L", "E", "A", "N">> :> "t") @@
    (<<"C", "O", "L", "L", "A", "T", "E">> :> "A") @@
    (<<"I", "F">> :> "f") @@
    (<<"I", "F", " ", "N", "O", "T">> :> "f") @@
    (<<"I", "N">> :> "k") @@
    (<<"I", "N", " ", "B", "O", "O", "L", "E", "A", "N">> :> "n") @@
    (<<"I", "N", "T">> :> "t") @@
    (<<"I", "N", "T", "O">> :> "k") @@
    (<<"I", "N", "T", "O", " ", "O", "U", "T", "F", "I", "L", "E">> :> "k") @@
    (<<"L", "I", "K", "E">> :> "o") @@
    (<<"L", "I", "M", "I", "T">> :> "B") @@
    (<<"N", "O", "T">> :> "o") @@
    (<<"N", "O", "T", " ", "I", "N">> :> "k") @@
    (<<"N", "O", "T", " ", "L", "I", "K", "E">> :> "o") @@
    (<<"O", "R">> :> "&") @@
    (<<"O", "R", "D">> :> "f") @@
    (<<"O", "U", "T", "F", "I", "L", "E">> :> "k") @@
    (<<"S", "E", "L", "E", "C", "T">> :> "E") @@
    (<<"S", "L", "E", "E", "P">> :> "f") @@
    (<<"U", "N", "I", "O", "N">> :> "U") @@
    (<<"U", "S", "E", "R">> :> "n") @@
    (<<"!", "!">> :> "o") @@
    (<<"-", "=">> :> "o") @@
    (<<"<", "=">> :> "o")

UpTo(n, S) == UNION {[1 .. k -> S] : k \in 1 .. n}

\* Every text of n characters of S; every text of n of the lexemes S.
Chars(n, S) == UpTo(n, S)
Lexemes(n, S) ==
    LET Text(l) == LET Cat[k \in 0 .. Len(l)] ==
                        IF k = 0 THEN <<>> ELSE Cat[k - 1] \o l[k]
                   IN  Cat[Len(l)]
    IN  {Text(l) : l \in UpTo(n, S)}

Long(c) == [k \in 1 .. 33 |-> c]
Or == <<"o", "R">>
In == <<"i", "N">>
Not == <<"n", "o", "t">>
User == <<"u", "s", "e", "r">>
Into == <<"i", "n", "t", "o">>
IntType == <<"i", "n", "t">>
Boolean == <<"b", "o", "o", "l", "e", "a", "n">>
Union == <<"u", "n", "i", "o", "n">>
Select == <<"s", "e", "l", "e", "c", "t">>
Outfile == <<"o", "u", "t", "f", "i", "l", "e">>
Collate == <<"c", "o", "l", "l", "a", "t", "e">>
Comment == <<"/", "*", "*", "/">>

\* What the tokenizer tells apart: comments, quotes, names and numbers.
Spellings ==
    Chars(4, {"1", " ", "-", "#", "/", "*", "!", "a"})
        \cup Chars(4, {"'", "\"", "\\", "a", " "})
        \cup Chars(4, {"$", "a", "@", "TICK", "{", "."})
        \cup Chars(4, {"0", "x", "b", "e", "'", "+"})
        \cup Lexemes(3, {<<"q", "'", "(">>, <<"u", "&", "'">>, <<")", "'">>,
                         <<"$", "t", "$">>, <<"a">>, <<"n", "'">>, <<"[">>, <<"]">>})
        \cup Lexemes(3, {Long("a"), Long("1"), <<" ">>, Not, <<"TICK">>, In})

\* What the verdict tells apart.
Statements ==
    Lexemes(4, {<<"1">>, <<" ">>, Or, <<"=">>, <<"'">>, <<"-", "-">>})
        \cup Lexemes(4, {<<"1">>, Union, <<" ">>, Select, <<"(">>, <<",">>, <<"#">>})
        \cup Lexemes(4, {<<"1">>, <<" ">>, Into, Outfile, <<"a">>})
        \cup Lexemes(3, {SpPassword, <<"a">>, <<"-", "-">>, <<"<", "=", ">">>,
                         <<"@", "@">>, <<"NBSP">>, <<"HI">>, <<"CTL">>})

\* What the fold tells apart: phrases of words with blanks between them.
Spaced(words) == {w \o <<" ">> : w \in words}

Common == {<<"1">>, <<"a">>, User, <<"+">>, Or, <<"(">>, <<")">>, <<",">>, <<";">>,
           Comment, In, Not, <<"i", "f">>, IntType, <<"\\">>, <<"'", "a", "'">>}
Rare == {<<"@", "a">>, <<"=">>, <<".">>, <<"{">>, <<"}">>, Collate, Boolean, Select,
         <<"l", "i", "k", "e">>, <<"s", "l", "e", "e", "p">>, <<":", ":">>,
         <<"l", "i", "m", "i", "t">>, <<"a", "_", "b">>, <<"TICK", "TICK">>,
         <<"/", "*", "!", "*", "/">>}

\* IN becomes a name behind the loop, which then finds the operator before it.
Signs ==
    LET after == Lexemes(4, Spaced({<<"-">>, <<"=">>, In, Or, <<"a">>}))
    IN  {Select \o <<" ", "-", " ">> \o text : text \in after}

\* The loop goes back to the first token for every sign.
Dashes(n) ==
    LET d[k \in 0 .. n] == IF k = 0 THEN <<>> ELSE d[k - 1] \o <<"-", " ">>
    IN  Select \o <<" ", "a", " ">> \o Into \o <<" ", "a", " ", "=", " ">> \o d[n]

Phrases ==
    Lexemes(2, Spaced(Common \cup Rare))
        \cup Lexemes(3, Spaced(Common))
        \cup Lexemes(6, {<<"1">>, <<"+">>, <<"(">>, <<")">>})
        \cup Lexemes(4, {<<"a">>, <<"(">>, <<")">>, <<"+">>, <<",">>, Comment})
        \cup Lexemes(5, Spaced({<<"+">>, In, Boolean, User}))
        \cup Lexemes(4, Spaced({Collate, <<"a", "_", "b">>, IntType, <<"{">>, <<"a">>}))
        \cup Lexemes(3, Spaced({Select, <<"+">>, <<",">>, <<"s", "l", "e", "e", "p">>,
                                <<".">>, <<"a">>, <<"}">>}))
        \cup {<<"a", "(", "a", ")", "{", "TICK", "TICK">>}
        \cup Signs \cup {Dashes(24)}

Texts == {<<>>} \cup Spellings \cup Statements \cup Phrases

Spec == Init(Texts) /\ [][Next]_vars
=============================================================================
