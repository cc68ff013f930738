------------------------------- MODULE MCMatch -------------------------------
(* Texts and rules over 'a', 'b' and one byte above 127, raw and escaped.    *)
EXTENDS Match
LOCAL INSTANCE SequencesExt

MCChars == {97, 98, -61}

\* A character as "%hh", with a given letter for the digit ten.
EscapeOf(c, ten) ==
    LET digit(n) == IF n < 10 THEN 48 + n ELSE ten + n - 10
        byte     == c % 256
    IN  <<Percent, digit(byte \div 16), digit(byte % 16)>>

EscapeAll(s, ten) == FlattenSeq([i \in 1 .. Len(s) |-> EscapeOf(s[i], ten)])

Raw == UNION {[1 .. n -> MCChars] : n \in 0 .. 4} \cup
       UNION {[1 .. n -> {97, 98}] : n \in 5 .. 7}

Escaped == UNION {[1 .. n -> {75, 97, -61, 0, 32, 37}] : n \in 1 .. 2}

MCTexts ==
    {<<s, {s}>> : s \in Raw} \cup
    {<<EscapeAll(s, ten), {s}>> : s \in Escaped, ten \in {65, 97}} \cup
    {<<<<43, 97, 43>>, {<<32, 97, 32>>}>>,
     <<EscapeAll(<<97, 98, 97>>, 65), {<<97, 98, 97>>}>>,
     <<<<97, 98, 97, 98, 97, 98, 97, 98, 97>>, {}>>,
     <<<<97, 98, 37>>, {}>>, <<<<97, 37, 54>>, {}>>, <<<<37, 122, 65>>, {}>>}

Line(pattern) == pattern \o <<97, 97>>

Patterns == UNION {[1 .. n -> {97, 98}] : n \in 3 .. 4}

MatchFiles ==
    {<<Line(p)>> : p \in Patterns} \cup
    {<<Line(<<98, 98, 98>>), <<97, 98, 97, 98>>, Line(p)>> :
        p \in {<<97, 98, 97, 97>>, <<97, 97, 98>>}} \cup
    {<<Line(<<-61, 97, 98>>)>>, <<Line(<<97, 98, 97, 97, 98>>)>>,
     <<[i \in 1 .. 10 |-> IF i % 2 = 1 THEN 97 ELSE 98]>>}

MCRegexes == {<<97, 97, 97, 97, 97>>, <<98, 98, 98, 98, 98>>}
MCCompiles == {<<97, 97, 97, 97, 97>>}
MCPcreMatches == {<<<<97, 97, 97, 97, 97>>, s>> : s \in {<<97>>, <<98, 97>>}}

MCFiles == [a \in 1 .. 4 |-> IF a = 4 THEN SetToSeqs(MCRegexes) ELSE MatchFiles]

\* In the small int of this instance the weight of the leading character of a
\* window of six is 32, and 32 times a letter overflows: as in the code's int for
\* 26 to 32 characters.  Neither the rule's hash nor the first window's does.
LongFiles == [a \in 1 .. 4 |-> {<<Line(<<97, 98, 97, 97, 98, 97>>)>>}]
LongTexts == {<<s, {s}>> : s \in UNION {[1 .. n -> {97}] : n \in 1 .. 7}}

MCSpec == Init(MCTexts, MCFiles) /\ [][Next]_vars

LongSpec == Init(LongTexts, LongFiles) /\ [][Next]_vars
=============================================================================
