------------------------------ MODULE MCStartup ------------------------------
(* Command lines with every option, in both forms, repeated and left out.    *)
EXTENDS Startup, TLC
LOCAL INSTANCE SequencesExt

Host     == <<"-", "-", "h", "o", "s", "t">>
Redirect == <<"-", "r">>
H        == <<"-", "h">>
M        == <<"-", "m">>
MatchOpt == <<"-", "-", "m", "a", "t", "c", "h">>
D        == <<"-", "d">>
Debug    == <<"-", "-", "d", "e", "b", "u", "g">>
Sqli     == <<"-", "-", "l", "i", "b", "i", "n", "j">>
Pcre     == <<"-", "-", "p", "c", "r", "e">>
Log      == <<"-", "-", "l", "o", "g">>

MCShort == H :> "h" @@ Redirect :> "r" @@ M :> "m" @@ D :> "d"
MCLong  == Host :> "h" @@ MatchOpt :> "m" @@ Debug :> "d" @@ Sqli :> "s" @@
           Pcre :> "p" @@ Log :> "l"

\* Addresses: two that parse, a number, and two that do not, one too short.
A1  == <<"1", ".", "1", ".", "1", ":", "8">>
A2  == <<"2", ".", "1", ".", "1", ":", "8">>
N   == <<"8", "0", "8", "0", "8", "0", "0">>
Bad == <<"n", "o", "w", "h", "e", "r", "e">>
Too == <<"1", ".", "1">>

MCSockaddrs == {A1, A2}
MCNumbers   == {N}

Long12 == KarpRabin \o <<"x", "x">>

\* Host and redirect, then up to three words.
Tails == {<<>>} \cup
    {<<o>> : o \in {Debug, Sqli, D, M, Log}} \cup
    {<<o, w>> : o \in {M, MatchOpt}, w \in {Dfa, Horspool, KarpRabin, Too, Long12}} \cup
    {<<o, w>> : o \in {D, Debug, Pcre, Sqli}, w \in {Debug, Pcre, Sqli, Bad}} \cup
    {<<Log, w>> : w \in {Bad, <<"x">>, Pcre}} \cup
    {<<M, v, MatchOpt, w>> : v \in {Dfa, KarpRabin},
                             w \in {Horspool, KarpRabin, Too, Dfa \o <<"x">>}} \cup
    {<<Debug, w, Pcre>> : w \in {Bad, Sqli}} \cup
    {<<H, w, Debug>> : w \in {A2, Too, N}}

Texts(lengths) == UNION {[1 .. n -> {"a", "b"}] : n \in lengths}

MCCommands ==
    {<<Host, h, Redirect, r>> \o t : h \in {A1, Bad, N}, r \in {A1, A2}, t \in Tails} \cup
    {<<Redirect, r, Host, A1>> \o t : r \in {Bad, Too}, t \in {<<Debug>>, <<Pcre, Sqli>>}} \cup
    {<<M, v, MatchOpt, w, Debug>> : v \in Texts(3 .. 4), w \in Texts(0 .. 3)} \cup
    {<<Redirect, A2, Debug, Debug, Pcre>>, <<Host, A1, Debug, Debug, Pcre>>}

MCContents == {Null, <<>>, <<"rule">>}

MCSpec == Init(MCCommands) /\ [][Next]_vars
=============================================================================
