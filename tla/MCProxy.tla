------------------------------ MODULE MCProxy ------------------------------
(***************************************************************************)
(* Proxy for TLC: values for the constants.                                *)
(***************************************************************************)
EXTENDS Proxy

NoLines == {}

\* The heap changes nothing: its first byte is a NUL or a newline.
Unchanged == [l \in Lines |-> {l}]

\* Lines only a relay tells apart.
PlainLines == {"a", "b"}
PlainDecode == [l \in PlainLines |-> <<l>>]

\* Lines the filter tells apart.
HttpLines == {"GET", "row", "sqli"}
HttpDecode == [l \in HttpLines |-> <<l>>]
GetLines == {"GET"}
GetDecode == [l \in GetLines |-> <<l>>]
SqliOnly == {"sqli"}
AttackLines == {"GET", "sqli"}
AttackDecode == [l \in AttackLines |-> <<l>>]
RejectLines == {"row", "sqli"}
RejectDecode == [l \in RejectLines |-> <<l>>]

\* The same with escapes: "GET%0Asqli%0A" is one line on the wire and two decoded
\* (the empty one behind them tells nothing), so no more bytes can change what is
\* in it; "sqli" may go on to "sqli-", up to the heap's first NUL, which has
\* another fingerprint.  A rule with $ matches "GET".
CodedLines == {"GET", "GET%0Asqli%0A", "sqli", "sqli-"}
CodedDecode == [l \in CodedLines |-> IF l = "GET%0Asqli%0A" THEN <<"GET", "sqli">>
                                                          ELSE <<l>>]
CodedContinued == [l \in CodedLines |-> IF l = "sqli" THEN {"sqli", "sqli-"}
                                                      ELSE {l}]
CodedNul == {"sqli-"}
TwoLineRule == {<<"GET", "row">>}

ClientAddr == "10.0.0.1"
ServerAddr == "10.0.0.2"
TheAddrs == {ClientAddr, ServerAddr}
OtherClient == "10.0.0.3"
ThreeAddrs == TheAddrs \cup {OtherClient}
AllClients == [c \in Conns |-> ClientAddr]

\* With two connections, one client each: the listed one and the stranger.
TwoClients == [c \in Conns |-> IF c = CHOOSE d \in Conns : TRUE
                               THEN ClientAddr ELSE OtherClient]
BothInside == {<<ClientAddr, "client">>, <<OtherClient, "stranger">>}

\* The stranger's connection is one over IPv6.
NoBevs == {}
StrangerBevs == {b \in Bevs : PeerAddr[b[1]] = OtherClient /\ b[2] = "in"}

\* A block list that names a stranger, the client, or both, the client last.
TheEntries == {"stranger", "client"}
ClientInside == {<<ClientAddr, "client">>}
StrangerOnly == <<"stranger">>
ClientThenStranger == <<"client", "stranger">>
StrangerThenClient == <<"stranger", "client">>

Send(in, out) == [s \in {"in", "out"} |-> IF s = "in" THEN in ELSE out]
Send10 == Send(1, 0)
Send15 == Send(1, 5)
Send20 == Send(2, 0)
Send21 == Send(2, 1)
=============================================================================
