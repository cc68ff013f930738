------------------------------- MODULE Tunnel -------------------------------
(***************************************************************************)
(* What a connection through the firewall is to the client and the server, *)
(* without buffers, callbacks and watermarks: two streams, each judged     *)
(* piece by piece.  A piece is passed on, or refused with an answer to its *)
(* sender; a stream that was stopped passes nothing any more.  When an end *)
(* goes, the other gets what is due to it and goes too.                    *)
(***************************************************************************)
EXTENDS Streams

CONSTANTS Conns, Lines, Answer

Ends == Conns \X {"in", "out"}
Partner(e) == <<e[1], IF e[2] = "in" THEN "out" ELSE "in">>

VARIABLES
    phase,     \* "new", "open", "closing" or "closed", for each end
    sent,      \* what the peer at each end has sent
    due,       \* what it is to receive, from the beginning
    received,  \* what it has received
    stopped    \* the streams that pass nothing any more, by sender

tunnel == <<phase, sent, due, received, stopped>>

Content(s) == Without(s, Answer)

Init ==
    /\ phase = [e \in Ends |-> "new"]
    /\ sent = [e \in Ends |-> <<>>]
    /\ due = [e \in Ends |-> <<>>]
    /\ received = [e \in Ends |-> <<>>]
    /\ stopped = [e \in Ends |-> FALSE]

Open(c) ==
    /\ phase[<<c, "in">>] = "new"
    /\ \E p \in {"open", "closed"} :
           phase' = [e \in Ends |-> IF e[1] = c THEN p ELSE phase[e]]
    /\ UNCHANGED <<sent, due, received, stopped>>

Send(e) ==
    /\ phase[e] \in {"open", "closing"}
    /\ \E l \in Lines : sent' = [sent EXCEPT ![e] = Append(@, l)]
    /\ UNCHANGED <<phase, due, received, stopped>>

\* What judging a piece of e's stream may make of what is due: the next lines go
\* to the partner, or e is answered.
Passed(e) ==
    LET k == Len(Content(due[Partner(e)]))
    IN  {[due EXCEPT ![Partner(e)] = @ \o SubSeq(sent[e], k + 1, n)] :
            n \in {m \in k .. Len(sent[e]) : ~stopped[e] \/ m = k}}

Refused(e) == [due EXCEPT ![e] = Append(@, Answer)]

Judge(e) ==
    /\ phase[e] = "open"
    /\ \/ due' \in Passed(e) /\ UNCHANGED stopped
       \/ /\ due' = Refused(e)
          /\ \E s \in BOOLEAN : stopped' = [stopped EXCEPT ![e] = @ \/ s]
    /\ UNCHANGED <<phase, sent, received>>

Deliver(e) ==
    /\ phase[e] \in {"open", "closing"}
    /\ \E n \in Len(received[e]) + 1 .. Len(due[e]) :
           received' = [received EXCEPT ![e] = SubSeq(due[e], 1, n)]
    /\ UNCHANGED <<phase, sent, due, stopped>>

\* e goes, after a last judgement of its stream; its partner is closed at once
\* only if nothing is due to it.
End(e) ==
    /\ phase[e] = "open"
    /\ \E d \in Passed(e) \cup {Refused(e)} :
           /\ due' = [d EXCEPT ![e] = received[e]]
           /\ phase' = [phase EXCEPT
                 ![e] = "closed",
                 ![Partner(e)] = IF d[Partner(e)] = received[Partner(e)]
                                 THEN "closed" ELSE "closing"]
           /\ \E s \in BOOLEAN :
                 stopped' = [stopped EXCEPT ![e] = @ \/ (d = Refused(e) /\ s)]
    /\ UNCHANGED <<sent, received>>

\* An end that was closing is gone; what it did not take is lost.
Gone(e) ==
    /\ phase[e] = "closing"
    /\ phase' = [phase EXCEPT ![e] = "closed"]
    /\ due' = [due EXCEPT ![e] = received[e]]
    /\ UNCHANGED <<sent, received, stopped>>

Next ==
    \/ \E c \in Conns : Open(c)
    \/ \E e \in Ends : Send(e) \/ Judge(e) \/ Deliver(e) \/ End(e) \/ Gone(e)

Spec == Init /\ [][Next]_tunnel
=============================================================================
