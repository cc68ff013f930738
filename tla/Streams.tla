------------------------------- MODULE Streams -------------------------------
(* Streams of lines with the proxy's own messages in between.                *)
EXTENDS Integers, Sequences

\* s without x.
Without(s, x) ==
    LET kept[i \in 0 .. Len(s)] ==
            IF i = 0 THEN <<>>
            ELSE IF s[i] = x THEN kept[i - 1] ELSE Append(kept[i - 1], s[i])
    IN  kept[Len(s)]
=============================================================================
