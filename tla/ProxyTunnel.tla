----------------------------- MODULE ProxyTunnel -----------------------------
(***************************************************************************)
(* What happens to the peers' streams on their way: nothing is lost,       *)
(* repeated or reordered; what the rules on content reject is held back    *)
(* for good; and the proxy is a Tunnel.                                    *)
(***************************************************************************)
EXTENDS ProxyProofs, FilterProofs
LOCAL INSTANCE SequencesExt

Items == Lines \cup {BlockMsg}

-----------------------------------------------------------------------------
(* Prefixes.                                                                *)

LEMMA PrefixConcat ==
    ASSUME NEW S, NEW s \in Seq(S), NEW t \in Seq(S)
    PROVE  IsPrefix(s, s \o t)
<1>1. /\ s \o t \in Seq(S) /\ Len(s \o t) = Len(s) + Len(t)
      /\ Len(s) \in Nat /\ Len(t) \in Nat
  BY ConcatProperties, LenProperties
<1>2. SubSeq(s, 1, Len(s)) = s /\ SubSeq(s \o t, 1, Len(s)) = s
  BY SubSeqFull, SubSeqOfConcat1
<1> QED
  BY <1>1, <1>2 DEF IsPrefix

\* A prefix has a rest.
LEMMA PrefixRest ==
    ASSUME NEW S, NEW s \in Seq(S), NEW t \in Seq(S), IsPrefix(s, t)
    PROVE  \E u \in Seq(S) : t = s \o u
<1> DEFINE u == SubSeq(t, Len(s) + 1, Len(t))
<1>1. Len(s) \in Nat /\ Len(t) \in Nat /\ Len(s) <= Len(t)
  BY LenProperties DEF IsPrefix
<1>2. SubSeq(t, 1, Len(s)) = s
  BY SubSeqFull DEF IsPrefix
<1>3. CASE Len(s) = 0
  <2>1. s = <<>> /\ <<>> \o t = t
    BY <1>3, EmptySeq, ConcatEmptySeq
  <2> QED
    BY <2>1
<1>4. CASE Len(s) # 0
  <2>1. Len(s) \in 1 .. Len(t)
    BY <1>1, <1>4
  <2>2. u \in Seq(S) /\ SubSeq(t, 1, Len(s)) \o u = t
    BY <2>1, Halves
  <2> QED
    BY <1>2, <2>2
<1> QED
  BY <1>3, <1>4

LEMMA PrefixCut ==
    ASSUME NEW S, NEW s \in Seq(S), NEW t \in Seq(S), NEW u \in Seq(S),
           IsPrefix(s \o t, u)
    PROVE  IsPrefix(s, u)
<1>1. s \o t \in Seq(S)
  BY ConcatProperties
<1>2. PICK v \in Seq(S) : u = (s \o t) \o v
  BY <1>1, PrefixRest
<1>3. u = s \o (t \o v) /\ t \o v \in Seq(S)
  <2>1. (s \o t) \o v = s \o (t \o v)
    BY ConcatAssociative
  <2>2. t \o v \in Seq(S)
    BY ConcatProperties
  <2> QED
    BY <1>2, <2>1, <2>2
<1> QED
  BY <1>3, PrefixConcat

LEMMA PrefixAppend ==
    ASSUME NEW S, NEW s \in Seq(S), NEW t \in Seq(S), NEW e \in S,
           IsPrefix(s, t)
    PROVE  IsPrefix(s, Append(t, e))
<1>1. PICK u \in Seq(S) : t = s \o u
  BY PrefixRest
<1>2. Append(t, e) = s \o Append(u, e) /\ Append(u, e) \in Seq(S)
  <2>1. s \o Append(u, e) = Append(s \o u, e)
    BY AppendConcat
  <2>2. Append(u, e) \in Seq(S)
    BY AppendProperties
  <2> QED
    BY <1>1, <2>1, <2>2
<1> QED
  BY <1>2, PrefixConcat

-----------------------------------------------------------------------------
(* Payload.                                                                 *)

LEMMA PayloadType ==
    ASSUME NEW s \in Seq(Items)
    PROVE  Payload(s) \in Seq(Lines)
<1>1. Without(s, BlockMsg) \in Seq(Items \ {BlockMsg})
  BY WithoutType
<1>2. Items \ {BlockMsg} = Lines
  BY ProxyAssumption DEF Items
<1> QED
  BY <1>1, <1>2 DEF Payload

LEMMA PayloadConcat ==
    ASSUME NEW s \in Seq(Items), NEW t \in Seq(Items)
    PROVE  Payload(s \o t) = Payload(s) \o Payload(t)
BY WithoutConcat DEF Payload

LEMMA PayloadLines ==
    ASSUME NEW s \in Seq(Lines)
    PROVE  Payload(s) = s
BY WithoutNone, ProxyAssumption DEF Payload

LEMMA PayloadEmpty == Payload(<<>>) = <<>>
BY WithoutEmpty DEF Payload

\* The answer is no payload.
LEMMA PayloadAnswer ==
    ASSUME NEW s \in Seq(Items)
    PROVE  Payload(Append(s, BlockMsg)) = Payload(s)
<1>1. BlockMsg \in Items
  BY DEF Items
<1>2. Without(Append(s, BlockMsg), BlockMsg) =
          IF BlockMsg = BlockMsg THEN Without(s, BlockMsg)
          ELSE Append(Without(s, BlockMsg), BlockMsg)
  BY <1>1, WithoutAppend
<1> QED
  BY <1>2 DEF Payload

LEMMA LinesItems ==
    ASSUME NEW s \in Seq(Lines)
    PROVE  s \in Seq(Items)
<1>1. Lines \subseteq Items
  BY DEF Items
<1> QED
  BY <1>1, SeqMonotonic

\* The types of what a connection holds.
LEMMA StreamFacts ==
    ASSUME IInv, NEW b \in Bevs
    PROVE  /\ bev[b].input \in Seq(Lines) /\ bev[b].output \in Seq(Items)
           /\ wire[b] \in Seq(Lines) /\ sent[b] \in Seq(Lines)
           /\ received[b] \in Seq(Items)
           /\ Payload(bev[b].output) \in Seq(Lines)
           /\ Payload(received[b]) \in Seq(Lines)
           /\ Relayed(Other(b)) \in Seq(Lines)
<1>1. /\ bev[b].input \in Seq(Lines) /\ bev[b].output \in Seq(Items)
      /\ wire[b] \in Seq(Lines) /\ sent[b] \in Seq(Lines)
      /\ received[b] \in Seq(Items)
  BY Facts DEF IInv, TypeOK, Items
<1>2. /\ Payload(bev[b].output) \in Seq(Lines)
      /\ Payload(received[b]) \in Seq(Lines)
  BY <1>1, PayloadType
<1>3. Relayed(Other(b)) = Payload(received[b]) \o Payload(bev[b].output)
  BY OtherSide DEF Relayed
<1> QED
  BY <1>1, <1>2, <1>3, ConcatProperties

-----------------------------------------------------------------------------
(* Conservation.                                                            *)

ConservedAt(b) ==
    /\ IsPrefix(Relayed(b), sent[b])
    /\ Joined(bev, b) => Relayed(b) \o bev[b].input \o wire[b] = sent[b]

\* A stream that a step does not touch.
LEMMA ConservedFrame ==
    ASSUME NEW b \in Bevs, ConservedAt(b),
           received'[Other(b)] = received[Other(b)],
           bev'[Other(b)].output = bev[Other(b)].output,
           sent'[b] = sent[b],
           Joined(bev', b) => /\ Joined(bev, b)
                              /\ bev'[b].input = bev[b].input
                              /\ wire'[b] = wire[b]
    PROVE  ConservedAt(b)'
<1>1. Relayed(b)' = Relayed(b)
  BY DEF Relayed
<1> QED
  BY <1>1 DEF ConservedAt

LEMMA ConservedPair ==
    ASSUME Conservation, NEW b \in Bevs, NEW p \in Bevs, p = Other(b),
           Only(b, p),
           \A x \in Bevs \ {b, p} :
               /\ wire'[x] = wire[x] /\ sent'[x] = sent[x]
               /\ received'[x] = received[x],
           ConservedAt(b)', ConservedAt(p)'
    PROVE  Conservation'
<1>1. p # b /\ Other(p) = b
  BY OtherSide
<1> SUFFICES ASSUME NEW x \in Bevs PROVE ConservedAt(x)'
  BY DEF Conservation, ConservedAt
<1>2. CASE x \in {b, p}
  BY <1>2
<1>3. CASE x \in Bevs \ {b, p}
  <2>1. PICK y \in Bevs \ {b, p} : y = Other(x)
    BY <1>1, <1>3, OtherSide
  <2>2. bev'[x] = bev[x] /\ bev'[y] = bev[y]
    BY <1>3, <2>1 DEF Only
  <2>3. ConservedAt(x)
    BY DEF Conservation, ConservedAt
  <2>4. Joined(bev', x) => Joined(bev, x)
    BY <2>1, <2>2 DEF Joined
  <2> QED
    BY <1>3, <2>1, <2>2, <2>3, <2>4, ConservedFrame
<1> QED
  BY <1>2, <1>3

\* Both sides of a connection, as Conservation has them.
LEMMA ConservedBoth ==
    ASSUME Conservation, NEW b \in Bevs, NEW p \in Bevs, p = Other(b)
    PROVE  /\ ConservedAt(b) /\ ConservedAt(p)
           /\ Relayed(b) = Payload(received[p]) \o Payload(bev[p].output)
           /\ Relayed(p) = Payload(received[b]) \o Payload(bev[b].output)
           /\ Relayed(b)' = Payload(received'[p]) \o Payload(bev'[p].output)
           /\ Relayed(p)' = Payload(received'[b]) \o Payload(bev'[b].output)
<1>1. Other(p) = b
  BY OtherSide
<1> QED
  BY <1>1 DEF Conservation, ConservedAt, Relayed

\* A step that moves no data.
LEMMA ConservedStill ==
    ASSUME Conservation,
           \A x \in Bevs : /\ bev'[x].output = bev[x].output
                           /\ bev'[x].input = bev[x].input
                           /\ Joined(bev', x) => Joined(bev, x),
           UNCHANGED <<wire, sent, received>>
    PROVE  Conservation'
<1> SUFFICES ASSUME NEW x \in Bevs PROVE ConservedAt(x)'
  BY DEF Conservation, ConservedAt
<1>1. ConservedAt(x)
  BY DEF Conservation, ConservedAt
<1> QED
  BY <1>1, OtherSide, ConservedFrame

LEMMA AcceptConserves ==
    ASSUME FlowInv, Conservation, NEW c \in Conns,
           accept_cb(c) \/ accept_cb_refused(c)
    PROVE  Conservation'
<1>1. PICK b \in Bevs : b = <<c, "in">> /\ b[1] = c
  <2>1. <<c, "in">> \in Bevs /\ <<c, "in">>[1] = c
    BY DEF Bevs
  <2> QED
    BY <2>1
<1>2. PICK p \in Bevs : p = Other(b) /\ p # b /\ Other(p) = b
  BY OtherSide
<1>3. \A x \in Bevs : x[1] = c <=> x \in {b, p}
  BY <1>1, <1>2 DEF Bevs, Other
<1>4. Only(b, p) /\ UNCHANGED peers
  BY <1>3 DEF accept_cb, accept_cb_refused, Only
<1>5. \A x \in {b, p} : bev'[x].output = <<>> /\ bev'[x].input = <<>>
  <2>1. CASE accept_cb(c)
    BY <1>3, <2>1 DEF accept_cb, Absent
  <2>2. CASE accept_cb_refused(c)
    BY <1>3, <2>2 DEF accept_cb_refused, Absent
  <2> QED
    BY <2>1, <2>2
<1>6. \A x \in {b, p} : wire[x] = <<>> /\ sent[x] = <<>> /\ received[x] = <<>>
  BY <1>1, <1>2 DEF accept_cb, accept_cb_refused, FlowInv, Fresh
<1>7. ASSUME NEW x \in {b, p} PROVE ConservedAt(x)'
  <2>1. PICK y \in {b, p} : y = Other(x)
    BY <1>2
  <2>2. Relayed(x)' = <<>> \o <<>>
    BY <1>4, <1>5, <1>6, <2>1, PayloadEmpty DEF Relayed, peers
  <2>3. <<>> \o <<>> = <<>> /\ <<>> \in Seq({})
    BY ConcatEmptySeq, EmptySeq
  <2>4. IsPrefix(<<>>, <<>> \o <<>>)
    BY <2>3, PrefixConcat
  <2>5. wire'[x] = <<>> /\ sent'[x] = <<>> /\ bev'[x].input = <<>>
    BY <1>4, <1>5, <1>6 DEF peers
  <2>6. Relayed(x)' = <<>> /\ IsPrefix(<<>>, <<>>)
    BY <2>2, <2>3, <2>4
  <2>7. IsPrefix(Relayed(x)', sent'[x])
    BY <2>5, <2>6
  <2>8. Relayed(x)' \o bev'[x].input \o wire'[x] = sent'[x]
    BY <2>3, <2>5, <2>6
  <2> QED
    BY <2>7, <2>8 DEF ConservedAt
<1> QED
  BY <1>2, <1>4, <1>7, ConservedPair DEF peers

\* The socket events that move no data.
LEMMA QuietEffect ==
    ASSUME IInv, NEW b \in Bevs,
           \/ Connected(b) \/ ConnectFailed(b)
           \/ SocketReadEnd(b) \/ SocketWriteError(b)
    PROVE  /\ UNCHANGED <<peers, held>>
           /\ \A x \in Bevs : /\ bev'[x].output = bev[x].output
                              /\ bev'[x].input = bev[x].input
                              /\ SameLink(bev[x], bev'[x])
<1>1. bev \in BevStates /\ bev[b] \in BevState
  BY Facts
<1>2. Only(b, b) /\ UNCHANGED <<peers, held>>
  BY <1>1 DEF Connected, ConnectFailed, SocketReadEnd, SocketWriteError, Only,
              BevStates
<1>3. /\ bev'[b].output = bev[b].output /\ bev'[b].input = bev[b].input
      /\ SameLink(bev[b], bev'[b])
  <2>1. CASE Connected(b)
    <3>1. bev'[b] = [bev[b] EXCEPT !.link = "up"]
      BY <1>1, <2>1 DEF Connected, BevStates
    <3> QED
      BY <1>1, <3>1 DEF BevState, SameLink
  <2>2. CASE ConnectFailed(b)
    <3>1. bev'[b] = [bev[b] EXCEPT !.link = "failed", !.read = FALSE,
                                   !.write = FALSE, !.pend = @ \cup {"error"}]
      BY <1>1, <2>2 DEF ConnectFailed, BevStates
    <3> QED
      BY <1>1, <3>1 DEF BevState, SameLink
  <2>3. CASE SocketReadEnd(b)
    <3> DEFINE e == IF shut[b] = "fin" THEN "eof" ELSE "error"
    <3>1. bev'[b] = [bev[b] EXCEPT !.read = FALSE, !.pend = @ \cup {e}]
      BY <1>1, <2>3 DEF SocketReadEnd, BevStates
    <3> HIDE DEF e
    <3> QED
      BY <1>1, <3>1 DEF BevState, SameLink
  <2>4. CASE SocketWriteError(b)
    <3>1. bev'[b] = [bev[b] EXCEPT !.write = FALSE, !.pend = @ \cup {"error"}]
      BY <1>1, <2>4 DEF SocketWriteError, BevStates
    <3> QED
      BY <1>1, <3>1 DEF BevState, SameLink
  <2> QED
    BY <2>1, <2>2, <2>3, <2>4
<1>4. \A x \in Bevs : /\ bev'[x].output = bev[x].output
                      /\ bev'[x].input = bev[x].input
                      /\ SameLink(bev[x], bev'[x])
  BY <1>2, <1>3 DEF Only, SameLink
<1> QED
  BY <1>2, <1>4

LEMMA QuietConserves ==
    ASSUME FlowInv, Conservation, NEW b \in Bevs,
           \/ Connected(b) \/ ConnectFailed(b)
           \/ SocketReadEnd(b) \/ SocketWriteError(b)
    PROVE  Conservation'
<1>1. /\ UNCHANGED <<peers, held>>
      /\ \A x \in Bevs : /\ bev'[x].output = bev[x].output
                         /\ bev'[x].input = bev[x].input
                         /\ SameLink(bev[x], bev'[x])
  BY QuietEffect DEF FlowInv
<1>2. \A x \in Bevs : Joined(bev', x) => Joined(bev, x)
  BY <1>1, OtherSide DEF SameLink, Joined
<1> QED
  BY <1>1, <1>2, ConservedStill DEF peers

\* What is read leaves the wire for the input.
LEMMA SocketReadConserves ==
    ASSUME FlowInv, Conservation, NEW b \in Bevs, SocketRead(b)
    PROVE  Conservation'
<1>0. IInv
  BY DEF FlowInv
<1>1. PICK p \in Bevs : p = Other(b) /\ p # b /\ Other(p) = b
  BY OtherSide
<1>2. Joined(bev, b) /\ Only(b, p) /\ bev'[p] = bev[p]
  BY <1>0, <1>1, SocketReadEffect DEF Only
<1>3. PICK n \in 1 .. MaxRead : n <= Len(wire[b]) /\ ReadFrom(b, n)
  BY <1>0, SocketReadEffect
<1>4. /\ wire[b] \in Seq(Lines) /\ bev[b].input \in Seq(Lines)
      /\ Relayed(b) \in Seq(Lines) /\ bev[b] \in BevState
  BY <1>0, <1>1, StreamFacts, Facts
<1> DEFINE first == SubSeq(wire[b], 1, n)
           rest == SubSeq(wire[b], n + 1, Len(wire[b]))
<1>5. first \in Seq(Lines) /\ rest \in Seq(Lines) /\ first \o rest = wire[b]
  <2>1. n \in 1 .. Len(wire[b])
    BY <1>3, <1>4, LenProperties, ProxyAssumption
  <2> QED
    BY <1>4, <2>1, Halves
<1>6. /\ bev'[b].input = bev[b].input \o first /\ bev'[b].mem = bev[b].mem
      /\ bev'[b].output = bev[b].output /\ bev'[b].ctx = bev[b].ctx
      /\ bev'[b].readcb = bev[b].readcb /\ bev'[b].writecb = bev[b].writecb
  BY <1>3, <1>4 DEF ReadFrom, BevState
<1>7. /\ wire'[b] = rest /\ \A x \in Bevs \ {b} : wire'[x] = wire[x]
      /\ sent' = sent /\ received' = received
  <2>1. wire \in [Bevs -> Seq(Lines)]
    BY <1>0 DEF IInv, TypeOK
  <2> QED
    BY <1>3, <2>1 DEF SocketRead, ReadFrom
<1> HIDE DEF first, rest
<1>8. ConservedAt(b)'
  <2>1. ConservedAt(b) /\ Relayed(b)' = Relayed(b)
    <3>1. /\ ConservedAt(b)
          /\ Relayed(b) = Payload(received[p]) \o Payload(bev[p].output)
          /\ Relayed(b)' = Payload(received'[p]) \o Payload(bev'[p].output)
      BY <1>1, ConservedBoth
    <3> QED
      BY <1>1, <1>2, <1>7, <3>1
  <2>2. (Relayed(b) \o bev[b].input) \o (first \o rest)
            = (Relayed(b) \o (bev[b].input \o first)) \o rest
    <3>1. PICK r \in Seq(Lines), i \in Seq(Lines), f \in Seq(Lines),
               w \in Seq(Lines) :
              r = Relayed(b) /\ i = bev[b].input /\ f = first /\ w = rest
      BY <1>4, <1>5
    <3>2. (r \o i) \o (f \o w) = (r \o (i \o f)) \o w
      <4>1. (r \o i) \o f = r \o (i \o f)
        OBVIOUS
      <4>2. PICK x \in Seq(Lines) : x = r \o i
        BY ConcatProperties
      <4>3. x \o (f \o w) = (x \o f) \o w
        OBVIOUS
      <4> QED
        BY <4>1, <4>2, <4>3
    <3> QED
      BY <3>1, <3>2
  <2> QED
    BY <1>2, <1>5, <1>6, <1>7, <2>1, <2>2 DEF ConservedAt
<1>9. ConservedAt(p)'
  <2>1. Joined(bev', p) => Joined(bev, p)
    BY <1>1, <1>2, <1>6 DEF Joined
  <2>2. ConservedAt(p)
    BY <1>1, ConservedBoth
  <2> QED
    BY <1>1, <1>2, <1>6, <1>7, <2>1, <2>2, ConservedFrame
<1> QED
  BY <1>1, <1>2, <1>7, <1>8, <1>9, ConservedPair

\* Payload of a pair's other buffer, as readcb fills it.
LEMMA PassedPayload ==
    ASSUME NEW r \in Seq(Items), NEW o \in Seq(Items), NEW i \in Seq(Lines)
    PROVE  Payload(r) \o Payload(o \o i) = (Payload(r) \o Payload(o)) \o i
<1>1. i \in Seq(Items)
  BY LinesItems
<1>2. Payload(o \o i) = Payload(o) \o Payload(i) /\ Payload(i) = i
  BY <1>1, PayloadConcat, PayloadLines
<1>3. PICK q \in Seq(Lines), p \in Seq(Lines) : q = Payload(r) /\ p = Payload(o)
  BY PayloadType
<1>4. q \o (p \o i) = (q \o p) \o i
  OBVIOUS
<1> QED
  BY <1>2, <1>3, <1>4

\* Payload of what the peer has and what is left for it, as a write moves it.
LEMMA WrittenPayload ==
    ASSUME NEW r \in Seq(Items), NEW o \in Seq(Items), NEW n \in 1 .. Len(o)
    PROVE  Payload(r \o SubSeq(o, 1, n)) \o Payload(SubSeq(o, n + 1, Len(o)))
               = Payload(r) \o Payload(o)
<1> DEFINE f == SubSeq(o, 1, n)
           l == SubSeq(o, n + 1, Len(o))
<1>1. f \in Seq(Items) /\ l \in Seq(Items) /\ f \o l = o
  BY Halves
<1> HIDE DEF f, l
<1>2. Payload(r \o f) = Payload(r) \o Payload(f)
  BY <1>1, PayloadConcat
<1>3. Payload(f \o l) = Payload(f) \o Payload(l)
  BY <1>1, PayloadConcat
<1>4. PICK x \in Seq(Lines), y \in Seq(Lines), z \in Seq(Lines) :
          x = Payload(r) /\ y = Payload(f) /\ z = Payload(l)
  BY <1>1, PayloadType
<1>5. (x \o y) \o z = x \o (y \o z)
  OBVIOUS
<1>6. Payload(r \o f) \o Payload(l) = Payload(r) \o Payload(o)
  BY <1>1, <1>2, <1>3, <1>4, <1>5
<1> QED
  BY <1>6 DEF f, l

\* What is written was counted as relayed before.
LEMMA SocketWriteConserves ==
    ASSUME FlowInv, Conservation, NEW b \in Bevs, SocketWrite(b)
    PROVE  Conservation'
<1>0. IInv
  BY DEF FlowInv
<1>1. PICK p \in Bevs : p = Other(b) /\ p # b /\ Other(p) = b
  BY OtherSide
<1>2. Only(b, p) /\ bev'[p] = bev[p]
  BY <1>0, <1>1, SocketWriteEffect DEF Only
<1>3. PICK n \in 1 .. Len(bev[b].output) : WrittenTo(b, n)
  BY <1>0, SocketWriteEffect
<1>4. /\ bev[b] \in BevState /\ bev[b].output \in Seq(Items)
      /\ received[b] \in Seq(Items)
  BY <1>0, StreamFacts, Facts
<1> DEFINE first == SubSeq(bev[b].output, 1, n)
           left == SubSeq(bev[b].output, n + 1, Len(bev[b].output))
<1>5. /\ bev'[b].output = left /\ bev'[b].input = bev[b].input
      /\ bev'[b].mem = bev[b].mem /\ bev'[b].ctx = bev[b].ctx
      /\ bev'[b].readcb = bev[b].readcb /\ bev'[b].writecb = bev[b].writecb
  BY <1>3, <1>4 DEF WrittenTo, BevState
<1>6. /\ received'[b] = received[b] \o first
      /\ \A x \in Bevs \ {b} : received'[x] = received[x]
      /\ wire' = wire /\ sent' = sent
  <2>1. received \in [Bevs -> Seq(Lines \cup {BlockMsg})]
    BY <1>0 DEF IInv, TypeOK
  <2> QED
    BY <1>3, <2>1 DEF SocketWrite, WrittenTo
<1>7. Payload(received[b] \o first) \o Payload(left)
          = Payload(received[b]) \o Payload(bev[b].output)
  BY <1>3, <1>4, WrittenPayload
<1> HIDE DEF first, left
<1>8. (Joined(bev', b) => Joined(bev, b)) /\ (Joined(bev', p) => Joined(bev, p))
  BY <1>1, <1>2, <1>5 DEF Joined
<1>9. ConservedAt(b)'
  <2>1. ConservedAt(b)
    BY <1>1, ConservedBoth
  <2> QED
    BY <1>1, <1>2, <1>5, <1>6, <1>8, <2>1, ConservedFrame
<1>10. ConservedAt(p)'
  <2>1. ConservedAt(p) /\ Relayed(p)' = Relayed(p)
    BY <1>1, <1>5, <1>6, <1>7, ConservedBoth
  <2> QED
    BY <1>2, <1>6, <1>8, <2>1 DEF ConservedAt
<1> QED
  BY <1>1, <1>2, <1>6, <1>9, <1>10, ConservedPair

\* readcb moves the input to the end of what is relayed, or nothing.
LEMMA ReadcbConserves ==
    ASSUME FlowInv, Conservation, NEW b \in Bevs, RunReadcb(b)
    PROVE  Conservation'
<1>0. IInv
  BY DEF FlowInv
<1>1. PICK p \in Bevs : p = Other(b) /\ p # b /\ Other(p) = b
  BY OtherSide
<1>2. Joined(bev, b) /\ Only(b, p)
  BY <1>0, <1>1, ReadcbEffect
<1>3. Joined(bev, p)
  BY <1>1, <1>2, PairFlow
<1>4. /\ bev[b] \in BevState /\ bev[p] \in BevState
      /\ bev[b].input \in Seq(Lines) /\ bev[b].output \in Seq(Items)
      /\ bev[p].output \in Seq(Items) /\ received[p] \in Seq(Items)
      /\ wire[b] \in Seq(Lines) /\ Relayed(b) \in Seq(Lines)
  BY <1>0, <1>1, StreamFacts, Facts
<1>5. UNCHANGED <<wire, sent, received>>
  BY DEF RunReadcb, peers
<1>6. /\ ConservedAt(b) /\ ConservedAt(p)
      /\ Relayed(b) = Payload(received[p]) \o Payload(bev[p].output)
      /\ Relayed(b)' = Payload(received'[p]) \o Payload(bev'[p].output)
      /\ Relayed(p) = Payload(received[b]) \o Payload(bev[b].output)
      /\ Relayed(p)' = Payload(received'[b]) \o Payload(bev'[b].output)
  BY <1>1, ConservedBoth
<1>7. CASE PassedTo(b, p) \/ ChokedBy(b, p)
  <2>1. /\ bev'[b].input = <<>> /\ bev'[b].output = bev[b].output
        /\ bev'[p].input = bev[p].input
        /\ bev'[p].output = bev[p].output \o bev[b].input
    <3>1. CASE PassedTo(b, p)
      BY <1>4, <3>1 DEF PassedTo, BevState
    <3>2. CASE ChokedBy(b, p)
      BY <1>4, <3>2 DEF ChokedBy, BevState
    <3> QED
      BY <1>7, <3>1, <3>2
  <2>2. Relayed(b)' = Relayed(b) \o bev[b].input
    <3>1. Payload(received[p]) \o Payload(bev[p].output \o bev[b].input)
            = (Payload(received[p]) \o Payload(bev[p].output)) \o bev[b].input
      BY <1>4, PassedPayload
    <3> QED
      BY <1>5, <1>6, <2>1, <3>1
  <2>3. (Relayed(b) \o bev[b].input) \o wire[b] = sent[b]
    BY <1>2, <1>6 DEF ConservedAt
  <2>4. /\ (Relayed(b) \o bev[b].input) \o <<>> = Relayed(b) \o bev[b].input
        /\ IsPrefix(Relayed(b) \o bev[b].input, sent[b])
    <3>1. Relayed(b) \o bev[b].input \in Seq(Lines)
      BY <1>4, ConcatProperties
    <3>2. PICK r \in Seq(Lines), w \in Seq(Lines) :
              r = Relayed(b) \o bev[b].input /\ w = wire[b]
      BY <1>4, <3>1
    <3>3. IsPrefix(r, r \o w)
      BY PrefixConcat
    <3>4. r \o <<>> = r
      BY ConcatEmptySeq
    <3> QED
      BY <2>3, <3>2, <3>3, <3>4
  <2>5. ConservedAt(b)'
    BY <1>5, <2>1, <2>2, <2>3, <2>4 DEF ConservedAt
  <2>6. ConservedAt(p)'
    BY <1>1, <1>3, <1>5, <1>6, <2>1, ConservedFrame
  <2> QED
    BY <1>1, <1>2, <1>5, <2>5, <2>6, ConservedPair
<1>8. CASE Answered(b, p)
  <2>1. /\ bev'[b].input = bev[b].input /\ bev'[p] = bev[p]
        /\ bev'[b].output = Append(bev[b].output, BlockMsg)
    BY <1>4, <1>8 DEF Answered, BevState
  <2>2. ConservedAt(b)'
    BY <1>1, <1>2, <1>5, <1>6, <2>1, ConservedFrame
  <2>3. Relayed(p)' = Relayed(p)
    BY <1>4, <1>5, <1>6, <2>1, PayloadAnswer
  <2>4. ConservedAt(p)'
    BY <1>3, <1>5, <1>6, <2>1, <2>3 DEF ConservedAt
  <2> QED
    BY <1>1, <1>2, <1>5, <2>2, <2>4, ConservedPair
<1> QED
  BY <1>0, <1>1, <1>7, <1>8, ReadcbEffect

LEMMA WritecbConserves ==
    ASSUME FlowInv, Conservation, NEW b \in Bevs, RunWritecb(b)
    PROVE  Conservation'
<1>0. IInv
  BY DEF FlowInv
<1>1. PICK p \in Bevs : p = Other(b) /\ p # b /\ Other(p) = b
  BY OtherSide
<1>2. UNCHANGED <<wire, sent, received>>
  BY DEF RunWritecb, peers
<1>3. bev[b] \in BevState /\ bev[p] \in BevState
  BY <1>0, Facts
<1>4. ConservedAt(b) /\ ConservedAt(p)
  BY <1>1, ConservedBoth
<1>5. CASE Joined(bev, b) /\ Only(b, p) /\ DrainedFor(b, p)
  <2>1. /\ bev'[b].input = bev[b].input /\ bev'[b].output = bev[b].output
        /\ bev'[p].input = bev[p].input /\ bev'[p].output = bev[p].output
    BY <1>3, <1>5 DEF DrainedFor, BevState
  <2>2. Joined(bev, p)
    BY <1>1, <1>5, PairFlow
  <2> QED
    BY <1>1, <1>2, <1>4, <1>5, <2>1, <2>2, ConservedFrame, ConservedPair
<1>6. CASE /\ Closing(bev, b) /\ Only(b, b)
           /\ \/ bev'[b] = Absent("freed") /\ bev[b].output = <<>>
              \/ bev'[b] = [bev[b] EXCEPT !.pend = @ \ {"write"}]
  <2>1. bev'[b].ctx = NoBev /\ bev'[b].output = bev[b].output
    BY <1>3, <1>6 DEF Closing, Absent, BevState
  <2>2. bev'[p] = bev[p] /\ Only(b, p) /\ bev[p].mem = "freed"
    BY <1>1, <1>6 DEF Only, Closing
  <2>3. ~Joined(bev', b) /\ ~Joined(bev', p)
    BY <1>1, <2>1, <2>2, ProxyAssumption DEF Joined
  <2> QED
    BY <1>1, <1>2, <1>4, <2>1, <2>2, <2>3, ConservedFrame, ConservedPair
<1> QED
  BY <1>0, <1>1, <1>5, <1>6, WritecbEffect

LEMMA ClosedOutput ==
    ASSUME NEW p \in Bevs, bev[p] \in BevState, NEW o, ClosedWith(p, o)
    PROVE  bev'[p].output = o
<1>1. CASE o = <<>> /\ bev'[p] = Absent("freed")
  BY <1>1 DEF Absent
<1>2. CASE o # <<>>
  BY <1>2 DEF ClosedWith, BevState
<1> QED
  BY <1>1, <1>2 DEF ClosedWith

\* What eventcb drops was on its way to a peer that is gone.
LEMMA EventcbConserves ==
    ASSUME FlowInv, Conservation, NEW b \in Bevs, RunEventcb(b)
    PROVE  Conservation'
<1>0. IInv
  BY DEF FlowInv
<1>1. PICK p \in Bevs : p = Other(b) /\ p # b /\ Other(p) = b
  BY OtherSide
<1>2. PICK v \in Verdicts(b) :
        \/ Closing(bev, b) /\ Only(b, b)
        \/ /\ Joined(bev, b) /\ Only(b, p)
           /\ ClosedWith(p, IF v.block THEN bev[p].output
                            ELSE bev[p].output \o bev[b].input)
  BY <1>0, <1>1, EventcbEffect
<1>3. bev'[b].mem = "freed" /\ bev'[b].output = <<>>
  <2>1. bev'[b] = Absent("freed")
    BY <1>0, EventcbEffect
  <2> QED
    BY <2>1 DEF Absent
<1>4. ~Joined(bev', b) /\ ~Joined(bev', p)
  BY <1>1, <1>3 DEF Joined
<1>5. UNCHANGED <<wire, sent, received>>
  BY DEF RunEventcb, peers
<1>6. /\ ConservedAt(b) /\ ConservedAt(p)
      /\ Relayed(b) = Payload(received[p]) \o Payload(bev[p].output)
      /\ Relayed(b)' = Payload(received'[p]) \o Payload(bev'[p].output)
      /\ Relayed(p) = Payload(received[b]) \o Payload(bev[b].output)
      /\ Relayed(p)' = Payload(received'[b]) \o Payload(bev'[b].output)
  BY <1>1, ConservedBoth
<1>7. /\ bev[p] \in BevState /\ bev[b].input \in Seq(Lines)
      /\ Payload(bev[b].output) \in Seq(Lines)
      /\ Payload(received[b]) \in Seq(Lines) /\ wire[b] \in Seq(Lines)
      /\ bev[p].output \in Seq(Items) /\ received[p] \in Seq(Items)
      /\ Relayed(b) \in Seq(Lines) /\ sent[p] \in Seq(Lines)
      /\ bev[p].output \in Seq(Items)
  BY <1>0, <1>1, StreamFacts, Facts
<1>8. ConservedAt(p)'
  <2>1. PICK r \in Seq(Lines), o \in Seq(Lines), s \in Seq(Lines) :
            /\ r = Payload(received[b]) /\ o = Payload(bev[b].output)
            /\ s = sent[p]
    BY <1>7
  <2>2. IsPrefix(r \o o, s)
    BY <1>6, <2>1 DEF ConservedAt
  <2>3. IsPrefix(r, s) /\ r \o <<>> = r
    BY <2>2, PrefixCut, ConcatEmptySeq
  <2>4. Relayed(p)' = r
    BY <1>3, <1>5, <1>6, <2>1, <2>3, PayloadEmpty
  <2> QED
    BY <1>4, <1>5, <2>1, <2>3, <2>4 DEF ConservedAt
<1>9. CASE Closing(bev, b) /\ Only(b, b)
  <2>1. bev'[p] = bev[p] /\ Only(b, p)
    BY <1>1, <1>9 DEF Only
  <2>2. ConservedAt(b)'
    BY <1>1, <1>4, <1>5, <1>6, <2>1, ConservedFrame
  <2> QED
    BY <1>1, <1>5, <1>8, <2>1, <2>2, ConservedPair
<1>10. CASE /\ Joined(bev, b) /\ Only(b, p)
            /\ ClosedWith(p, IF v.block THEN bev[p].output
                             ELSE bev[p].output \o bev[b].input)
  <2> DEFINE o == IF v.block THEN bev[p].output
                             ELSE bev[p].output \o bev[b].input
  <2>1. bev'[p].output = o
    BY <1>7, <1>10, ClosedOutput DEF o
  <2>2. Relayed(b)' \in {Relayed(b), Relayed(b) \o bev[b].input}
    <3>1. Payload(received[p]) \o Payload(bev[p].output \o bev[b].input)
            = (Payload(received[p]) \o Payload(bev[p].output)) \o bev[b].input
      BY <1>7, PassedPayload
    <3> QED
      BY <1>5, <1>6, <2>1, <3>1
  <2>3. IsPrefix(Relayed(b) \o bev[b].input, sent[b])
    <3>1. PICK r \in Seq(Lines), w \in Seq(Lines) :
              r = Relayed(b) \o bev[b].input /\ w = wire[b]
      BY <1>7, ConcatProperties
    <3>2. IsPrefix(r, r \o w)
      BY PrefixConcat
    <3>3. r \o w = sent[b]
      BY <1>6, <1>10, <3>1 DEF ConservedAt
    <3> QED
      BY <3>1, <3>2, <3>3
  <2>4. ConservedAt(b)'
    BY <1>4, <1>5, <1>6, <2>2, <2>3 DEF ConservedAt
  <2> QED
    BY <1>1, <1>5, <1>8, <1>10, <2>4, ConservedPair
<1> QED
  BY <1>2, <1>9, <1>10

\* A line that is sent is on the wire.
LEMMA PeerSendConserves ==
    ASSUME FlowInv, Conservation, NEW b \in Bevs, PeerSend(b)
    PROVE  Conservation'
<1>0. IInv
  BY DEF FlowInv
<1>1. PICK p \in Bevs : p = Other(b) /\ p # b /\ Other(p) = b
  BY OtherSide
<1>2. PICK l \in Lines : /\ wire' = [wire EXCEPT ![b] = Append(@, l)]
                         /\ sent' = [sent EXCEPT ![b] = Append(@, l)]
  BY DEF PeerSend
<1>3. /\ wire'[b] = Append(wire[b], l) /\ sent'[b] = Append(sent[b], l)
      /\ \A x \in Bevs \ {b} : wire'[x] = wire[x] /\ sent'[x] = sent[x]
      /\ bev' = bev /\ received' = received
  <2>1. wire \in [Bevs -> Seq(Lines)] /\ sent \in [Bevs -> Seq(Lines)]
    BY <1>0 DEF IInv, TypeOK
  <2> QED
    BY <1>2, <2>1 DEF PeerSend
<1>4. /\ Relayed(b)' = Relayed(b) /\ ConservedAt(b) /\ ConservedAt(p)
  BY <1>1, <1>3, ConservedBoth
<1>5. PICK r \in Seq(Lines), i \in Seq(Lines), w \in Seq(Lines),
           s \in Seq(Lines) :
        r = Relayed(b) /\ i = bev[b].input /\ w = wire[b] /\ s = sent[b]
  BY <1>0, <1>1, StreamFacts
<1>6. IsPrefix(r, Append(s, l))
  BY <1>4, <1>5, PrefixAppend DEF ConservedAt
<1>7. Joined(bev, b) => (r \o i) \o Append(w, l) = Append(s, l)
  <2>1. r \o i \in Seq(Lines)
    BY ConcatProperties
  <2>2. (r \o i) \o Append(w, l) = Append((r \o i) \o w, l)
    <3>1. Equal(Append((r \o i) \o w, l), (r \o i) \o Append(w, l))
      BY <2>1, AppendConcats, Zenon
    <3> QED
      BY <3>1 DEF Equal
  <2>3. Joined(bev, b) => (r \o i) \o w = s
    BY <1>4, <1>5 DEF ConservedAt
  <2> QED
    BY <2>2, <2>3
<1>8. ConservedAt(b)'
  BY <1>3, <1>4, <1>5, <1>6, <1>7 DEF ConservedAt
<1>9. ConservedAt(p)'
  BY <1>1, <1>3, <1>4, ConservedFrame
<1>10. Only(b, p)
  BY <1>3 DEF Only
<1> QED
  BY <1>1, <1>3, <1>8, <1>9, <1>10, ConservedPair

LEMMA NextConserves ==
    FlowInv /\ Conservation /\ [Next]_vars => Conservation'
<1> SUFFICES ASSUME FlowInv, Conservation, [Next]_vars PROVE Conservation'
  OBVIOUS
<1>0. ASSUME bev' = bev, UNCHANGED <<wire, sent, received>>
      PROVE  Conservation'
  BY <1>0, ConservedStill
<1>1. ASSUME NEW c \in Conns, accept_cb(c) \/ accept_cb_refused(c)
      PROVE  Conservation'
  BY <1>1, AcceptConserves
<1>2. ASSUME NEW b \in Bevs, SocketEvent(b)
      PROVE  Conservation'
  BY <1>2, QuietConserves, SocketReadConserves, SocketWriteConserves
     DEF SocketEvent
<1>3. ASSUME NEW b \in Bevs, Callback(b)
      PROVE  Conservation'
  <2>1. CASE CallbacksDone(b) \/ ProcessEnds(b)
    BY <1>0, <2>1 DEF CallbacksDone, ProcessEnds, peers
  <2> QED
    BY <1>3, <2>1, ReadcbConserves, WritecbConserves, EventcbConserves
       DEF Callback
<1>4. ASSUME NEW b \in Bevs, PeerStep(b)
      PROVE  Conservation'
  <2>1. CASE PeerCloses(b) \/ PeerResets(b)
    BY <1>0, <2>1 DEF PeerCloses, PeerResets
  <2> QED
    BY <1>4, <2>1, PeerSendConserves DEF PeerStep
<1>5. CASE Dispatch \/ UNCHANGED vars
  BY <1>0, <1>5 DEF Dispatch, vars, peers
<1> QED
  BY <1>1, <1>2, <1>3, <1>4, <1>5 DEF Next

LEMMA InitConserves == Init => Conservation
<1> SUFFICES ASSUME Init, NEW b \in Bevs PROVE ConservedAt(b)
  BY DEF Conservation, ConservedAt
<1>1. PICK p \in Bevs : p = Other(b)
  BY OtherSide
<1>2. /\ bev[b].mem = "new" /\ bev[p].output = <<>> /\ received[p] = <<>>
      /\ sent[b] = <<>>
  BY DEF Init, Absent
<1>3. <<>> \o <<>> = <<>> /\ <<>> \in Seq({})
  BY ConcatEmptySeq, EmptySeq
<1>4. Relayed(b) = <<>> /\ IsPrefix(<<>>, <<>> \o <<>>)
  BY <1>1, <1>2, <1>3, PayloadEmpty, PrefixConcat DEF Relayed
<1> QED
  BY <1>2, <1>3, <1>4 DEF ConservedAt, Joined

\* What a peer gets is, answers apart, a prefix of what the other sent; as long
\* as both sides are up the rest is in the input buffer or on the wire.
THEOREM NothingLost == Spec => []Conservation
BY InitConserves, NextConserves, FlowHolds, PTL DEF Spec

-----------------------------------------------------------------------------
(* What a step makes of a stream.                                           *)

\* Nothing.
Untouched(b) ==
    /\ Relayed(b)' = Relayed(b) /\ held'[b] = held[b]
    /\ Joined(bev', b) => Joined(bev, b) \/ ~Blocked(b)

\* The other side is gone, with what it had not written.
Dropped(b) ==
    /\ IsPrefix(Relayed(b)', Relayed(b)) /\ held'[b] = held[b]
    /\ ~Joined(bev', b)

\* b's input was inspected, and relayed or blocked.
Judged(b) ==
    /\ Joined(bev, b) /\ (Joined(bev', b) => ~Blocked(b))
    /\ \E v \in Verdicts(b) :
          /\ Hold(b, v.block)
          /\ Relayed(b)' = IF v.block THEN Relayed(b)
                                      ELSE Relayed(b) \o bev[b].input

StreamStep(b) == Untouched(b) \/ Dropped(b) \/ Judged(b)

\* A stream whose two ends a step leaves alone.
LEMMA UntouchedFrame ==
    ASSUME NEW b \in Bevs,
           received'[Other(b)] = received[Other(b)],
           bev'[Other(b)].output = bev[Other(b)].output,
           held'[b] = held[b],
           Joined(bev', b) => Joined(bev, b) \/ ~Blocked(b)
    PROVE  Untouched(b)
BY DEF Untouched, Relayed

\* A step of one pair.
LEMMA StreamPair ==
    ASSUME NEW b \in Bevs, NEW p \in Bevs, p = Other(b), Only(b, p),
           \A x \in Bevs \ {b, p} : /\ held'[x] = held[x]
                                    /\ received'[x] = received[x],
           StreamStep(b), StreamStep(p)
    PROVE  \A x \in Bevs : StreamStep(x)
<1> SUFFICES ASSUME NEW x \in Bevs \ {b, p} PROVE StreamStep(x)
  OBVIOUS
<1>1. PICK y \in Bevs \ {b, p} : y = Other(x)
  BY OtherSide
<1>2. bev'[x] = bev[x] /\ bev'[y] = bev[y]
  BY <1>1 DEF Only
<1>3. Joined(bev', x) => Joined(bev, x)
  BY <1>1, <1>2 DEF Joined
<1> QED
  BY <1>1, <1>2, <1>3, UntouchedFrame DEF StreamStep

LEMMA AcceptStreams ==
    ASSUME FlowInv, NEW c \in Conns, accept_cb(c) \/ accept_cb_refused(c)
    PROVE  \A x \in Bevs : StreamStep(x)
<1>1. PICK b \in Bevs : b = <<c, "in">> /\ b[1] = c
  <2>1. <<c, "in">> \in Bevs /\ <<c, "in">>[1] = c
    BY DEF Bevs
  <2> QED
    BY <2>1
<1>2. PICK p \in Bevs : p = Other(b) /\ p # b /\ Other(p) = b
  BY OtherSide
<1>3. \A x \in Bevs : x[1] = c <=> x \in {b, p}
  BY <1>1, <1>2 DEF Bevs, Other
<1>4. Only(b, p) /\ UNCHANGED <<peers, held>>
  BY <1>3 DEF accept_cb, accept_cb_refused, Only
<1>5. \A x \in {b, p} : bev'[x].output = <<>>
  <2>1. CASE accept_cb(c)
    BY <1>3, <2>1 DEF accept_cb, Absent
  <2>2. CASE accept_cb_refused(c)
    BY <1>3, <2>2 DEF accept_cb_refused, Absent
  <2> QED
    BY <2>1, <2>2
<1>6. \A x \in {b, p} : bev[x].output = <<>> /\ ~Blocked(x)
  <2>1. \A x \in {b, p} : bev[x] = Absent("new") /\ held[x] = NoHold
    BY <1>1, <1>2 DEF accept_cb, accept_cb_refused, FlowInv, Fresh
  <2> QED
    BY <2>1 DEF Absent, Blocked
<1>7. Untouched(b) /\ Untouched(p)
  BY <1>2, <1>4, <1>5, <1>6, UntouchedFrame DEF peers
<1> QED
  BY <1>2, <1>4, <1>7, StreamPair DEF StreamStep, peers

LEMMA SocketWriteStreams ==
    ASSUME FlowInv, NEW b \in Bevs, SocketWrite(b)
    PROVE  \A x \in Bevs : StreamStep(x)
<1>0. IInv
  BY DEF FlowInv
<1>1. PICK p \in Bevs : p = Other(b) /\ p # b /\ Other(p) = b
  BY OtherSide
<1>2. Only(b, p) /\ bev'[p] = bev[p] /\ held' = held
  BY <1>0, <1>1, SocketWriteEffect DEF Only, SocketWrite
<1>3. PICK n \in 1 .. Len(bev[b].output) : WrittenTo(b, n)
  BY <1>0, SocketWriteEffect
<1>4. /\ bev[b] \in BevState /\ bev[b].output \in Seq(Items)
      /\ received[b] \in Seq(Items)
      /\ received \in [Bevs -> Seq(Lines \cup {BlockMsg})]
  BY <1>0, StreamFacts, Facts DEF IInv, TypeOK
<1> DEFINE first == SubSeq(bev[b].output, 1, n)
           left == SubSeq(bev[b].output, n + 1, Len(bev[b].output))
<1>5. /\ bev'[b].output = left
      /\ bev'[b].mem = bev[b].mem /\ bev'[b].ctx = bev[b].ctx
      /\ bev'[b].readcb = bev[b].readcb /\ bev'[b].writecb = bev[b].writecb
  BY <1>3, <1>4 DEF WrittenTo, BevState
<1>6. /\ received'[b] = received[b] \o first
      /\ \A x \in Bevs \ {b} : received'[x] = received[x]
  BY <1>3, <1>4 DEF WrittenTo
<1>7. Payload(received[b] \o first) \o Payload(left)
          = Payload(received[b]) \o Payload(bev[b].output)
  BY <1>3, <1>4, WrittenPayload
<1> HIDE DEF first, left
<1>8. (Joined(bev', b) => Joined(bev, b)) /\ (Joined(bev', p) => Joined(bev, p))
  BY <1>1, <1>2, <1>5 DEF Joined
<1>9. Untouched(b)
  BY <1>1, <1>2, <1>6, <1>8, UntouchedFrame
<1>10. Untouched(p)
  <2>1. Relayed(p)' = Relayed(p)
    BY <1>1, <1>5, <1>6, <1>7 DEF Relayed
  <2> QED
    BY <1>2, <1>8, <2>1 DEF Untouched
<1> QED
  BY <1>1, <1>2, <1>6, <1>9, <1>10, StreamPair DEF StreamStep

LEMMA ReadcbStreams ==
    ASSUME FlowInv, NEW b \in Bevs, RunReadcb(b)
    PROVE  \A x \in Bevs : StreamStep(x)
<1>0. IInv
  BY DEF FlowInv
<1>1. PICK p \in Bevs : p = Other(b) /\ p # b /\ Other(p) = b
  BY OtherSide
<1>2. Joined(bev, b) /\ Only(b, p)
  BY <1>0, <1>1, ReadcbEffect
<1>3. PICK v \in Verdicts(b) :
        /\ Hold(b, v.block)
        /\ IF v.block THEN Answered(b, p) ELSE PassedTo(b, p) \/ ChokedBy(b, p)
  BY <1>0, <1>1, ReadcbEffect
<1>4. /\ bev[b] \in BevState /\ bev[p] \in BevState
      /\ bev[b].input \in Seq(Lines) /\ bev[b].output \in Seq(Items)
      /\ bev[p].output \in Seq(Items) /\ received[p] \in Seq(Items)
      /\ received[b] \in Seq(Items)
  BY <1>0, <1>1, StreamFacts, Facts
<1>5. received' = received
  BY DEF RunReadcb, peers
<1>6. \A x \in Bevs \ {b} : held'[x] = held[x]
  BY <1>0, <1>3, VerdictBlock, HoldEffect
<1>7. Joined(bev, p)
  BY <1>1, <1>2, PairFlow
<1>10. ~Blocked(b)
  BY <1>1, <1>2 DEF RunReadcb, ReadDue, FlowInv, Flow, FlowAt, Silenced
<1>8. ASSUME ~v.block PROVE Judged(b) /\ Untouched(p)
  <2>1. /\ bev'[b].output = bev[b].output
        /\ bev'[p].output = bev[p].output \o bev[b].input
    <3>1. CASE PassedTo(b, p)
      BY <1>4, <3>1 DEF PassedTo, BevState
    <3>2. CASE ChokedBy(b, p)
      BY <1>4, <3>2 DEF ChokedBy, BevState
    <3> QED
      BY <1>3, <1>8, <3>1, <3>2
  <2>2. Relayed(b)' = Relayed(b) \o bev[b].input
    <3>1. Payload(received[p]) \o Payload(bev[p].output \o bev[b].input)
            = (Payload(received[p]) \o Payload(bev[p].output)) \o bev[b].input
      BY <1>4, PassedPayload
    <3> QED
      BY <1>1, <1>5, <2>1, <3>1 DEF Relayed
  <2>3. Untouched(p)
    BY <1>1, <1>5, <1>6, <1>7, <2>1, UntouchedFrame
  <2> QED
    BY <1>2, <1>3, <1>8, <1>10, <2>2, <2>3 DEF Judged
<1>9. ASSUME v.block PROVE Judged(b) /\ Untouched(p)
  <2>1. /\ bev'[p] = bev[p]
        /\ bev'[b].output = Append(bev[b].output, BlockMsg)
    BY <1>3, <1>4, <1>9 DEF Answered, BevState
  <2>2. Relayed(b)' = Relayed(b)
    BY <1>1, <1>5, <2>1 DEF Relayed
  <2>3. Relayed(p)' = Relayed(p)
    BY <1>1, <1>4, <1>5, <2>1, PayloadAnswer DEF Relayed
  <2>4. Untouched(p)
    BY <1>1, <1>6, <1>7, <2>3 DEF Untouched
  <2> QED
    BY <1>2, <1>3, <1>9, <1>10, <2>2, <2>4 DEF Judged
<1> QED
  BY <1>1, <1>2, <1>5, <1>6, <1>8, <1>9, StreamPair DEF StreamStep

LEMMA WritecbStreams ==
    ASSUME FlowInv, NEW b \in Bevs, RunWritecb(b)
    PROVE  \A x \in Bevs : StreamStep(x)
<1>0. IInv
  BY DEF FlowInv
<1>1. PICK p \in Bevs : p = Other(b) /\ p # b /\ Other(p) = b
  BY OtherSide
<1>2. received' = received /\ held' = held
  BY DEF RunWritecb, peers
<1>3. bev[b] \in BevState /\ bev[p] \in BevState
  BY <1>0, Facts
<1>4. CASE Joined(bev, b) /\ Only(b, p) /\ DrainedFor(b, p)
  <2>1. bev'[b].output = bev[b].output /\ bev'[p].output = bev[p].output
    BY <1>3, <1>4 DEF DrainedFor, BevState
  <2>2. Joined(bev, p)
    BY <1>1, <1>4, PairFlow
  <2>3. Untouched(b) /\ Untouched(p)
    BY <1>1, <1>2, <1>4, <2>1, <2>2, UntouchedFrame
  <2> QED
    BY <1>1, <1>2, <1>4, <2>3, StreamPair DEF StreamStep
<1>5. CASE /\ Closing(bev, b) /\ Only(b, b)
           /\ \/ bev'[b] = Absent("freed") /\ bev[b].output = <<>>
              \/ bev'[b] = [bev[b] EXCEPT !.pend = @ \ {"write"}]
  <2>1. bev'[b].ctx = NoBev /\ bev'[b].output = bev[b].output
    BY <1>3, <1>5 DEF Closing, Absent, BevState
  <2>2. bev'[p] = bev[p] /\ Only(b, p) /\ bev[p].mem = "freed"
    BY <1>1, <1>5 DEF Only, Closing
  <2>3. ~Joined(bev', b) /\ ~Joined(bev', p)
    BY <1>1, <2>1, <2>2, ProxyAssumption DEF Joined
  <2>4. Untouched(b) /\ Untouched(p)
    BY <1>1, <1>2, <2>1, <2>2, <2>3, UntouchedFrame
  <2> QED
    BY <1>1, <1>2, <2>2, <2>4, StreamPair DEF StreamStep
<1> QED
  BY <1>0, <1>1, <1>4, <1>5, WritecbEffect

\* What is lost to a peer that is gone is the end of what was relayed to it.
LEMMA FreedDrops ==
    ASSUME IInv, NEW b \in Bevs, bev'[Other(b)].output = <<>>,
           received' = received
    PROVE  IsPrefix(Relayed(b)', Relayed(b))
<1>1. PICK r \in Seq(Lines), o \in Seq(Lines) :
        r = Payload(received[Other(b)]) /\ o = Payload(bev[Other(b)].output)
  BY OtherSide, StreamFacts
<1>2. Relayed(b)' = r \o <<>> /\ Relayed(b) = r \o o
  BY <1>1, PayloadEmpty DEF Relayed
<1>3. r \o <<>> = r /\ IsPrefix(r, r \o o)
  BY PrefixConcat, ConcatEmptySeq
<1> QED
  BY <1>2, <1>3

LEMMA EventcbStreams ==
    ASSUME FlowInv, NEW b \in Bevs, RunEventcb(b)
    PROVE  \A x \in Bevs : StreamStep(x)
<1>0. IInv
  BY DEF FlowInv
<1>1. PICK p \in Bevs : p = Other(b) /\ p # b /\ Other(p) = b
  BY OtherSide
<1>2. PICK v \in Verdicts(b) :
        /\ Hold(b, v.block)
        /\ \/ Closing(bev, b) /\ Only(b, b)
           \/ /\ Joined(bev, b) /\ Only(b, p)
              /\ ClosedWith(p, IF v.block THEN bev[p].output
                               ELSE bev[p].output \o bev[b].input)
  BY <1>0, <1>1, EventcbEffect
<1>3. bev'[b].mem = "freed" /\ bev'[b].output = <<>>
  <2>1. bev'[b] = Absent("freed")
    BY <1>0, EventcbEffect
  <2> QED
    BY <2>1 DEF Absent
<1>4. ~Joined(bev', b) /\ ~Joined(bev', p)
  BY <1>1, <1>3 DEF Joined
<1>5. received' = received
  BY DEF RunEventcb, peers
<1>6. \A x \in Bevs \ {b} : held'[x] = held[x]
  BY <1>0, <1>2, VerdictBlock, HoldEffect
<1>7. Dropped(p)
  BY <1>0, <1>1, <1>3, <1>4, <1>5, <1>6, FreedDrops DEF Dropped
<1>8. CASE Closing(bev, b) /\ Only(b, b)
  <2>1. bev'[p] = bev[p] /\ Only(b, p)
    BY <1>1, <1>8 DEF Only
  <2>2. v.block = FALSE
    <3>1. bev[b].ctx = NoBev
      BY <1>8 DEF Closing
    <3> QED
      BY <3>1 DEF Verdicts
  <2>3. held'[b] = held[b]
    BY <1>0, <1>2, <2>2, HoldEffect
  <2>4. Untouched(b)
    BY <1>1, <1>4, <1>5, <2>1, <2>3, UntouchedFrame
  <2> QED
    BY <1>1, <1>5, <1>6, <1>7, <2>1, <2>4, StreamPair DEF StreamStep
<1>9. CASE /\ Joined(bev, b) /\ Only(b, p)
           /\ ClosedWith(p, IF v.block THEN bev[p].output
                            ELSE bev[p].output \o bev[b].input)
  <2> DEFINE o == IF v.block THEN bev[p].output
                             ELSE bev[p].output \o bev[b].input
  <2>1. /\ bev[p] \in BevState /\ bev[b].input \in Seq(Lines)
        /\ bev[p].output \in Seq(Items) /\ received[p] \in Seq(Items)
    BY <1>0, <1>1, StreamFacts, Facts
  <2>2. bev'[p].output = o
    BY <1>9, <2>1, ClosedOutput DEF o
  <2>3. Payload(received[p]) \o Payload(bev[p].output \o bev[b].input)
          = (Payload(received[p]) \o Payload(bev[p].output)) \o bev[b].input
    BY <2>1, PassedPayload
  <2>4. Relayed(b)' = IF v.block THEN Relayed(b) ELSE Relayed(b) \o bev[b].input
    BY <1>1, <1>5, <2>2, <2>3 DEF Relayed
  <2>5. Judged(b)
    BY <1>2, <1>4, <1>9, <2>4 DEF Judged
  <2> QED
    BY <1>1, <1>5, <1>6, <1>7, <1>9, <2>5, StreamPair DEF StreamStep
<1> QED
  BY <1>2, <1>8, <1>9

\* Whatever happens, a stream is left alone, dropped or judged.
LEMMA NextStreams ==
    ASSUME FlowInv, [Next]_vars
    PROVE  \A x \in Bevs : StreamStep(x)
<1>0. ASSUME /\ received' = received /\ held' = held
             /\ \A x \in Bevs : /\ bev'[x].output = bev[x].output
                                /\ Joined(bev', x) => Joined(bev, x)
      PROVE  \A x \in Bevs : StreamStep(x)
  BY <1>0, OtherSide, UntouchedFrame DEF StreamStep
<1>1. ASSUME NEW c \in Conns, accept_cb(c) \/ accept_cb_refused(c)
      PROVE  \A x \in Bevs : StreamStep(x)
  BY <1>1, AcceptStreams
<1>2. ASSUME NEW b \in Bevs, SocketEvent(b)
      PROVE  \A x \in Bevs : StreamStep(x)
  <2>1. CASE \/ Connected(b) \/ ConnectFailed(b)
             \/ SocketReadEnd(b) \/ SocketWriteError(b)
    <3>1. /\ UNCHANGED <<peers, held>>
          /\ \A x \in Bevs : /\ bev'[x].output = bev[x].output
                             /\ SameLink(bev[x], bev'[x])
      BY <2>1, QuietEffect DEF FlowInv
    <3>2. \A x \in Bevs : Joined(bev', x) => Joined(bev, x)
      BY <3>1, OtherSide DEF SameLink, Joined
    <3> QED
      BY <1>0, <3>1, <3>2 DEF peers
  <2>2. CASE SocketRead(b)
    <3>1. Only(b, b) /\ bev[b] \in BevState
      BY SocketReadEffect, Facts, <2>2 DEF FlowInv
    <3>2. PICK n \in 1 .. MaxRead : ReadFrom(b, n)
      BY SocketReadEffect, <2>2 DEF FlowInv
    <3>3. /\ bev'[b].output = bev[b].output /\ bev'[b].mem = bev[b].mem
          /\ bev'[b].ctx = bev[b].ctx /\ bev'[b].readcb = bev[b].readcb
          /\ bev'[b].writecb = bev[b].writecb
      BY <3>1, <3>2 DEF ReadFrom, BevState
    <3>4. \A x \in Bevs :
            /\ bev'[x].output = bev[x].output /\ bev'[x].mem = bev[x].mem
            /\ bev'[x].ctx = bev[x].ctx /\ bev'[x].readcb = bev[x].readcb
            /\ bev'[x].writecb = bev[x].writecb
      BY <3>1, <3>3 DEF Only
    <3>5. \A x \in Bevs : Joined(bev', x) => Joined(bev, x)
      BY <3>4, OtherSide DEF Joined
    <3> QED
      BY <1>0, <2>2, <3>4, <3>5 DEF SocketRead
  <2> QED
    BY <1>2, <2>1, <2>2, SocketWriteStreams DEF SocketEvent
<1>3. ASSUME NEW b \in Bevs, Callback(b)
      PROVE  \A x \in Bevs : StreamStep(x)
  <2>1. CASE CallbacksDone(b) \/ ProcessEnds(b)
    BY <1>0, <2>1 DEF CallbacksDone, ProcessEnds, peers
  <2> QED
    BY <1>3, <2>1, ReadcbStreams, WritecbStreams, EventcbStreams DEF Callback
<1>4. ASSUME NEW b \in Bevs, PeerStep(b)
      PROVE  \A x \in Bevs : StreamStep(x)
  BY <1>0, <1>4 DEF PeerStep, PeerSend, PeerCloses, PeerResets
<1>5. CASE Dispatch \/ UNCHANGED vars
  BY <1>0, <1>5 DEF Dispatch, vars, peers
<1> QED
  BY <1>1, <1>2, <1>3, <1>4, <1>5 DEF Next

-----------------------------------------------------------------------------
(* What is rejected is held back.                                           *)

\* As long as both sides are up, nothing has been relayed since b was blocked;
\* what is relayed when a side ends is not what the rules on content reject for
\* good.
HeldAt(b) ==
    Blocked(b) /\ Joined(bev, b) => held[b].at = Len(Relayed(b))

HeldBackAt(b) ==
    Blocked(b) /\ RejectedForGood(held[b].input) => HeldBack(b)

HeldInv == \A b \in Bevs : HeldAt(b) /\ HeldBackAt(b)

\* What readcb asks of the filter when it has somebody to send to.
LEMMA VerdictOfText ==
    ASSUME IInv, NEW b \in Bevs, Joined(bev, b), NEW v \in Verdicts(b)
    PROVE  \E text \in Texts(bev[b].input), addr \in bufferevent_get_addr(b) :
               v = filter_check(text, addr, block_addr_list)
<1>1. bev[b].ctx # NoBev
  BY OtherSide, ProxyAssumption DEF Joined
<1>2. PICK x \in Inspections(b) :
          v = filter_check(x[1], x[2], block_addr_list)
  BY <1>1 DEF Verdicts
<1>3. x[1] \in Texts(bev[b].input) /\ x[2] \in bufferevent_get_addr(b)
  BY <1>2 DEF Inspections
<1> QED
  BY <1>2, <1>3

\* Input that the rules on content reject for good is blocked each time it is
\* inspected.
LEMMA RejectedAgain ==
    ASSUME IInv, NEW b \in Bevs, Joined(bev, b), NEW v \in Verdicts(b),
           RejectedForGood(bev[b].input)
    PROVE  v.block
<1>1. PICK text \in Texts(bev[b].input), addr \in bufferevent_get_addr(b) :
          v = filter_check(text, addr, block_addr_list)
  BY VerdictOfText
<1>2. bev[b].input \in Seq(Lines)
  BY Facts
<1> QED
  BY <1>1, <1>2, RejectedIsBlocked

LEMMA HeldStep ==
    ASSUME FlowInv, Conservation, HeldInv, NEW b \in Bevs, StreamStep(b)
    PROVE  HeldAt(b)' /\ HeldBackAt(b)'
<1>0. IInv /\ HeldAt(b) /\ HeldBackAt(b)
  BY DEF FlowInv, HeldInv
<1>1. PICK p \in Bevs : p = Other(b) /\ p # b /\ Other(p) = b
  BY OtherSide
<1>2. /\ Relayed(b) \in Seq(Lines) /\ bev[b].input \in Seq(Lines)
      /\ wire[b] \in Seq(Lines) /\ sent[b] \in Seq(Lines)
  BY <1>0, <1>1, StreamFacts
<1>3. held[b] \in [at : Int, input : Seq(Lines)] /\ Len(Relayed(b)) \in Nat
  BY <1>0, <1>2, LenProperties DEF IInv, TypeOK
<1>4. CASE Untouched(b)
  BY <1>0, <1>4
     DEF Untouched, HeldAt, HeldBackAt, HeldBack, Blocked
<1>5. CASE Dropped(b)
  <2>1. Len(Relayed(b)') <= Len(Relayed(b)) /\ Len(Relayed(b)') \in Nat
    BY <1>2, <1>3, <1>5 DEF Dropped, IsPrefix
  <2> QED
    BY <1>0, <1>3, <1>5, <2>1
       DEF Dropped, HeldAt, HeldBackAt, HeldBack, Blocked
<1>6. CASE Judged(b)
  <2>1. PICK v \in Verdicts(b) :
          /\ Hold(b, v.block)
          /\ Relayed(b)' = IF v.block THEN Relayed(b)
                                      ELSE Relayed(b) \o bev[b].input
    BY <1>6 DEF Judged
  <2>2. v.block \in BOOLEAN /\ Joined(bev, b) /\ (Joined(bev', b) => ~Blocked(b))
    BY <1>0, <1>6, VerdictBlock DEF Judged
  <2>3. CASE v.block /\ ~Blocked(b)
    <3>1. /\ held'[b].at = Len(sent[b]) - Len(wire[b]) - Len(bev[b].input)
          /\ Relayed(b)' = Relayed(b)
      <4>1. held'[b] = [at |-> Len(sent[b]) - Len(wire[b]) - Len(bev[b].input),
                        input |-> bev[b].input]
        BY <1>0, <2>1, <2>2, <2>3, HoldEffect DEF Blocked
      <4> QED
        BY <2>1, <2>3, <4>1
    <3>2. Len(sent[b]) = Len(Relayed(b)) + Len(bev[b].input) + Len(wire[b])
      <4>1. PICK r \in Seq(Lines), i \in Seq(Lines), w \in Seq(Lines) :
                r = Relayed(b) /\ i = bev[b].input /\ w = wire[b]
        BY <1>2
      <4>2. (r \o i) \o w = sent[b]
        BY <2>2, <4>1 DEF Conservation
      <4>3. Len((r \o i) \o w) = Len(r) + Len(i) + Len(w)
        OBVIOUS
      <4> QED
        BY <4>1, <4>2, <4>3
    <3>3. held'[b].at = Len(Relayed(b)')
      <4>1. PICK x \in Nat, y \in Nat, z \in Nat :
              x = Len(Relayed(b)) /\ y = Len(bev[b].input) /\ z = Len(wire[b])
        BY <1>2, LenProperties
      <4>2. Len(sent[b]) = x + y + z
        BY <3>2, <4>1
      <4>3. (x + y + z) - z - y = x
        OBVIOUS
      <4> QED
        BY <3>1, <4>1, <4>2, <4>3
    <3>4. Len(Relayed(b)') <= held'[b].at
      <4>1. PICK n \in Nat : n = Len(Relayed(b)')
        BY <1>3, <3>1
      <4> QED
        BY <3>3, <4>1
    <3> QED
      BY <3>3, <3>4 DEF HeldAt, HeldBackAt, HeldBack
  <2>4. CASE v.block /\ Blocked(b)
    <3>1. held'[b] = held[b] /\ Relayed(b)' = Relayed(b)
      BY <1>0, <2>1, <2>2, <2>4, HoldEffect DEF Blocked
    <3> QED
      BY <1>0, <2>2, <3>1 DEF HeldAt, HeldBackAt, HeldBack, Blocked
  <2>5. CASE ~v.block
    <3>1. held'[b] = held[b]
      BY <1>0, <2>1, <2>2, <2>5, HoldEffect
    <3>2. HeldAt(b)'
      BY <2>2, <3>1 DEF HeldAt, Blocked
    <3>3. ~(Blocked(b) /\ RejectedForGood(held[b].input))
      <4> SUFFICES ASSUME Blocked(b), RejectedForGood(held[b].input)
                   PROVE  FALSE
        OBVIOUS
      <4>1. bev[b].input = held[b].input
        BY <2>2 DEF FlowInv, Flow, FlowAt, Silenced
      <4> QED
        BY <1>0, <2>2, <2>5, <4>1, RejectedAgain
    <3> QED
      BY <3>1, <3>2, <3>3 DEF HeldBackAt, Blocked
  <2> QED
    BY <2>2, <2>3, <2>4, <2>5
<1> QED
  BY <1>4, <1>5, <1>6 DEF StreamStep

LEMMA NextHeld ==
    FlowInv /\ Conservation /\ HeldInv /\ [Next]_vars => HeldInv'
<1> SUFFICES ASSUME FlowInv, Conservation, HeldInv, [Next]_vars,
                    NEW b \in Bevs
             PROVE  HeldAt(b)' /\ HeldBackAt(b)'
  BY DEF HeldInv
<1> QED
  BY NextStreams, HeldStep

LEMMA HeldHolds == Spec => []HeldInv
<1>1. Init => HeldInv
  BY DEF Init, HeldInv, HeldAt, HeldBackAt, Blocked
<1> QED
  BY <1>1, NextHeld, FlowHolds, NothingLost, PTL DEF Spec

\* Input that the rules on content reject however its last line goes on, and
\* what its peer sends after it, is never relayed: not by a readcb that runs
\* again, not by the readcb that eventcb runs to flush, whatever the heap holds
\* behind the input, whatever address getpeername leaves and however strtok has
\* cut the block list.
THEOREM RejectedIsHeldBack == Spec => []RejectedHeldBack
<1>1. HeldInv => RejectedHeldBack
  BY DEF HeldInv, HeldBackAt, RejectedHeldBack
<1> QED
  BY <1>1, HeldHolds, PTL

-----------------------------------------------------------------------------
(* The block list.                                                          *)

\* strtok has left the list as it was read, or cut it after its first line.
ListInv == block_addr_list \in {BlockList, blocklist_after(BlockList)}

\* accept_cb's own connection is established from the beginning.
InUp == \A b \in Bevs : b[2] = "in" /\ Live(b) => bev[b].link = "up"

LEMMA AfterTwice ==
    \A l \in {BlockList, blocklist_after(BlockList)} :
        blocklist_after(l) = blocklist_after(BlockList)
<1>1. CASE BlockList = <<>>
  BY <1>1 DEF blocklist_after
<1>2. CASE BlockList # <<>>
  <2>1. /\ blocklist_after(BlockList) = <<Head(BlockList)>>
        /\ <<Head(BlockList)>> # <<>>
        /\ Head(<<Head(BlockList)>>) = Head(BlockList)
    BY <1>2 DEF blocklist_after
  <2> QED
    BY <2>1 DEF blocklist_after
<1> QED
  BY <1>1, <1>2

\* Who is in the first line is in the list, cut or not.
LEMMA FirstLine ==
    ASSUME NEW addr, blocklist_ip(addr, blocklist_after(BlockList)), ListInv
    PROVE  blocklist_ip(addr, block_addr_list)
<1>1. BlockList \in Seq(Entries)
  BY ProxyAssumption
<1>2. CASE BlockList = <<>>
  BY <1>2 DEF blocklist_after, ListInv
<1>3. CASE BlockList # <<>>
  <2>1. blocklist_after(BlockList) = <<Head(BlockList)>>
    BY <1>3 DEF blocklist_after
  <2>2. <<addr, Head(BlockList)>> \in Inside
    BY <2>1 DEF blocklist_ip
  <2>3. 1 \in DOMAIN BlockList /\ BlockList[1] = Head(BlockList)
    BY <1>1, <1>3
  <2> QED
    BY <2>2, <2>3 DEF ListInv, blocklist_ip
<1> QED
  BY <1>2, <1>3

LEMMA VerdictList ==
    ASSUME ListInv, NEW b \in Bevs, NEW v \in Verdicts(b)
    PROVE  v.list \in {BlockList, blocklist_after(BlockList)}
<1>1. CASE bev[b].ctx = NoBev
  <2>1. v = [block |-> FALSE, list |-> block_addr_list]
    BY <1>1 DEF Verdicts
  <2> QED
    BY <2>1 DEF ListInv
<1>2. CASE bev[b].ctx # NoBev
  <2>1. PICK x \in Inspections(b) :
            v = filter_check(x[1], x[2], block_addr_list)
    BY <1>2 DEF Verdicts
  <2>2. v.list \in {block_addr_list, blocklist_after(block_addr_list)}
    BY <2>1 DEF filter_check
  <2> QED
    BY <2>2, AfterTwice DEF ListInv
<1> QED
  BY <1>1, <1>2

LEMMA NextList == ListInv /\ [Next]_vars => ListInv'
<1> SUFFICES ASSUME ListInv, [Next]_vars PROVE ListInv'
  OBVIOUS
<1>1. ASSUME NEW b \in Bevs, RunReadcb(b) \/ RunEventcb(b) PROVE ListInv'
  <2>1. PICK v \in Verdicts(b) : block_addr_list' = v.list
    BY <1>1 DEF RunReadcb, RunEventcb
  <2> QED
    BY <2>1, VerdictList DEF ListInv
<1>2. ASSUME UNCHANGED block_addr_list PROVE ListInv'
  BY <1>2 DEF ListInv
<1> QED
  BY <1>1, <1>2
     DEF Next, vars, accept_cb, accept_cb_refused, Dispatch, SocketEvent,
         Connected, ConnectFailed, SocketRead, SocketReadEnd, SocketWrite,
         SocketWriteError, Callback, RunWritecb, CallbacksDone, ProcessEnds,
         PeerStep, PeerSend, PeerCloses, PeerResets

\* Once it is accepted, the client's side stays up until it is freed.
LEMMA NextUp == IInv /\ InUp /\ [Next]_vars => InUp'
<1> SUFFICES ASSUME IInv, InUp, [Next]_vars PROVE InUp'
  OBVIOUS
<1>1. ASSUME NEW b \in Bevs, NEW p \in Bevs, Only(b, p),
             \A x \in {b, p} :
                 bev'[x].mem = "live" =>
                     bev[x].mem = "live" /\ bev'[x].link = bev[x].link
      PROVE  InUp'
  BY <1>1 DEF InUp, Only, Live
<1>2. ASSUME NEW c \in Conns, accept_cb(c) PROVE InUp'
  <2> SUFFICES ASSUME NEW x \in Bevs, x[2] = "in", bev'[x].mem = "live"
               PROVE  bev'[x].link = "up"
    BY DEF InUp, Live
  <2>1. CASE x[1] = c
    BY <1>2, <2>1 DEF accept_cb, Absent
  <2>2. CASE x[1] # c
    BY <1>2, <2>2 DEF accept_cb, InUp, Live
  <2> QED
    BY <2>1, <2>2
<1>3. ASSUME NEW c \in Conns, accept_cb_refused(c) PROVE InUp'
  <2> SUFFICES ASSUME NEW x \in Bevs, x[2] = "in", bev'[x].mem = "live"
               PROVE  bev'[x].link = "up"
    BY DEF InUp, Live
  <2>1. x[1] # c
    BY <1>3 DEF accept_cb_refused, Absent
  <2> QED
    BY <1>3, <2>1 DEF accept_cb_refused, InUp, Live
<1>4. ASSUME NEW b \in Bevs, SocketEvent(b) PROVE InUp'
  <2>1. bev \in BevStates /\ bev[b] \in BevState
    BY Facts
  <2>2. CASE Connected(b) \/ ConnectFailed(b)
    <3>1. b[2] # "in"
      BY <2>2 DEF Connected, ConnectFailed, InUp
    <3>2. \A x \in Bevs \ {b} : bev'[x] = bev[x]
      BY <2>1, <2>2 DEF Connected, ConnectFailed, BevStates
    <3> QED
      BY <3>1, <3>2 DEF InUp, Live
  <2>3. CASE SocketReadEnd(b)
    <3> DEFINE e == IF shut[b] = "fin" THEN "eof" ELSE "error"
    <3>1. bev' = [bev EXCEPT ![b].read = FALSE, ![b].pend = @ \cup {e}]
      BY <2>3 DEF SocketReadEnd
    <3> HIDE DEF e
    <3>2. bev'[b].mem = bev[b].mem /\ bev'[b].link = bev[b].link /\ Only(b, b)
      BY <2>1, <3>1 DEF BevStates, BevState, Only
    <3> QED
      BY <1>1, <3>2
  <2>4. CASE SocketWriteError(b)
    <3>2. bev'[b].mem = bev[b].mem /\ bev'[b].link = bev[b].link /\ Only(b, b)
      BY <2>1, <2>4 DEF SocketWriteError, BevStates, BevState, Only
    <3> QED
      BY <1>1, <3>2
  <2>5. CASE SocketRead(b)
    <3>1. PICK n \in 1 .. MaxRead : ReadFrom(b, n)
      BY <2>5, SocketReadEffect
    <3>2. bev'[b].mem = bev[b].mem /\ bev'[b].link = bev[b].link /\ Only(b, b)
      BY <2>1, <2>5, <3>1, SocketReadEffect DEF ReadFrom, BevState
    <3> QED
      BY <1>1, <3>2
  <2>6. CASE SocketWrite(b)
    <3>1. PICK n \in 1 .. Len(bev[b].output) : WrittenTo(b, n)
      BY <2>6, SocketWriteEffect
    <3>2. bev'[b].mem = bev[b].mem /\ bev'[b].link = bev[b].link /\ Only(b, b)
      BY <2>1, <2>6, <3>1, SocketWriteEffect DEF WrittenTo, BevState
    <3> QED
      BY <1>1, <3>2
  <2> QED
    BY <1>4, <2>2, <2>3, <2>4, <2>5, <2>6 DEF SocketEvent
<1>5. ASSUME NEW b \in Bevs, Callback(b) PROVE InUp'
  <2>0. PICK p \in Bevs : p = Other(b) /\ p # b /\ Other(p) = b
    BY OtherSide
  <2>1. bev[b] \in BevState /\ bev[p] \in BevState
    BY Facts
  <2>2. CASE RunReadcb(b)
    <3>1. /\ Only(b, p)
          /\ Answered(b, p) \/ PassedTo(b, p) \/ ChokedBy(b, p)
      BY <2>0, <2>2, ReadcbEffect
    <3>2. /\ bev'[b].mem = bev[b].mem /\ bev'[b].link = bev[b].link
          /\ bev'[p].mem = bev[p].mem /\ bev'[p].link = bev[p].link
      <4>1. CASE Answered(b, p)
        BY <2>1, <4>1 DEF Answered, BevState
      <4>2. CASE PassedTo(b, p)
        BY <2>1, <4>2 DEF PassedTo, BevState
      <4>3. CASE ChokedBy(b, p)
        BY <2>1, <4>3 DEF ChokedBy, BevState
      <4> QED
        BY <3>1, <4>1, <4>2, <4>3
    <3> QED
      BY <1>1, <3>1, <3>2
  <2>3. CASE RunWritecb(b)
    <3>1. CASE Joined(bev, b) /\ Only(b, p) /\ DrainedFor(b, p)
      <4>1. /\ bev'[b].mem = bev[b].mem /\ bev'[b].link = bev[b].link
            /\ bev'[p].mem = bev[p].mem /\ bev'[p].link = bev[p].link
        BY <2>1, <3>1 DEF DrainedFor, BevState
      <4> QED
        BY <1>1, <3>1, <4>1
    <3>2. CASE /\ Only(b, b)
               /\ \/ bev'[b] = Absent("freed")
                  \/ bev'[b] = [bev[b] EXCEPT !.pend = @ \ {"write"}]
      <4>1. \/ bev'[b].mem = "freed"
            \/ bev'[b].mem = bev[b].mem /\ bev'[b].link = bev[b].link
        BY <2>1, <3>2 DEF Absent, BevState
      <4> QED
        BY <1>1, <3>2, <4>1
    <3> QED
      BY <2>0, <2>3, <3>1, <3>2, WritecbEffect
  <2>4. CASE RunEventcb(b)
    <3>1. bev'[b].mem = "freed"
      BY <2>4, EventcbEffect DEF Absent
    <3>2. \/ Only(b, b)
          \/ Joined(bev, b) /\ Only(b, p) /\ \E o : ClosedWith(p, o)
      BY <2>0, <2>4, EventcbEffect
    <3>3. ASSUME Joined(bev, b), NEW o, ClosedWith(p, o)
          PROVE  bev'[p].mem = "live" =>
                    bev[p].mem = "live" /\ bev'[p].link = bev[p].link
      <4>1. CASE bev'[p] = Absent("freed")
        BY <4>1 DEF Absent
      <4>2. ASSUME NEW low,
                   bev'[p] = [bev[p] EXCEPT !.output = o, !.readcb = FALSE,
                                !.writecb = "close_on_finished_writecb",
                                !.ctx = NoBev, !.read = FALSE, !.low = low]
            PROVE  bev'[p].link = bev[p].link
        BY <2>1, <4>2 DEF BevState
      <4> QED
        BY <2>0, <3>3, <4>1, <4>2 DEF ClosedWith, Joined
    <3> QED
      BY <1>1, <3>1, <3>2, <3>3
  <2>5. CASE CallbacksDone(b) \/ ProcessEnds(b)
    BY <2>5 DEF CallbacksDone, ProcessEnds, InUp, Live
  <2> QED
    BY <1>5, <2>2, <2>3, <2>4, <2>5 DEF Callback
<1>6. CASE bev' = bev
  BY <1>6 DEF InUp, Live
<1>7. ASSUME NEW b \in Bevs, PeerStep(b) PROVE InUp'
  BY <1>6, <1>7 DEF PeerStep, PeerSend, PeerCloses, PeerResets
<1>8. CASE Dispatch \/ UNCHANGED vars
  BY <1>6, <1>8 DEF Dispatch, vars
<1> QED
  BY <1>2, <1>3, <1>4, <1>5, <1>7, <1>8 DEF Next

LEMMA ListHolds == Spec => [](ListInv /\ InUp)
<1>1. Init => ListInv /\ InUp
  BY DEF Init, ListInv, InUp, Live, Absent
<1>2. FlowInv => IInv
  BY DEF FlowInv
<1> QED
  BY <1>1, <1>2, NextList, NextUp, FlowHolds, PTL DEF Spec

LEMMA ListedStep ==
    ASSUME FlowInv, ListInv, InUp, [Next]_vars, NEW c \in Conns,
           BlockList # <<>>, <<PeerAddr[c], Head(BlockList)>> \in Inside,
           AddrKnown(c), RequestForGood(bev[<<c, "in">>].input)
    PROVE  NothingRelayed(<<c, "in">>)
<1>1. PICK b \in Bevs : b = <<c, "in">> /\ b[1] = c /\ b[2] = "in"
  <2>1. <<c, "in">> \in Bevs
    BY DEF Bevs
  <2> QED
    BY <2>1
<1>2. PICK p \in Bevs : p = Other(b) /\ Other(p) = b
  BY OtherSide
<1>3. IInv /\ StreamStep(b)
  BY NextStreams DEF FlowInv
<1>4. Relayed(b) \in Seq(Lines)
  BY <1>2, <1>3, StreamFacts
<1>5. Relayed(b)' = Relayed(b) => NothingRelayed(b)
  <2>1. IsPrefix(Relayed(b), Relayed(b) \o <<>>)
        /\ Relayed(b) \o <<>> = Relayed(b)
    BY <1>4, PrefixConcat, ConcatEmptySeq, EmptySeq
  <2> QED
    BY <2>1 DEF NothingRelayed
<1>6. blocklist_ip(PeerAddr[c], blocklist_after(BlockList))
  <2>1. blocklist_after(BlockList) = <<Head(BlockList)>>
    BY DEF blocklist_after
  <2>2. 1 \in DOMAIN <<Head(BlockList)>> /\ <<Head(BlockList)>>[1] = Head(BlockList)
    OBVIOUS
  <2> QED
    BY <2>1, <2>2 DEF blocklist_ip
<1>7. CASE Judged(b)
  <2>1. PICK v \in Verdicts(b) :
          Relayed(b)' = IF v.block THEN Relayed(b)
                                   ELSE Relayed(b) \o bev[b].input
    BY <1>7 DEF Judged
  <2>2. Joined(bev, b)
    BY <1>7 DEF Judged
  <2>3. PICK text \in Texts(bev[b].input), addr \in bufferevent_get_addr(b) :
            v = filter_check(text, addr, block_addr_list)
    BY <1>3, <2>2, VerdictOfText
  <2>4. addr = PeerAddr[c]
    <3>1. bev[b].link = "up"
      BY <1>1, <2>2 DEF Joined, InUp, Live
    <3> QED
      BY <1>1, <2>3, <3>1 DEF AddrKnown, bufferevent_get_addr
  <2>5. is_request(urldecode(text))
    <3>1. bev[b].input \in Seq(Lines)
      BY <1>3, Facts
    <3>2. PICK t \in Continuations(bev[b].input) :
              /\ urldecode(text) \in Seq(Lines) /\ urldecode(t) \in Seq(Lines)
              /\ Extends(urldecode(text), urldecode(t))
      BY <2>3, <3>1, TextExtends
    <3>3. is_request(urldecode(t))
      BY <1>1, <3>2 DEF RequestForGood
    <3> QED
      BY <3>2, <3>3, DetectorsExtend
  <2>6. Detected(urldecode(text), addr, block_addr_list)
    BY <1>6, <2>4, FirstLine DEF Detected
  <2>7. v.block
    BY <2>3, <2>5, <2>6 DEF filter_check
  <2> QED
    BY <1>1, <1>5, <2>1, <2>7
<1> QED
  BY <1>1, <1>3, <1>5, <1>7 DEF StreamStep, Untouched, Dropped, NothingRelayed

\* A request of an IPv4 client that the first line of blocklist_ip.txt lists is
\* not relayed, whatever strtok has left of the list, as long as getpeername
\* knows the client.
THEOREM FirstLineEnforced == Spec => FirstListedBlocked
<1>1. FlowInv /\ ListInv /\ InUp /\ [Next]_vars =>
        [\A c \in Conns :
            /\ BlockList # <<>> /\ <<PeerAddr[c], Head(BlockList)>> \in Inside
            /\ AddrKnown(c)
            /\ RequestForGood(bev[<<c, "in">>].input)
            => NothingRelayed(<<c, "in">>)]_vars
  BY ListedStep
<1> QED
  BY <1>1, FlowHolds, ListHolds, PTL DEF Spec, FirstListedBlocked

-----------------------------------------------------------------------------
(* The proxy as a Tunnel: what the steps are to the peers.                  *)

\* What b's peer is to receive, and whether b's stream is stopped.
Due(b) == received[b] \o bev[b].output
Halted(b) == Blocked(b) /\ RejectedForGood(held[b].input)

Phases == [b \in Bevs |-> Phase(b)]
Dues == [b \in Bevs |-> Due(b)]
Halts == [b \in Bevs |-> Halted(b)]

LEMMA SeenNames ==
    /\ Seen!Ends = Bevs
    /\ \A b \in Bevs : Seen!Partner(b) = Other(b)
    /\ \A s : Seen!Content(s) = Payload(s)
BY DEF Seen!Ends, Seen!Partner, Seen!Content, Bevs, Other, Payload,
       Seen!Without, Without

\* A step that the peers do not see at x.
SameView(x) ==
    /\ Phase(x)' = Phase(x) /\ Due(x)' = Due(x) /\ Halted(x)' = Halted(x)
    /\ sent'[x] = sent[x] /\ received'[x] = received[x]

LEMMA SameFields ==
    ASSUME NEW x \in Bevs,
           bev'[x].mem = bev[x].mem, bev'[x].ctx = bev[x].ctx,
           bev'[x].output = bev[x].output, held'[x] = held[x],
           sent'[x] = sent[x], received'[x] = received[x]
    PROVE  SameView(x)
BY DEF SameView, Phase, Due, Halted, Blocked

LEMMA Stutters ==
    ASSUME IInv, IInv', \A x \in Bevs : SameView(x)
    PROVE  UNCHANGED Seen!tunnel
<1>1. sent \in [Bevs -> Seq(Lines)] /\ sent' \in [Bevs -> Seq(Lines)]
  BY DEF IInv, TypeOK
<1>2. /\ received \in [Bevs -> Seq(Lines \cup {BlockMsg})]
      /\ received' \in [Bevs -> Seq(Lines \cup {BlockMsg})]
  BY DEF IInv, TypeOK
<1>3. sent' = sent
  BY <1>1 DEF SameView
<1>4. received' = received
  BY <1>2 DEF SameView
<1>5. Phases' = Phases /\ Dues' = Dues /\ Halts' = Halts
  BY DEF SameView, Phases, Dues, Halts
<1> QED
  BY <1>3, <1>4, <1>5 DEF Seen!tunnel, Phases, Dues, Halts, Due, Halted

LEMMA PhaseOf ==
    ASSUME IInv, NEW b \in Bevs
    PROVE  /\ bev[b].mem = "new" => Phase(b) = "new"
           /\ bev[b].mem = "freed" => Phase(b) = "closed"
           /\ Joined(bev, b) => Phase(b) = "open"
           /\ Closing(bev, b) => Phase(b) = "closing"
           /\ Live(b) => Phase(b) \in {"open", "closing"}
<1>1. Other(b) # NoBev
  BY OtherSide, ProxyAssumption
<1> QED
  BY <1>1 DEF Phase, Joined, Closing, Live

\* What a verdict that does not block passes on.
LEMMA PassedOn ==
    ASSUME IInv, Conservation, NEW b \in Bevs, Joined(bev, b), ~Halted(b)
    PROVE  [Dues EXCEPT ![Other(b)] = @ \o bev[b].input] \in Seen!Passed(b)
<1>1. PICK p \in Bevs : p = Other(b) /\ p # b /\ Other(p) = b
  BY OtherSide
<1>2. PICK r \in Seq(Lines), i \in Seq(Lines), w \in Seq(Lines),
           s \in Seq(Lines) :
        r = Relayed(b) /\ i = bev[b].input /\ w = wire[b] /\ s = sent[b]
  BY <1>1, StreamFacts
<1>3. s = (r \o i) \o w
  BY <1>2 DEF Conservation
<1> DEFINE k == Len(r)
           n == Len(r) + Len(i)
<1>4. n \in k .. Len(s) /\ SubSeq(s, k + 1, n) = i
  BY <1>3
<1>5. Len(Seen!Content(Dues[Seen!Partner(b)])) = k
  <2>1. Seen!Partner(b) = p /\ Dues[p] = received[p] \o bev[p].output
    BY <1>1, SeenNames DEF Dues, Due
  <2>2. received[p] \in Seq(Items) /\ bev[p].output \in Seq(Items)
    BY <1>1, StreamFacts
  <2>3. Payload(received[p] \o bev[p].output) = r
    BY <1>1, <1>2, <2>2, PayloadConcat DEF Relayed
  <2> QED
    BY <2>1, <2>3, SeenNames
<1> HIDE DEF k, n
<1>6. [Dues EXCEPT ![Other(b)] = @ \o SubSeq(sent[b], k + 1, n)]
        \in Seen!Passed(b)
  <2>1. n \in k .. Len(sent[b]) /\ ~Halts[b]
    BY <1>2, <1>4 DEF Halts
  <2> QED
    BY <1>5, <2>1, SeenNames
       DEF Seen!Passed, Dues, Halts, Due, Halted
<1> QED
  BY <1>2, <1>4, <1>6

-----------------------------------------------------------------------------
(* The proxy as a Tunnel: each step.                                        *)

\* One place of a Boolean function.
LEMMA OrAt ==
    ASSUME NEW T, NEW f \in [T -> BOOLEAN], NEW g \in [T -> BOOLEAN],
           NEW e \in T, \A x \in T \ {e} : g[x] = f[x], f[e] => g[e]
    PROVE  \E s \in BOOLEAN : g = [f EXCEPT ![e] = @ \/ s]
<1> DEFINE s == g[e]
           h == [f EXCEPT ![e] = @ \/ s]
<1>1. s \in BOOLEAN
  OBVIOUS
<1>2. h \in [T -> BOOLEAN] /\ \A x \in T \ {e} : h[x] = f[x]
  OBVIOUS
<1>3. h[e] = (f[e] \/ s)
  OBVIOUS
<1>4. f[e] \in BOOLEAN
  OBVIOUS
<1>5. h[e] = g[e]
  BY <1>1, <1>3, <1>4
<1>6. \A x \in T : g[x] = h[x]
  BY <1>2, <1>5
<1>7. g = h
  BY <1>2, <1>6
<1> QED
  BY <1>1, <1>7

\* A step of the history at b.
LEMMA HaltStep ==
    ASSUME IInv, IInv', NEW b \in Bevs, NEW block \in BOOLEAN, Hold(b, block)
    PROVE  /\ \E s \in BOOLEAN : Halts' = [Halts EXCEPT ![b] = @ \/ s]
           /\ ~block => Halts' = Halts
<1>1. Halts \in [Bevs -> BOOLEAN] /\ Halts' \in [Bevs -> BOOLEAN]
  BY DEF Halts, Halted
<1>2. \A x \in Bevs \ {b} : Halted(x)' = Halted(x)
  BY HoldEffect DEF Halted, Blocked
<1>3. ~block \/ Blocked(b) => Halted(b)' = Halted(b)
  BY HoldEffect DEF Halted, Blocked
<1>4. Halted(b) => Halted(b)'
  BY <1>3 DEF Halted
<1>5. ~block => Halts' = Halts
  BY <1>2, <1>3 DEF Halts
<1>6. /\ \A x \in Bevs \ {b} : Halts'[x] = Halts[x]
      /\ Halts[b] => Halts'[b]
  BY <1>2, <1>4 DEF Halts
<1> QED
  BY <1>1, <1>5, <1>6, OrAt

LEMMA AcceptSeen ==
    ASSUME FlowInv, NEW c \in Conns, accept_cb(c) \/ accept_cb_refused(c)
    PROVE  Seen!Open(c)
<1>1. PICK b \in Bevs : b = <<c, "in">> /\ b[1] = c
  <2>1. <<c, "in">> \in Bevs /\ <<c, "in">>[1] = c
    BY DEF Bevs
  <2> QED
    BY <2>1
<1>2. PICK p \in Bevs : p = Other(b) /\ p # b /\ Other(p) = b
  BY OtherSide
<1>3. \A x \in Bevs : x[1] = c <=> x \in {b, p}
  BY <1>1, <1>2 DEF Bevs, Other
<1>4. bev[b].mem = "new" /\ UNCHANGED <<peers, held>>
  BY <1>1 DEF accept_cb, accept_cb_refused
<1>5. \A x \in Bevs : x[1] # c => bev'[x] = bev[x]
  BY DEF accept_cb, accept_cb_refused
<1>6. \A x \in Bevs : x[1] = c => bev[x].output = <<>> /\ bev'[x].output = <<>>
  <2>4. \A x \in {b, p} : bev[x] = Absent("new")
    BY <1>2, <1>4 DEF FlowInv, Fresh
  <2>1. \A x \in {b, p} : bev[x].output = <<>>
    BY <2>4 DEF Absent
  <2>2. CASE accept_cb(c)
    BY <1>3, <2>1, <2>2 DEF accept_cb, Absent
  <2>3. CASE accept_cb_refused(c)
    BY <1>3, <2>1, <2>3 DEF accept_cb_refused, Absent
  <2> QED
    BY <2>2, <2>3
<1>7. \A x \in Bevs : Due(x)' = Due(x) /\ Halted(x)' = Halted(x)
  BY <1>4, <1>5, <1>6 DEF Due, Halted, Blocked, peers
<1>8. \E h \in {"open", "closed"} :
          \A x \in Bevs : Phase(x)' = IF x[1] = c THEN h ELSE Phase(x)
  <2>1. \A x \in Bevs : x[1] # c => Phase(x)' = Phase(x)
    BY <1>5 DEF Phase
  <2>2. CASE accept_cb(c)
    <3>1. \A x \in Bevs : x[1] = c =>
             bev'[x].mem = "live" /\ bev'[x].ctx = Other(x)
      BY <2>2 DEF accept_cb, Absent
    <3>2. \A x \in Bevs : x[1] = c => Phase(x)' = "open"
      BY <3>1, OtherSide, ProxyAssumption DEF Phase
    <3> QED
      BY <2>1, <3>2
  <2>3. CASE accept_cb_refused(c)
    <3>1. \A x \in Bevs : x[1] = c => bev'[x].mem = "freed"
      BY <2>3 DEF accept_cb_refused, Absent
    <3>2. \A x \in Bevs : x[1] = c => Phase(x)' = "closed"
      BY <3>1 DEF Phase
    <3> QED
      BY <2>1, <3>2
  <2> QED
    BY <2>2, <2>3
<1>9. PICK h \in {"open", "closed"} :
          Phases' = [x \in Bevs |-> IF x[1] = c THEN h ELSE Phases[x]]
  BY <1>8 DEF Phases
<1>10. Phases[<<c, "in">>] = "new"
  BY <1>1, <1>4 DEF Phases, Phase
<1>11. Dues' = Dues /\ Halts' = Halts
  BY <1>7 DEF Dues, Halts
<1> QED
  BY <1>4, <1>9, <1>10, <1>11, SeenNames
     DEF Seen!Open, Phases, Dues, Halts, Due, Halted, peers

\* What is due, as a write moves it.
LEMMA WrittenDue ==
    ASSUME NEW S, NEW r \in Seq(S), NEW o \in Seq(S), NEW n \in 1 .. Len(o)
    PROVE  LET first == SubSeq(o, 1, n)
               left  == SubSeq(o, n + 1, Len(o))
           IN  /\ (r \o first) \o left = r \o o
               /\ SubSeq(r \o o, 1, Len(r) + n) = r \o first
               /\ Len(r) + n \in Len(r) + 1 .. Len(r \o o)
<1>1. PICK f \in Seq(S), l \in Seq(S) :
          /\ f = SubSeq(o, 1, n) /\ l = SubSeq(o, n + 1, Len(o))
          /\ Len(f) = n /\ f \o l = o
  <2>1. /\ SubSeq(o, 1, n) \in Seq(S) /\ Len(SubSeq(o, 1, n)) = n
        /\ SubSeq(o, n + 1, Len(o)) \in Seq(S)
        /\ SubSeq(o, 1, n) \o SubSeq(o, n + 1, Len(o)) = o
    BY Halves
  <2> QED
    BY <2>1
<1>2. (r \o f) \o l = r \o (f \o l)
  OBVIOUS
<1>3. PICK x \in Seq(S) : x = r \o f
  BY ConcatProperties
<1>4. SubSeq(x \o l, 1, Len(x)) = x
  OBVIOUS
<1>5. Len(x) = Len(r) + n
  BY <1>1, <1>3
<1>6. Len(r) + n \in Len(r) + 1 .. Len(r \o o)
  <2>1. Len(r \o o) = Len(r) + Len(o) /\ Len(r) \in Nat /\ Len(o) \in Nat
    BY ConcatProperties, LenProperties
  <2> QED
    BY <2>1
<1>7. (r \o f) \o l = r \o o
  BY <1>1, <1>2
<1>8. SubSeq(r \o o, 1, Len(r) + n) = r \o f
  BY <1>3, <1>4, <1>5, <1>7
<1> QED
  BY <1>1, <1>6, <1>7, <1>8

LEMMA SocketWriteSeen ==
    ASSUME FlowInv, FlowInv', NEW b \in Bevs, SocketWrite(b)
    PROVE  Seen!Deliver(b)
<1>0. IInv /\ IInv'
  BY DEF FlowInv
<1>1. Only(b, b) /\ UNCHANGED <<sent, held>> /\ Live(b)
  BY <1>0, SocketWriteEffect DEF SocketWrite, Writable
<1>2. PICK n \in 1 .. Len(bev[b].output) : WrittenTo(b, n)
  BY <1>0, SocketWriteEffect
<1>3. PICK r \in Seq(Items), o \in Seq(Items) :
          r = received[b] /\ o = bev[b].output
  BY <1>0, StreamFacts
<1>4. /\ bev[b] \in BevState
      /\ received \in [Bevs -> Seq(Lines \cup {BlockMsg})]
  BY <1>0, Facts DEF IInv, TypeOK
<1> DEFINE first == SubSeq(o, 1, n)
           left == SubSeq(o, n + 1, Len(o))
           m == Len(r) + n
<1>5. /\ bev'[b].output = left
      /\ bev'[b].mem = bev[b].mem /\ bev'[b].ctx = bev[b].ctx
      /\ received' = [received EXCEPT ![b] = r \o first]
  BY <1>2, <1>3, <1>4 DEF WrittenTo, BevState
<1>6. /\ (r \o first) \o left = r \o o
      /\ SubSeq(r \o o, 1, m) = r \o first
      /\ m \in Len(r) + 1 .. Len(r \o o)
  <2>1. n \in 1 .. Len(o)
    BY <1>3
  <2> QED
    BY <2>1, WrittenDue
<1> HIDE DEF first, left, m
<1>7. Due(b)' = Due(b) /\ Due(b) = r \o o
  BY <1>3, <1>4, <1>5, <1>6 DEF Due
<1>8. \A x \in Bevs : Phase(x)' = Phase(x) /\ Halted(x)' = Halted(x)
  BY <1>1, <1>5 DEF Only, Phase, Halted, Blocked
<1>9. \A x \in Bevs : Due(x)' = Due(x)
  BY <1>1, <1>4, <1>5, <1>7 DEF Only, Due
<1>10. Phases' = Phases /\ Dues' = Dues /\ Halts' = Halts
  BY <1>8, <1>9 DEF Phases, Dues, Halts
<1>11. Phases[b] \in {"open", "closing"} /\ Dues[b] = r \o o
  BY <1>0, <1>1, <1>7, PhaseOf DEF Phases, Dues
<1>12. \E k \in Len(received[b]) + 1 .. Len(Dues[b]) :
           received' = [received EXCEPT ![b] = SubSeq(Dues[b], 1, k)]
  BY <1>3, <1>5, <1>6, <1>11
<1> QED
  BY <1>1, <1>10, <1>11, <1>12
     DEF Seen!Deliver, Phases, Dues, Halts, Due, Halted

LEMMA PeerSendSeen ==
    ASSUME FlowInv, NEW b \in Bevs, PeerSend(b)
    PROVE  Seen!Send(b)
<1>1. Phases[b] \in {"open", "closing"}
  BY PhaseOf DEF FlowInv, PeerSend, Peer, Phases
<1>2. bev' = bev /\ held' = held /\ received' = received
  BY DEF PeerSend
<1>3. Phases' = Phases /\ Dues' = Dues /\ Halts' = Halts
  BY <1>2 DEF Phases, Phase, Dues, Due, Halts, Halted, Blocked
<1>4. \E l \in Lines : sent' = [sent EXCEPT ![b] = Append(@, l)]
  BY DEF PeerSend
<1> QED
  BY <1>1, <1>2, <1>3, <1>4
     DEF Seen!Send, Phases, Dues, Halts, Due, Halted

\* Input that is not blocked is not that of a stopped stream.
LEMMA NotHalted ==
    ASSUME FlowInv, NEW b \in Bevs, Joined(bev, b), NEW v \in Verdicts(b),
           ~v.block
    PROVE  ~Halted(b)
<1> SUFFICES ASSUME Halted(b) PROVE FALSE
  OBVIOUS
<1>1. bev[b].input = held[b].input
  BY DEF Halted, FlowInv, Flow, FlowAt, Silenced
<1>2. RejectedForGood(bev[b].input) /\ IInv
  BY <1>1 DEF Halted, FlowInv
<1> QED
  BY <1>2, RejectedAgain

LEMMA ReadcbSeen ==
    ASSUME FlowInv, FlowInv', Conservation, NEW b \in Bevs, RunReadcb(b)
    PROVE  Seen!Judge(b)
<1>0. IInv /\ IInv'
  BY DEF FlowInv
<1>1. PICK p \in Bevs : p = Other(b) /\ p # b /\ Other(p) = b
  BY OtherSide
<1>2. Joined(bev, b) /\ Only(b, p)
  BY <1>0, <1>1, ReadcbEffect
<1>3. PICK v \in Verdicts(b) :
        /\ Hold(b, v.block)
        /\ IF v.block THEN Answered(b, p) ELSE PassedTo(b, p) \/ ChokedBy(b, p)
  BY <1>0, <1>1, ReadcbEffect
<1>4. /\ bev[b] \in BevState /\ bev[p] \in BevState
      /\ bev[b].input \in Seq(Lines) /\ bev[b].output \in Seq(Items)
      /\ bev[p].output \in Seq(Items) /\ received[p] \in Seq(Items)
      /\ received[b] \in Seq(Items) /\ v.block \in BOOLEAN
  BY <1>0, <1>1, StreamFacts, Facts, VerdictBlock
<1>5. received' = received /\ sent' = sent
  BY DEF RunReadcb, peers
<1>6. Joined(bev, p)
  BY <1>1, <1>2, PairFlow
<1>7. Phases[b] = "open"
  BY <1>0, <1>2, PhaseOf DEF Phases
<1>8. CASE ~v.block
  <2>1. /\ bev'[b].output = bev[b].output
        /\ bev'[p].output = bev[p].output \o bev[b].input
        /\ bev'[b].mem = bev[b].mem /\ bev'[b].ctx = bev[b].ctx
        /\ bev'[p].mem = bev[p].mem /\ bev'[p].ctx = bev[p].ctx
    <3>1. CASE PassedTo(b, p)
      BY <1>4, <3>1 DEF PassedTo, BevState
    <3>2. CASE ChokedBy(b, p)
      <4>1. bev[p].ctx = b
        BY <1>1, <1>6 DEF Joined
      <4>2. bev'[p].ctx = b
        BY <1>4, <3>2 DEF ChokedBy, BevState
      <4>3. /\ bev'[b].output = bev[b].output
            /\ bev'[p].output = bev[p].output \o bev[b].input
            /\ bev'[b].mem = bev[b].mem /\ bev'[b].ctx = bev[b].ctx
            /\ bev'[p].mem = bev[p].mem
        BY <1>4, <3>2 DEF ChokedBy, BevState
      <4> QED
        BY <4>1, <4>2, <4>3
    <3> QED
      BY <1>3, <1>8, <3>1, <3>2
  <2>2. \A x \in Bevs : Phase(x)' = Phase(x)
    BY <1>2, <2>1 DEF Only, Phase
  <2>3. Due(p)' = Due(p) \o bev[b].input
    <3>1. PICK r \in Seq(Items), o \in Seq(Items), i \in Seq(Items) :
              r = received[p] /\ o = bev[p].output /\ i = bev[b].input
      BY <1>4, LinesItems
    <3>2. r \o (o \o i) = (r \o o) \o i
      OBVIOUS
    <3> QED
      BY <1>5, <2>1, <3>1, <3>2 DEF Due
  <2>4. \A x \in Bevs \ {p} : Due(x)' = Due(x)
    BY <1>2, <1>5, <2>1 DEF Only, Due
  <2>5. Dues' = [Dues EXCEPT ![p] = @ \o bev[b].input]
    BY <2>3, <2>4 DEF Dues
  <2>6. Phases' = Phases /\ Halts' = Halts
    BY <1>0, <1>3, <1>4, <1>8, <2>2, HaltStep DEF Phases
  <2>7. Dues' \in Seen!Passed(b)
    <3>1. ~Halted(b)
      BY <1>2, <1>8, NotHalted
    <3> QED
      BY <1>0, <1>1, <1>2, <2>5, <3>1, PassedOn
  <2> QED
    BY <1>5, <1>7, <2>6, <2>7
       DEF Seen!Judge, Phases, Dues, Halts, Due, Halted
<1>9. CASE v.block
  <2>1. /\ bev'[p] = bev[p]
        /\ bev'[b].output = Append(bev[b].output, BlockMsg)
        /\ bev'[b].mem = bev[b].mem /\ bev'[b].ctx = bev[b].ctx
    BY <1>3, <1>4, <1>9 DEF Answered, BevState
  <2>2. \A x \in Bevs : Phase(x)' = Phase(x)
    BY <1>2, <2>1 DEF Only, Phase
  <2>3. Due(b)' = Append(Due(b), BlockMsg)
    <3>1. PICK r \in Seq(Items), o \in Seq(Items) :
              r = received[b] /\ o = bev[b].output
      BY <1>4
    <3>2. Append(r \o o, BlockMsg) = r \o Append(o, BlockMsg)
      <4>1. PICK m \in Items : m = BlockMsg
        BY DEF Items
      <4>2. r \o Append(o, m) = Append(r \o o, m)
        BY AppendConcat
      <4> QED
        BY <4>1, <4>2
    <3> QED
      BY <1>5, <2>1, <3>1, <3>2 DEF Due
  <2>4. \A x \in Bevs \ {b} : Due(x)' = Due(x)
    BY <1>2, <1>5, <2>1 DEF Only, Due
  <2>5. Dues' = [Dues EXCEPT ![b] = Append(@, BlockMsg)]
    BY <2>3, <2>4 DEF Dues
  <2>6. Phases' = Phases
    BY <2>2 DEF Phases
  <2>7. \E s \in BOOLEAN : Halts' = [Halts EXCEPT ![b] = @ \/ s]
    BY <1>0, <1>3, <1>4, HaltStep
  <2> QED
    BY <1>5, <1>7, <2>5, <2>6, <2>7
       DEF Seen!Judge, Seen!Refused, Phases, Dues, Halts, Due, Halted
<1> QED
  BY <1>4, <1>8, <1>9

\* A side that was closing is freed: what it had not written is lost.
LEMMA FreedSeen ==
    ASSUME IInv, IInv', NEW b \in Bevs, Closing(bev, b), Only(b, b),
           bev'[b] = Absent("freed"), received' = received, sent' = sent,
           Halts' = Halts
    PROVE  Seen!Gone(b)
<1>1. Phases[b] = "closing"
  BY PhaseOf DEF Phases
<1>2. bev'[b].mem = "freed" /\ bev'[b].output = <<>>
  BY DEF Absent
<1>3. Phase(b)' = "closed" /\ \A x \in Bevs \ {b} : Phase(x)' = Phase(x)
  BY <1>2 DEF Only, Phase
<1>4. Phases' = [Phases EXCEPT ![b] = "closed"]
  BY <1>3 DEF Phases
<1>5. Due(b)' = received[b]
  <2>1. received[b] \in Seq(Items)
    BY StreamFacts
  <2> QED
    BY <1>2, <2>1, ConcatEmptySeq DEF Due
<1>6. \A x \in Bevs \ {b} : Due(x)' = Due(x)
  BY DEF Only, Due
<1>7. Dues' = [Dues EXCEPT ![b] = received[b]]
  BY <1>5, <1>6 DEF Dues
<1> QED
  BY <1>1, <1>4, <1>7 DEF Seen!Gone, Phases, Dues, Halts, Due, Halted

LEMMA WritecbSeen ==
    ASSUME FlowInv, FlowInv', NEW b \in Bevs, RunWritecb(b)
    PROVE  Seen!Gone(b) \/ UNCHANGED Seen!tunnel
<1>0. IInv /\ IInv'
  BY DEF FlowInv
<1>1. PICK p \in Bevs : p = Other(b) /\ p # b /\ Other(p) = b
  BY OtherSide
<1>2. received' = received /\ held' = held /\ sent' = sent
  BY DEF RunWritecb, peers
<1>3. bev[b] \in BevState /\ bev[p] \in BevState
  BY <1>0, Facts
<1>4. CASE Joined(bev, b) /\ Only(b, p) /\ DrainedFor(b, p)
  <2>1. /\ bev'[b].mem = bev[b].mem /\ bev'[b].ctx = bev[b].ctx
        /\ bev'[b].output = bev[b].output
        /\ bev'[p].mem = bev[p].mem /\ bev'[p].ctx = bev[p].ctx
        /\ bev'[p].output = bev[p].output
    BY <1>3, <1>4 DEF DrainedFor, BevState
  <2>2. \A x \in Bevs : SameView(x)
    BY <1>2, <1>4, <2>1, SameFields DEF Only
  <2> QED
    BY <1>0, <2>2, Stutters
<1>5. CASE Closing(bev, b) /\ Only(b, b) /\ bev'[b] = Absent("freed")
  <2>1. Halts' = Halts
    BY <1>2 DEF Halts, Halted, Blocked
  <2> QED
    BY <1>0, <1>2, <1>5, <2>1, FreedSeen
<1>6. CASE Only(b, b) /\ bev'[b] = [bev[b] EXCEPT !.pend = @ \ {"write"}]
  <2>1. /\ bev'[b].mem = bev[b].mem /\ bev'[b].ctx = bev[b].ctx
        /\ bev'[b].output = bev[b].output
    BY <1>3, <1>6 DEF BevState
  <2>2. \A x \in Bevs : SameView(x)
    BY <1>2, <1>6, <2>1, SameFields DEF Only
  <2> QED
    BY <1>0, <2>2, Stutters
<1> QED
  BY <1>0, <1>1, <1>4, <1>5, <1>6, WritecbEffect

\* One sequence is as long as the other with something behind it.
LEMMA NothingBehind ==
    ASSUME NEW S, NEW r \in Seq(S), NEW o \in Seq(S)
    PROVE  r \o o = r <=> o = <<>>
<1>1. Len(r \o o) = Len(r) + Len(o) /\ Len(r) \in Nat /\ Len(o) \in Nat
  BY ConcatProperties, LenProperties
<1>2. Len(o) = 0 <=> o = <<>>
  BY EmptySeq
<1>3. r \o <<>> = r
  BY ConcatEmptySeq
<1> QED
  BY <1>1, <1>2, <1>3

\* What becomes of the partner of a side that is freed.
LEMMA ClosedPhase ==
    ASSUME NEW p \in Bevs, bev[p] \in BevState, bev[p].mem = "live",
           NEW o, ClosedWith(p, o)
    PROVE  Phase(p)' = IF o = <<>> THEN "closed" ELSE "closing"
<1>1. CASE o = <<>>
  BY <1>1 DEF ClosedWith, Absent, Phase
<1>2. CASE o # <<>>
  <2>1. bev'[p].mem = "live" /\ bev'[p].ctx = NoBev
    BY <1>2 DEF ClosedWith, BevState
  <2> QED
    BY <1>2, <2>1 DEF Phase
<1> QED
  BY <1>1, <1>2

LEMMA EventcbSeen ==
    ASSUME FlowInv, FlowInv', Conservation, NEW b \in Bevs, RunEventcb(b)
    PROVE  Seen!Gone(b) \/ Seen!End(b)
<1>0. IInv /\ IInv'
  BY DEF FlowInv
<1>1. PICK p \in Bevs : p = Other(b) /\ p # b /\ Other(p) = b
  BY OtherSide
<1>2. bev'[b] = Absent("freed") /\ received' = received /\ sent' = sent
  BY <1>0, EventcbEffect DEF RunEventcb, peers
<1>3. PICK v \in Verdicts(b) :
        /\ Hold(b, v.block)
        /\ \/ Closing(bev, b) /\ Only(b, b)
           \/ /\ Joined(bev, b) /\ Only(b, p)
              /\ ClosedWith(p, IF v.block THEN bev[p].output
                               ELSE bev[p].output \o bev[b].input)
  BY <1>0, <1>1, EventcbEffect
<1>4. /\ bev[p] \in BevState /\ v.block \in BOOLEAN
      /\ bev[b].input \in Seq(Items) /\ bev[p].output \in Seq(Items)
      /\ received[p] \in Seq(Items) /\ received[b] \in Seq(Items)
  BY <1>0, <1>1, StreamFacts, LinesItems, Facts, VerdictBlock
<1>5. /\ \E s \in BOOLEAN : Halts' = [Halts EXCEPT ![b] = @ \/ s]
      /\ ~v.block => Halts' = Halts
  BY <1>0, <1>3, <1>4, HaltStep
<1>6. CASE Closing(bev, b) /\ Only(b, b)
  <2>1. ~v.block
    <3>1. bev[b].ctx = NoBev
      BY <1>6 DEF Closing
    <3> QED
      BY <3>1 DEF Verdicts
  <2> QED
    BY <1>0, <1>2, <1>5, <1>6, <2>1, FreedSeen
<1>7. CASE /\ Joined(bev, b) /\ Only(b, p)
           /\ ClosedWith(p, IF v.block THEN bev[p].output
                            ELSE bev[p].output \o bev[b].input)
  <2> DEFINE o == IF v.block THEN bev[p].output
                             ELSE bev[p].output \o bev[b].input
             d == IF v.block THEN Seen!Refused(b)
                  ELSE [Dues EXCEPT ![p] = @ \o bev[b].input]
  <2>1. Joined(bev, p) /\ bev'[p].output = o /\ o \in Seq(Items)
    BY <1>1, <1>4, <1>7, PairFlow, ClosedOutput
  <2>2. Phases[b] = "open"
    BY <1>0, <1>7, PhaseOf DEF Phases
  <2>3. d \in Seen!Passed(b) \cup {Seen!Refused(b)}
    <3>1. CASE ~v.block
      <4>1. ~Halted(b)
        BY <1>7, <3>1, NotHalted
      <4> QED
        BY <1>0, <1>1, <1>7, <3>1, <4>1, PassedOn
    <3> QED
      BY <1>4, <3>1
  <2>4. /\ d[p] = received[p] \o o
        /\ \A x \in Bevs \ {b, p} : d[x] = Due(x)
        /\ d = [x \in Bevs |-> d[x]]
    <3>1. CASE v.block
      <4>1. d = [Dues EXCEPT ![b] = Append(@, BlockMsg)]
        BY <3>1 DEF Seen!Refused, Dues, Due
      <4> HIDE DEF d
      <4>2. d[p] = Due(p) /\ \A x \in Bevs \ {b, p} : d[x] = Due(x)
        BY <1>1, <4>1 DEF Dues
      <4>3. d = [x \in Bevs |-> d[x]]
        BY <4>1 DEF Dues
      <4> QED
        BY <3>1, <4>2, <4>3 DEF Due
    <3>2. CASE ~v.block
      <4>1. d = [Dues EXCEPT ![p] = @ \o bev[b].input]
        BY <3>2
      <4> HIDE DEF d
      <4>2. /\ d[p] = Due(p) \o bev[b].input
            /\ \A x \in Bevs \ {b, p} : d[x] = Due(x)
        BY <1>1, <4>1 DEF Dues
      <4>3. d = [x \in Bevs |-> d[x]]
        BY <4>1 DEF Dues
      <4>4. Due(p) \o bev[b].input = received[p] \o o
        <5>1. PICK r \in Seq(Items), q \in Seq(Items), i \in Seq(Items) :
                r = received[p] /\ q = bev[p].output /\ i = bev[b].input
          BY <1>4
        <5>2. (r \o q) \o i = r \o (q \o i)
          OBVIOUS
        <5> QED
          BY <3>2, <5>1, <5>2 DEF Due
      <4> QED
        BY <4>2, <4>3, <4>4
    <3> QED
      BY <1>4, <3>1, <3>2
  <2> HIDE DEF d, o
  <2>5. Phases' = [Phases EXCEPT
                     ![b] = "closed",
                     ![p] = IF d[p] = received[p] THEN "closed" ELSE "closing"]
    <3>1. Phase(b)' = "closed"
      BY <1>2 DEF Absent, Phase
    <3>2. Phase(p)' = IF o = <<>> THEN "closed" ELSE "closing"
      BY <1>4, <1>7, <2>1, ClosedPhase DEF Joined, o
    <3>3. o = <<>> <=> d[p] = received[p]
      BY <1>4, <2>1, <2>4, NothingBehind
    <3>4. \A x \in Bevs \ {b, p} : Phase(x)' = Phase(x)
      BY <1>7 DEF Only, Phase
    <3> QED
      BY <1>1, <3>1, <3>2, <3>3, <3>4 DEF Phases
  <2>6. Dues' = [d EXCEPT ![b] = received[b]]
    <3>1. Due(b)' = received[b]
      <4>1. bev'[b].output = <<>>
        BY <1>2 DEF Absent
      <4> QED
        BY <1>2, <1>4, <4>1, ConcatEmptySeq DEF Due
    <3>2. Due(p)' = d[p]
      BY <1>2, <2>1, <2>4 DEF Due
    <3>3. \A x \in Bevs \ {b, p} : Due(x)' = d[x]
      BY <1>2, <1>7, <2>4 DEF Only, Due
    <3> QED
      BY <1>1, <2>4, <3>1, <3>2, <3>3 DEF Dues
  <2>7. \E s \in BOOLEAN :
          Halts' = [Halts EXCEPT ![b] = @ \/ (d = Seen!Refused(b) /\ s)]
    <3>1. CASE v.block
      BY <1>5, <3>1 DEF d
    <3>2. CASE ~v.block
      <4>1. Halts = [Halts EXCEPT
                       ![b] = @ \/ (d = Seen!Refused(b) /\ FALSE)]
        BY DEF Halts, Halted
      <4> QED
        BY <1>5, <3>2, <4>1
    <3> QED
      BY <1>4, <3>1, <3>2
  <2>8. Seen!Partner(b) = p
    BY <1>1, SeenNames
  <2> QED
    BY <1>2, <2>2, <2>3, <2>5, <2>6, <2>7, <2>8
       DEF Seen!End, Phases, Dues, Halts, Due, Halted
<1> QED
  BY <1>3, <1>6, <1>7

-----------------------------------------------------------------------------
(* The proxy as a Tunnel: the refinement.                                   *)

\* Steps that the peers do not see: buffers fill, events are deferred, the
\* process ends, a peer closes.
LEMMA QuietSeen ==
    ASSUME IInv, IInv', NEW b \in Bevs,
           \/ Connected(b) \/ ConnectFailed(b)
           \/ SocketRead(b) \/ SocketReadEnd(b) \/ SocketWriteError(b)
    PROVE  UNCHANGED Seen!tunnel
<1>1. CASE SocketRead(b)
  <2>1. bev[b] \in BevState
    BY Facts
  <2>2. UNCHANGED <<sent, received, held>> /\ Only(b, b)
    BY <1>1, SocketReadEffect DEF SocketRead
  <2>3. PICK n \in 1 .. MaxRead : ReadFrom(b, n)
    BY <1>1, SocketReadEffect
  <2>4. /\ bev'[b].mem = bev[b].mem /\ bev'[b].ctx = bev[b].ctx
        /\ bev'[b].output = bev[b].output
    BY <2>1, <2>3 DEF ReadFrom, BevState
  <2>5. \A x \in Bevs : SameView(x)
    BY <2>2, <2>4, SameFields DEF Only
  <2> QED
    BY <2>5, Stutters
<1>2. CASE \/ Connected(b) \/ ConnectFailed(b)
           \/ SocketReadEnd(b) \/ SocketWriteError(b)
  <2>1. /\ UNCHANGED <<sent, received, held>>
        /\ \A x \in Bevs : /\ bev'[x].output = bev[x].output
                           /\ SameLink(bev[x], bev'[x])
    BY <1>2, QuietEffect DEF peers
  <2>2. \A x \in Bevs : SameView(x)
    BY <2>1, SameFields DEF SameLink
  <2> QED
    BY <2>2, Stutters
<1> QED
  BY <1>1, <1>2

LEMMA StillSeen ==
    ASSUME IInv, IInv', UNCHANGED <<bev, sent, received, held>>
    PROVE  UNCHANGED Seen!tunnel
<1>1. \A x \in Bevs : SameView(x)
  BY SameFields
<1> QED
  BY <1>1, Stutters

LEMMA NextSeen ==
    FlowInv /\ FlowInv' /\ Conservation /\ [Next]_vars
        => [Seen!Next]_(Seen!tunnel)
<1> SUFFICES ASSUME FlowInv, FlowInv', Conservation, [Next]_vars
             PROVE  Seen!Next \/ UNCHANGED Seen!tunnel
  OBVIOUS
<1>0. IInv /\ IInv' /\ Seen!Ends = Bevs
  BY SeenNames DEF FlowInv
<1>1. ASSUME NEW c \in Conns, accept_cb(c) \/ accept_cb_refused(c)
      PROVE  Seen!Next
  BY <1>1, AcceptSeen DEF Seen!Next
<1>2. ASSUME NEW b \in Bevs, SocketEvent(b)
      PROVE  Seen!Next \/ UNCHANGED Seen!tunnel
  <2>1. CASE SocketWrite(b)
    BY <1>0, <2>1, SocketWriteSeen DEF Seen!Next
  <2> QED
    BY <1>0, <1>2, <2>1, QuietSeen DEF SocketEvent
<1>3. ASSUME NEW b \in Bevs, Callback(b)
      PROVE  Seen!Next \/ UNCHANGED Seen!tunnel
  <2>1. CASE RunReadcb(b)
    BY <1>0, <2>1, ReadcbSeen DEF Seen!Next
  <2>2. CASE RunWritecb(b)
    BY <1>0, <2>2, WritecbSeen DEF Seen!Next
  <2>3. CASE RunEventcb(b)
    BY <1>0, <2>3, EventcbSeen DEF Seen!Next
  <2>4. CASE CallbacksDone(b) \/ ProcessEnds(b)
    BY <1>0, <2>4, StillSeen DEF CallbacksDone, ProcessEnds, peers
  <2> QED
    BY <1>3, <2>1, <2>2, <2>3, <2>4 DEF Callback
<1>4. ASSUME NEW b \in Bevs, PeerStep(b)
      PROVE  Seen!Next \/ UNCHANGED Seen!tunnel
  <2>1. CASE PeerSend(b)
    BY <1>0, <2>1, PeerSendSeen DEF Seen!Next
  <2>2. CASE PeerCloses(b) \/ PeerResets(b)
    BY <1>0, <2>2, StillSeen DEF PeerCloses, PeerResets
  <2> QED
    BY <1>4, <2>1, <2>2 DEF PeerStep
<1>5. CASE Dispatch \/ UNCHANGED vars
  BY <1>0, <1>5, StillSeen DEF Dispatch, vars, peers
<1> QED
  BY <1>1, <1>2, <1>3, <1>4, <1>5 DEF Next

LEMMA InitSeen == Init => Seen!Init
<1> SUFFICES ASSUME Init PROVE Seen!Init
  OBVIOUS
<1>1. \A b \in Bevs : /\ bev[b] = Absent("new") /\ received[b] = <<>>
                      /\ held[b] = NoHold
  BY DEF Init
<1>2. \A b \in Bevs : /\ Phase(b) = "new" /\ Due(b) = <<>>
                      /\ Halted(b) = FALSE
  <2>1. \A b \in Bevs : bev[b].mem = "new" /\ bev[b].output = <<>>
    BY <1>1 DEF Absent
  <2>2. \A b \in Bevs : ~Blocked(b)
    BY <1>1 DEF Blocked
  <2> QED
    BY <1>1, <2>1, <2>2 DEF Phase, Due, Halted
<1> QED
  BY <1>2, SeenNames
     DEF Init, Seen!Init, Phases, Dues, Halts, Due, Halted

\* With all its buffers, deferred callbacks, choking and closing the proxy is no
\* more than two judged streams for each connection: every callback, and every
\* event of a socket, is one step of Tunnel or none.
THEOREM TunnelImplemented == Spec => ImplementsTunnel
<1>1. Init => Seen!Init
  BY InitSeen
<1>2. FlowInv /\ FlowInv' /\ Conservation /\ [Next]_vars
        => [Seen!Next]_(Seen!tunnel)
  BY NextSeen
<1> QED
  BY <1>1, <1>2, FlowHolds, NothingLost, PTL
     DEF Spec, ImplementsTunnel, Seen!Spec
=============================================================================
