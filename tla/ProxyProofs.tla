----------------------------- MODULE ProxyProofs -----------------------------
(***************************************************************************)
(* The relay, for every number of connections, every limit and every       *)
(* filter: type correctness and the integrity of its pairs; then flow      *)
(* control, what the callbacks leave of a pair of bufferevents, why the    *)
(* output of a connection is bounded and why no side stops reading without *)
(* somebody to start it again.                                             *)
(***************************************************************************)
EXTENDS Proxy, SequenceTheorems, TLAPS

BevStates == [Bevs -> BevState]

-----------------------------------------------------------------------------
(* Bufferevents.                                                            *)

\* The two sides of a connection are different, and each is the other's other.
LEMMA OtherSide ==
    ASSUME NEW b \in Bevs
    PROVE  Other(b) \in Bevs /\ Other(b) # b /\ Other(Other(b)) = b
BY DEF Bevs, Other

\* A bufferevent that does not exist has the type of one that does.
LEMMA AbsentType ==
    ASSUME NEW mem \in {"new", "live", "freed"}
    PROVE  Absent(mem) \in BevState
<1>1. <<>> \in Seq(Lines) /\ <<>> \in Seq(Lines \cup {BlockMsg})
  BY EmptySeq
<1> QED
  BY <1>1 DEF Absent, BevState

-----------------------------------------------------------------------------
(* Every callback keeps the types.                                          *)

\* bufferevent_free.
LEMMA FreeType ==
    ASSUME NEW B \in BevStates, NEW b \in Bevs
    PROVE  bufferevent_free(B, b) \in BevStates
BY AbsentType DEF BevStates, bufferevent_free

\* block_msg.
LEMMA BlockMsgType ==
    ASSUME NEW B \in BevStates, NEW b \in Bevs
    PROVE  block_msg(B, b) \in BevStates
<1>1. B[b] \in BevState
  BY DEF BevStates
<1>2. Append(B[b].output, BlockMsg) \in Seq(Lines \cup {BlockMsg})
  <2>1. B[b].output \in Seq(Lines \cup {BlockMsg})
    BY <1>1 DEF BevState
  <2> QED
    BY <2>1, AppendProperties
<1>3. [B[b] EXCEPT !.output = Append(@, BlockMsg), !.low = MaxOutput \div 2,
                   !.read = FALSE] \in BevState
  BY <1>1, <1>2 DEF BevState
<1> QED
  BY <1>3 DEF BevStates, block_msg

\* The fields that make a bufferevent part of a pair are the same in r as in
\* q; r may read less.
SameLink(q, r) == /\ r.mem = q.mem
                  /\ r.ctx = q.ctx
                  /\ r.readcb = q.readcb
                  /\ r.writecb = q.writecb
                  /\ r.read => q.read

SameLinks(B, R, x) == SameLink(B[x], R[x])

\* Forward moves data and touches nothing else.
LEMMA ForwardFields ==
    ASSUME NEW B \in BevStates, NEW b \in Bevs, NEW p \in Bevs, p # b
    PROVE  /\ Forward(B, b, p) \in BevStates
           /\ \A x \in Bevs : SameLinks(B, Forward(B, b, p), x)
           /\ Forward(B, b, p)[p].output = B[p].output \o B[b].input
<1>1. B[b] \in BevState /\ B[p] \in BevState
  BY DEF BevStates
<1>2. B[p].output \o B[b].input \in Seq(Lines \cup {BlockMsg})
  <2>1. B[p].output \in Seq(Lines \cup {BlockMsg}) /\ B[b].input \in Seq(Lines)
    BY <1>1 DEF BevState
  <2>2. B[b].input \in Seq(Lines \cup {BlockMsg})
    BY <2>1, SeqMonotonic, Lines \subseteq Lines \cup {BlockMsg}
  <2> QED
    BY <2>1, <2>2, ConcatProperties
<1>3. <<>> \in Seq(Lines)
  BY EmptySeq
<1>4. [B[p] EXCEPT !.output = B[p].output \o B[b].input] \in BevState
  BY <1>1, <1>2 DEF BevState
<1>5. [B[b] EXCEPT !.input = <<>>] \in BevState
  BY <1>1, <1>3 DEF BevState
<1> DEFINE F == Forward(B, b, p)
<1>6. /\ F \in BevStates
      /\ F[p] = [B[p] EXCEPT !.output = B[p].output \o B[b].input]
      /\ F[b] = [B[b] EXCEPT !.input = <<>>]
      /\ \A x \in Bevs \ {b, p} : F[x] = B[x]
  BY <1>4, <1>5 DEF BevStates, Forward
<1>7. \A x \in Bevs : SameLinks(B, F, x)
  <2> TAKE x \in Bevs
  <2>1. CASE x = p
    BY <2>1, <1>1, <1>6 DEF BevState, SameLinks, SameLink
  <2>2. CASE x = b
    BY <2>2, <1>1, <1>6 DEF BevState, SameLinks, SameLink
  <2>3. CASE x \notin {b, p}
    BY <2>3, <1>6 DEF SameLinks, SameLink
  <2> QED
    BY <2>1, <2>2, <2>3
<1>8. F[p].output = B[p].output \o B[b].input
  BY <1>1, <1>6 DEF BevState
<1> QED
  BY <1>6, <1>7, <1>8

\* R is B with b choked by its partner p.
Choked(B, R, b, p) ==
    /\ R[p] = [B[p] EXCEPT !.readcb = TRUE, !.writecb = "drained_writecb",
                           !.ctx = b, !.low = MaxOutput \div 2]
    /\ R[b] = [B[b] EXCEPT !.read = FALSE]
    /\ \A x \in Bevs \ {b, p} : R[x] = B[x]

\* What Choke makes of the two sides of a pair.
LEMMA ChokeFields ==
    ASSUME NEW B \in BevStates, NEW b \in Bevs, NEW p \in Bevs, p # b
    PROVE  /\ Choke(B, b, p) \in BevStates
           /\ Choked(B, Choke(B, b, p), b, p)
<1>1. B[b] \in BevState /\ B[p] \in BevState
  BY DEF BevStates
<1>2. [B[p] EXCEPT !.readcb = TRUE, !.writecb = "drained_writecb",
                   !.ctx = b, !.low = MaxOutput \div 2] \in BevState
  BY <1>1 DEF BevState
<1>3. [B[b] EXCEPT !.read = FALSE] \in BevState
  BY <1>1 DEF BevState
<1> QED
  BY <1>2, <1>3 DEF BevStates, Choke, Choked

-----------------------------------------------------------------------------
(* readcb keeps the pairs.                                                  *)

\* Who exists, who is joined and who is closing is the same in R as in B.
SamePairs(B, R) ==
    \A x \in Bevs : /\ R[x].mem = B[x].mem
                    /\ Joined(B, x) => Joined(R, x)
                    /\ Closing(B, x) => Closing(R, x)
                    /\ Silent(B, x) => Silent(R, x)

LEMMA SamePairsPaired ==
    ASSUME NEW B, NEW R, Paired(B), SamePairs(B, R)
    PROVE  Paired(R)
BY DEF Paired, SamePairs

\* block_msg leaves the pairs as they are.
LEMMA BlockMsgPairs ==
    ASSUME NEW B \in BevStates, NEW b \in Bevs
    PROVE  SamePairs(B, block_msg(B, b))
<1> DEFINE R == block_msg(B, b)
<1>1. B[b] \in BevState
  BY DEF BevStates
<1>2. R[b] = [B[b] EXCEPT !.output = Append(@, BlockMsg),
                          !.low = MaxOutput \div 2, !.read = FALSE]
  BY DEF BevStates, block_msg
<1>3. \A x \in Bevs \ {b} : R[x] = B[x]
  BY DEF BevStates, block_msg
<1>4. \A x \in Bevs :
        /\ R[x].mem = B[x].mem
        /\ R[x].ctx = B[x].ctx
        /\ R[x].readcb = B[x].readcb
        /\ R[x].writecb = B[x].writecb
        /\ R[x].read => B[x].read
  <2> TAKE x \in Bevs
  <2>1. CASE x = b
    BY <2>1, <1>1, <1>2 DEF BevState
  <2>2. CASE x # b
    BY <2>2, <1>3
  <2> QED
    BY <2>1, <2>2
<1> QED
  BY <1>4, OtherSide DEF SamePairs, Joined, Closing, Silent

\* Choking one side of a pair leaves the pairs as they are.
LEMMA ChokePairs ==
    ASSUME NEW B \in BevStates, NEW b \in Bevs, Joined(B, b), B[b].mem = "live",
           Paired(B)
    PROVE  SamePairs(B, Choke(B, b, Other(b)))
<1>1. PICK p \in Bevs : p = Other(b) /\ p # b /\ Other(p) = b
  BY OtherSide
<1> DEFINE R == Choke(B, b, p)
<1>2. B[b] \in BevState /\ B[p] \in BevState
  BY <1>1 DEF BevStates
<1>3. Joined(B, p)
  BY <1>1, ProxyAssumption DEF Joined, Closing, Silent, Paired
<1>6. Choked(B, R, b, p)
  BY <1>1, ChokeFields
<1> HIDE DEF R
<1>4. \A x \in Bevs :
        /\ R[x].mem = B[x].mem
        /\ R[x].ctx = B[x].ctx
        /\ R[x].readcb = B[x].readcb
        /\ R[x].writecb \in {B[x].writecb, "drained_writecb"}
        /\ x \notin {b, p} => R[x] = B[x]
  <2> TAKE x \in Bevs
  <2>1. CASE x = p
    BY <2>1, <1>1, <1>2, <1>3, <1>6 DEF Choked, BevState, Joined
  <2>2. CASE x = b
    BY <2>2, <1>1, <1>2, <1>6 DEF Choked, BevState
  <2>3. CASE x \notin {b, p}
    BY <2>3, <1>1, <1>6 DEF Choked
  <2> QED
    BY <2>1, <2>2, <2>3
<1>5. ~Closing(B, b) /\ ~Closing(B, p)
  BY <1>1, <1>3, ProxyAssumption DEF Joined, Closing, Silent
<1> QED
  BY <1>1, <1>4, <1>5, OtherSide DEF SamePairs, Joined, Closing, Silent, R

\* readcb leaves the pairs as they are: it is only ever given a live partner.
LEMMA ReadcbPairs ==
    ASSUME NEW B \in BevStates, NEW b \in Bevs, NEW block,
           Paired(B), B[b].mem = "live", Joined(B, b)
    PROVE  /\ readcb(B, b, block) \in BevStates
           /\ SamePairs(B, readcb(B, b, block))
<1>1. PICK p \in Bevs : p = Other(b) /\ p # b /\ B[b].ctx = p /\ p # NoBev
  BY OtherSide, ProxyAssumption DEF Joined
<1> DEFINE F == Forward(B, b, p)
<1>2. F \in BevStates /\ SamePairs(B, F)
  <2>1. F \in BevStates /\ \A x \in Bevs : SameLinks(B, F, x)
    BY <1>1, ForwardFields
  <2> HIDE DEF F
  <2> QED
    BY <2>1, OtherSide DEF SamePairs, SameLinks, SameLink, Joined, Closing, Silent
<1>3. Choke(F, b, p) \in BevStates /\ SamePairs(B, Choke(F, b, p))
  <2>1. Paired(F) /\ Joined(F, b) /\ F[b].mem = "live"
    BY <1>2, SamePairsPaired DEF SamePairs
  <2>2. SamePairs(F, Choke(F, b, p))
    BY <1>1, <1>2, <2>1, ChokePairs
  <2>3. Choke(F, b, p) \in BevStates
    BY <1>1, <1>2, ChokeFields
  <2> QED
    BY <1>2, <2>2, <2>3 DEF SamePairs
<1>4. block_msg(B, b) \in BevStates /\ SamePairs(B, block_msg(B, b))
  BY BlockMsgType, BlockMsgPairs
<1>5. \/ readcb(B, b, block) = F
      \/ readcb(B, b, block) = Choke(F, b, p)
      \/ readcb(B, b, block) = block_msg(B, b)
  BY <1>1 DEF readcb
<1> QED
  BY <1>2, <1>3, <1>4, <1>5

-----------------------------------------------------------------------------
(* The other callbacks keep the pairs.                                      *)

\* drained_writecb, run at a side of a pair.
LEMMA DrainedPairs ==
    ASSUME NEW B \in BevStates, NEW b \in Bevs,
           Paired(B), B[b].mem = "live", Joined(B, b)
    PROVE  /\ drained_writecb(B, b) \in BevStates
           /\ SamePairs(B, drained_writecb(B, b))
<1>1. PICK p \in Bevs : /\ p = Other(b) /\ p # b /\ Other(p) = b
                        /\ B[b].ctx = p /\ p # NoBev
  BY OtherSide, ProxyAssumption DEF Joined
<1>2. B[b] \in BevState /\ B[p] \in BevState
  BY DEF BevStates
<1>3. Joined(B, p)
  BY <1>1, ProxyAssumption DEF Joined, Closing, Silent, Paired
<1> DEFINE D == [B EXCEPT ![b].readcb = TRUE, ![b].writecb = "null",
                          ![b].low = 0]
           R == drained_writecb(B, b)
<1>4. D[b] = [B[b] EXCEPT !.readcb = TRUE, !.writecb = "null", !.low = 0]
  BY DEF BevStates
<1>5. [B[b] EXCEPT !.readcb = TRUE, !.writecb = "null", !.low = 0] \in BevState
  BY <1>2 DEF BevState
<1>6. [B[p] EXCEPT !.read = TRUE] \in BevState
  BY <1>2 DEF BevState
<1>7. R = [D EXCEPT ![p].read = TRUE]
  BY <1>1 DEF drained_writecb
<1>12. /\ D \in BevStates /\ D[p] = B[p]
       /\ \A x \in Bevs \ {b} : D[x] = B[x]
  BY <1>1, <1>5 DEF BevStates
<1> HIDE DEF D
<1>8. /\ R \in BevStates
      /\ R[b] = [B[b] EXCEPT !.readcb = TRUE, !.writecb = "null", !.low = 0]
      /\ R[p] = [B[p] EXCEPT !.read = TRUE]
      /\ \A x \in Bevs \ {b, p} : R[x] = B[x]
  BY <1>1, <1>4, <1>6, <1>7, <1>12 DEF BevStates, R
<1> HIDE DEF R
<1>9. \A x \in Bevs :
        /\ R[x].mem = B[x].mem
        /\ R[x].ctx = B[x].ctx
        /\ B[x].readcb => R[x].readcb
        /\ R[x].writecb \in {B[x].writecb, "null"}
        /\ x \notin {b, p} => R[x] = B[x]
  <2> TAKE x \in Bevs
  <2>1. CASE x = p
    BY <2>1, <1>1, <1>2, <1>8 DEF BevState
  <2>2. CASE x = b
    BY <2>2, <1>2, <1>8 DEF BevState
  <2>3. CASE x \notin {b, p}
    BY <2>3, <1>8
  <2> QED
    BY <2>1, <2>2, <2>3
<1>10. ~Closing(B, b) /\ ~Closing(B, p)
  BY <1>1, <1>3, ProxyAssumption DEF Joined, Closing, Silent
<1>11. SamePairs(B, R)
  BY <1>1, <1>9, <1>10, OtherSide DEF SamePairs, Joined, Closing, Silent
<1> QED
  BY <1>8, <1>11 DEF R

\* Freeing a bufferevent whose partner is freed already.
LEMMA FreePairs ==
    ASSUME NEW B \in BevStates, NEW b \in Bevs, Paired(B),
           B[Other(b)].mem = "freed"
    PROVE  /\ bufferevent_free(B, b) \in BevStates
           /\ Paired(bufferevent_free(B, b))
<1> DEFINE R == bufferevent_free(B, b)
<1>1. R \in BevStates
  BY FreeType
<1>2. R[b].mem = "freed" /\ Silent(R, b) /\ \A x \in Bevs \ {b} : R[x] = B[x]
  BY DEF BevStates, bufferevent_free, Absent, Silent
<1>3. ASSUME NEW x \in Bevs \ {b}
      PROVE  Joined(R, x) \/ Closing(R, x) \/ Silent(R, x)
  <2>1. R[x] = B[x]
    BY <1>2
  <2>2. CASE Other(x) = b
    <3>1. Silent(B, x)
      BY <2>2, OtherSide DEF Paired, Joined, Closing
    <3> QED
      BY <2>1, <3>1 DEF Silent
  <2>3. CASE Other(x) # b
    <3>1. R[Other(x)] = B[Other(x)]
      BY <2>3, <1>2, OtherSide
    <3> QED
      BY <2>1, <3>1 DEF Paired, Joined, Closing, Silent
  <2> QED
    BY <2>2, <2>3
<1> QED
  BY <1>1, <1>2, <1>3 DEF Paired

\* What eventcb leaves of a pair: b freed, its partner freed or closing.
LEMMA EventcbPairs ==
    ASSUME NEW B \in BevStates, NEW b \in Bevs, NEW block,
           Paired(B), B[b].mem = "live"
    PROVE  /\ eventcb(B, b, block) \in BevStates
           /\ Paired(eventcb(B, b, block))
<1>1. CASE Closing(B, b)
  <2>1. eventcb(B, b, block) = bufferevent_free(B, b)
    BY <1>1 DEF eventcb, Closing
  <2> QED
    BY <1>1, <2>1, FreePairs DEF Closing
<1>2. CASE Joined(B, b)
  <2>1. PICK p \in Bevs : /\ p = Other(b) /\ p # b /\ Other(p) = b
                          /\ B[b].ctx = p /\ p # NoBev
    BY <1>2, OtherSide, ProxyAssumption DEF Joined
  <2> DEFINE R == readcb(B, b, block)
             C == ClosePartner(R, p)
             E == bufferevent_free(C, b)
  <2>2. eventcb(B, b, block) = E
    BY <2>1 DEF eventcb
  <2>3. R \in BevStates /\ Paired(R)
    BY <1>2, ReadcbPairs, SamePairsPaired
  <2> HIDE DEF R
  <2>4. R[p] \in BevState
    BY <2>3 DEF BevStates
  <2>5. [R[p] EXCEPT !.readcb = FALSE,
                     !.writecb = "close_on_finished_writecb",
                     !.ctx = NoBev, !.read = FALSE] \in BevState
    BY <2>4 DEF BevState
  <2>6. /\ C \in BevStates
        /\ \/ C[p] = Absent("freed")
           \/ C[p] = [R[p] EXCEPT !.readcb = FALSE,
                                  !.writecb = "close_on_finished_writecb",
                                  !.ctx = NoBev, !.read = FALSE]
        /\ \A x \in Bevs \ {p} : C[x] = R[x]
    <3>1. CASE R[p].output # <<>>
      BY <3>1, <2>3, <2>5 DEF ClosePartner, CloseWhenFlushed, BevStates
    <3>2. CASE R[p].output = <<>>
      BY <3>2, <2>3, FreeType
         DEF ClosePartner, bufferevent_free, BevStates
    <3> QED
      BY <3>1, <3>2
  <2> HIDE DEF C
  <2>7. /\ E \in BevStates /\ E[b].mem = "freed" /\ Silent(E, b)
        /\ \A x \in Bevs \ {b} : E[x] = C[x]
    BY <2>6, FreeType DEF bufferevent_free, Absent, BevStates, Silent
  <2> HIDE DEF E
  <2>8. ASSUME NEW x \in Bevs \ {b}
        PROVE  Joined(E, x) \/ Closing(E, x) \/ Silent(E, x)
    <3>1. CASE x = p /\ C[p] = Absent("freed")
      BY <2>7, <3>1 DEF Absent, Silent
    <3>2. CASE x = p /\ C[p] # Absent("freed")
      <4>1. E[p] = [R[p] EXCEPT !.readcb = FALSE,
                                !.writecb = "close_on_finished_writecb",
                                !.ctx = NoBev, !.read = FALSE]
        BY <2>1, <2>6, <2>7, <2>8, <3>2
      <4>2. R[p].mem = "live"
        BY <2>1, <2>3, <1>2, ReadcbPairs DEF SamePairs, Joined, R
      <4> QED
        BY <2>1, <2>4, <2>7, <3>2, <4>1, <4>2 DEF BevState, Closing
    <3>3. CASE x # p
      <4>1. Other(x) \in Bevs /\ Other(x) \notin {b, p}
        BY <2>1, <2>8, <3>3, OtherSide
      <4>2. E[x] = R[x] /\ E[Other(x)] = R[Other(x)]
        BY <2>6, <2>7, <2>8, <3>3, <4>1
      <4> QED
        BY <2>3, <2>8, <4>2 DEF Paired, Joined, Closing, Silent
    <3> QED
      BY <3>1, <3>2, <3>3
  <2> QED
    BY <2>2, <2>7, <2>8 DEF Paired
<1> QED
  BY <1>1, <1>2 DEF Paired, Silent

\* A step that changes one bufferevent, and nothing that makes it part of a
\* pair.
LEMMA UpdatePairs ==
    ASSUME NEW B \in BevStates, NEW b \in Bevs, NEW r \in BevState,
           SameLink(B[b], r), Paired(B)
    PROVE  /\ [B EXCEPT ![b] = r] \in BevStates
           /\ Paired([B EXCEPT ![b] = r])
<1> DEFINE R == [B EXCEPT ![b] = r]
<1>1. R \in BevStates /\ R[b] = r /\ \A x \in Bevs \ {b} : R[x] = B[x]
  BY DEF BevStates
<1> HIDE DEF R
<1>2. \A x \in Bevs : SameLinks(B, R, x)
  BY <1>1 DEF SameLinks, SameLink
<1>3. SamePairs(B, R)
  BY <1>2, OtherSide DEF SamePairs, SameLinks, SameLink, Joined, Closing, Silent
<1> QED
  BY <1>1, <1>3, SamePairsPaired DEF R

-----------------------------------------------------------------------------
(* Sequences.                                                               *)

\* The parts that a read or a write splits a sequence into.
LEMMA SplitType ==
    ASSUME NEW S, NEW s \in Seq(S), NEW n \in 1 .. Len(s)
    PROVE  SubSeq(s, 1, n) \in Seq(S) /\ SubSeq(s, n + 1, Len(s)) \in Seq(S)
<1>1. Len(s) \in Nat /\ \A i \in 1 .. Len(s) : s[i] \in S
  BY LenProperties, ElementOfSeq
<1>2. SubSeq(s, 1, n) \in Seq(S)
  BY <1>1, SubSeqProperties
<1>3. SubSeq(s, n + 1, Len(s)) \in Seq(S)
  BY <1>1, SubSeqProperties
<1> QED
  BY <1>2, <1>3

\* A bufferevent joins the queue of deferred callbacks.
LEMMA ScheduleType ==
    ASSUME NEW q \in Seq(Bevs), NEW b \in Bevs
    PROVE  Schedule(q, b) \in Seq(Bevs)
BY AppendProperties DEF Schedule

\* What strtok leaves of the block list is a block list.
LEMMA BlocklistType ==
    ASSUME NEW list \in Seq(Entries)
    PROVE  blocklist_after(list) \in Seq(Entries)
BY HeadTailProperties DEF blocklist_after

\* Every verdict leaves a block list.
LEMMA VerdictType ==
    ASSUME TypeOK, NEW b \in Bevs, NEW v \in Verdicts(b)
    PROVE  v.list \in Seq(Entries)
<1>1. block_addr_list \in Seq(Entries)
  BY DEF TypeOK
<1>2. CASE bev[b].ctx = NoBev
  BY <1>1, <1>2 DEF Verdicts
<1>3. CASE bev[b].ctx # NoBev
  <2>1. PICK x : v = filter_check(x[1], x[2], block_addr_list)
    BY <1>3 DEF Verdicts
  <2> QED
    BY <1>1, <2>1, BlocklistType DEF filter_check
<1> QED
  BY <1>2, <1>3

-----------------------------------------------------------------------------
(* The inductive invariant.                                                 *)

IInv == TypeOK /\ NoDanglingPartner

LEMMA InitIInv == Init => IInv
<1> SUFFICES ASSUME Init PROVE IInv
  OBVIOUS
<1>1. Absent("new") \in BevState /\ Absent("new").mem = "new"
  BY AbsentType DEF Absent
<1>2. /\ <<>> \in Seq(Bevs) /\ <<>> \in Seq(Lines)
      /\ <<>> \in Seq(Lines \cup {BlockMsg})
  BY EmptySeq
<1>3. NoHold \in [at : Int, input : Seq(Lines)]
  BY <1>2 DEF NoHold
<1>4. TypeOK
  BY <1>1, <1>2, <1>3, ProxyAssumption DEF Init, TypeOK
<1>5. NoDanglingPartner
  BY DEF Init, NoDanglingPartner, Paired, Silent, Absent
<1> QED
  BY <1>4, <1>5 DEF IInv

\* A step of one bufferevent's own fields, with a queue that stays a queue.
LEMMA UpdateIInv ==
    ASSUME IInv, NEW b \in Bevs, NEW r \in BevState, SameLink(bev[b], r),
           bev' = [bev EXCEPT ![b] = r], queue' \in Seq(Bevs),
           loop' = loop, block_addr_list' = block_addr_list, alive' = alive,
           shut' = shut, sent' = sent, held' = held,
           wire' \in [Bevs -> Seq(Lines)],
           received' \in [Bevs -> Seq(Lines \cup {BlockMsg})]
    PROVE  IInv'
<1>1. bev \in BevStates /\ Paired(bev)
  BY DEF IInv, TypeOK, BevStates, NoDanglingPartner
<1>2. bev' \in BevStates /\ Paired(bev')
  BY <1>1, UpdatePairs
<1>3. TypeOK'
  BY <1>2 DEF IInv, TypeOK, BevStates
<1>4. NoDanglingPartner'
  BY <1>2 DEF NoDanglingPartner
<1> QED
  BY <1>3, <1>4 DEF IInv

\* accept_cb joins two new bufferevents.
LEMMA AcceptIInv ==
    ASSUME IInv, NEW c \in Conns, accept_cb(c)
    PROVE  IInv'
<1> DEFINE New(b) == [Absent("live") EXCEPT
                        !.ctx = Other(b), !.readcb = TRUE,
                        !.read = TRUE, !.write = TRUE,
                        !.link = IF b[2] = "in" THEN "up" ELSE "connecting"]
<1>1. \A b \in Bevs : New(b) \in BevState
  <2> TAKE b \in Bevs
  <2>1. Absent("live") \in BevState
    BY AbsentType
  <2>2. Other(b) \in Bevs
    BY OtherSide
  <2> HIDE DEF Bevs
  <2> QED
    BY <2>1, <2>2 DEF BevState
<1>2. /\ bev' \in BevStates
      /\ \A b \in Bevs : bev'[b] = IF b[1] # c THEN bev[b] ELSE New(b)
  BY <1>1 DEF accept_cb, IInv, TypeOK, BevStates
<1>3. TypeOK'
  BY <1>2 DEF accept_cb, IInv, TypeOK, BevStates, peers
<1>4. ASSUME NEW b \in Bevs
      PROVE  Joined(bev', b) \/ Closing(bev', b) \/ Silent(bev', b)
  <2>1. Other(b) \in Bevs /\ Other(Other(b)) = b /\ Other(b)[1] = b[1]
    BY OtherSide DEF Other
  <2>2. CASE b[1] = c
    <3>1. bev'[b] = New(b) /\ bev'[Other(b)] = New(Other(b))
      BY <1>2, <2>1, <2>2
    <3>2. Joined(bev', b)
      BY <2>1, <3>1 DEF Joined, Absent
    <3> QED
      BY <3>2
  <2>3. CASE b[1] # c
    <3>1. bev'[b] = bev[b] /\ bev'[Other(b)] = bev[Other(b)]
      BY <1>2, <2>1, <2>3
    <3> QED
      BY <3>1 DEF IInv, NoDanglingPartner, Paired, Joined, Closing, Silent
  <2> QED
    BY <2>2, <2>3
<1> QED
  BY <1>3, <1>4 DEF IInv, NoDanglingPartner, Paired

\* accept_cb frees both bufferevents when the server cannot be reached.
LEMMA RefusedIInv ==
    ASSUME IInv, NEW c \in Conns, accept_cb_refused(c)
    PROVE  IInv'
<1>1. /\ bev' \in BevStates
      /\ \A b \in Bevs : bev'[b] = IF b[1] = c THEN Absent("freed") ELSE bev[b]
  BY AbsentType DEF accept_cb_refused, IInv, TypeOK, BevStates
<1>2. TypeOK'
  BY <1>1 DEF accept_cb_refused, IInv, TypeOK, BevStates, peers
<1>3. ASSUME NEW b \in Bevs
      PROVE  Joined(bev', b) \/ Closing(bev', b) \/ Silent(bev', b)
  <2>1. Other(b) \in Bevs /\ Other(b)[1] = b[1]
    BY OtherSide DEF Other
  <2>2. CASE b[1] = c
    BY <1>1, <2>2 DEF Absent, Silent
  <2>3. CASE b[1] # c
    <3>1. bev'[b] = bev[b] /\ bev'[Other(b)] = bev[Other(b)]
      BY <1>1, <2>1, <2>3
    <3> QED
      BY <3>1 DEF IInv, NoDanglingPartner, Paired, Joined, Closing, Silent
  <2> QED
    BY <2>2, <2>3
<1> QED
  BY <1>2, <1>3 DEF IInv, NoDanglingPartner, Paired

-----------------------------------------------------------------------------
(* Socket events keep the invariant.                                        *)

LEMMA ConnectIInv ==
    ASSUME IInv, NEW b \in Bevs, Connected(b) \/ ConnectFailed(b)
    PROVE  IInv'
<1>1. bev \in BevStates /\ bev[b] \in BevState /\ queue \in Seq(Bevs)
  BY DEF IInv, TypeOK, BevStates
<1>2. CASE Connected(b)
  <2> DEFINE r == [bev[b] EXCEPT !.link = "up"]
  <2>1. r \in BevState /\ SameLink(bev[b], r)
    BY <1>1 DEF BevState, SameLink
  <2>2. bev' = [bev EXCEPT ![b] = r] /\ queue' = queue
    BY <1>1, <1>2 DEF Connected, BevStates
  <2> HIDE DEF r
  <2> QED
    BY <1>1, <1>2, <2>1, <2>2, UpdateIInv
       DEF Connected, IInv, TypeOK, peers
<1>3. CASE ConnectFailed(b)
  <2> DEFINE r == [bev[b] EXCEPT !.link = "failed", !.read = FALSE,
                                 !.write = FALSE, !.pend = @ \cup {"error"}]
  <2>1. r \in BevState /\ SameLink(bev[b], r)
    BY <1>1 DEF BevState, SameLink, Events
  <2>2. bev' = [bev EXCEPT ![b] = r] /\ queue' \in Seq(Bevs)
    BY <1>1, <1>3, ScheduleType DEF ConnectFailed, BevStates
  <2> HIDE DEF r
  <2> QED
    BY <1>1, <1>3, <2>1, <2>2, UpdateIInv
       DEF ConnectFailed, IInv, TypeOK, peers
<1> QED
  BY <1>2, <1>3

LEMMA SocketReadIInv ==
    ASSUME IInv, NEW b \in Bevs, SocketRead(b)
    PROVE  IInv'
<1>1. /\ bev \in BevStates /\ bev[b] \in BevState /\ queue \in Seq(Bevs)
      /\ wire \in [Bevs -> Seq(Lines)] /\ wire[b] \in Seq(Lines)
  BY DEF IInv, TypeOK, BevStates
<1>2. PICK n \in 1 .. MaxRead :
        /\ n <= Len(wire[b])
        /\ wire' = [wire EXCEPT ![b] = SubSeq(@, n + 1, Len(@))]
        /\ bev' = [bev EXCEPT
                    ![b].input = @ \o SubSeq(wire[b], 1, n),
                    ![b].pend = IF bev[b].readcb THEN @ \cup {"read"} ELSE @]
  BY DEF SocketRead
<1>3. n \in 1 .. Len(wire[b])
  BY <1>1, <1>2, LenProperties
<1>4. /\ SubSeq(wire[b], 1, n) \in Seq(Lines)
      /\ wire' \in [Bevs -> Seq(Lines)]
  BY <1>1, <1>2, <1>3, SplitType
<1> DEFINE r == [bev[b] EXCEPT
                   !.input = @ \o SubSeq(wire[b], 1, n),
                   !.pend = IF bev[b].readcb THEN @ \cup {"read"} ELSE @]
<1>5. r \in BevState /\ SameLink(bev[b], r)
  <2>1. bev[b].input \o SubSeq(wire[b], 1, n) \in Seq(Lines)
    BY <1>1, <1>4, ConcatProperties DEF BevState
  <2>2. (IF bev[b].readcb THEN bev[b].pend \cup {"read"} ELSE bev[b].pend)
            \in SUBSET ({"read", "write"} \cup Events)
    BY <1>1 DEF BevState
  <2> QED
    BY <1>1, <2>1, <2>2 DEF BevState, SameLink
<1>6. bev' = [bev EXCEPT ![b] = r] /\ queue' \in Seq(Bevs)
  BY <1>1, <1>2, ScheduleType DEF SocketRead, BevStates
<1> HIDE DEF r
<1> QED
  BY <1>4, <1>5, <1>6, UpdateIInv DEF SocketRead, IInv, TypeOK

LEMMA SocketReadEndIInv ==
    ASSUME IInv, NEW b \in Bevs, SocketReadEnd(b)
    PROVE  IInv'
<1>1. bev \in BevStates /\ bev[b] \in BevState /\ queue \in Seq(Bevs)
  BY DEF IInv, TypeOK, BevStates
<1> DEFINE r == [bev[b] EXCEPT
                   !.read = FALSE,
                   !.pend = @ \cup {IF shut[b] = "fin" THEN "eof"
                                                       ELSE "error"}]
<1>2. r \in BevState /\ SameLink(bev[b], r)
  BY <1>1 DEF BevState, SameLink, Events
<1>3. bev' = [bev EXCEPT ![b] = r] /\ queue' \in Seq(Bevs)
  BY <1>1, ScheduleType DEF SocketReadEnd, BevStates
<1> HIDE DEF r
<1> QED
  BY <1>2, <1>3, UpdateIInv DEF SocketReadEnd, IInv, TypeOK, peers

LEMMA SocketWriteIInv ==
    ASSUME IInv, NEW b \in Bevs, SocketWrite(b)
    PROVE  IInv'
<1> DEFINE Items == Lines \cup {BlockMsg}
           out == bev[b].output
<1>1. /\ bev \in BevStates /\ bev[b] \in BevState /\ queue \in Seq(Bevs)
      /\ received \in [Bevs -> Seq(Items)] /\ received[b] \in Seq(Items)
  BY DEF IInv, TypeOK, BevStates
<1>2. out \in Seq(Items)
  BY <1>1 DEF BevState
<1> DEFINE left(n) == SubSeq(out, n + 1, Len(out))
           due(n) == Len(left(n)) <= bev[b].low /\ bev[b].writecb # "null"
           r(n) == [bev[b] EXCEPT
                      !.output = left(n),
                      !.pend = IF due(n) THEN @ \cup {"write"} ELSE @]
<1>3. PICK n \in 1 .. Len(out) :
        /\ received' = [received EXCEPT ![b] = @ \o SubSeq(out, 1, n)]
        /\ bev' = [bev EXCEPT
                    ![b].output = left(n),
                    ![b].pend = IF due(n) THEN @ \cup {"write"} ELSE @]
        /\ queue' = IF due(n) THEN Schedule(queue, b) ELSE queue
  BY DEF SocketWrite
<1>4. SubSeq(out, 1, n) \in Seq(Items) /\ left(n) \in Seq(Items)
  BY <1>2, <1>3, SplitType
<1>5. received' \in [Bevs -> Seq(Items)]
  BY <1>1, <1>3, <1>4, ConcatProperties
<1>6. queue' \in Seq(Bevs)
  BY <1>1, <1>3, ScheduleType
<1>7. r(n) \in BevState /\ SameLink(bev[b], r(n))
  BY <1>1, <1>4 DEF BevState, SameLink
<1>8. bev' = [bev EXCEPT ![b] = r(n)]
  BY <1>1, <1>3 DEF BevStates
<1> HIDE DEF r
<1> QED
  BY <1>5, <1>6, <1>7, <1>8, UpdateIInv DEF SocketWrite, IInv, TypeOK

LEMMA SocketWriteErrorIInv ==
    ASSUME IInv, NEW b \in Bevs, SocketWriteError(b)
    PROVE  IInv'
<1>1. bev \in BevStates /\ bev[b] \in BevState /\ queue \in Seq(Bevs)
  BY DEF IInv, TypeOK, BevStates
<1> DEFINE r == [bev[b] EXCEPT !.write = FALSE, !.pend = @ \cup {"error"}]
<1>2. r \in BevState /\ SameLink(bev[b], r)
  BY <1>1 DEF BevState, SameLink, Events
<1>3. bev' = [bev EXCEPT ![b] = r] /\ queue' \in Seq(Bevs)
  BY <1>1, ScheduleType DEF SocketWriteError, BevStates
<1> HIDE DEF r
<1> QED
  BY <1>2, <1>3, UpdateIInv DEF SocketWriteError, IInv, TypeOK, peers

-----------------------------------------------------------------------------
(* Deferred callbacks keep the invariant.                                   *)

\* Taking a callback's reason off the pending ones changes no pair.
LEMMA TakePending ==
    ASSUME IInv, NEW b \in Bevs, NEW what
    PROVE  LET B == [bev EXCEPT ![b].pend = @ \ what]
           IN  /\ B \in BevStates /\ Paired(B)
               /\ B[b].mem = bev[b].mem
               /\ Joined(bev, b) => Joined(B, b)
               /\ Closing(bev, b) => Closing(B, b)
<1>1. bev \in BevStates /\ bev[b] \in BevState /\ Paired(bev)
  BY DEF IInv, TypeOK, BevStates, NoDanglingPartner
<1> DEFINE r == [bev[b] EXCEPT !.pend = @ \ what]
           B == [bev EXCEPT ![b] = r]
<1>2. r \in BevState /\ SameLink(bev[b], r) /\ r.mem = bev[b].mem
  BY <1>1 DEF BevState, SameLink
<1> HIDE DEF r
<1>3. B \in BevStates /\ Paired(B)
  BY <1>1, <1>2, UpdatePairs
<1>4. [bev EXCEPT ![b].pend = @ \ what] = B
  BY <1>1 DEF BevStates, r
<1>5. B[b] = r /\ \A x \in Bevs \ {b} : B[x] = bev[x]
  BY <1>1 DEF BevStates
<1> HIDE DEF B
<1>6. /\ Joined(bev, b) => Joined(B, b)
      /\ Closing(bev, b) => Closing(B, b)
  BY <1>2, <1>5, OtherSide DEF Joined, Closing, SameLink
<1> QED
  BY <1>2, <1>3, <1>4, <1>5, <1>6

\* The history of what was blocked keeps its type.
LEMMA HoldType ==
    ASSUME IInv, NEW b \in Bevs, NEW block, Hold(b, block)
    PROVE  held' \in [Bevs -> [at : Int, input : Seq(Lines)]]
<1>1. /\ bev[b].input \in Seq(Lines) /\ sent[b] \in Seq(Lines)
      /\ wire[b] \in Seq(Lines)
      /\ held \in [Bevs -> [at : Int, input : Seq(Lines)]]
  BY DEF IInv, TypeOK, BevState
<1>2. /\ Len(bev[b].input) \in Nat /\ Len(sent[b]) \in Nat
      /\ Len(wire[b]) \in Nat
  BY <1>1, LenProperties
<1>3. [at |-> Len(sent[b]) - Len(wire[b]) - Len(bev[b].input),
       input |-> bev[b].input] \in [at : Int, input : Seq(Lines)]
  BY <1>1, <1>2
<1> QED
  BY <1>1, <1>3 DEF Hold

LEMMA RunReadcbIInv ==
    ASSUME IInv, NEW b \in Bevs, RunReadcb(b)
    PROVE  IInv'
<1> DEFINE B == [bev EXCEPT ![b].pend = @ \ {"read"}]
<1>1. PICK v \in Verdicts(b) : /\ bev' = readcb(B, b, v.block)
                               /\ block_addr_list' = v.list
                               /\ Hold(b, v.block)
  BY DEF RunReadcb
<1>2. /\ B \in BevStates /\ Paired(B)
      /\ Joined(bev, b) => Joined(B, b)
  BY TakePending
<1> HIDE DEF B
<1>3. Joined(bev, b)
  BY DEF RunReadcb, ReadDue, IInv, NoDanglingPartner, Paired, Closing, Silent
<1>4. B[b].mem = "live" /\ Joined(B, b)
  BY <1>2, <1>3 DEF Joined
<1>5. bev' \in BevStates /\ Paired(bev')
  BY <1>1, <1>2, <1>4, ReadcbPairs, SamePairsPaired
<1>6. block_addr_list' \in Seq(Entries)
  BY <1>1, VerdictType DEF IInv
<1>7. held' \in [Bevs -> [at : Int, input : Seq(Lines)]]
  BY <1>1, HoldType
<1> QED
  BY <1>5, <1>6, <1>7
     DEF RunReadcb, IInv, TypeOK, BevStates, NoDanglingPartner, peers

LEMMA RunWritecbIInv ==
    ASSUME IInv, NEW b \in Bevs, RunWritecb(b)
    PROVE  IInv'
<1> DEFINE B == [bev EXCEPT ![b].pend = @ \ {"write"}]
<1>1. bev' = IF bev[b].writecb = "drained_writecb"
             THEN drained_writecb(B, b) ELSE close_on_finished_writecb(B, b)
  BY DEF RunWritecb
<1>2. /\ B \in BevStates /\ Paired(B)
      /\ Joined(bev, b) => Joined(B, b)
      /\ Closing(bev, b) => Closing(B, b)
  BY TakePending
<1> HIDE DEF B
<1>3. bev[b].writecb # "null"
  BY DEF RunWritecb, WriteDue
<1>4. bev' \in BevStates /\ Paired(bev')
  <2>1. CASE bev[b].writecb = "drained_writecb"
    <3>1. Joined(bev, b)
      BY <2>1 DEF IInv, NoDanglingPartner, Paired, Closing, Silent
    <3>2. B[b].mem = "live" /\ Joined(B, b)
      BY <1>2, <3>1 DEF Joined
    <3> QED
      BY <1>1, <1>2, <2>1, <3>2, DrainedPairs, SamePairsPaired
  <2>2. CASE bev[b].writecb # "drained_writecb"
    <3>1. Closing(B, b)
      BY <1>2, <1>3, <2>2 DEF IInv, NoDanglingPartner, Paired, Joined, Silent
    <3> QED
      BY <1>1, <1>2, <2>2, <3>1, FreePairs
         DEF close_on_finished_writecb, Closing
  <2> QED
    BY <2>1, <2>2
<1> QED
  BY <1>4 DEF RunWritecb, IInv, TypeOK, BevStates, NoDanglingPartner, peers

LEMMA RunEventcbIInv ==
    ASSUME IInv, NEW b \in Bevs, RunEventcb(b)
    PROVE  IInv'
<1> DEFINE B == [bev EXCEPT ![b].pend = @ \ Events]
<1>1. PICK v \in Verdicts(b) : /\ bev' = eventcb(B, b, v.block)
                               /\ block_addr_list' = v.list
                               /\ Hold(b, v.block)
  BY DEF RunEventcb
<1>2. B \in BevStates /\ Paired(B) /\ B[b].mem = bev[b].mem
  BY TakePending
<1> HIDE DEF B
<1>3. B[b].mem = "live"
  BY <1>2 DEF RunEventcb, EventDue, Live
<1>4. bev' \in BevStates /\ Paired(bev')
  BY <1>1, <1>2, <1>3, EventcbPairs
<1>5. block_addr_list' \in Seq(Entries)
  BY <1>1, VerdictType DEF IInv
<1>6. held' \in [Bevs -> [at : Int, input : Seq(Lines)]]
  BY <1>1, HoldType
<1> QED
  BY <1>4, <1>5, <1>6
     DEF RunEventcb, IInv, TypeOK, BevStates, NoDanglingPartner, peers

\* The loop's own steps leave the bufferevents alone.
LEMMA LoopIInv ==
    ASSUME IInv, NEW b \in Bevs, CallbacksDone(b) \/ ProcessEnds(b)
    PROVE  IInv'
<1>2. CASE CallbacksDone(b)
  <2>1. queue' \in Seq(Bevs) /\ loop' \in {"poll", "callbacks"}
    BY <1>2, HeadTailProperties DEF CallbacksDone, Running, IInv, TypeOK
  <2> QED
    BY <1>2, <2>1 DEF CallbacksDone, IInv, TypeOK, NoDanglingPartner, peers
<1>3. CASE ProcessEnds(b)
  BY <1>3 DEF ProcessEnds, IInv, TypeOK, NoDanglingPartner, peers
<1> QED
  BY <1>2, <1>3

\* The peers touch their own side of the sockets only.
LEMMA PeerIInv ==
    ASSUME IInv, NEW b \in Bevs, PeerStep(b)
    PROVE  IInv'
<1>1. CASE PeerSend(b)
  <2>1. /\ wire \in [Bevs -> Seq(Lines)] /\ wire[b] \in Seq(Lines)
        /\ sent \in [Bevs -> Seq(Lines)] /\ sent[b] \in Seq(Lines)
    BY DEF IInv, TypeOK
  <2>2. PICK l \in Lines : /\ wire' = [wire EXCEPT ![b] = Append(@, l)]
                           /\ sent' = [sent EXCEPT ![b] = Append(@, l)]
    BY <1>1 DEF PeerSend
  <2>3. Append(wire[b], l) \in Seq(Lines) /\ Append(sent[b], l) \in Seq(Lines)
    BY <2>1, AppendProperties
  <2> QED
    BY <1>1, <2>1, <2>2, <2>3
       DEF PeerSend, IInv, TypeOK, NoDanglingPartner
<1>2. CASE PeerCloses(b)
  BY <1>2 DEF PeerCloses, IInv, TypeOK, NoDanglingPartner
<1>3. CASE PeerResets(b)
  BY <1>3 DEF PeerResets, IInv, TypeOK, NoDanglingPartner
<1> QED
  BY <1>1, <1>2, <1>3 DEF PeerStep

-----------------------------------------------------------------------------
(* The theorems.                                                            *)

LEMMA NextIInv == IInv /\ [Next]_vars => IInv'
<1> SUFFICES ASSUME IInv, [Next]_vars PROVE IInv'
  OBVIOUS
<1>1. ASSUME NEW c \in Conns, accept_cb(c) \/ accept_cb_refused(c)
      PROVE  IInv'
  BY <1>1, AcceptIInv, RefusedIInv
<1>2. ASSUME NEW b \in Bevs, SocketEvent(b)
      PROVE  IInv'
  BY <1>2, ConnectIInv, SocketReadIInv, SocketReadEndIInv, SocketWriteIInv,
     SocketWriteErrorIInv DEF SocketEvent
<1>3. ASSUME NEW b \in Bevs, Callback(b)
      PROVE  IInv'
  BY <1>3, RunReadcbIInv, RunWritecbIInv, RunEventcbIInv, LoopIInv
     DEF Callback
<1>4. ASSUME NEW b \in Bevs, PeerStep(b)
      PROVE  IInv'
  BY <1>4, PeerIInv
<1>5. CASE Dispatch
  BY <1>5 DEF Dispatch, IInv, TypeOK, NoDanglingPartner, peers
<1>6. CASE UNCHANGED vars
  BY <1>6 DEF vars, peers, IInv, TypeOK, NoDanglingPartner
<1> QED
  BY <1>1, <1>2, <1>3, <1>4, <1>5, <1>6 DEF Next

\* The variables of the relay have their types in every reachable state.
THEOREM TypeCorrect == Spec => []TypeOK
<1>1. Spec => []IInv
  BY InitIInv, NextIInv, PTL DEF Spec
<1>2. IInv => TypeOK
  BY DEF IInv
<1> QED
  BY <1>1, <1>2, PTL

\* Whatever the filter decides and in whatever order the callbacks of the two
\* sides run, no callback runs on a freed bufferevent, and none is given one as
\* its partner.
THEOREM PartnersSafe == Spec => []NoDanglingPartner
<1>1. Spec => []IInv
  BY InitIInv, NextIInv, PTL DEF Spec
<1>2. IInv => NoDanglingPartner
  BY DEF IInv
<1> QED
  BY <1>1, <1>2, PTL

-----------------------------------------------------------------------------
(* The callbacks, by what they make of the two sides of a pair.             *)

\* Nothing but b and p changes.
Only(b, p) == \A x \in Bevs \ {b, p} : bev'[x] = bev[x]

\* b's input went to p's output.
PassedTo(b, p) ==
    /\ bev'[b] = [bev[b] EXCEPT !.pend = @ \ {"read"}, !.input = <<>>]
    /\ bev'[p] = [bev[p] EXCEPT !.output = @ \o bev[b].input]
    /\ Len(bev[p].output \o bev[b].input) < MaxOutput

\* The same, and p's output is full.
ChokedBy(b, p) ==
    /\ bev'[b] = [bev[b] EXCEPT !.pend = @ \ {"read"}, !.input = <<>>,
                                !.read = FALSE]
    /\ bev'[p] = [bev[p] EXCEPT !.output = @ \o bev[b].input, !.readcb = TRUE,
                                !.writecb = "drained_writecb", !.ctx = b,
                                !.low = MaxOutput \div 2]
    /\ ~(Len(bev[p].output \o bev[b].input) < MaxOutput)

\* b was answered and silenced.
Answered(b, p) ==
    /\ bev'[b] = [bev[b] EXCEPT !.pend = @ \ {"read"},
                                !.output = Append(@, BlockMsg),
                                !.low = MaxOutput \div 2, !.read = FALSE]
    /\ bev'[p] = bev[p]

\* readcb runs only on a side of a pair, and passes, chokes or answers.
LEMMA ReadcbEffect ==
    ASSUME IInv, NEW b \in Bevs, RunReadcb(b)
    PROVE  LET p == Other(b)
           IN  /\ Joined(bev, b) /\ Only(b, p)
               /\ \E v \in Verdicts(b) :
                     /\ Hold(b, v.block) /\ block_addr_list' = v.list
                     /\ IF v.block THEN Answered(b, p)
                                   ELSE PassedTo(b, p) \/ ChokedBy(b, p)
<1>1. Joined(bev, b)
  BY DEF RunReadcb, ReadDue, IInv, NoDanglingPartner, Paired, Closing, Silent
<1>2. PICK p \in Bevs : p = Other(b) /\ p # b /\ p # NoBev /\ bev[b].ctx = p
  BY <1>1, OtherSide, ProxyAssumption DEF Joined
<1>3. bev \in BevStates /\ bev[b] \in BevState /\ bev[p] \in BevState
  BY DEF IInv, TypeOK, BevStates
<1> DEFINE B == [bev EXCEPT ![b].pend = @ \ {"read"}]
           F == Forward(B, b, p)
<1>4. PICK v \in Verdicts(b) : /\ bev' = readcb(B, b, v.block)
                               /\ block_addr_list' = v.list
                               /\ Hold(b, v.block)
  BY DEF RunReadcb
<1>5. /\ B \in BevStates
      /\ B[b] = [bev[b] EXCEPT !.pend = @ \ {"read"}]
      /\ \A x \in Bevs \ {b} : B[x] = bev[x]
  BY <1>3, TakePending DEF BevStates
<1> HIDE DEF B
<1>6. /\ B[b].ctx = p /\ B[b].input = bev[b].input
      /\ B[b].output = bev[b].output /\ B[p] = bev[p]
  BY <1>2, <1>3, <1>5 DEF BevState
<1>7. /\ F \in BevStates
      /\ F[b] = [bev[b] EXCEPT !.pend = @ \ {"read"}, !.input = <<>>]
      /\ F[p] = [bev[p] EXCEPT !.output = @ \o bev[b].input]
      /\ F[p].output = bev[p].output \o bev[b].input
      /\ \A x \in Bevs \ {b, p} : F[x] = bev[x]
  <2>1. F \in BevStates /\ F[p].output = B[p].output \o B[b].input
    BY <1>2, <1>5, ForwardFields
  <2>2. /\ F[b] = [B[b] EXCEPT !.input = <<>>]
        /\ F[p] = [B[p] EXCEPT !.output = B[p].output \o B[b].input]
        /\ \A x \in Bevs \ {b, p} : F[x] = B[x]
    BY <1>2, <1>5 DEF Forward, BevStates
  <2> QED
    BY <1>2, <1>3, <1>5, <1>6, <2>1, <2>2 DEF BevState
<1> HIDE DEF F
<1>8. CASE v.block
  <2>1. bev' = block_msg(B, b)
    BY <1>2, <1>4, <1>6, <1>8 DEF readcb
  <2>2. /\ bev'[b] = [B[b] EXCEPT !.output = Append(@, BlockMsg),
                                  !.low = MaxOutput \div 2, !.read = FALSE]
        /\ \A x \in Bevs \ {b} : bev'[x] = B[x]
    BY <1>5, <2>1 DEF block_msg, BevStates
  <2>3. Answered(b, p) /\ Only(b, p)
    BY <1>2, <1>3, <1>5, <2>2 DEF Answered, Only, BevState
  <2> QED
    BY <1>1, <1>2, <1>4, <1>8, <2>3
<1>9. CASE ~v.block
  <2>1. bev' = IF Len(F[p].output) >= MaxOutput THEN Choke(F, b, p) ELSE F
    BY <1>2, <1>4, <1>6, <1>9 DEF readcb, F
  <2>0. Len(F[p].output) \in Nat /\ MaxOutput \in Nat
    BY <1>2, <1>7, LenProperties, ProxyAssumption DEF BevStates, BevState
  <2>2. CASE Len(F[p].output) < MaxOutput
    <3>1. bev' = F
      BY <2>0, <2>1, <2>2
    <3>2. PassedTo(b, p) /\ Only(b, p)
      BY <1>7, <2>2, <3>1 DEF PassedTo, Only
    <3> QED
      BY <1>1, <1>2, <1>4, <1>9, <3>2
  <2>3. CASE ~(Len(F[p].output) < MaxOutput)
    <3>1. bev' = Choke(F, b, p)
      BY <2>0, <2>1, <2>3
    <3>2. Choked(F, bev', b, p)
      BY <1>2, <1>7, <3>1, ChokeFields
    <3>4. /\ bev'[b] = [bev[b] EXCEPT !.pend = @ \ {"read"}, !.input = <<>>,
                                      !.read = FALSE]
          /\ bev'[p] = [bev[p] EXCEPT !.output = @ \o bev[b].input,
                          !.readcb = TRUE, !.writecb = "drained_writecb",
                          !.ctx = b, !.low = MaxOutput \div 2]
      BY <1>3, <1>7, <3>2 DEF Choked, BevState
    <3>5. Only(b, p)
      BY <1>7, <3>2 DEF Choked, Only
    <3>3. ChokedBy(b, p) /\ Only(b, p)
      BY <1>7, <2>3, <3>4, <3>5 DEF ChokedBy
    <3> QED
      BY <1>1, <1>2, <1>4, <1>9, <3>3
  <2> QED
    BY <2>2, <2>3
<1> QED
  BY <1>8, <1>9

\* b's output has drained: p reads again.
DrainedFor(b, p) ==
    /\ bev'[b] = [bev[b] EXCEPT !.pend = @ \ {"write"}, !.readcb = TRUE,
                                !.writecb = "null", !.low = 0]
    /\ bev'[p] = [bev[p] EXCEPT !.read = TRUE]

\* The write callback of a pair's side, or of one that is closing.
LEMMA WritecbEffect ==
    ASSUME IInv, NEW b \in Bevs, RunWritecb(b)
    PROVE  LET p == Other(b)
           IN  /\ "write" \in bev[b].pend
               /\ \/ /\ Joined(bev, b) /\ Only(b, p) /\ DrainedFor(b, p)
                     /\ bev[b].writecb = "drained_writecb"
                  \/ /\ Closing(bev, b) /\ Only(b, b)
                     /\ \/ bev'[b] = Absent("freed") /\ bev[b].output = <<>>
                        \/ bev'[b] = [bev[b] EXCEPT !.pend = @ \ {"write"}]
<1>1. PICK p \in Bevs : p = Other(b) /\ p # b /\ p # NoBev
  BY OtherSide, ProxyAssumption
<1>2. bev \in BevStates /\ bev[b] \in BevState /\ bev[p] \in BevState
  BY DEF IInv, TypeOK, BevStates
<1> DEFINE B == [bev EXCEPT ![b].pend = @ \ {"write"}]
<1>3. bev' = IF bev[b].writecb = "drained_writecb"
             THEN drained_writecb(B, b) ELSE close_on_finished_writecb(B, b)
  BY DEF RunWritecb
<1>4. /\ B \in BevStates
      /\ B[b] = [bev[b] EXCEPT !.pend = @ \ {"write"}]
      /\ \A x \in Bevs \ {b} : B[x] = bev[x]
  BY <1>2, TakePending DEF BevStates
<1> HIDE DEF B
<1>5. B[b].ctx = bev[b].ctx /\ B[b].output = bev[b].output /\ B[p] = bev[p]
  BY <1>1, <1>2, <1>4 DEF BevState
<1>6. bev[b].writecb # "null" /\ "write" \in bev[b].pend
  BY DEF RunWritecb, WriteDue
<1>7. CASE bev[b].writecb = "drained_writecb"
  <2>1. Joined(bev, b) /\ bev[b].ctx = p
    BY <1>1, <1>7 DEF IInv, NoDanglingPartner, Paired, Closing, Silent, Joined
  <2> DEFINE D == [B EXCEPT ![b].readcb = TRUE, ![b].writecb = "null",
                            ![b].low = 0]
  <2>2. /\ D[b] = [B[b] EXCEPT !.readcb = TRUE, !.writecb = "null", !.low = 0]
        /\ \A x \in Bevs \ {b} : D[x] = B[x]
        /\ DOMAIN D = Bevs
    BY <1>4 DEF BevStates
  <2>3. bev' = [D EXCEPT ![p].read = TRUE]
    BY <1>1, <1>3, <1>5, <1>7, <2>1 DEF drained_writecb
  <2> HIDE DEF D
  <2>4. /\ bev'[b] = D[b] /\ bev'[p] = [D[p] EXCEPT !.read = TRUE]
        /\ \A x \in Bevs \ {b, p} : bev'[x] = D[x]
    BY <1>1, <2>2, <2>3
  <2>5. DrainedFor(b, p)
    <3>1. bev'[b] = [B[b] EXCEPT !.readcb = TRUE, !.writecb = "null", !.low = 0]
      BY <2>2, <2>4
    <3>2. bev'[p] = [bev[p] EXCEPT !.read = TRUE]
      BY <1>1, <1>5, <2>2, <2>4
    <3>3. bev'[b] = [bev[b] EXCEPT !.pend = @ \ {"write"}, !.readcb = TRUE,
                                   !.writecb = "null", !.low = 0]
      BY <1>2, <1>4, <3>1 DEF BevState
    <3> QED
      BY <3>2, <3>3 DEF DrainedFor
  <2>6. Only(b, p)
    BY <1>1, <1>4, <2>2, <2>4 DEF Only
  <2> QED
    BY <1>1, <1>6, <1>7, <2>1, <2>5, <2>6
<1>8. CASE bev[b].writecb # "drained_writecb"
  <2>1. Closing(bev, b)
    BY <1>6, <1>8 DEF IInv, NoDanglingPartner, Paired, Silent, Joined
  <2>2. bev' = close_on_finished_writecb(B, b)
    BY <1>3, <1>8
  <2>3. CASE bev[b].output = <<>>
    <3>1. bev' = [B EXCEPT ![b] = Absent("freed")]
      BY <1>5, <2>2, <2>3 DEF close_on_finished_writecb, bufferevent_free
    <3>2. bev'[b] = Absent("freed") /\ Only(b, b)
      BY <1>4, <3>1 DEF Only, BevStates
    <3> QED
      BY <1>6, <2>1, <2>3, <3>2
  <2>4. CASE bev[b].output # <<>>
    <3>1. bev' = B
      BY <1>5, <2>2, <2>4 DEF close_on_finished_writecb
    <3> QED
      BY <1>4, <1>6, <2>1, <3>1 DEF Only
  <2> QED
    BY <2>3, <2>4
<1> QED
  BY <1>7, <1>8

\* p has o left to write, or nothing and is freed.
ClosedWith(p, o) ==
    \/ o = <<>> /\ bev'[p] = Absent("freed")
    \/ /\ o # <<>>
       /\ \E low \in {bev[p].low, MaxOutput \div 2} :
             bev'[p] = [bev[p] EXCEPT !.output = o, !.readcb = FALSE,
                             !.writecb = "close_on_finished_writecb",
                             !.ctx = NoBev, !.read = FALSE, !.low = low]

\* eventcb frees its bufferevent; the partner it had gets the last of the input,
\* unless that is blocked, and is closed.
LEMMA EventcbEffect ==
    ASSUME IInv, NEW b \in Bevs, RunEventcb(b)
    PROVE  LET p == Other(b)
           IN  /\ bev'[b] = Absent("freed")
               /\ \E v \in Verdicts(b) :
                     /\ Hold(b, v.block) /\ block_addr_list' = v.list
                     /\ \/ Closing(bev, b) /\ Only(b, b)
                        \/ /\ Joined(bev, b) /\ Only(b, p)
                           /\ ClosedWith(p, IF v.block THEN bev[p].output
                                   ELSE bev[p].output \o bev[b].input)
<1>1. PICK p \in Bevs : p = Other(b) /\ p # b /\ p # NoBev
  BY OtherSide, ProxyAssumption
<1>2. bev \in BevStates /\ bev[b] \in BevState /\ bev[p] \in BevState
  BY DEF IInv, TypeOK, BevStates
<1> DEFINE B == [bev EXCEPT ![b].pend = @ \ Events]
<1>3. PICK v \in Verdicts(b) : /\ bev' = eventcb(B, b, v.block)
                               /\ block_addr_list' = v.list
                               /\ Hold(b, v.block)
  BY DEF RunEventcb
<1>4. /\ B \in BevStates
      /\ B[b] = [bev[b] EXCEPT !.pend = @ \ Events]
      /\ \A x \in Bevs \ {b} : B[x] = bev[x]
  BY <1>2, TakePending DEF BevStates
<1> HIDE DEF B
<1>5. /\ B[b].ctx = bev[b].ctx /\ B[b].output = bev[b].output /\ B[p] = bev[p]
      /\ B[b].input = bev[b].input
  BY <1>1, <1>2, <1>4 DEF BevState
<1>6. Joined(bev, b) \/ Closing(bev, b)
  BY DEF RunEventcb, EventDue, Live, IInv, NoDanglingPartner, Paired, Silent
<1>7. CASE Closing(bev, b)
  <2>1. bev' = [B EXCEPT ![b] = Absent("freed")]
    BY <1>3, <1>5, <1>7 DEF Closing, eventcb, bufferevent_free
  <2>2. bev'[b] = Absent("freed") /\ Only(b, b)
    BY <1>4, <2>1 DEF Only, BevStates
  <2> QED
    BY <1>1, <1>3, <1>7, <2>2
<1>8. CASE Joined(bev, b)
  <2> DEFINE R == readcb(B, b, v.block)
             C == ClosePartner(R, p)
             o == IF v.block THEN bev[p].output
                             ELSE bev[p].output \o bev[b].input
             Flushing(q) == [q EXCEPT !.readcb = FALSE,
                                !.writecb = "close_on_finished_writecb",
                                !.ctx = NoBev, !.read = FALSE]
             Left(low) == [bev[p] EXCEPT !.output = o, !.readcb = FALSE,
                             !.writecb = "close_on_finished_writecb",
                             !.ctx = NoBev, !.read = FALSE, !.low = low]
  <2>1. bev' = [C EXCEPT ![b] = Absent("freed")]
    BY <1>1, <1>3, <1>5, <1>8 DEF Joined, eventcb, bufferevent_free
  <2>2. /\ DOMAIN R = Bevs
        /\ R[p].output = o
        /\ \E r \in {bev[p].low, MaxOutput \div 2} : Flushing(R[p]) = Left(r)
        /\ \A x \in Bevs \ {b, p} : R[x] = bev[x]
    <3>1. bev[b].ctx = p /\ bev[p].ctx = b
      BY <1>1, <1>8 DEF Joined
    <3>2. CASE v.block
      <4>1. R = block_msg(B, b)
        BY <1>1, <1>5, <3>1, <3>2 DEF readcb
      <4>2. DOMAIN R = Bevs /\ \A x \in Bevs \ {b} : R[x] = B[x]
        BY <1>4, <4>1 DEF block_msg, BevStates
      <4>3. bev[p].output = o /\ Flushing(bev[p]) = Left(bev[p].low)
        BY <1>2, <3>2 DEF BevState
      <4> HIDE DEF R, Flushing, Left, o
      <4> QED
        BY <1>1, <1>4, <4>2, <4>3
    <3>3. CASE ~v.block
      <4> DEFINE F == Forward(B, b, p)
      <4>1. R = F \/ R = Choke(F, b, p)
        BY <1>1, <1>5, <3>1, <3>3 DEF readcb
      <4>2. /\ F \in BevStates
            /\ F[p] = [bev[p] EXCEPT !.output = bev[p].output \o bev[b].input]
            /\ \A x \in Bevs \ {b, p} : F[x] = bev[x]
        <5>1. F \in BevStates
          BY <1>1, <1>4, ForwardFields
        <5>2. /\ F[p] = [B[p] EXCEPT !.output = B[p].output \o B[b].input]
              /\ \A x \in Bevs \ {b, p} : F[x] = B[x]
          BY <1>1, <1>4 DEF Forward, BevStates
        <5> QED
          BY <1>4, <1>5, <5>1, <5>2
      <4>0. o = bev[p].output \o bev[b].input
        BY <3>3
      <4> HIDE DEF F, R, o
      <4>3. CASE R = F
        <5>2. F[p] = [bev[p] EXCEPT !.output = o]
          BY <4>0, <4>2
        <5>1. F[p].output = o /\ Flushing(F[p]) = Left(bev[p].low)
          BY <1>2, <5>2 DEF BevState
        <5> HIDE DEF Flushing, Left
        <5> QED
          BY <4>2, <4>3, <5>1 DEF BevStates
      <4>4. CASE R = Choke(F, b, p)
        <5>1. R \in BevStates /\ Choked(F, R, b, p)
          BY <1>1, <4>2, <4>4, ChokeFields
        <5>4. R[p] = [F[p] EXCEPT !.readcb = TRUE, !.ctx = b,
                          !.writecb = "drained_writecb", !.low = MaxOutput \div 2]
          BY <5>1 DEF Choked
        <5>5. R[p] = [bev[p] EXCEPT !.output = o, !.readcb = TRUE, !.ctx = b,
                          !.writecb = "drained_writecb", !.low = MaxOutput \div 2]
          BY <1>2, <4>0, <4>2, <5>4 DEF BevState
        <5>2. R[p].output = o /\ Flushing(R[p]) = Left(MaxOutput \div 2)
          BY <1>2, <5>5 DEF BevState
        <5>3. \A x \in Bevs \ {b, p} : R[x] = bev[x]
          BY <4>2, <5>1 DEF Choked
        <5> HIDE DEF Flushing, Left
        <5> QED
          BY <5>1, <5>2, <5>3 DEF BevStates
      <4> QED
        BY <4>1, <4>3, <4>4
    <3> QED
      BY <3>2, <3>3
  <2> HIDE DEF R, o
  <2>3. PICK r \in {bev[p].low, MaxOutput \div 2} : Flushing(R[p]) = Left(r)
    BY <2>2
  <2>4. R[p].output = o
    BY <2>2
  <2>5. CASE o = <<>>
    <3>1. C = [R EXCEPT ![p] = Absent("freed")]
      BY <2>4, <2>5 DEF ClosePartner, bufferevent_free
    <3> HIDE DEF C
    <3>2. /\ bev'[b] = Absent("freed") /\ bev'[p] = Absent("freed")
          /\ \A x \in Bevs \ {b, p} : bev'[x] = R[x]
      BY <1>1, <2>1, <2>2, <3>1
    <3>3. ClosedWith(p, o) /\ Only(b, p)
      BY <2>2, <2>5, <3>2 DEF ClosedWith, Only
    <3> QED
      BY <1>1, <1>3, <1>8, <3>2, <3>3 DEF o
  <2>6. CASE o # <<>>
    <3>1. C = CloseWhenFlushed(R, p)
      BY <2>4, <2>6 DEF ClosePartner
    <3>2. /\ C[p] = Flushing(R[p])
          /\ DOMAIN C = Bevs
          /\ \A x \in Bevs \ {p} : C[x] = R[x]
      BY <2>2, <3>1 DEF CloseWhenFlushed
    <3> HIDE DEF C
    <3>3. C[p] = Left(r)
      BY <2>3, <3>2
    <3>4. /\ bev'[b] = Absent("freed") /\ bev'[p] = C[p]
          /\ \A x \in Bevs \ {b, p} : bev'[x] = R[x]
      BY <1>1, <2>1, <3>2
    <3>5. ClosedWith(p, o) /\ Only(b, p)
      BY <2>2, <2>3, <2>6, <3>3, <3>4 DEF ClosedWith, Only
    <3> QED
      BY <1>1, <1>3, <1>8, <3>4, <3>5 DEF o
  <2> QED
    BY <2>5, <2>6
<1> QED
  BY <1>6, <1>7, <1>8

-----------------------------------------------------------------------------
(* The invariant.                                                           *)

\* A connection that was not accepted has no history.
Fresh ==
    \A b \in Bevs : bev[b].mem = "new" =>
        /\ bev[b] = Absent("new") /\ bev[Other(b)].mem = "new"
        /\ wire[b] = <<>> /\ sent[b] = <<>> /\ received[b] = <<>>
        /\ held[b] = NoHold

\* The place the answer takes in b's output.
Extra(b) == IF Blocked(b) THEN 1 ELSE 0

\* b stopped for p, which has drained_writecb to start it again: nothing of b is
\* on its way, and once the callback is due there is room.
Stopped(b, p) ==
    bev[p].writecb = "drained_writecb" =>
        /\ ~bev[b].read /\ bev[b].input = <<>>
        /\ bev[p].low = MaxOutput \div 2
        /\ "write" \in bev[p].pend =>
               Len(bev[p].output) <= MaxOutput \div 2 + Extra(p)

\* A blocked side is never read again, and keeps what it was blocked for.
Silenced(b) ==
    Blocked(b) => /\ ~bev[b].read /\ "read" \notin bev[b].pend
                  /\ bev[b].input = held[b].input
                  /\ bev[b].input # <<>>

\* What is read is dealt with before more is read.
OneRead(b) ==
    /\ bev[b].input # <<>> => Blocked(b) \/ "read" \in bev[b].pend
    /\ "read" \in bev[b].pend => bev[b].input # <<>>
    /\ Len(bev[b].input) <= MaxRead

\* Who may still pass something on finds room.
Room(b, p) ==
    bev[b].read \/ bev[b].input # <<>> =>
        Len(bev[p].output) < MaxOutput + Extra(p)

FlowAt(b, p) ==
    /\ Stopped(b, p) /\ Silenced(b) /\ OneRead(b) /\ Room(b, p)
    /\ bev[p].writecb = "null" => "write" \notin bev[p].pend

Flow == \A b \in Bevs : Joined(bev, b) => FlowAt(b, Other(b))

Bound == \A b \in Bevs : Len(bev[b].output) < MaxOutput + MaxRead + Extra(b)

FlowInv == IInv /\ Fresh /\ Flow /\ Bound

\* The facts about types that every step uses.
LEMMA Facts ==
    ASSUME IInv, NEW b \in Bevs
    PROVE  /\ bev \in BevStates /\ bev[b] \in BevState
           /\ bev[b].input \in Seq(Lines) /\ Len(bev[b].input) \in Nat
           /\ bev[b].output \in Seq(Lines \cup {BlockMsg})
           /\ Len(bev[b].output) \in Nat
           /\ MaxOutput \in Nat /\ MaxOutput > 0
           /\ MaxRead \in Nat /\ MaxRead > 0
           /\ MaxOutput \div 2 \in Nat /\ MaxOutput \div 2 < MaxOutput
<1>1. bev \in BevStates /\ bev[b] \in BevState
  BY DEF IInv, TypeOK, BevStates
<1>2. /\ bev[b].input \in Seq(Lines)
      /\ bev[b].output \in Seq(Lines \cup {BlockMsg})
  BY <1>1 DEF BevState
<1>3. Len(bev[b].input) \in Nat /\ Len(bev[b].output) \in Nat
  BY <1>2, LenProperties
<1>4. MaxOutput \in Nat \ {0} /\ MaxRead \in Nat \ {0}
  BY ProxyAssumption
<1> QED
  BY <1>1, <1>2, <1>3, <1>4

\* A pair that a step does not touch.
LEMMA FlowFrame ==
    ASSUME Flow, NEW x \in Bevs, Joined(bev', x),
           bev'[x] = bev[x], bev'[Other(x)] = bev[Other(x)],
           held'[x] = held[x], held'[Other(x)] = held[Other(x)]
    PROVE  FlowAt(x, Other(x))'
<1>1. Joined(bev, x)
  BY DEF Joined
<1>2. FlowAt(x, Other(x))
  BY <1>1 DEF Flow
<1> QED
  BY <1>2 DEF FlowAt, Stopped, Silenced, OneRead, Room, Extra, Blocked

LEMMA InitFlow == Init => FlowInv
<1> SUFFICES ASSUME Init PROVE FlowInv
  OBVIOUS
<1>1. IInv
  BY InitIInv
<1>2. \A b \in Bevs : bev[b] = Absent("new") /\ bev[b].mem = "new"
  BY DEF Init, Absent
<1>3. Fresh
  BY <1>2, OtherSide DEF Init, Fresh
<1>4. Flow
  BY <1>2 DEF Flow, Joined
<1>5. Bound
  <2> SUFFICES ASSUME NEW b \in Bevs
               PROVE  Len(bev[b].output) < MaxOutput + MaxRead + Extra(b)
    BY DEF Bound
  <2>1. bev[b].output = <<>>
    BY <1>2 DEF Absent
  <2> QED
    BY <1>1, <2>1, Facts DEF Extra
<1> QED
  BY <1>1, <1>3, <1>4, <1>5 DEF FlowInv

\* A step of one pair: it is enough to look at its two sides.
LEMMA PairStep ==
    ASSUME FlowInv, IInv', NEW b \in Bevs, NEW p \in Bevs, p = Other(b),
           bev[b].mem = "live", Only(b, p),
           bev'[b].mem # "new", bev'[p].mem # "new",
           \A x \in Bevs \ {b, p} :
               /\ held'[x] = held[x] /\ wire'[x] = wire[x]
               /\ sent'[x] = sent[x] /\ received'[x] = received[x],
           Joined(bev', b) => FlowAt(b, p)',
           Joined(bev', p) => FlowAt(p, b)',
           Len(bev'[b].output) < MaxOutput + MaxRead + Extra(b)',
           Len(bev'[p].output) < MaxOutput + MaxRead + Extra(p)'
    PROVE  FlowInv'
<1>1. p # b /\ Other(p) = b
  BY OtherSide
<1>2. \A x \in Bevs \ {b, p} : Other(x) \in Bevs \ {b, p}
  BY <1>1, OtherSide
<1>3. Fresh'
  <2> SUFFICES ASSUME NEW x \in Bevs, bev'[x].mem = "new"
               PROVE  /\ bev'[x] = Absent("new") /\ bev'[Other(x)].mem = "new"
                      /\ wire'[x] = <<>> /\ sent'[x] = <<>>
                      /\ received'[x] = <<>> /\ held'[x] = NoHold
    BY DEF Fresh
  <2>1. x \in Bevs \ {b, p}
    OBVIOUS
  <2>2. bev'[x] = bev[x] /\ bev'[Other(x)] = bev[Other(x)]
    BY <1>2, <2>1 DEF Only
  <2> QED
    BY <2>1, <2>2 DEF FlowInv, Fresh
<1>4. Flow'
  <2> SUFFICES ASSUME NEW x \in Bevs, Joined(bev', x)
               PROVE  FlowAt(x, Other(x))'
    BY DEF Flow
  <2>1. CASE x = b
    BY <2>1
  <2>2. CASE x = p
    BY <1>1, <2>2
  <2>3. CASE x \in Bevs \ {b, p}
    <3>1. /\ bev'[x] = bev[x] /\ bev'[Other(x)] = bev[Other(x)]
          /\ held'[x] = held[x] /\ held'[Other(x)] = held[Other(x)]
      BY <1>2, <2>3 DEF Only
    <3> QED
      BY <3>1, FlowFrame DEF FlowInv
  <2> QED
    BY <2>1, <2>2, <2>3
<1>5. Bound'
  <2> SUFFICES ASSUME NEW x \in Bevs
               PROVE  Len(bev'[x].output) < MaxOutput + MaxRead + Extra(x)'
    BY DEF Bound
  <2>1. CASE x \in {b, p}
    BY <2>1
  <2>2. CASE x \notin {b, p}
    <3>1. bev'[x] = bev[x] /\ held'[x] = held[x]
      BY <2>2 DEF Only
    <3> QED
      BY <3>1 DEF FlowInv, Bound, Extra, Blocked
  <2> QED
    BY <2>1, <2>2
<1> QED
  BY <1>3, <1>4, <1>5 DEF FlowInv

\* A step of b's own fields that leaves its input, its output and the reason
\* for it to be read as they are, and may stop its reading.
LEMMA QuietStep ==
    ASSUME FlowInv, IInv', NEW b \in Bevs, NEW r \in BevState,
           bev[b].mem = "live", bev' = [bev EXCEPT ![b] = r],
           SameLink(bev[b], r),
           r.low = bev[b].low, r.input = bev[b].input,
           r.output = bev[b].output,
           "read" \in r.pend <=> "read" \in bev[b].pend,
           "write" \in r.pend <=> "write" \in bev[b].pend,
           UNCHANGED <<peers, held>>
    PROVE  FlowInv'
<1>1. PICK p \in Bevs : p = Other(b) /\ p # b /\ Other(p) = b
  BY OtherSide
<1>2. bev \in BevStates /\ bev[b] \in BevState
  BY Facts DEF FlowInv
<1>3. bev'[b] = r /\ \A x \in Bevs \ {b} : bev'[x] = bev[x]
  BY <1>2 DEF BevStates
<1>4. Only(b, p) /\ bev'[p] = bev[p]
  BY <1>1, <1>3 DEF Only
<1>5. r.mem = "live" /\ bev[p].mem # "new"
  <2>1. bev[p].mem = "new" => bev[Other(p)].mem = "new"
    BY DEF FlowInv, Fresh
  <2> QED
    BY <1>1, <2>1 DEF SameLink
<1>6. Joined(bev', b) => FlowAt(b, p)'
  <2> SUFFICES ASSUME Joined(bev', b) PROVE FlowAt(b, p)'
    OBVIOUS
  <2>1. Joined(bev, b)
    BY <1>1, <1>3, <1>4 DEF Joined, SameLink
  <2>2. FlowAt(b, p)
    BY <1>1, <2>1 DEF FlowInv, Flow
  <2> QED
    BY <1>3, <1>4, <2>2 DEF FlowAt, Stopped, Silenced, OneRead, Room, Extra,
                            Blocked, SameLink
<1>7. Joined(bev', p) => FlowAt(p, b)'
  <2> SUFFICES ASSUME Joined(bev', p) PROVE FlowAt(p, b)'
    OBVIOUS
  <2>1. Joined(bev, p)
    BY <1>1, <1>3, <1>4 DEF Joined, SameLink
  <2>2. FlowAt(p, b)
    BY <1>1, <2>1 DEF FlowInv, Flow
  <2> QED
    BY <1>3, <1>4, <2>2 DEF FlowAt, Stopped, Silenced, OneRead, Room, Extra,
                            Blocked, SameLink
<1>8. /\ Len(bev'[b].output) < MaxOutput + MaxRead + Extra(b)'
      /\ Len(bev'[p].output) < MaxOutput + MaxRead + Extra(p)'
  BY <1>3, <1>4 DEF FlowInv, Bound, Extra, Blocked
<1> QED
  BY <1>1, <1>3, <1>4, <1>5, <1>6, <1>7, <1>8, PairStep DEF peers

-----------------------------------------------------------------------------
(* Every step keeps it.                                                     *)

\* accept_cb: two sides that read and have nothing.
LEMMA AcceptFlow ==
    ASSUME FlowInv, NEW c \in Conns, accept_cb(c)
    PROVE  FlowInv'
<1> DEFINE New(b) == [Absent("live") EXCEPT
                        !.ctx = Other(b), !.readcb = TRUE,
                        !.read = TRUE, !.write = TRUE,
                        !.link = IF b[2] = "in" THEN "up" ELSE "connecting"]
<1>0. IInv'
  BY AcceptIInv DEF FlowInv
<1>1. PICK b \in Bevs : b = <<c, "in">> /\ b[1] = c
  <2>1. <<c, "in">> \in Bevs /\ <<c, "in">>[1] = c
    BY DEF Bevs
  <2> QED
    BY <2>1
<1>2. PICK p \in Bevs : p = Other(b) /\ p # b /\ Other(p) = b
  BY OtherSide
<1>3. \A x \in Bevs : x[1] = c <=> x \in {b, p}
  BY <1>1, <1>2 DEF Bevs, Other
<1>4. bev'[b] = New(b) /\ bev'[p] = New(p)
  BY <1>3 DEF accept_cb
<1>5. \A x \in Bevs \ {b, p} : bev'[x] = bev[x]
  BY <1>3 DEF accept_cb
<1>6. /\ UNCHANGED <<peers, held>>
      /\ held[b] = NoHold /\ held[p] = NoHold
  BY <1>1, <1>2 DEF accept_cb, FlowInv, Fresh
<1>7. ASSUME NEW x \in {b, p}
      PROVE  /\ bev'[x].mem = "live" /\ bev'[x].read /\ bev'[x].pend = {}
             /\ bev'[x].input = <<>> /\ bev'[x].output = <<>>
             /\ bev'[x].writecb = "null" /\ ~Blocked(x)'
  <2>1. ASSUME NEW y \in Bevs
        PROVE  /\ New(y).mem = "live" /\ New(y).read /\ New(y).pend = {}
               /\ New(y).input = <<>> /\ New(y).output = <<>>
               /\ New(y).writecb = "null"
    BY DEF Absent
  <2>2. held'[x] = NoHold
    BY <1>6
  <2> HIDE DEF New
  <2> QED
    BY <1>4, <2>1, <2>2 DEF Blocked
<1> HIDE DEF New
<1>8. Fresh'
  <2> SUFFICES ASSUME NEW x \in Bevs, bev'[x].mem = "new"
               PROVE  /\ bev'[x] = Absent("new") /\ bev'[Other(x)].mem = "new"
                      /\ wire'[x] = <<>> /\ sent'[x] = <<>>
                      /\ received'[x] = <<>> /\ held'[x] = NoHold
    BY DEF Fresh
  <2>1. x \notin {b, p} /\ Other(x) \notin {b, p} /\ Other(x) \in Bevs
    BY <1>2, <1>7, OtherSide
  <2> QED
    BY <1>5, <1>6, <2>1 DEF FlowInv, Fresh, peers
<1>9. Flow'
  <2> SUFFICES ASSUME NEW x \in Bevs, Joined(bev', x)
               PROVE  FlowAt(x, Other(x))'
    BY DEF Flow
  <2>1. CASE x \in {b, p}
    <3>1. PICK y \in {b, p} : y = Other(x)
      BY <1>2, <2>1
    <3>2. Len(<<>>) = 0 /\ MaxOutput > 0 /\ MaxRead > 0 /\ MaxOutput \in Nat
          /\ MaxRead \in Nat
      BY Facts DEF FlowInv
    <3> QED
      BY <1>7, <2>1, <3>1, <3>2
         DEF FlowAt, Stopped, Silenced, OneRead, Room, Extra
  <2>2. CASE x \notin {b, p}
    <3>1. Other(x) \in Bevs \ {b, p}
      BY <1>2, <2>2, OtherSide
    <3>2. /\ bev'[x] = bev[x] /\ bev'[Other(x)] = bev[Other(x)]
          /\ held'[x] = held[x] /\ held'[Other(x)] = held[Other(x)]
      BY <1>5, <1>6, <2>2, <3>1
    <3> QED
      BY <3>2, FlowFrame DEF FlowInv
  <2> QED
    BY <2>1, <2>2
<1>10. Bound'
  <2> SUFFICES ASSUME NEW x \in Bevs
               PROVE  Len(bev'[x].output) < MaxOutput + MaxRead + Extra(x)'
    BY DEF Bound
  <2>1. CASE x \in {b, p}
    BY <1>7, <2>1, Facts DEF FlowInv, Extra
  <2>2. CASE x \notin {b, p}
    BY <1>5, <1>6, <2>2 DEF FlowInv, Bound, Extra, Blocked
  <2> QED
    BY <2>1, <2>2
<1> QED
  BY <1>0, <1>8, <1>9, <1>10 DEF FlowInv

\* accept_cb without a server: both sides are gone.
LEMMA RefusedFlow ==
    ASSUME FlowInv, NEW c \in Conns, accept_cb_refused(c)
    PROVE  FlowInv'
<1>0. IInv'
  BY RefusedIInv DEF FlowInv
<1>1. \A x \in Bevs : bev'[x] = IF x[1] = c THEN Absent("freed") ELSE bev[x]
  BY DEF accept_cb_refused
<1>2. \A x \in Bevs : Other(x)[1] = x[1] /\ Other(x) \in Bevs
  BY OtherSide DEF Other
<1>3. UNCHANGED <<peers, held>>
  BY DEF accept_cb_refused
<1>4. ASSUME NEW x \in Bevs, x[1] = c
      PROVE  bev'[x].mem = "freed" /\ bev'[x].output = <<>>
  BY <1>1, <1>4 DEF Absent
<1>5. Fresh'
  BY <1>1, <1>2, <1>3, <1>4 DEF FlowInv, Fresh, peers
<1>6. Flow'
  <2> SUFFICES ASSUME NEW x \in Bevs, Joined(bev', x)
               PROVE  FlowAt(x, Other(x))'
    BY DEF Flow
  <2>1. x[1] # c
    BY <1>4 DEF Joined
  <2>2. /\ bev'[x] = bev[x] /\ bev'[Other(x)] = bev[Other(x)]
        /\ held'[x] = held[x] /\ held'[Other(x)] = held[Other(x)]
    BY <1>1, <1>2, <1>3, <2>1
  <2> QED
    BY <2>2, FlowFrame DEF FlowInv
<1>7. Bound'
  <2> SUFFICES ASSUME NEW x \in Bevs
               PROVE  Len(bev'[x].output) < MaxOutput + MaxRead + Extra(x)'
    BY DEF Bound
  <2>1. CASE x[1] = c
    BY <1>4, <2>1, Facts DEF FlowInv, Extra
  <2>2. CASE x[1] # c
    BY <1>1, <1>3, <2>2 DEF FlowInv, Bound, Extra, Blocked
  <2> QED
    BY <2>1, <2>2
<1> QED
  BY <1>0, <1>5, <1>6, <1>7 DEF FlowInv

\* The socket events that move no data.
LEMMA QuietFlow ==
    ASSUME FlowInv, NEW b \in Bevs,
           \/ Connected(b) \/ ConnectFailed(b)
           \/ SocketReadEnd(b) \/ SocketWriteError(b)
    PROVE  FlowInv'
<1>1. IInv' /\ bev \in BevStates /\ bev[b] \in BevState
  BY Facts, ConnectIInv, SocketReadEndIInv, SocketWriteErrorIInv DEF FlowInv
<1>2. bev[b].mem = "live" /\ UNCHANGED <<peers, held>>
  BY DEF Connected, ConnectFailed, SocketReadEnd, SocketWriteError, Live,
         Readable, Writable
<1>3. CASE Connected(b)
  <2> DEFINE r == [bev[b] EXCEPT !.link = "up"]
  <2>1. /\ r \in BevState /\ SameLink(bev[b], r)
        /\ r.low = bev[b].low /\ r.input = bev[b].input
        /\ r.output = bev[b].output /\ r.pend = bev[b].pend
    BY <1>1 DEF BevState, SameLink
  <2>2. bev' = [bev EXCEPT ![b] = r]
    BY <1>1, <1>3 DEF Connected, BevStates
  <2> HIDE DEF r
  <2> QED
    BY <1>1, <1>2, <2>1, <2>2, QuietStep
<1>4. CASE ConnectFailed(b)
  <2> DEFINE r == [bev[b] EXCEPT !.link = "failed", !.read = FALSE,
                                 !.write = FALSE, !.pend = @ \cup {"error"}]
  <2>1. /\ r \in BevState /\ SameLink(bev[b], r)
        /\ r.low = bev[b].low /\ r.input = bev[b].input
        /\ r.output = bev[b].output /\ r.pend = bev[b].pend \cup {"error"}
    BY <1>1 DEF BevState, SameLink, Events
  <2>2. bev' = [bev EXCEPT ![b] = r]
    BY <1>1, <1>4 DEF ConnectFailed, BevStates
  <2> HIDE DEF r
  <2> QED
    BY <1>1, <1>2, <2>1, <2>2, QuietStep
<1>5. CASE SocketReadEnd(b)
  <2> DEFINE e == IF shut[b] = "fin" THEN "eof" ELSE "error"
             r == [bev[b] EXCEPT !.read = FALSE, !.pend = @ \cup {e}]
  <2>1. /\ r \in BevState /\ SameLink(bev[b], r)
        /\ r.low = bev[b].low /\ r.input = bev[b].input
        /\ r.output = bev[b].output /\ r.pend = bev[b].pend \cup {e}
    BY <1>1 DEF BevState, SameLink, Events
  <2>2. bev' = [bev EXCEPT ![b] = r] /\ e # "read" /\ e # "write"
    BY <1>1, <1>5 DEF SocketReadEnd, BevStates
  <2> HIDE DEF r, e
  <2> QED
    BY <1>1, <1>2, <2>1, <2>2, QuietStep
<1>6. CASE SocketWriteError(b)
  <2> DEFINE r == [bev[b] EXCEPT !.write = FALSE, !.pend = @ \cup {"error"}]
  <2>1. /\ r \in BevState /\ SameLink(bev[b], r)
        /\ r.low = bev[b].low /\ r.input = bev[b].input
        /\ r.output = bev[b].output /\ r.pend = bev[b].pend \cup {"error"}
    BY <1>1 DEF BevState, SameLink, Events
  <2>2. bev' = [bev EXCEPT ![b] = r]
    BY <1>1, <1>6 DEF SocketWriteError, BevStates
  <2> HIDE DEF r
  <2> QED
    BY <1>1, <1>2, <2>1, <2>2, QuietStep
<1> QED
  BY <1>3, <1>4, <1>5, <1>6

\* A read takes n lines from the wire to the end of the input.
ReadFrom(b, n) ==
    /\ wire' = [wire EXCEPT ![b] = SubSeq(@, n + 1, Len(@))]
    /\ bev'[b] = [bev[b] EXCEPT !.input = @ \o SubSeq(wire[b], 1, n),
                                !.pend = @ \cup {"read"}]

\* Only a side of a pair is read, and readcb is then due.
LEMMA SocketReadEffect ==
    ASSUME IInv, NEW b \in Bevs, SocketRead(b)
    PROVE  /\ Joined(bev, b) /\ Only(b, b)
           /\ \E n \in 1 .. MaxRead : n <= Len(wire[b]) /\ ReadFrom(b, n)
<1>1. Joined(bev, b)
  BY DEF SocketRead, Readable, Live, IInv, NoDanglingPartner, Paired, Closing,
         Silent
<1>2. bev \in BevStates /\ bev[b] \in BevState
  BY Facts
<1>3. PICK n \in 1 .. MaxRead :
        /\ n <= Len(wire[b])
        /\ wire' = [wire EXCEPT ![b] = SubSeq(@, n + 1, Len(@))]
        /\ bev' = [bev EXCEPT
                    ![b].input = @ \o SubSeq(wire[b], 1, n),
                    ![b].pend = IF bev[b].readcb THEN @ \cup {"read"} ELSE @]
  BY DEF SocketRead
<1>4. /\ \A x \in Bevs \ {b} : bev'[x] = bev[x]
      /\ bev'[b] = [bev[b] EXCEPT
                      !.input = @ \o SubSeq(wire[b], 1, n),
                      !.pend = IF bev[b].readcb THEN @ \cup {"read"} ELSE @]
  BY <1>2, <1>3 DEF BevStates
<1>5. bev'[b] = [bev[b] EXCEPT !.input = @ \o SubSeq(wire[b], 1, n),
                               !.pend = @ \cup {"read"}]
  BY <1>1, <1>2, <1>4 DEF Joined, BevState
<1> QED
  BY <1>1, <1>3, <1>4, <1>5 DEF Only, ReadFrom

\* A write takes n lines from the front of the output to the peer.
WrittenTo(b, n) ==
    LET left == SubSeq(bev[b].output, n + 1, Len(bev[b].output))
        due  == Len(left) <= bev[b].low /\ bev[b].writecb # "null"
    IN  /\ received' = [received EXCEPT
                            ![b] = @ \o SubSeq(bev[b].output, 1, n)]
        /\ bev'[b] = [bev[b] EXCEPT
                        !.output = left,
                        !.pend = IF due THEN @ \cup {"write"} ELSE @]
        /\ queue' = IF due THEN Schedule(queue, b) ELSE queue

LEMMA SocketWriteEffect ==
    ASSUME IInv, NEW b \in Bevs, SocketWrite(b)
    PROVE  /\ Only(b, b)
           /\ \E n \in 1 .. Len(bev[b].output) : WrittenTo(b, n)
<1>1. bev \in BevStates /\ bev[b] \in BevState
  BY Facts
<1>2. PICK n \in 1 .. Len(bev[b].output) :
        LET left == SubSeq(bev[b].output, n + 1, Len(bev[b].output))
            due  == Len(left) <= bev[b].low /\ bev[b].writecb # "null"
        IN  /\ received' = [received EXCEPT
                                ![b] = @ \o SubSeq(bev[b].output, 1, n)]
            /\ bev' = [bev EXCEPT
                        ![b].output = left,
                        ![b].pend = IF due THEN @ \cup {"write"} ELSE @]
            /\ queue' = IF due THEN Schedule(queue, b) ELSE queue
  BY DEF SocketWrite
<1> DEFINE left == SubSeq(bev[b].output, n + 1, Len(bev[b].output))
           due  == Len(left) <= bev[b].low /\ bev[b].writecb # "null"
<1>3. bev' = [bev EXCEPT ![b].output = left,
                         ![b].pend = IF due THEN @ \cup {"write"} ELSE @]
  BY <1>2
<1> HIDE DEF left, due
<1>4. /\ \A x \in Bevs \ {b} : bev'[x] = bev[x]
      /\ bev'[b] = [bev[b] EXCEPT
                      !.output = left,
                      !.pend = IF due THEN @ \cup {"write"} ELSE @]
  BY <1>1, <1>3 DEF BevStates
<1>5. WrittenTo(b, n)
  BY <1>2, <1>4 DEF WrittenTo, left, due
<1> QED
  BY <1>4, <1>5 DEF Only

\* The parts of a sequence.
LEMMA Halves ==
    ASSUME NEW S, NEW s \in Seq(S), NEW n \in 1 .. Len(s)
    PROVE  /\ SubSeq(s, 1, n) \in Seq(S) /\ Len(SubSeq(s, 1, n)) = n
           /\ SubSeq(s, n + 1, Len(s)) \in Seq(S)
           /\ Len(SubSeq(s, n + 1, Len(s))) = Len(s) - n
           /\ SubSeq(s, 1, n) \o SubSeq(s, n + 1, Len(s)) = s
OBVIOUS

\* A side that is read has nothing to deal with and was not stopped.
LEMMA SocketReadFlow ==
    ASSUME FlowInv, NEW b \in Bevs, SocketRead(b)
    PROVE  FlowInv'
<1>0. IInv /\ IInv'
  BY SocketReadIInv DEF FlowInv
<1>1. PICK p \in Bevs : p = Other(b) /\ p # b /\ Other(p) = b
  BY OtherSide
<1>2. Joined(bev, b) /\ Only(b, b) /\ bev'[p] = bev[p] /\ Only(b, p)
  BY <1>0, <1>1, SocketReadEffect DEF Only
<1>3. PICK n \in 1 .. MaxRead : n <= Len(wire[b]) /\ ReadFrom(b, n)
  BY <1>0, SocketReadEffect
<1>4. bev[b].read /\ "read" \notin bev[b].pend
  BY DEF SocketRead, Readable
<1>5. FlowAt(b, p)
  BY <1>1, <1>2 DEF FlowInv, Flow
<1>6. ~Blocked(b) /\ bev[b].input = <<>>
  BY <1>4, <1>5 DEF FlowAt, Silenced, OneRead
<1>7. /\ wire \in [Bevs -> Seq(Lines)] /\ wire[b] \in Seq(Lines)
      /\ Len(wire[b]) \in Nat /\ MaxRead \in Nat /\ n \in 1 .. Len(wire[b])
  <2>1. wire \in [Bevs -> Seq(Lines)] /\ wire[b] \in Seq(Lines)
    BY <1>0 DEF IInv, TypeOK
  <2>2. Len(wire[b]) \in Nat /\ MaxRead \in Nat
    BY <2>1, LenProperties, ProxyAssumption
  <2> QED
    BY <1>3, <2>1, <2>2
<1> DEFINE first == SubSeq(wire[b], 1, n)
<1>8. first \in Seq(Lines) /\ Len(first) = n /\ first # <<>>
  <2>1. first \in Seq(Lines) /\ Len(first) = n /\ n > 0
    BY <1>7, Halves
  <2>2. Len(<<>>) = 0
    OBVIOUS
  <2> HIDE DEF first
  <2> QED
    BY <2>1, <2>2
<1>9. bev'[b] = [bev[b] EXCEPT !.input = first, !.pend = @ \cup {"read"}]
  <2>1. bev[b].input \o first = first
    BY <1>6, <1>8
  <2> QED
    BY <1>3, <2>1 DEF ReadFrom
<1> HIDE DEF first
<1>10. bev[b] \in BevState
  BY <1>0, Facts
<1>11. /\ bev'[b].input = first /\ bev'[b].pend = bev[b].pend \cup {"read"}
       /\ bev'[b].mem = bev[b].mem /\ bev'[b].read = bev[b].read
       /\ bev'[b].writecb = bev[b].writecb /\ bev'[b].low = bev[b].low
       /\ bev'[b].output = bev[b].output
       /\ bev'[b].ctx = bev[b].ctx /\ bev'[b].readcb = bev[b].readcb
  BY <1>9, <1>10 DEF BevState
<1>12. /\ held' = held /\ sent' = sent /\ received' = received
       /\ \A x \in Bevs \ {b} : wire'[x] = wire[x]
  BY <1>3, <1>7 DEF SocketRead, ReadFrom
<1>13. FlowAt(b, p)'
  <2>1. bev[p].writecb # "drained_writecb"
    BY <1>4, <1>5 DEF FlowAt, Stopped
  <2>2. Len(first) <= MaxRead /\ first # <<>>
    BY <1>3, <1>7, <1>8
  <2> QED
    BY <1>2, <1>4, <1>5, <1>6, <1>11, <1>12, <2>1, <2>2
       DEF FlowAt, Stopped, Silenced, OneRead, Room, Extra, Blocked
<1>14. Joined(bev', p) => FlowAt(p, b)'
  <2> SUFFICES ASSUME Joined(bev', p) PROVE FlowAt(p, b)'
    OBVIOUS
  <2>1. Joined(bev, p)
    BY <1>1, <1>2, <1>11 DEF Joined
  <2>2. FlowAt(p, b)
    BY <1>1, <2>1 DEF FlowInv, Flow
  <2> QED
    BY <1>2, <1>11, <1>12, <2>2
       DEF FlowAt, Stopped, Silenced, OneRead, Room, Extra, Blocked
<1>15. /\ Len(bev'[b].output) < MaxOutput + MaxRead + Extra(b)'
       /\ Len(bev'[p].output) < MaxOutput + MaxRead + Extra(p)'
  BY <1>2, <1>11, <1>12 DEF FlowInv, Bound, Extra, Blocked
<1>16. /\ bev[b].mem = "live" /\ bev'[b].mem # "new" /\ bev'[p].mem # "new"
  BY <1>1, <1>2, <1>11 DEF Joined
<1> QED
  BY <1>0, <1>1, <1>2, <1>12, <1>13, <1>14, <1>15, <1>16, PairStep

\* Output only shrinks here, and the write callback is due when it is short.
LEMMA SocketWriteFlow ==
    ASSUME FlowInv, NEW b \in Bevs, SocketWrite(b)
    PROVE  FlowInv'
<1>0. IInv /\ IInv'
  BY SocketWriteIInv DEF FlowInv
<1>1. PICK p \in Bevs : p = Other(b) /\ p # b /\ Other(p) = b
  BY OtherSide
<1>2. Only(b, b) /\ bev'[p] = bev[p] /\ Only(b, p) /\ bev[b].mem = "live"
  BY <1>0, <1>1, SocketWriteEffect DEF Only, SocketWrite, Writable, Live
<1>3. PICK n \in 1 .. Len(bev[b].output) : WrittenTo(b, n)
  BY <1>0, SocketWriteEffect
<1> DEFINE left == SubSeq(bev[b].output, n + 1, Len(bev[b].output))
           due  == Len(left) <= bev[b].low /\ bev[b].writecb # "null"
<1>4. /\ bev[b] \in BevState /\ Len(bev[b].output) \in Nat
      /\ Len(left) \in Nat /\ Len(left) < Len(bev[b].output)
      /\ MaxOutput \in Nat /\ MaxRead \in Nat /\ MaxOutput \div 2 \in Nat
  BY <1>0, Facts, Halves
<1>5. bev'[b] = [bev[b] EXCEPT !.output = left,
                               !.pend = IF due THEN @ \cup {"write"} ELSE @]
  BY <1>3 DEF WrittenTo
<1>6. /\ held' = held /\ sent' = sent /\ wire' = wire
      /\ \A x \in Bevs \ {b} : received'[x] = received[x]
  <2>1. received \in [Bevs -> Seq(Lines \cup {BlockMsg})]
    BY <1>0 DEF IInv, TypeOK
  <2> QED
    BY <1>3, <2>1 DEF SocketWrite, WrittenTo
<1>7. due => Len(left) <= bev[b].low /\ bev[b].writecb # "null"
  OBVIOUS
<1> HIDE DEF left, due
<1>8. /\ bev'[b].input = bev[b].input /\ bev'[b].output = left
      /\ bev'[b].mem = bev[b].mem /\ bev'[b].read = bev[b].read
      /\ bev'[b].writecb = bev[b].writecb /\ bev'[b].low = bev[b].low
      /\ bev'[b].ctx = bev[b].ctx /\ bev'[b].readcb = bev[b].readcb
      /\ "read" \in bev'[b].pend <=> "read" \in bev[b].pend
      /\ "write" \in bev'[b].pend <=> due \/ "write" \in bev[b].pend
  BY <1>4, <1>5 DEF BevState
<1>9. Joined(bev', b) => FlowAt(b, p)'
  <2> SUFFICES ASSUME Joined(bev', b) PROVE FlowAt(b, p)'
    OBVIOUS
  <2>1. Joined(bev, b)
    BY <1>1, <1>2, <1>8 DEF Joined
  <2>2. FlowAt(b, p)
    BY <1>1, <2>1 DEF FlowInv, Flow
  <2> QED
    BY <1>2, <1>6, <1>8, <2>2
       DEF FlowAt, Stopped, Silenced, OneRead, Room, Extra, Blocked
<1>10. Joined(bev', p) => FlowAt(p, b)'
  <2> SUFFICES ASSUME Joined(bev', p) PROVE FlowAt(p, b)'
    OBVIOUS
  <2>1. Joined(bev, p)
    BY <1>1, <1>2, <1>8 DEF Joined
  <2>2. FlowAt(p, b)
    BY <1>1, <2>1 DEF FlowInv, Flow
  <2>3. Stopped(p, b)'
    BY <1>2, <1>4, <1>6, <1>7, <1>8, <2>2 DEF FlowAt, Stopped, Extra, Blocked
  <2>4. Room(p, b)'
    BY <1>2, <1>4, <1>6, <1>8, <2>2 DEF FlowAt, Room, Extra, Blocked
  <2> QED
    BY <1>2, <1>6, <1>7, <1>8, <2>2, <2>3, <2>4
       DEF FlowAt, Silenced, OneRead, Blocked
<1>11. /\ Len(bev'[b].output) < MaxOutput + MaxRead + Extra(b)'
       /\ Len(bev'[p].output) < MaxOutput + MaxRead + Extra(p)'
  BY <1>2, <1>4, <1>6, <1>8 DEF FlowInv, Bound, Extra, Blocked
<1>12. bev'[b].mem # "new" /\ bev'[p].mem # "new"
  <2>1. bev[p].mem = "new" => bev[Other(p)].mem = "new"
    BY DEF FlowInv, Fresh
  <2> QED
    BY <1>1, <1>2, <1>8, <2>1
<1> QED
  BY <1>0, <1>1, <1>2, <1>6, <1>9, <1>10, <1>11, <1>12, PairStep

\* The history changes at b only, and only when a block is decided there.
LEMMA HoldEffect ==
    ASSUME IInv, NEW b \in Bevs, NEW block \in BOOLEAN, Hold(b, block)
    PROVE  /\ \A x \in Bevs \ {b} : held'[x] = held[x]
           /\ ~block \/ held[b] # NoHold => held'[b] = held[b]
           /\ block /\ held[b] = NoHold =>
                held'[b] = [at |-> Len(sent[b]) - Len(wire[b])
                                     - Len(bev[b].input),
                            input |-> bev[b].input]
<1>1. held \in [Bevs -> [at : Int, input : Seq(Lines)]]
  BY DEF IInv, TypeOK
<1> QED
  BY <1>1 DEF Hold

\* A verdict says yes or no.
LEMMA VerdictBlock ==
    ASSUME IInv, NEW b \in Bevs, NEW v \in Verdicts(b)
    PROVE  v.block \in BOOLEAN
<1>1. CASE bev[b].ctx = NoBev
  <2>1. v = [block |-> FALSE, list |-> block_addr_list]
    BY <1>1 DEF Verdicts
  <2> QED
    BY <2>1
<1>2. CASE bev[b].ctx # NoBev
  <2>1. PICK x \in Inspections(b) :
            v = filter_check(x[1], x[2], block_addr_list)
    BY <1>2 DEF Verdicts
  <2>2. Detected(urldecode(x[1]), x[2], block_addr_list) \in BOOLEAN
    BY DEF Detected
  <2> QED
    BY <2>1, <2>2 DEF filter_check
<1> QED
  BY <1>1, <1>2

LEMMA SumBound ==
    ASSUME NEW x \in Nat, NEW y \in Nat, NEW k \in Nat, NEW r \in Nat,
           x < k, y <= r
    PROVE  x + y \in Nat /\ x + y < k + r
OBVIOUS

\* What is passed on finds room, and leaves somebody to start b again.
LEMMA ReadcbFlow ==
    ASSUME FlowInv, NEW b \in Bevs, RunReadcb(b)
    PROVE  FlowInv'
<1>0. IInv /\ IInv'
  BY RunReadcbIInv DEF FlowInv
<1>1. PICK p \in Bevs : p = Other(b) /\ p # b /\ Other(p) = b
  BY OtherSide
<1>2. Joined(bev, b) /\ Only(b, p)
  BY <1>0, <1>1, ReadcbEffect
<1>3. Joined(bev, p)
  BY <1>0, <1>1, <1>2, ProxyAssumption
     DEF IInv, NoDanglingPartner, Paired, Joined, Closing, Silent
<1>4. FlowAt(b, p) /\ FlowAt(p, b)
  BY <1>1, <1>2, <1>3 DEF FlowInv, Flow
<1>5. "read" \in bev[b].pend
  BY DEF RunReadcb, ReadDue
<1>6. /\ bev[b].input # <<>> /\ ~Blocked(b)
      /\ bev[p].writecb = "null" /\ "write" \notin bev[p].pend
      /\ Len(bev[p].output) < MaxOutput + Extra(p)
      /\ Len(bev[b].input) <= MaxRead
  BY <1>3, <1>4, <1>5
     DEF FlowAt, Stopped, Silenced, OneRead, Room, Joined
<1>7. PICK v \in Verdicts(b) :
        /\ Hold(b, v.block)
        /\ IF v.block THEN Answered(b, p)
                      ELSE PassedTo(b, p) \/ ChokedBy(b, p)
  BY <1>0, <1>1, ReadcbEffect
<1>8. v.block \in BOOLEAN
  BY <1>0, VerdictBlock
<1>9. /\ \A x \in Bevs \ {b} : held'[x] = held[x]
      /\ ~v.block => held'[b] = held[b]
      /\ v.block => held'[b].input = bev[b].input
  <2>1. held[b] = NoHold
    BY <1>6 DEF Blocked
  <2>2. Hold(b, v.block)
    BY <1>7
  <2>3. /\ \A x \in Bevs \ {b} : held'[x] = held[x]
        /\ ~v.block \/ held[b] # NoHold => held'[b] = held[b]
        /\ v.block /\ held[b] = NoHold =>
             held'[b] = [at |-> Len(sent[b]) - Len(wire[b])
                                  - Len(bev[b].input),
                         input |-> bev[b].input]
    BY <1>0, <1>8, <2>2, HoldEffect
  <2> QED
    BY <2>1, <2>3
<1>10. /\ bev[b] \in BevState /\ bev[p] \in BevState
       /\ Len(bev[b].output) \in Nat /\ Len(bev[p].output) \in Nat
       /\ Len(bev[b].input) \in Nat /\ Len(<<>>) = 0
       /\ MaxOutput \in Nat /\ MaxRead \in Nat /\ MaxOutput \div 2 \in Nat
       /\ bev[b].input \in Seq(Lines)
       /\ bev[b].output \in Seq(Lines \cup {BlockMsg})
       /\ bev[p].output \in Seq(Lines \cup {BlockMsg})
  BY <1>0, Facts
<1>11. /\ Extra(p)' = Extra(p) /\ Extra(p) \in {0, 1} /\ Extra(b) = 0
       /\ Extra(b)' \in Nat /\ Extra(p)' \in Nat
  BY <1>1, <1>6, <1>9 DEF Extra, Blocked
<1>12. Len(bev[p].output \o bev[b].input) = Len(bev[p].output) + Len(bev[b].input)
  BY <1>10
<1>13. /\ UNCHANGED peers /\ bev[b].mem = "live" /\ bev[p].mem = "live"
  BY <1>2, <1>3 DEF RunReadcb, Joined
<1>14. Len(bev[b].output) < MaxOutput + MaxRead
  BY <1>11, <1>10 DEF FlowInv, Bound
<1>15. /\ Len(bev[b].output) \in Nat /\ Len(bev[p].output) \in Nat
       /\ Len(bev[b].input) \in Nat
       /\ MaxOutput \in Nat /\ MaxRead \in Nat
  BY <1>10
<1>16. Len(<<>>) = 0
  OBVIOUS
<1>17. /\ Len(bev[p].output) + Len(bev[b].input) \in Nat
       /\ Len(bev[p].output) + Len(bev[b].input)
             < (MaxOutput + Extra(p)) + MaxRead
  <2>1. MaxOutput + Extra(p) \in Nat
    BY <1>11, <1>15
  <2> QED
    BY <1>6, <1>15, <2>1, SumBound
<1>20. CASE ~v.block /\ PassedTo(b, p)
  <2>1. /\ bev'[b].pend = bev[b].pend \ {"read"} /\ bev'[b].input = <<>>
        /\ bev'[b].read = bev[b].read /\ bev'[b].writecb = bev[b].writecb
        /\ bev'[b].low = bev[b].low /\ bev'[b].output = bev[b].output
        /\ bev'[b].mem = bev[b].mem
    BY <1>10, <1>20 DEF PassedTo, BevState
  <2>2. /\ bev'[p].pend = bev[p].pend /\ bev'[p].input = bev[p].input
        /\ bev'[p].read = bev[p].read /\ bev'[p].writecb = bev[p].writecb
        /\ bev'[p].low = bev[p].low /\ bev'[p].mem = bev[p].mem
        /\ bev'[p].output = bev[p].output \o bev[b].input
        /\ Len(bev'[p].output) < MaxOutput
    BY <1>10, <1>20 DEF PassedTo, BevState
  <2>3. Len(bev'[p].output) = Len(bev[p].output) + Len(bev[b].input)
    BY <1>12, <2>2
  <2>4. FlowAt(b, p)'
    <3>1. ~Blocked(b)'
      BY <1>6, <1>9, <1>20 DEF Blocked
    <3>2. Stopped(b, p)'
      BY <1>6, <2>1, <2>2 DEF Stopped
    <3>3. Silenced(b)' /\ OneRead(b)'
      BY <1>15, <1>16, <2>1, <3>1 DEF Silenced, OneRead
    <3>4. Room(b, p)'
      <4>1. Len(bev'[p].output) < MaxOutput /\ Len(bev'[p].output) \in Nat
        BY <1>17, <2>2, <2>3
      <4> QED
        BY <1>11, <1>15, <4>1 DEF Room
    <3> QED
      BY <1>6, <2>2, <3>2, <3>3, <3>4 DEF FlowAt
  <2>5. FlowAt(p, b)'
    BY <1>1, <1>4, <1>9, <1>20, <2>1, <2>2
       DEF FlowAt, Stopped, Silenced, OneRead, Room, Extra, Blocked
  <2>6. /\ Len(bev'[b].output) < MaxOutput + MaxRead + Extra(b)'
        /\ Len(bev'[p].output) < MaxOutput + MaxRead + Extra(p)'
    <3>1. Len(bev'[b].output) = Len(bev[b].output)
      BY <2>1
    <3>2. Len(bev'[p].output) < MaxOutput
      BY <2>2
    <3>3. Extra(b)' \in Nat /\ Extra(p)' \in Nat
      BY <1>11
    <3>4. Len(bev'[b].output) \in Nat /\ Len(bev'[p].output) \in Nat
      BY <1>15, <1>17, <2>3, <3>1
    <3>5. Len(bev'[b].output) < MaxOutput + MaxRead
      BY <1>14, <1>15, <3>1
    <3> QED
      BY <1>15, <3>2, <3>3, <3>4, <3>5
  <2> QED
    BY <1>0, <1>1, <1>2, <1>9, <1>13, <2>1, <2>2, <2>4, <2>5, <2>6, PairStep
       DEF peers
<1>21. CASE ~v.block /\ ChokedBy(b, p)
  <2>1. /\ bev'[b].pend = bev[b].pend \ {"read"} /\ bev'[b].input = <<>>
        /\ ~bev'[b].read /\ bev'[b].writecb = bev[b].writecb
        /\ bev'[b].low = bev[b].low /\ bev'[b].output = bev[b].output
        /\ bev'[b].mem = bev[b].mem
    BY <1>10, <1>21 DEF ChokedBy, BevState
  <2>2. /\ bev'[p].pend = bev[p].pend /\ bev'[p].input = bev[p].input
        /\ bev'[p].read = bev[p].read /\ bev'[p].mem = bev[p].mem
        /\ bev'[p].writecb = "drained_writecb"
        /\ bev'[p].low = MaxOutput \div 2
        /\ bev'[p].output = bev[p].output \o bev[b].input
    BY <1>10, <1>21 DEF ChokedBy, BevState
  <2>4. FlowAt(b, p)'
    <3>1. ~Blocked(b)'
      BY <1>6, <1>9, <1>21 DEF Blocked
    <3>2. Stopped(b, p)'
      BY <1>6, <2>1, <2>2 DEF Stopped
    <3>3. Silenced(b)' /\ OneRead(b)'
      BY <1>15, <1>16, <2>1, <3>1 DEF Silenced, OneRead
    <3>4. Room(b, p)'
      BY <1>11, <1>15, <2>1, <2>2 DEF Room
    <3> QED
      BY <1>6, <2>2, <3>2, <3>3, <3>4 DEF FlowAt
  <2>5. FlowAt(p, b)'
    BY <1>1, <1>4, <1>9, <1>21, <2>1, <2>2
       DEF FlowAt, Stopped, Silenced, OneRead, Room, Extra, Blocked
  <2>6. /\ Len(bev'[b].output) < MaxOutput + MaxRead + Extra(b)'
        /\ Len(bev'[p].output) < MaxOutput + MaxRead + Extra(p)'
    <3>1. Len(bev'[b].output) = Len(bev[b].output)
      BY <2>1
    <3>2. Len(bev'[p].output) = Len(bev[p].output) + Len(bev[b].input)
      BY <1>12, <2>2
    <3>3. Extra(b)' \in Nat /\ Extra(p)' = Extra(p) /\ Extra(p) \in Nat
      BY <1>11
    <3>4. Len(bev'[p].output) < (MaxOutput + Extra(p)) + MaxRead
      BY <1>17, <3>2
    <3>5. Len(bev'[p].output) \in Nat
      BY <1>17, <3>2
    <3> QED
      BY <1>14, <1>15, <3>1, <3>3, <3>4, <3>5
  <2> QED
    BY <1>0, <1>1, <1>2, <1>9, <1>13, <2>1, <2>2, <2>4, <2>5, <2>6, PairStep
       DEF peers
<1>22. CASE v.block
  <2>1. /\ bev'[b].pend = bev[b].pend \ {"read"}
        /\ bev'[b].input = bev[b].input
        /\ ~bev'[b].read /\ bev'[b].writecb = bev[b].writecb
        /\ bev'[b].low = MaxOutput \div 2
        /\ bev'[b].output = Append(bev[b].output, BlockMsg)
        /\ bev'[b].mem = bev[b].mem
    BY <1>7, <1>10, <1>22 DEF Answered, BevState
  <2>2. bev'[p] = bev[p]
    BY <1>7, <1>22 DEF Answered
  <2>3. Len(bev'[b].output) = Len(bev[b].output) + 1
    BY <1>10, <2>1
  <2>7. Blocked(b)' /\ held'[b].input = bev[b].input /\ Extra(b)' = 1
    BY <1>6, <1>9, <1>22 DEF Blocked, NoHold, Extra
  <2>4. FlowAt(b, p)'
    BY <1>4, <1>6, <1>10, <1>11, <2>1, <2>2, <2>7
       DEF FlowAt, Stopped, Silenced, OneRead, Room
  <2>5. FlowAt(p, b)'
    <3>1. Stopped(p, b)'
      BY <1>4, <1>10, <1>11, <2>1, <2>2, <2>3, <2>7 DEF FlowAt, Stopped
    <3>2. Room(p, b)'
      BY <1>4, <1>10, <1>11, <2>1, <2>2, <2>3, <2>7 DEF FlowAt, Room
    <3> QED
      BY <1>1, <1>4, <1>9, <2>1, <2>2, <3>1, <3>2
         DEF FlowAt, Silenced, OneRead, Blocked
  <2>6. /\ Len(bev'[b].output) < MaxOutput + MaxRead + Extra(b)'
        /\ Len(bev'[p].output) < MaxOutput + MaxRead + Extra(p)'
    BY <1>6, <1>10, <1>11, <1>14, <2>2, <2>3, <2>7 DEF FlowInv, Bound
  <2> QED
    BY <1>0, <1>1, <1>2, <1>9, <1>13, <2>1, <2>2, <2>4, <2>5, <2>6, PairStep
       DEF peers
<1> QED
  BY <1>7, <1>8, <1>20, <1>21, <1>22

\* Both sides of a pair have the invariant.
LEMMA PairFlow ==
    ASSUME FlowInv, NEW b \in Bevs, NEW p \in Bevs, p = Other(b),
           Joined(bev, b)
    PROVE  Joined(bev, p) /\ FlowAt(b, p) /\ FlowAt(p, b)
<1>1. Other(p) = b
  BY OtherSide
<1>2. Joined(bev, p)
  BY <1>1, ProxyAssumption
     DEF FlowInv, IInv, NoDanglingPartner, Paired, Joined, Closing, Silent
<1> QED
  BY <1>1, <1>2 DEF FlowInv, Flow

\* Who is started again finds room, and was not blocked.
LEMMA WritecbFlow ==
    ASSUME FlowInv, NEW b \in Bevs, RunWritecb(b)
    PROVE  FlowInv'
<1>0. IInv /\ IInv'
  BY RunWritecbIInv DEF FlowInv
<1>1. PICK p \in Bevs : p = Other(b) /\ p # b /\ Other(p) = b
  BY OtherSide
<1>2. UNCHANGED <<peers, held>> /\ "write" \in bev[b].pend
  BY <1>0, WritecbEffect DEF RunWritecb
<1>3. /\ bev[b] \in BevState /\ bev[p] \in BevState
      /\ Len(bev[b].output) \in Nat /\ Len(<<>>) = 0
      /\ MaxOutput \in Nat /\ MaxRead \in Nat /\ MaxRead > 0
      /\ MaxOutput \div 2 \in Nat /\ MaxOutput \div 2 < MaxOutput
  BY <1>0, Facts
<1>4. Extra(b)' = Extra(b) /\ Extra(p)' = Extra(p) /\ Extra(b) \in Nat
  BY <1>2 DEF Extra, Blocked
<1>5. CASE /\ Joined(bev, b) /\ Only(b, p) /\ DrainedFor(b, p)
           /\ bev[b].writecb = "drained_writecb"
  <2>1. FlowAt(b, p) /\ FlowAt(p, b) /\ Joined(bev, p)
    BY <1>1, <1>5, PairFlow
  <2>2. /\ bev[p].input = <<>> /\ Len(bev[b].output) < MaxOutput + Extra(b)
        /\ ~Blocked(p)
    <3>1. Len(bev[b].output) <= MaxOutput \div 2 + Extra(b)
      BY <1>2, <1>5, <2>1 DEF FlowAt, Stopped
    <3>2. bev[p].input = <<>> /\ ~Blocked(p)
      BY <1>5, <2>1 DEF FlowAt, Stopped, Silenced
    <3> QED
      BY <1>3, <1>4, <3>1, <3>2
  <2>3. /\ bev'[b].pend = bev[b].pend \ {"write"}
        /\ bev'[b].writecb = "null" /\ bev'[b].read = bev[b].read
        /\ bev'[b].input = bev[b].input /\ bev'[b].output = bev[b].output
        /\ bev'[b].mem = bev[b].mem
    BY <1>3, <1>5 DEF DrainedFor, BevState
  <2>4. /\ bev'[p].pend = bev[p].pend /\ bev'[p].writecb = bev[p].writecb
        /\ bev'[p].input = bev[p].input /\ bev'[p].output = bev[p].output
        /\ bev'[p].low = bev[p].low /\ bev'[p].mem = bev[p].mem
    BY <1>3, <1>5 DEF DrainedFor, BevState
  <2>5. FlowAt(b, p)'
    BY <1>2, <1>4, <2>1, <2>3, <2>4
       DEF FlowAt, Stopped, Silenced, OneRead, Room, Blocked
  <2>6. FlowAt(p, b)'
    BY <1>2, <1>4, <2>1, <2>2, <2>3, <2>4
       DEF FlowAt, Stopped, Silenced, OneRead, Room, Blocked
  <2>7. /\ Len(bev'[b].output) < MaxOutput + MaxRead + Extra(b)'
        /\ Len(bev'[p].output) < MaxOutput + MaxRead + Extra(p)'
    BY <1>4, <2>3, <2>4 DEF FlowInv, Bound
  <2>8. bev[b].mem = "live" /\ bev[p].mem = "live"
    BY <1>1, <1>5 DEF Joined
  <2> QED
    BY <1>0, <1>1, <1>2, <1>5, <2>3, <2>4, <2>5, <2>6, <2>7, <2>8, PairStep
       DEF peers
<1>6. CASE /\ Closing(bev, b) /\ Only(b, b)
           /\ \/ bev'[b] = Absent("freed") /\ bev[b].output = <<>>
              \/ bev'[b] = [bev[b] EXCEPT !.pend = @ \ {"write"}]
  <2>1. /\ bev'[b].ctx = NoBev /\ bev'[b].mem # "new"
        /\ bev'[b].output = bev[b].output
    BY <1>3, <1>6 DEF Closing, Absent, BevState
  <2>2. bev'[p] = bev[p] /\ Only(b, p) /\ bev[p].mem = "freed"
    BY <1>1, <1>6 DEF Only, Closing
  <2>3. ~Joined(bev', b) /\ ~Joined(bev', p)
    BY <1>1, <2>1, <2>2, ProxyAssumption DEF Joined
  <2>4. /\ Len(bev'[b].output) < MaxOutput + MaxRead + Extra(b)'
        /\ Len(bev'[p].output) < MaxOutput + MaxRead + Extra(p)'
    BY <1>4, <2>1, <2>2 DEF FlowInv, Bound
  <2>5. bev[b].mem = "live"
    BY <1>6 DEF Closing
  <2> QED
    BY <1>0, <1>1, <1>2, <2>1, <2>2, <2>3, <2>4, <2>5, PairStep DEF peers
<1> QED
  BY <1>0, <1>1, <1>5, <1>6, WritecbEffect

\* The last of the input finds room too.
LEMMA EventcbFlow ==
    ASSUME FlowInv, NEW b \in Bevs, RunEventcb(b)
    PROVE  FlowInv'
<1>0. IInv /\ IInv'
  BY RunEventcbIInv DEF FlowInv
<1>1. PICK p \in Bevs : p = Other(b) /\ p # b /\ Other(p) = b
  BY OtherSide
<1>2. PICK v \in Verdicts(b) :
        /\ Hold(b, v.block)
        /\ \/ Closing(bev, b) /\ Only(b, b)
           \/ /\ Joined(bev, b) /\ Only(b, p)
              /\ ClosedWith(p, IF v.block THEN bev[p].output
                               ELSE bev[p].output \o bev[b].input)
  BY <1>0, <1>1, EventcbEffect
<1>3. /\ bev'[b] = Absent("freed") /\ bev[b].mem = "live"
      /\ bev'[b].mem = "freed" /\ bev'[b].output = <<>> /\ UNCHANGED peers
  <2>1. bev'[b] = Absent("freed")
    BY <1>0, EventcbEffect
  <2>2. bev[b].mem = "live" /\ UNCHANGED peers
    BY DEF RunEventcb, EventDue, Live
  <2> QED
    BY <2>1, <2>2 DEF Absent
<1>4. \A x \in Bevs \ {b} : held'[x] = held[x]
  BY <1>0, <1>2, VerdictBlock, HoldEffect
<1>5. /\ bev[p] \in BevState
      /\ bev[p].output \in Seq(Lines \cup {BlockMsg})
      /\ bev[b].input \in Seq(Lines)
      /\ Len(bev[p].output) \in Nat /\ Len(bev[b].input) \in Nat
      /\ MaxOutput \in Nat /\ MaxRead \in Nat /\ MaxRead > 0
  BY <1>0, Facts
<1>6. /\ Extra(b)' \in Nat /\ Extra(p)' = Extra(p) /\ Extra(p) \in Nat
  BY <1>1, <1>4 DEF Extra, Blocked
<1>7. Len(bev'[b].output) < MaxOutput + MaxRead + Extra(b)'
  <2>1. Len(<<>>) = 0
    OBVIOUS
  <2>2. Len(bev'[b].output) = 0
    BY <1>3, <2>1
  <2> QED
    BY <1>5, <1>6, <2>2
<1>8. ~Joined(bev', b) /\ ~Joined(bev', p)
  BY <1>1, <1>3 DEF Joined
<1>9. Len(bev[p].output) < MaxOutput + MaxRead + Extra(p)
  BY DEF FlowInv, Bound
<1>10. CASE Closing(bev, b) /\ Only(b, b)
  <2>1. bev'[p] = bev[p] /\ Only(b, p) /\ bev[p].mem = "freed"
    BY <1>1, <1>10 DEF Only, Closing
  <2> QED
    BY <1>0, <1>1, <1>3, <1>4, <1>6, <1>7, <1>8, <1>9, <2>1, PairStep DEF peers
<1>11. CASE /\ Joined(bev, b) /\ Only(b, p)
            /\ ClosedWith(p, IF v.block THEN bev[p].output
                             ELSE bev[p].output \o bev[b].input)
  <2> DEFINE o == IF v.block THEN bev[p].output
                             ELSE bev[p].output \o bev[b].input
  <2>1. Len(o) < MaxOutput + MaxRead + Extra(p)
    <3>1. CASE v.block
      BY <1>9, <3>1
    <3>2. CASE bev[b].input = <<>>
      <4>1. o = bev[p].output
        BY <1>5, <3>2
      <4> HIDE DEF o
      <4> QED
        BY <1>9, <4>1
    <3>3. CASE ~v.block /\ bev[b].input # <<>>
      <4>1. Len(o) = Len(bev[p].output) + Len(bev[b].input)
        <5>1. o = bev[p].output \o bev[b].input
          BY <3>3
        <5> HIDE DEF o
        <5> QED
          BY <1>5, <5>1
      <4> HIDE DEF o
      <4>2. FlowAt(b, p)
        BY <1>1, <1>11, PairFlow
      <4>3. /\ Len(bev[p].output) < MaxOutput + Extra(p)
            /\ Len(bev[b].input) <= MaxRead
            /\ MaxOutput + Extra(p) \in Nat
        BY <1>5, <1>6, <3>3, <4>2 DEF FlowAt, OneRead, Room
      <4>4. Len(bev[p].output) + Len(bev[b].input)
              < (MaxOutput + Extra(p)) + MaxRead
        BY <1>5, <4>3, SumBound
      <4>5. Len(o) < (MaxOutput + Extra(p)) + MaxRead
        BY <4>1, <4>4
      <4> QED
        BY <1>5, <1>6, <4>5
    <3> QED
      BY <3>1, <3>2, <3>3
  <2> HIDE DEF o
  <2>2. bev'[p].output = o /\ bev'[p].mem # "new"
    <3>1. ClosedWith(p, o)
      BY <1>11 DEF o
    <3>2. bev[p].mem = "live"
      BY <1>1, <1>11 DEF Joined
    <3>3. CASE o = <<>> /\ bev'[p] = Absent("freed")
      BY <3>3 DEF Absent
    <3>4. CASE o # <<>>
      <4>1. PICK low \in {bev[p].low, MaxOutput \div 2} :
                bev'[p] = [bev[p] EXCEPT !.output = o, !.readcb = FALSE,
                             !.writecb = "close_on_finished_writecb",
                             !.ctx = NoBev, !.read = FALSE, !.low = low]
        BY <3>1, <3>4 DEF ClosedWith
      <4> QED
        BY <1>5, <3>2, <4>1 DEF BevState
    <3> QED
      BY <3>1, <3>3, <3>4 DEF ClosedWith
  <2>3. Len(bev'[p].output) < MaxOutput + MaxRead + Extra(p)'
    BY <1>6, <2>1, <2>2
  <2> QED
    BY <1>0, <1>1, <1>3, <1>4, <1>7, <1>8, <1>11, <2>2, <2>3, PairStep DEF peers
<1> QED
  BY <1>2, <1>10, <1>11

\* Steps that leave the bufferevents and the history of blocks alone.
LEMMA StillFlow ==
    ASSUME FlowInv, IInv', bev' = bev, held' = held,
           \A x \in Bevs : bev[x].mem = "new" =>
               /\ wire'[x] = wire[x] /\ sent'[x] = sent[x]
               /\ received'[x] = received[x]
    PROVE  FlowInv'
<1>1. Fresh'
  BY DEF FlowInv, Fresh
<1>2. Flow'
  <2> SUFFICES ASSUME NEW x \in Bevs, Joined(bev', x)
               PROVE  FlowAt(x, Other(x))'
    BY DEF Flow
  <2> QED
    BY FlowFrame DEF FlowInv
<1>3. Bound'
  BY DEF FlowInv, Bound, Extra, Blocked
<1> QED
  BY <1>1, <1>2, <1>3 DEF FlowInv

\* The loop's own steps and the peers'.
LEMMA OtherFlow ==
    ASSUME FlowInv, NEW b \in Bevs,
           CallbacksDone(b) \/ ProcessEnds(b) \/ PeerStep(b)
    PROVE  FlowInv'
<1>1. IInv' /\ bev' = bev /\ held' = held
  BY LoopIInv, PeerIInv
     DEF FlowInv, CallbacksDone, ProcessEnds, PeerStep, PeerSend, PeerCloses,
         PeerResets
<1>2. ASSUME NEW x \in Bevs, bev[x].mem = "new"
      PROVE  /\ wire'[x] = wire[x] /\ sent'[x] = sent[x]
             /\ received'[x] = received[x]
  <2>1. CASE PeerSend(b)
    <3>1. x # b
      BY <1>2, <2>1 DEF PeerSend, Peer, Live
    <3>2. wire \in [Bevs -> Seq(Lines)] /\ sent \in [Bevs -> Seq(Lines)]
      BY DEF FlowInv, IInv, TypeOK
    <3> QED
      BY <2>1, <3>1, <3>2 DEF PeerSend
  <2>2. CASE CallbacksDone(b) \/ ProcessEnds(b) \/ PeerCloses(b) \/ PeerResets(b)
    BY <2>2 DEF CallbacksDone, ProcessEnds, PeerCloses, PeerResets, peers
  <2> QED
    BY <2>1, <2>2 DEF PeerStep
<1> QED
  BY <1>1, <1>2, StillFlow

LEMMA NextFlow == FlowInv /\ [Next]_vars => FlowInv'
<1> SUFFICES ASSUME FlowInv, [Next]_vars PROVE FlowInv'
  OBVIOUS
<1>1. ASSUME NEW c \in Conns, accept_cb(c) \/ accept_cb_refused(c)
      PROVE  FlowInv'
  BY <1>1, AcceptFlow, RefusedFlow
<1>2. ASSUME NEW b \in Bevs, SocketEvent(b)
      PROVE  FlowInv'
  BY <1>2, QuietFlow, SocketReadFlow, SocketWriteFlow DEF SocketEvent
<1>3. ASSUME NEW b \in Bevs, Callback(b)
      PROVE  FlowInv'
  BY <1>3, ReadcbFlow, WritecbFlow, EventcbFlow, OtherFlow DEF Callback
<1>4. ASSUME NEW b \in Bevs, PeerStep(b)
      PROVE  FlowInv'
  BY <1>4, OtherFlow
<1>5. CASE Dispatch \/ UNCHANGED vars
  <2>1. IInv'
    BY NextIInv DEF FlowInv
  <2>2. bev' = bev /\ held' = held /\ UNCHANGED peers
    BY <1>5 DEF Dispatch, vars
  <2> QED
    BY <2>1, <2>2, StillFlow DEF peers
<1> QED
  BY <1>1, <1>2, <1>3, <1>4, <1>5 DEF Next

\* The flow invariant holds in every reachable state.
LEMMA FlowHolds == Spec => []FlowInv
BY InitFlow, NextFlow, PTL DEF Spec

\* However slowly a peer reads and however much the other sends, no output
\* buffer holds more than MAX_OUTPUT and one read.
THEOREM OutputBounded == Spec => []BoundedOutput
<1>1. FlowInv => BoundedOutput
  <2> SUFFICES ASSUME FlowInv, NEW b \in Bevs
               PROVE  Len(bev[b].output) <= MaxOutput + MaxRead
    BY DEF BoundedOutput
  <2>1. /\ Len(bev[b].output) \in Nat /\ MaxOutput \in Nat /\ MaxRead \in Nat
        /\ Extra(b) \in {0, 1}
    BY Facts DEF FlowInv, Extra
  <2> QED
    BY <2>1 DEF FlowInv, Bound
<1> QED
  BY <1>1, FlowHolds, PTL

-----------------------------------------------------------------------------
(* No lost wake-up.                                                         *)

\* b reads, or somebody is to start it again or to end it.
WakeAt(b, p) == bev[b].read \/ Blocked(b) \/ EndPending(b) \/ WillDrain(p)

\* Scheduling a bufferevent removes none.
LEMMA ScheduleQueued ==
    ASSUME NEW q \in Seq(Bevs), NEW b \in Bevs
    PROVE  /\ Queued(Schedule(q, b), b)
           /\ \A x \in Bevs : Queued(q, x) => Queued(Schedule(q, b), x)
<1>1. CASE Queued(q, b)
  BY <1>1 DEF Schedule
<1>2. CASE ~Queued(q, b)
  <2>1. /\ Schedule(q, b) = Append(q, b) /\ Len(q) \in Nat
        /\ DOMAIN q = 1 .. Len(q)
    BY <1>2, LenProperties DEF Schedule
  <2>2. /\ DOMAIN Append(q, b) = 1 .. Len(q) + 1
        /\ Append(q, b)[Len(q) + 1] = b
        /\ \A i \in 1 .. Len(q) : Append(q, b)[i] = q[i]
    BY AppendProperties
  <2> QED
    BY <2>1, <2>2 DEF Queued
<1> QED
  BY <1>1, <1>2

\* Only the head leaves the queue.
LEMMA TailQueued ==
    ASSUME NEW q \in Seq(Bevs), q # <<>>, NEW x \in Bevs, x # Head(q),
           Queued(q, x)
    PROVE  Queued(Tail(q), x)
<1>1. PICK i \in 1 .. Len(q) : q[i] = x
  BY LenProperties DEF Queued
<1>2. i # 1 /\ Len(q) \in Nat
  BY <1>1, LenProperties
<1>3. /\ DOMAIN Tail(q) = 1 .. Len(q) - 1
      /\ \A j \in 1 .. Len(q) - 1 : Tail(q)[j] = q[j + 1]
  OBVIOUS
<1>4. i - 1 \in 1 .. Len(q) - 1 /\ (i - 1) + 1 = i
  BY <1>1, <1>2
<1>5. Tail(q)[i - 1] = x
  BY <1>1, <1>3, <1>4
<1> QED
  BY <1>3, <1>4, <1>5 DEF Queued

\* A step of one pair: again it is enough to look at its two sides.
LEMMA WakeStep ==
    ASSUME NoLostWakeup, NEW b \in Bevs, NEW p \in Bevs, p = Other(b),
           Only(b, p),
           \A x \in Bevs \ {b, p} :
               /\ held'[x] = held[x]
               /\ bev[x].mem = "live" /\ Queued(queue, x) => Queued(queue', x),
           Joined(bev', b) => WakeAt(b, p)',
           Joined(bev', p) => WakeAt(p, b)'
    PROVE  NoLostWakeup'
<1>1. p # b /\ Other(p) = b
  BY OtherSide
<1> SUFFICES ASSUME NEW x \in Bevs, Joined(bev', x)
             PROVE  WakeAt(x, Other(x))'
  BY DEF NoLostWakeup, WakeAt
<1>2. CASE x \in {b, p}
  BY <1>1, <1>2
<1>3. CASE x \in Bevs \ {b, p}
  <2>1. PICK y \in Bevs \ {b, p} : y = Other(x)
    BY <1>1, <1>3, OtherSide
  <2>2. bev'[x] = bev[x] /\ bev'[y] = bev[y] /\ held'[x] = held[x]
    BY <1>3, <2>1 DEF Only
  <2>3. Joined(bev, x) /\ bev[x].mem = "live" /\ bev[y].mem = "live"
    BY <2>1, <2>2 DEF Joined
  <2>4. WakeAt(x, y)
    BY <2>1, <2>3 DEF NoLostWakeup, WakeAt
  <2> QED
    BY <1>3, <2>1, <2>2, <2>3, <2>4
       DEF WakeAt, Blocked, EndPending, WillDrain
<1> QED
  BY <1>2, <1>3

LEMMA AcceptWake ==
    ASSUME FlowInv, NoLostWakeup, NEW c \in Conns,
           accept_cb(c) \/ accept_cb_refused(c)
    PROVE  NoLostWakeup'
<1>1. PICK b \in Bevs : b = <<c, "in">> /\ b[1] = c
  <2>1. <<c, "in">> \in Bevs /\ <<c, "in">>[1] = c
    BY DEF Bevs
  <2> QED
    BY <2>1
<1>2. PICK p \in Bevs : p = Other(b) /\ p # b /\ Other(p) = b
  BY OtherSide
<1>3. \A x \in Bevs : x[1] = c <=> x \in {b, p}
  BY <1>1, <1>2 DEF Bevs, Other
<1>4. Only(b, p) /\ UNCHANGED <<queue, held>>
  BY <1>3 DEF accept_cb, accept_cb_refused, Only
<1>5. \A x \in {b, p} : Joined(bev', x) => bev'[x].read
  <2>1. CASE accept_cb(c)
    BY <1>3, <2>1 DEF accept_cb, Absent
  <2>2. CASE accept_cb_refused(c)
    BY <1>3, <2>2 DEF accept_cb_refused, Absent, Joined
  <2> QED
    BY <2>1, <2>2
<1> QED
  BY <1>2, <1>4, <1>5, WakeStep DEF WakeAt

\* A step of b's own fields that stops its reading only when its end is queued,
\* and keeps what b still has to do for its partner.
LEMMA OwnWake ==
    ASSUME FlowInv, NoLostWakeup, NEW b \in Bevs, NEW p \in Bevs, p = Other(b),
           Only(b, b), SameLink(bev[b], bev'[b]), held' = held,
           \A x \in Bevs : Queued(queue, x) => Queued(queue', x),
           bev[b].pend \subseteq bev'[b].pend,
           bev[b].read => bev'[b].read \/ EndPending(b)',
           WillDrain(b) => WillDrain(b)'
    PROVE  NoLostWakeup'
<1>1. p # b /\ Other(p) = b
  BY OtherSide
<1>2. Only(b, p) /\ bev'[p] = bev[p]
  BY <1>1 DEF Only
<1>3. Joined(bev', b) => WakeAt(b, p)'
  <2> SUFFICES ASSUME Joined(bev', b) PROVE WakeAt(b, p)'
    OBVIOUS
  <2>1. Joined(bev, b)
    BY <1>1, <1>2 DEF Joined, SameLink
  <2>2. WakeAt(b, p)
    BY <2>1 DEF NoLostWakeup, WakeAt
  <2> QED
    BY <1>2, <2>2 DEF WakeAt, Blocked, EndPending, WillDrain
<1>4. Joined(bev', p) => WakeAt(p, b)'
  <2> SUFFICES ASSUME Joined(bev', p) PROVE WakeAt(p, b)'
    OBVIOUS
  <2>1. Joined(bev, p)
    BY <1>1, <1>2 DEF Joined, SameLink
  <2>2. WakeAt(p, b)
    BY <1>1, <2>1 DEF NoLostWakeup, WakeAt
  <2>3. WillDrain(b) => WillDrain(b)'
    OBVIOUS
  <2>4. EndPending(p) => EndPending(p)'
    BY <1>2 DEF EndPending
  <2> QED
    BY <1>2, <2>2, <2>3, <2>4 DEF WakeAt, Blocked
<1> QED
  BY <1>1, <1>2, <1>3, <1>4, WakeStep

\* Everything a poll does but writing.
LEMMA PollWake ==
    ASSUME FlowInv, NoLostWakeup, NEW b \in Bevs,
           \/ Connected(b) \/ ConnectFailed(b)
           \/ SocketRead(b) \/ SocketReadEnd(b) \/ SocketWriteError(b)
    PROVE  NoLostWakeup'
<1>1. PICK p \in Bevs : p = Other(b)
  BY OtherSide
<1>2. IInv /\ bev \in BevStates /\ bev[b] \in BevState /\ queue \in Seq(Bevs)
  BY Facts DEF FlowInv, IInv, TypeOK
<1>3. held' = held /\ (queue' = queue \/ queue' = Schedule(queue, b))
  BY DEF Connected, ConnectFailed, SocketRead, SocketReadEnd, SocketWriteError
<1>4. \A x \in Bevs : Queued(queue, x) => Queued(queue', x)
  BY <1>2, <1>3, ScheduleQueued
<1>5. Only(b, b)
  BY <1>2 DEF Connected, ConnectFailed, SocketRead, SocketReadEnd,
              SocketWriteError, Only, BevStates
<1>6. /\ SameLink(bev[b], bev'[b]) /\ bev[b].pend \subseteq bev'[b].pend
      /\ bev'[b].output = bev[b].output /\ bev'[b].low = bev[b].low
      /\ bev[b].read => bev'[b].read \/ EndPending(b)'
  <2>1. CASE Connected(b)
    <3>1. bev'[b] = [bev[b] EXCEPT !.link = "up"]
      BY <1>2, <2>1 DEF Connected, BevStates
    <3> QED
      BY <1>2, <3>1 DEF BevState, SameLink
  <2>2. CASE ConnectFailed(b)
    <3>1. bev'[b] = [bev[b] EXCEPT !.link = "failed", !.read = FALSE,
                                   !.write = FALSE, !.pend = @ \cup {"error"}]
      BY <1>2, <2>2 DEF ConnectFailed, BevStates
    <3>2. Queued(queue', b)
      BY <1>2, <2>2, ScheduleQueued DEF ConnectFailed
    <3> QED
      BY <1>2, <3>1, <3>2 DEF BevState, SameLink, EndPending, Events
  <2>3. CASE SocketRead(b)
    <3>1. PICK n \in 1 .. MaxRead : ReadFrom(b, n)
      BY <1>2, <2>3, SocketReadEffect
    <3> QED
      BY <1>2, <3>1 DEF ReadFrom, BevState, SameLink
  <2>4. CASE SocketReadEnd(b)
    <3> DEFINE e == IF shut[b] = "fin" THEN "eof" ELSE "error"
    <3>1. bev'[b] = [bev[b] EXCEPT !.read = FALSE, !.pend = @ \cup {e}]
      BY <1>2, <2>4 DEF SocketReadEnd, BevStates
    <3>2. Queued(queue', b) /\ e \in Events
      BY <1>2, <2>4, ScheduleQueued DEF SocketReadEnd, Events
    <3> HIDE DEF e
    <3> QED
      BY <1>2, <3>1, <3>2 DEF BevState, SameLink, EndPending
  <2>5. CASE SocketWriteError(b)
    <3>1. bev'[b] = [bev[b] EXCEPT !.write = FALSE, !.pend = @ \cup {"error"}]
      BY <1>2, <2>5 DEF SocketWriteError, BevStates
    <3> QED
      BY <1>2, <3>1 DEF BevState, SameLink
  <2> QED
    BY <2>1, <2>2, <2>3, <2>4, <2>5
<1>7. WillDrain(b) => WillDrain(b)'
  BY <1>4, <1>6 DEF WillDrain, EndPending, SameLink
<1> QED
  BY <1>1, <1>3, <1>4, <1>5, <1>6, <1>7, OwnWake

\* Output is above the watermark, or the write callback is due.
LEMMA WriteWake ==
    ASSUME FlowInv, NoLostWakeup, NEW b \in Bevs, SocketWrite(b)
    PROVE  NoLostWakeup'
<1>1. PICK p \in Bevs : p = Other(b)
  BY OtherSide
<1>2. /\ IInv /\ bev[b] \in BevState /\ queue \in Seq(Bevs)
      /\ Len(bev[b].output) \in Nat /\ bev[b].low \in Nat
  <2>1. IInv /\ bev[b] \in BevState /\ queue \in Seq(Bevs)
        /\ Len(bev[b].output) \in Nat /\ MaxOutput \div 2 \in Nat
    BY Facts DEF FlowInv, IInv, TypeOK
  <2>2. bev[b].low \in {0, MaxOutput \div 2}
    BY <2>1 DEF BevState
  <2> QED
    BY <2>1, <2>2
<1>3. PICK n \in 1 .. Len(bev[b].output) : WrittenTo(b, n)
  BY <1>2, SocketWriteEffect
<1> DEFINE left == SubSeq(bev[b].output, n + 1, Len(bev[b].output))
           due  == Len(left) <= bev[b].low /\ bev[b].writecb # "null"
<1>4. /\ bev'[b] = [bev[b] EXCEPT
                      !.output = left,
                      !.pend = IF due THEN @ \cup {"write"} ELSE @]
      /\ queue' = IF due THEN Schedule(queue, b) ELSE queue
  BY <1>3 DEF WrittenTo
<1>5. Len(left) \in Nat
  BY <1>2, Facts, Halves
<1>6. due \/ Len(left) > bev[b].low \/ bev[b].writecb = "null"
  <2> HIDE DEF left
  <2> QED
    BY <1>2, <1>5
<1> HIDE DEF left, due
<1>7. /\ SameLink(bev[b], bev'[b]) /\ bev[b].pend \subseteq bev'[b].pend
      /\ bev'[b].output = left /\ bev'[b].low = bev[b].low
      /\ bev'[b].read = bev[b].read
      /\ due => "write" \in bev'[b].pend
  BY <1>2, <1>4 DEF BevState, SameLink
<1>8. /\ \A x \in Bevs : Queued(queue, x) => Queued(queue', x)
      /\ due => Queued(queue', b)
  BY <1>2, <1>4, ScheduleQueued
<1>9. WillDrain(b) => WillDrain(b)'
  BY <1>6, <1>7, <1>8 DEF WillDrain, SameLink
<1>10. Only(b, b) /\ held' = held
  BY <1>2, SocketWriteEffect DEF SocketWrite
<1> QED
  BY <1>1, <1>7, <1>8, <1>9, <1>10, OwnWake

\* readcb stops b because p is full, with drained_writecb installed, or because
\* b is blocked.
LEMMA ReadcbWake ==
    ASSUME FlowInv, NoLostWakeup, NEW b \in Bevs, RunReadcb(b)
    PROVE  NoLostWakeup'
<1>0. IInv
  BY DEF FlowInv
<1>1. PICK p \in Bevs : p = Other(b) /\ p # b /\ Other(p) = b
  BY OtherSide
<1>2. Joined(bev, b) /\ Only(b, p)
  BY <1>0, <1>1, ReadcbEffect
<1>3. Joined(bev, p) /\ FlowAt(b, p) /\ FlowAt(p, b)
  BY <1>1, <1>2, PairFlow
<1>4. WakeAt(b, p) /\ WakeAt(p, b)
  BY <1>1, <1>2, <1>3 DEF NoLostWakeup, WakeAt
<1>5. bev[b].input # <<>> /\ bev[p].writecb = "null" /\ ~Blocked(b)
  BY <1>3 DEF RunReadcb, ReadDue, FlowAt, Stopped, Silenced, OneRead, Joined
<1>6. PICK v \in Verdicts(b) :
        /\ Hold(b, v.block)
        /\ IF v.block THEN Answered(b, p)
                      ELSE PassedTo(b, p) \/ ChokedBy(b, p)
  BY <1>0, <1>1, ReadcbEffect
<1>7. /\ \A x \in Bevs \ {b} : held'[x] = held[x]
      /\ v.block => Blocked(b)'
  <2>1. v.block \in BOOLEAN /\ held[b] = NoHold /\ Hold(b, v.block)
    BY <1>0, <1>5, <1>6, VerdictBlock DEF Blocked
  <2>2. /\ \A x \in Bevs \ {b} : held'[x] = held[x]
        /\ v.block /\ held[b] = NoHold =>
             held'[b] = [at |-> Len(sent[b]) - Len(wire[b])
                                  - Len(bev[b].input),
                         input |-> bev[b].input]
    BY <1>0, <2>1, HoldEffect
  <2> QED
    BY <1>5, <2>1, <2>2 DEF Blocked, NoHold
<1>8. queue' = queue
  BY DEF RunReadcb
<1>9. /\ bev[b] \in BevState /\ bev[p] \in BevState
      /\ bev[b].output \in Seq(Lines \cup {BlockMsg})
      /\ Len(bev[b].output) \in Nat
      /\ MaxOutput \in Nat /\ MaxOutput \div 2 \in Nat
      /\ MaxOutput \div 2 < MaxOutput
  BY <1>0, Facts
<1>10. EndPending(b) => EndPending(b)'
  <2>1. bev'[b].pend = bev[b].pend \ {"read"}
    BY <1>6, <1>9 DEF Answered, PassedTo, ChokedBy, BevState
  <2> QED
    BY <1>8, <2>1 DEF EndPending, Events
<1>11. EndPending(p) => EndPending(p)'
  <2>1. bev'[p].pend = bev[p].pend
    BY <1>6, <1>9 DEF Answered, PassedTo, ChokedBy, BevState
  <2> QED
    BY <1>8, <2>1 DEF EndPending
<1>12. WakeAt(b, p)'
  <2>1. CASE v.block
    BY <1>7, <2>1 DEF WakeAt
  <2>2. CASE ~v.block /\ PassedTo(b, p)
    <3>1. bev'[b].read = bev[b].read
      BY <1>9, <2>2 DEF PassedTo, BevState
    <3> QED
      BY <1>4, <1>5, <1>10, <3>1 DEF WakeAt, WillDrain
  <2>3. CASE ~v.block /\ ChokedBy(b, p)
    <3>1. /\ bev'[p].writecb = "drained_writecb"
          /\ bev'[p].low = MaxOutput \div 2
          /\ bev'[p].output = bev[p].output \o bev[b].input
          /\ ~(Len(bev[p].output \o bev[b].input) < MaxOutput)
      BY <1>9, <2>3 DEF ChokedBy, BevState
    <3>2. Len(bev[p].output \o bev[b].input) \in Nat
      <4>1. bev[p].output \in Seq(Lines \cup {BlockMsg})
            /\ bev[b].input \in Seq(Lines)
        BY <1>0, Facts
      <4>2. ASSUME NEW S, NEW T, NEW s \in Seq(S), NEW t \in Seq(T)
            PROVE  Len(s \o t) \in Nat
        OBVIOUS
      <4> QED
        BY <4>1, <4>2
    <3>3. Len(bev'[p].output) > bev'[p].low
      <4>1. ASSUME NEW k \in Nat, ~(k < MaxOutput)
            PROVE  k > MaxOutput \div 2
        BY <1>9, <4>1
      <4>2. Len(bev[p].output \o bev[b].input) > MaxOutput \div 2
        BY <3>1, <3>2, <4>1
      <4> QED
        BY <3>1, <4>2
    <3> QED
      BY <3>1, <3>3 DEF WakeAt, WillDrain
  <2> QED
    BY <1>6, <2>1, <2>2, <2>3
<1>13. WakeAt(p, b)'
  <2>1. bev'[p].read = bev[p].read
    BY <1>6, <1>9 DEF Answered, PassedTo, ChokedBy, BevState
  <2>2. Blocked(p)' <=> Blocked(p)
    BY <1>1, <1>7 DEF Blocked
  <2>3. WillDrain(b) => WillDrain(b)'
    <3>1. CASE v.block
      <4>1. /\ bev'[b].writecb = bev[b].writecb
            /\ bev'[b].low = MaxOutput \div 2
            /\ bev'[b].pend = bev[b].pend \ {"read"}
            /\ bev'[b].output = Append(bev[b].output, BlockMsg)
        BY <1>6, <1>9, <3>1 DEF Answered, BevState
      <4>2. Len(bev'[b].output) = Len(bev[b].output) + 1
        BY <1>9, <4>1
      <4>3. bev[b].writecb = "drained_writecb" => bev[b].low = MaxOutput \div 2
        BY <1>3 DEF FlowAt, Stopped
      <4> QED
        BY <1>8, <1>9, <1>10, <4>1, <4>2, <4>3 DEF WillDrain
    <3>2. CASE ~v.block
      <4>1. /\ bev'[b].writecb = bev[b].writecb /\ bev'[b].low = bev[b].low
            /\ bev'[b].pend = bev[b].pend \ {"read"}
            /\ bev'[b].output = bev[b].output
        BY <1>6, <1>9, <3>2 DEF PassedTo, ChokedBy, BevState
      <4> QED
        BY <1>8, <1>10, <4>1 DEF WillDrain
    <3> QED
      BY <3>1, <3>2
  <2> QED
    BY <1>4, <1>11, <2>1, <2>2, <2>3 DEF WakeAt
<1> QED
  BY <1>1, <1>2, <1>7, <1>8, <1>12, <1>13, WakeStep

\* drained_writecb starts p; a side that closes is no longer of a pair.
LEMMA WritecbWake ==
    ASSUME FlowInv, NoLostWakeup, NEW b \in Bevs, RunWritecb(b)
    PROVE  NoLostWakeup'
<1>0. IInv
  BY DEF FlowInv
<1>1. PICK p \in Bevs : p = Other(b) /\ p # b /\ Other(p) = b
  BY OtherSide
<1>2. held' = held /\ queue' = queue
  BY DEF RunWritecb
<1>3. bev[b] \in BevState /\ bev[p] \in BevState
  BY <1>0, Facts
<1>4. CASE /\ Joined(bev, b) /\ Only(b, p) /\ DrainedFor(b, p)
           /\ bev[b].writecb = "drained_writecb"
  <2>1. WakeAt(b, p)
    BY <1>1, <1>4 DEF NoLostWakeup, WakeAt
  <2>2. /\ bev'[b].read = bev[b].read
        /\ bev'[b].pend = bev[b].pend \ {"write"}
    BY <1>3, <1>4 DEF DrainedFor, BevState
  <2>3. /\ bev'[p].pend = bev[p].pend /\ bev'[p].writecb = bev[p].writecb
        /\ bev'[p].output = bev[p].output /\ bev'[p].low = bev[p].low
        /\ bev'[p].read
    BY <1>3, <1>4 DEF DrainedFor, BevState
  <2>4. WakeAt(b, p)'
    BY <1>2, <2>1, <2>2, <2>3
       DEF WakeAt, Blocked, EndPending, WillDrain, Events
  <2>5. WakeAt(p, b)'
    BY <2>3 DEF WakeAt
  <2> QED
    BY <1>1, <1>2, <1>4, <2>4, <2>5, WakeStep
<1>5. CASE /\ Closing(bev, b) /\ Only(b, b)
           /\ \/ bev'[b] = Absent("freed")
              \/ bev'[b] = [bev[b] EXCEPT !.pend = @ \ {"write"}]
  <2>1. bev'[b].ctx = NoBev
    BY <1>3, <1>5 DEF Closing, Absent, BevState
  <2>2. bev'[p] = bev[p] /\ Only(b, p) /\ bev[p].mem = "freed"
    BY <1>1, <1>5 DEF Only, Closing
  <2>3. ~Joined(bev', b) /\ ~Joined(bev', p)
    BY <1>1, <2>1, <2>2, ProxyAssumption DEF Joined
  <2> QED
    BY <1>1, <1>2, <2>2, <2>3, WakeStep
<1> QED
  BY <1>0, <1>1, <1>4, <1>5, WritecbEffect

LEMMA EventcbWake ==
    ASSUME FlowInv, NoLostWakeup, NEW b \in Bevs, RunEventcb(b)
    PROVE  NoLostWakeup'
<1>0. IInv
  BY DEF FlowInv
<1>1. PICK p \in Bevs : p = Other(b) /\ p # b /\ Other(p) = b
  BY OtherSide
<1>2. PICK v \in Verdicts(b) : Hold(b, v.block) /\ Only(b, p)
  BY <1>0, <1>1, EventcbEffect DEF Only
<1>3. queue' = queue /\ \A x \in Bevs \ {b} : held'[x] = held[x]
  BY <1>0, <1>2, VerdictBlock, HoldEffect DEF RunEventcb
<1>4. bev'[b].mem = "freed"
  <2>1. bev'[b] = Absent("freed")
    BY <1>0, EventcbEffect
  <2> QED
    BY <2>1 DEF Absent
<1>5. ~Joined(bev', b) /\ ~Joined(bev', p)
  BY <1>1, <1>4 DEF Joined
<1> QED
  BY <1>1, <1>2, <1>3, <1>5, WakeStep

\* A bufferevent with something to do does not leave the queue.
LEMMA DoneWake ==
    ASSUME FlowInv, NoLostWakeup, NEW b \in Bevs, CallbacksDone(b)
    PROVE  NoLostWakeup'
<1>1. /\ queue \in Seq(Bevs) /\ queue # <<>> /\ b = Head(queue)
      /\ queue' = Tail(queue) /\ bev' = bev /\ held' = held
  BY DEF CallbacksDone, Running, FlowInv, IInv, TypeOK
<1>2. ~WriteDue(b) /\ ~EventDue(b)
  BY DEF CallbacksDone
<1>3. \A x \in Bevs : Live(x) /\ EndPending(x) => EndPending(x)'
  BY <1>1, <1>2, TailQueued DEF EndPending, EventDue
<1>4. \A x \in Bevs : Live(x) /\ WillDrain(x) => WillDrain(x)'
  <2> SUFFICES ASSUME NEW x \in Bevs, Live(x), WillDrain(x)
               PROVE  WillDrain(x)'
    OBVIOUS
  <2>1. "write" \in bev[x].pend /\ Queued(queue, x) => Queued(queue', x)
    BY <1>1, <1>2, TailQueued DEF WillDrain, WriteDue
  <2> QED
    BY <1>1, <1>3, <2>1 DEF WillDrain
<1> SUFFICES ASSUME NEW x \in Bevs, Joined(bev, x)
             PROVE  WakeAt(x, Other(x))'
  BY <1>1 DEF NoLostWakeup, WakeAt
<1>5. Live(x) /\ Live(Other(x)) /\ Other(x) \in Bevs
  BY OtherSide DEF Joined, Live
<1>6. WakeAt(x, Other(x))
  BY DEF NoLostWakeup, WakeAt
<1> QED
  BY <1>1, <1>3, <1>4, <1>5, <1>6 DEF WakeAt, Blocked

\* Neither the peers nor the rest of the loop touch the queue.
LEMMA StillWake ==
    ASSUME NoLostWakeup, UNCHANGED <<bev, queue, held>>
    PROVE  NoLostWakeup'
<1>1. ASSUME NEW x \in Bevs
      PROVE  /\ EndPending(x)' <=> EndPending(x)
             /\ WillDrain(x)' <=> WillDrain(x)
             /\ Blocked(x)' <=> Blocked(x)
  BY DEF EndPending, WillDrain, Blocked
<1> QED
  BY <1>1, OtherSide DEF NoLostWakeup

LEMMA NextWake == FlowInv /\ NoLostWakeup /\ [Next]_vars => NoLostWakeup'
<1> SUFFICES ASSUME FlowInv, NoLostWakeup, [Next]_vars PROVE NoLostWakeup'
  OBVIOUS
<1>1. ASSUME NEW c \in Conns, accept_cb(c) \/ accept_cb_refused(c)
      PROVE  NoLostWakeup'
  BY <1>1, AcceptWake
<1>2. ASSUME NEW b \in Bevs, SocketEvent(b)
      PROVE  NoLostWakeup'
  BY <1>2, PollWake, WriteWake DEF SocketEvent
<1>3. ASSUME NEW b \in Bevs, Callback(b)
      PROVE  NoLostWakeup'
  <2>1. CASE ProcessEnds(b)
    BY <2>1, StillWake DEF ProcessEnds
  <2> QED
    BY <1>3, <2>1, ReadcbWake, WritecbWake, EventcbWake, DoneWake DEF Callback
<1>4. ASSUME NEW b \in Bevs, PeerStep(b)
      PROVE  NoLostWakeup'
  BY <1>4, StillWake DEF PeerStep, PeerSend, PeerCloses, PeerResets
<1>5. CASE Dispatch \/ UNCHANGED vars
  BY <1>5, StillWake DEF Dispatch, vars
<1> QED
  BY <1>1, <1>2, <1>3, <1>4, <1>5 DEF Next

\* A side that readcb stopped has somebody to start it again or to free it,
\* whatever the order of the callbacks of the two sides.
THEOREM NoWakeupLost == Spec => []NoLostWakeup
<1>1. Init => NoLostWakeup
  BY DEF Init, NoLostWakeup, Joined, Absent
<1> QED
  BY <1>1, NextWake, FlowHolds, PTL DEF Spec
=============================================================================
