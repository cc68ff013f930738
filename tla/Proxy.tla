-------------------------------- MODULE Proxy --------------------------------
(***************************************************************************)
(* The relay of proxy.c: every accepted connection is a pair of            *)
(* bufferevents, "in" to the client and "out" to the protected server,     *)
(* driven by one libevent loop.                                            *)
(*                                                                         *)
(* libevent: a poll fires socket events; a bufferevent with                *)
(* BEV_OPT_DEFER_CALLBACKS records what happened and joins a queue of      *)
(* deferred callbacks, which runs to its end before the next poll.  A      *)
(* bufferevent in the queue gets its read, write and event callbacks, in   *)
(* this order.                                                             *)
(***************************************************************************)
EXTENDS Filter, Streams
LOCAL INSTANCE SequencesExt

CONSTANTS
    Conns,        \* the connections the listener may accept
    PeerAddr,     \* the address of each connection's client
    BackendAddr,  \* the address of the protected server
    Inet6,        \* the bufferevents whose peer has an IPv6 address
    BlockList,    \* the lines of config/blocklist_ip.txt
    BlockMsg,     \* the answer block_msg writes
    NoBev,        \* NULL
    MaxOutput,    \* MAX_OUTPUT, in lines
    MaxRead,      \* the most one read event takes from a socket, in lines
    MaxSend       \* bound of the model: the lines a client and a server send

Bevs == Conns \X {"in", "out"}
NoHold == [at |-> 0, input |-> <<>>]
Other(b) == <<b[1], IF b[2] = "in" THEN "out" ELSE "in">>

ASSUME ProxyAssumption ==
    /\ PeerAddr \in [Conns -> Addrs]
    /\ BackendAddr \in Addrs
    /\ Inet6 \subseteq Bevs
    /\ BlockList \in Seq(Entries)
    /\ BlockMsg \notin Lines
    /\ NoBev \notin Bevs
    /\ MaxOutput \in Nat \ {0}
    /\ MaxRead \in Nat \ {0}
    /\ MaxSend \in [{"in", "out"} -> Nat]

VARIABLES
    bev,              \* the state of each bufferevent
    queue,            \* the bufferevents with deferred callbacks
    loop,             \* what the loop is doing: "poll" or "callbacks"
    block_addr_list,  \* param.block_addr_list, as strtok left it
    alive,            \* the process has not exited
    wire,             \* what each peer has sent and the proxy has not read
    shut,             \* each peer's side: "open", "fin" (closed) or "rst"
    sent,             \* history: everything each peer has sent
    received,         \* history: everything written to each peer's socket
    held              \* history: the input first blocked at each bufferevent,
                      \* and how much of the peer's stream came before it

peers == <<wire, shut, sent, received>>
vars == <<bev, queue, loop, block_addr_list, alive, peers, held>>

Events == {"eof", "error"}

BevState ==
    [mem     : {"new", "live", "freed"},
     ctx     : Bevs \cup {NoBev},
     readcb  : BOOLEAN,                    \* readcb or NULL
     writecb : {"null", "drained_writecb", "close_on_finished_writecb"},
     read    : BOOLEAN,                    \* EV_READ is enabled
     write   : BOOLEAN,                    \* EV_WRITE is enabled
     low     : {0, MaxOutput \div 2},      \* the write low watermark
     input   : Seq(Lines),
     output  : Seq(Lines \cup {BlockMsg}),
     pend    : SUBSET ({"read", "write"} \cup Events),
     link    : {"connecting", "up", "failed"}]

\* A bufferevent that does not exist: all its fields but mem are meaningless.
Absent(mem) ==
    [mem |-> mem, ctx |-> NoBev, readcb |-> FALSE, writecb |-> "null",
     read |-> FALSE, write |-> FALSE, low |-> 0, input |-> <<>>,
     output |-> <<>>, pend |-> {}, link |-> "connecting"]

Live(b) == bev[b].mem = "live"

-----------------------------------------------------------------------------
(* The callbacks, as what they make of the bufferevents B.                  *)

bufferevent_free(B, b) == [B EXCEPT ![b] = Absent("freed")]

\* Mutant: block_msg resets the callbacks of the side it silences.
block_msg_ResetsCallbacks(B, b) ==
    [B EXCEPT ![b].output = Append(@, BlockMsg),
              ![b].writecb = "null",
              ![b].low = MaxOutput \div 2,
              ![b].read = FALSE]

block_msg(B, b) ==
    [B EXCEPT ![b].output = Append(@, BlockMsg),
              ![b].low = MaxOutput \div 2,
              ![b].read = FALSE]

\* Mutant: evbuffer_prepend_buffer for evbuffer_add_buffer.
Forward_InFront(B, b, p) ==
    [B EXCEPT ![p].output = B[b].input \o @,
              ![b].input = <<>>]

\* evbuffer_add_buffer: all of b's input goes to the end of p's output.
Forward(B, b, p) ==
    [B EXCEPT ![p].output = @ \o B[b].input,
              ![b].input = <<>>]

\* Mutants: the watermark is all of MAX_OUTPUT; drained_writecb is forgotten.
Choke_WholeWatermark(B, b, p) ==
    [B EXCEPT ![p].readcb = TRUE,
              ![p].writecb = "drained_writecb",
              ![p].ctx = b,
              ![p].low = MaxOutput,
              ![b].read = FALSE]

Choke_NoWritecb(B, b, p) ==
    [B EXCEPT ![p].readcb = TRUE,
              ![p].ctx = b,
              ![p].low = MaxOutput \div 2,
              ![b].read = FALSE]

\* Stop reading from b until p's output has drained.
Choke(B, b, p) ==
    [B EXCEPT ![p].readcb = TRUE,
              ![p].writecb = "drained_writecb",
              ![p].ctx = b,
              ![p].low = MaxOutput \div 2,
              ![b].read = FALSE]

\* Mutants: the limit is passed before it chokes; blocked input is drained.
readcb_OverLimit(B, b, block) ==
    LET p == B[b].ctx
        F == Forward(B, b, p)
    IN  IF p = NoBev THEN [B EXCEPT ![b].input = <<>>]
        ELSE IF block THEN block_msg(B, b)
        ELSE IF Len(F[p].output) > MaxOutput THEN Choke(F, b, p)
        ELSE F

readcb_DrainsBlocked(B, b, block) ==
    LET p == B[b].ctx
        F == Forward(B, b, p)
    IN  IF p = NoBev THEN [B EXCEPT ![b].input = <<>>]
        ELSE IF block THEN [block_msg(B, b) EXCEPT ![b].input = <<>>]
        ELSE IF Len(F[p].output) >= MaxOutput THEN Choke(F, b, p)
        ELSE F

readcb(B, b, block) ==
    LET p == B[b].ctx
        F == Forward(B, b, p)
    IN  IF p = NoBev THEN [B EXCEPT ![b].input = <<>>]
        ELSE IF block THEN block_msg(B, b)
        ELSE IF Len(F[p].output) >= MaxOutput THEN Choke(F, b, p)
        ELSE F

drained_writecb(B, b) ==
    LET p == B[b].ctx
        D == [B EXCEPT ![b].readcb = TRUE, ![b].writecb = "null",
                       ![b].low = 0]
    IN  IF p = NoBev THEN D ELSE [D EXCEPT ![p].read = TRUE]

close_on_finished_writecb(B, b) ==
    IF B[b].output = <<>> THEN bufferevent_free(B, b) ELSE B

\* Mutant: close_on_finished_writecb is not installed.
CloseWhenFlushed_NoWritecb(B, p) ==
    [B EXCEPT ![p].readcb = FALSE,
              ![p].writecb = "null",
              ![p].ctx = NoBev,
              ![p].read = FALSE]

\* Let p write what it has and close it then.
CloseWhenFlushed(B, p) ==
    [B EXCEPT ![p].readcb = FALSE,
              ![p].writecb = "close_on_finished_writecb",
              ![p].ctx = NoBev,
              ![p].read = FALSE]

\* Mutants: a partner with nothing to write is left; one with output is freed.
ClosePartner_Left(B, p) ==
    IF B[p].output # <<>> THEN CloseWhenFlushed(B, p) ELSE B

ClosePartner_AtOnce(B, p) == bufferevent_free(B, p)

ClosePartner(B, p) ==
    IF B[p].output # <<>> THEN CloseWhenFlushed(B, p)
                          ELSE bufferevent_free(B, p)

\* Mutant: what is left is flushed without a look at it.
eventcb_Unfiltered(B, b, block) ==
    LET p == B[b].ctx
    IN  bufferevent_free(
            IF p = NoBev THEN B ELSE ClosePartner(readcb(B, b, FALSE), p), b)

\* Only EOF and ERROR reach eventcb here: it ignores CONNECTED.
eventcb(B, b, block) ==
    LET p == B[b].ctx
    IN  bufferevent_free(
            IF p = NoBev THEN B ELSE ClosePartner(readcb(B, b, block), p), b)

-----------------------------------------------------------------------------
(* The filter as the callbacks of b meet it.                                *)

\* getpeername's failure goes unnoticed, and an uninitialised sockaddr may hold
\* any address, or none.  A sockaddr has room for an IPv4 address only: of an
\* IPv6 address inet_ntop reads half from the stack behind it.
bufferevent_get_addr(b) ==
    IF bev[b].link # "up" \/ shut[b] = "rst" THEN Addrs \cup {NullAddr}
    ELSE IF b \in Inet6 THEN Addrs
    ELSE {IF b[2] = "in" THEN PeerAddr[b[1]] ELSE BackendAddr}

\* What filter_check may find in b's input, and whose address it may take.
Inspections(b) == Texts(bev[b].input) \X bufferevent_get_addr(b)

\* The verdicts the process survives; readcb asks for none when it has nobody
\* to send to.
Verdicts(b) ==
    IF bev[b].ctx = NoBev
    THEN {[block |-> FALSE, list |-> block_addr_list]}
    ELSE {filter_check(x[1], x[2], block_addr_list) :
            x \in {y \in Inspections(b) :
                        ~NullAddress(y[1], y[2], block_addr_list)}}

Blocked(b) == held[b] # NoHold

\* Remember the first input for which b was blocked.
Hold(b, block) ==
    held' = [held EXCEPT ![b] =
                IF block /\ @ = NoHold
                THEN [at |-> Len(sent[b]) - Len(wire[b]) - Len(bev[b].input),
                      input |-> bev[b].input]
                ELSE @]

-----------------------------------------------------------------------------
Init ==
    /\ bev = [b \in Bevs |-> Absent("new")]
    /\ queue = <<>>
    /\ loop = "poll"
    /\ block_addr_list = BlockList
    /\ alive = TRUE
    /\ wire = [b \in Bevs |-> <<>>]
    /\ shut = [b \in Bevs |-> "open"]
    /\ sent = [b \in Bevs |-> <<>>]
    /\ received = [b \in Bevs |-> <<>>]
    /\ held = [b \in Bevs |-> NoHold]

-----------------------------------------------------------------------------
(* Socket events: one poll of the loop.                                     *)

Queued(q, b) == \E i \in DOMAIN q : q[i] = b

Schedule(q, b) == IF Queued(q, b) THEN q ELSE Append(q, b)

Polling == alive /\ loop = "poll"

\* accept_cb: both bufferevents, joined and enabled; the client may already
\* send, the server's side is connecting.
accept_cb(c) ==
    /\ Polling
    /\ bev[<<c, "in">>].mem = "new"
    /\ bev' = [b \in Bevs |->
                IF b[1] # c THEN bev[b]
                ELSE [Absent("live") EXCEPT
                        !.ctx = Other(b), !.readcb = TRUE,
                        !.read = TRUE, !.write = TRUE,
                        !.link = IF b[2] = "in" THEN "up" ELSE "connecting"]]
    /\ UNCHANGED <<queue, loop, block_addr_list, alive, peers, held>>

\* accept_cb when bufferevent_socket_connect fails at once: both are freed.
accept_cb_refused(c) ==
    /\ Polling
    /\ bev[<<c, "in">>].mem = "new"
    /\ bev' = [b \in Bevs |-> IF b[1] = c THEN Absent("freed") ELSE bev[b]]
    /\ UNCHANGED <<queue, loop, block_addr_list, alive, peers, held>>

\* The connection to the server is established.
Connected(b) ==
    /\ Polling
    /\ Live(b) /\ bev[b].link = "connecting"
    /\ bev' = [bev EXCEPT ![b].link = "up"]
    /\ UNCHANGED <<queue, loop, block_addr_list, alive, peers, held>>

\* The connection fails: both socket events are deleted, ERROR is pending.
ConnectFailed(b) ==
    /\ Polling
    /\ Live(b) /\ bev[b].link = "connecting"
    /\ bev' = [bev EXCEPT ![b].link = "failed",
                          ![b].read = FALSE, ![b].write = FALSE,
                          ![b].pend = @ \cup {"error"}]
    /\ queue' = Schedule(queue, b)
    /\ UNCHANGED <<loop, block_addr_list, alive, peers, held>>

\* One dispatch fires a socket's read event once.
Readable(b) ==
    /\ Polling
    /\ Live(b) /\ bev[b].link = "up" /\ bev[b].read
    /\ "read" \notin bev[b].pend

\* The first n lines on the wire are read into the input buffer.
SocketRead(b) ==
    /\ Readable(b)
    /\ \E n \in 1 .. MaxRead :
        /\ n <= Len(wire[b])
        /\ wire' = [wire EXCEPT ![b] = SubSeq(@, n + 1, Len(@))]
        /\ bev' = [bev EXCEPT
                    ![b].input = @ \o SubSeq(wire[b], 1, n),
                    ![b].pend = IF bev[b].readcb THEN @ \cup {"read"} ELSE @]
    /\ queue' = IF bev[b].readcb THEN Schedule(queue, b) ELSE queue
    /\ UNCHANGED <<loop, block_addr_list, alive, shut, sent, received, held>>

\* The read event finds the end of the stream, or the connection reset.
SocketReadEnd(b) ==
    /\ Readable(b)
    /\ wire[b] = <<>> /\ shut[b] # "open"
    /\ bev' = [bev EXCEPT
                ![b].read = FALSE,
                ![b].pend = @ \cup {IF shut[b] = "fin" THEN "eof"
                                                       ELSE "error"}]
    /\ queue' = Schedule(queue, b)
    /\ UNCHANGED <<loop, block_addr_list, alive, peers, held>>

Writable(b) ==
    /\ Polling
    /\ Live(b) /\ bev[b].link = "up" /\ bev[b].write
    /\ bev[b].output # <<>>

\* The first n lines of the output are written; the write callback is due once
\* no more than the low watermark is left.
SocketWrite(b) ==
    /\ Writable(b)
    /\ shut[b] # "rst"
    /\ \E n \in 1 .. Len(bev[b].output) :
        LET left == SubSeq(bev[b].output, n + 1, Len(bev[b].output))
            due  == Len(left) <= bev[b].low /\ bev[b].writecb # "null"
        IN  /\ received' = [received EXCEPT
                                ![b] = @ \o SubSeq(bev[b].output, 1, n)]
            /\ bev' = [bev EXCEPT
                        ![b].output = left,
                        ![b].pend = IF due THEN @ \cup {"write"} ELSE @]
            /\ queue' = IF due THEN Schedule(queue, b) ELSE queue
    /\ UNCHANGED <<loop, block_addr_list, alive, wire, shut, sent, held>>

SocketWriteError(b) ==
    /\ Writable(b)
    /\ shut[b] = "rst"
    /\ bev' = [bev EXCEPT ![b].write = FALSE,
                          ![b].pend = @ \cup {"error"}]
    /\ queue' = Schedule(queue, b)
    /\ UNCHANGED <<loop, block_addr_list, alive, peers, held>>

-----------------------------------------------------------------------------
(* Deferred callbacks.                                                      *)

\* The events of this poll are in: run what they deferred.
Dispatch ==
    /\ Polling
    /\ queue # <<>>
    /\ loop' = "callbacks"
    /\ UNCHANGED <<bev, queue, block_addr_list, alive, peers, held>>

ReadDue(b)  == "read" \in bev[b].pend /\ bev[b].readcb
WriteDue(b) == "write" \in bev[b].pend /\ bev[b].writecb # "null"
EventDue(b) == Live(b) /\ bev[b].pend \cap Events # {}

Running(b) ==
    alive /\ loop = "callbacks" /\ queue # <<>> /\ b = Head(queue)

RunReadcb(b) ==
    /\ Running(b)
    /\ ReadDue(b)
    /\ \E v \in Verdicts(b) :
        /\ bev' = readcb([bev EXCEPT ![b].pend = @ \ {"read"}], b, v.block)
        /\ block_addr_list' = v.list
        /\ Hold(b, v.block)
    /\ UNCHANGED <<queue, loop, alive, peers>>

RunWritecb(b) ==
    /\ Running(b)
    /\ ~ReadDue(b) /\ WriteDue(b)
    /\ LET B == [bev EXCEPT ![b].pend = @ \ {"write"}]
       IN  bev' = IF bev[b].writecb = "drained_writecb"
                  THEN drained_writecb(B, b)
                  ELSE close_on_finished_writecb(B, b)
    /\ UNCHANGED <<queue, loop, block_addr_list, alive, peers, held>>

RunEventcb(b) ==
    /\ Running(b)
    /\ ~ReadDue(b) /\ ~WriteDue(b) /\ EventDue(b)
    /\ \E v \in Verdicts(b) :
        /\ bev' = eventcb([bev EXCEPT ![b].pend = @ \ Events], b, v.block)
        /\ block_addr_list' = v.list
        /\ Hold(b, v.block)
    /\ UNCHANGED <<queue, loop, alive, peers>>

\* Nothing is due at the head of the queue; after the last the loop polls.
CallbacksDone(b) ==
    /\ Running(b)
    /\ ~ReadDue(b) /\ ~WriteDue(b) /\ ~EventDue(b)
    /\ queue' = Tail(queue)
    /\ loop' = IF Len(queue) = 1 THEN "poll" ELSE loop
    /\ UNCHANGED <<bev, block_addr_list, alive, peers, held>>

\* The inspection of b's input ends the process, and all connections with it.
ProcessEnds(b) ==
    /\ Running(b)
    /\ ReadDue(b) \/ (~WriteDue(b) /\ EventDue(b))
    /\ bev[b].ctx # NoBev
    /\ \E x \in Inspections(b) : MayEndProcess(x[1], x[2], block_addr_list)
    /\ alive' = FALSE
    /\ UNCHANGED <<bev, queue, loop, block_addr_list, peers, held>>

-----------------------------------------------------------------------------
(* The peers.                                                               *)

\* A peer is there once its connection is established.
Peer(b) == alive /\ Live(b) /\ bev[b].link = "up"

PeerSend(b) ==
    /\ Peer(b) /\ shut[b] = "open"
    /\ Len(sent[b]) < MaxSend[b[2]]
    /\ \E l \in Lines :
        /\ wire' = [wire EXCEPT ![b] = Append(@, l)]
        /\ sent' = [sent EXCEPT ![b] = Append(@, l)]
    /\ UNCHANGED <<bev, queue, loop, block_addr_list, alive, shut, received,
                   held>>

PeerCloses(b) ==
    /\ Peer(b) /\ shut[b] = "open"
    /\ shut' = [shut EXCEPT ![b] = "fin"]
    /\ UNCHANGED <<bev, queue, loop, block_addr_list, alive, wire, sent,
                   received, held>>

PeerResets(b) ==
    /\ Peer(b) /\ shut[b] # "rst"
    /\ shut' = [shut EXCEPT ![b] = "rst"]
    /\ UNCHANGED <<bev, queue, loop, block_addr_list, alive, wire, sent,
                   received, held>>

-----------------------------------------------------------------------------
SocketEvent(b) ==
    \/ Connected(b) \/ ConnectFailed(b)
    \/ SocketRead(b) \/ SocketReadEnd(b)
    \/ SocketWrite(b) \/ SocketWriteError(b)

Callback(b) ==
    \/ RunReadcb(b) \/ RunWritecb(b) \/ RunEventcb(b)
    \/ CallbacksDone(b) \/ ProcessEnds(b)

PeerStep(b) == PeerSend(b) \/ PeerCloses(b) \/ PeerResets(b)

Next ==
    \/ \E c \in Conns : accept_cb(c) \/ accept_cb_refused(c)
    \/ \E b \in Bevs : SocketEvent(b) \/ Callback(b) \/ PeerStep(b)
    \/ Dispatch

Spec == Init /\ [][Next]_vars

\* The loop serves every socket that is ready and runs what it deferred; a
\* connection attempt ends; SocketWrite stands for a peer that goes on reading.
Fairness ==
    /\ WF_vars(Dispatch)
    /\ \A b \in Bevs :
        /\ WF_vars(Connected(b) \/ ConnectFailed(b))
        /\ WF_vars(SocketRead(b)) /\ WF_vars(SocketReadEnd(b))
        /\ WF_vars(SocketWrite(b)) /\ WF_vars(SocketWriteError(b))
        /\ WF_vars(Callback(b))

FairSpec == Spec /\ Fairness

-----------------------------------------------------------------------------
(* Safety.                                                                  *)

\* Every variable has its type.
TypeOK ==
    /\ bev \in [Bevs -> BevState]
    /\ queue \in Seq(Bevs)
    /\ loop \in {"poll", "callbacks"}
    /\ block_addr_list \in Seq(Entries)
    /\ alive \in BOOLEAN
    /\ wire \in [Bevs -> Seq(Lines)]
    /\ shut \in [Bevs -> {"open", "fin", "rst"}]
    /\ sent \in [Bevs -> Seq(Lines)]
    /\ received \in [Bevs -> Seq(Lines \cup {BlockMsg})]
    /\ held \in [Bevs -> [at : Int, input : Seq(Lines)]]

\* b and its partner hold each other as ctx and have readcb installed.
Joined(B, b) ==
    /\ B[b].mem = "live" /\ B[b].ctx = Other(b)
    /\ B[Other(b)].mem = "live" /\ B[Other(b)].ctx = b
    /\ B[b].readcb
    /\ B[b].writecb \in {"null", "drained_writecb"}

\* b only writes what is left and closes; its partner is gone.
Closing(B, b) ==
    /\ B[b].mem = "live" /\ B[b].ctx = NoBev
    /\ B[Other(b)].mem = "freed"
    /\ ~B[b].readcb /\ ~B[b].read
    /\ B[b].writecb = "close_on_finished_writecb"

\* No callback is left for b, whatever is still queued for it.
Silent(B, b) ==
    B[b].mem # "live" /\ ~B[b].readcb /\ B[b].writecb = "null"

Paired(B) == \A b \in Bevs : Joined(B, b) \/ Closing(B, b) \/ Silent(B, b)

\* No callback runs on a freed bufferevent or is given one as its partner:
\* however the events of the two sides are queued, a bufferevent has a live
\* partner that points back to it, or no partner and only the task of closing,
\* or no callback (readcb, drained_writecb and eventcb dereference ctx).
NoDanglingPartner == Paired(bev)

EndPending(b) == bev[b].pend \cap Events # {} /\ Queued(queue, b)

\* drained_writecb is installed at b, and a write is still to come or due.
WillDrain(b) ==
    /\ bev[b].writecb = "drained_writecb"
    /\ \/ Len(bev[b].output) > bev[b].low
       \/ "write" \in bev[b].pend /\ Queued(queue, b)
       \/ EndPending(b)

\* A side whose reading is off has someone to turn it on again or to free it:
\* readcb disables EV_READ when the partner's output is full, and only the
\* partner's drained_writecb, run after a write below the watermark, enables
\* it.  The exception is a side that block_msg silenced.
NoLostWakeup ==
    \A b \in Bevs :
        Joined(bev, b) /\ ~bev[b].read =>
            \/ Blocked(b)
            \/ EndPending(b)
            \/ WillDrain(Other(b))

Payload(s) == Without(s, BlockMsg)

\* What b's peer sent and the proxy has passed to the other side.
Relayed(b) == Payload(received[Other(b)]) \o Payload(bev[Other(b)].output)

\* The proxy neither loses, repeats nor reorders what it relays, whatever
\* block_msg writes between: the other side gets a prefix of what was sent,
\* and as long as both sides are up the rest is in the input or on the wire.
Conservation ==
    \A b \in Bevs :
        /\ IsPrefix(Relayed(b), sent[b])
        /\ Joined(bev, b) =>
               Relayed(b) \o bev[b].input \o wire[b] = sent[b]

\* Choking bounds the memory of a connection whose peer does not read: one
\* read beyond the limit, and one block message.
BoundedOutput ==
    \A b \in Bevs : Len(bev[b].output) <= MaxOutput + MaxRead

\* Nothing of b's stream from the blocked input on has been relayed.
HeldBack(b) == Len(Relayed(b)) <= held[b].at

\* Blocked input that the rules on content reject however its last line goes on
\* is never relayed, nor anything the peer sends after it: not when a drained
\* partner turns reading on, and not when eventcb runs readcb on it again, with
\* other bytes behind it on the heap, another address or a shorter block list.
RejectedHeldBack ==
    \A b \in Bevs :
        Blocked(b) /\ RejectedForGood(held[b].input) => HeldBack(b)

\* How a connection looks to its peers.
Phase(b) ==
    CASE bev[b].mem = "new" -> "new"
      [] bev[b].mem = "freed" -> "closed"
      [] bev[b].mem = "live" -> IF bev[b].ctx = NoBev THEN "closing" ELSE "open"

Seen == INSTANCE Tunnel WITH
            Answer  <- BlockMsg,
            phase   <- [b \in Bevs |-> Phase(b)],
            due     <- [b \in Bevs |-> received[b] \o bev[b].output],
            stopped <- [b \in Bevs |-> Blocked(b) /\ RejectedForGood(held[b].input)]

\* With all its buffers, deferred callbacks and flow control a connection is no
\* more than two judged streams: each callback is at most one step of Tunnel.
ImplementsTunnel == Seen!Spec

-----------------------------------------------------------------------------
(* Liveness.                                                                *)

Gone(b) == ~Live(b) /\ ~Live(Other(b))

\* When a peer closes or resets, both sides are freed in the end (eventcb,
\* close_on_finished_writecb), unless block_msg has stopped the reading that
\* would notice it.
EndClosesBoth ==
    \A b \in Bevs :
        Live(b) /\ shut[b] # "open" ~>
            Gone(b) \/ Blocked(b) \/ ~alive

\* What a peer sends reaches the other side's socket as long as the two sides
\* stay joined, however often they choke each other.
Delivery ==
    \A b \in Bevs :
        []<>(Joined(bev, b) /\ ~Blocked(b) /\ alive =>
                Payload(received[Other(b)]) = sent[b])

\* A peer that was blocked gets block_msg's answer unless it resets.
BlockedIsAnswered ==
    \A b \in Bevs :
        Blocked(b) ~>
            \/ \E i \in DOMAIN received[b] : received[b][i] = BlockMsg
            \/ shut[b] = "rst" \/ ~alive

-----------------------------------------------------------------------------
(* What comments and documents of the code say, and it does not do.         *)

\* proxy.c:95 "if return true, blocks...": what filter_check rejects, for
\* whatever reason, is not relayed later.
BlockedHeldBack ==
    \A b \in Bevs : Blocked(b) => HeldBack(b)

\* proxy.c:275 "We still have to flush data from the other side, but when
\* that's done, close the other side": a side that closes has written
\* everything, unless its socket failed.
FlushedBeforeClose ==
    [][\A b \in Bevs :
        Closing(bev, b) /\ bev'[b].mem = "freed" =>
            bev[b].output = <<>> \/ "error" \in bev[b].pend]_vars

\* A step relays nothing of b's stream.
NothingRelayed(b) == IsPrefix(Relayed(b)', Relayed(b))

\* bufferevent_get_addr knows the address of c's client.
AddrKnown(c) == <<c, "in">> \notin Inet6 /\ shut[<<c, "in">>] # "rst"

\* opt_extract.c:61 "Config Blocklist in config/blocklist_ip.txt": a request
\* of a client whose address that file lists is not relayed, at least while
\* getpeername knows that address.
ListedClientsBlocked ==
    [][\A c \in Conns :
        /\ blocklist_ip(PeerAddr[c], BlockList)
        /\ AddrKnown(c)
        /\ RequestForGood(bev[<<c, "in">>].input)
        => NothingRelayed(<<c, "in">>)]_vars

\* What does hold of the block list: its first line is enforced on every
\* connection of an IPv4 client, for as long as getpeername knows the client,
\* however often strtok has cut the list.
FirstListedBlocked ==
    [][\A c \in Conns :
        /\ BlockList # <<>> /\ <<PeerAddr[c], Head(BlockList)>> \in Inside
        /\ AddrKnown(c)
        /\ RequestForGood(bev[<<c, "in">>].input)
        => NothingRelayed(<<c, "in">>)]_vars

\* README.md:39 "you can use pcre, horspool, and libinjection mode protections
\* simultaneously": a request a regular expression rejects is not relayed.
PcreRejectedHeldBack ==
    [][\A b \in Bevs :
        PcreRejected(bev[b].input) => NothingRelayed(b)]_vars
=============================================================================
