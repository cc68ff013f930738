# OctopusWAF in TLA+

OctopusWAF is a reverse proxy that inspects what passes through it and answers
a request it does not like with a block page. It is one process, one thread and
one libevent loop. This directory holds a TLA+ model of it, the TLC
configurations that check the model on small instances, and proofs for every
instance.

Paths below are relative to the repository (`src/proxy.c` here is
`src/src/proxy.c` in `PROJECT.json`, which counts from the directory above).

## The system

| Part | Code | State | Operations | Correct when |
|---|---|---|---|---|
| Relay | `src/proxy.c` | two bufferevents per connection: buffers, callbacks, `ctx`, enabled events, watermark | `accept_cb`, `readcb`, `drained_writecb`, `close_on_finished_writecb`, `eventcb`, `block_msg` | no callback meets a freed partner; data keeps its order; output is bounded; reading that was turned off comes back; both sides are freed in the end; blocked input goes nowhere |
| Request inspection | `src/proxy.c` `filter_check`, `src/validate.c` `is_request` | none of its own | decode, recognise a request, run the detectors in order | the verdict depends on the request and the rules only |
| Block list | `src/blocklist.c` | `param.block_addr_list`, shared by all connections | `blocklist_ip` | every listed address is blocked, every time |
| Rule application | `src/matchlist.c` | a private copy of the rules | `matchlist` | a text is rejected when some rule matches it |
| Match algorithms | `src/match_algorithms.c` | none | `DFA_Search`, `horspool_search`, `Rabin_Karp_search`, `pcre_regex_search` | they find an occurrence exactly when there is one, and read nothing outside their arguments |
| SQL injection detector | `src/libinjection_sqli.c` (vendored), its data header (generated) | a token window, statistics | `libinjection_is_sqli`: tokenizer, fold, fingerprints in several contexts | every read is in the text; the fold ends and keeps its window in bounds; a comment, a repetition or a left-out pass does not change what is judged |
| Text utilities | `src/utils.c` | none | `urldecode` | output fits its buffer and is the text that was encoded |
| Logging and files | `src/file_ops.c` | the log file | `read_lines`, `log_make`, `write_log` | a failure has a known effect |
| Bounded strings, memory | `src/strsec.c`, `src/mem_ops.c` | none | `strlcpy`, `strnstr`, `xmallocarray` | results stay inside their bounds |
| Options | `src/opt_extract.c` | `param` | `parser_opts` | the server runs only with a complete configuration, and the one asked for |
| Start-up and signals | `src/OctopusWAF.c`, `src/server.c`, `src/utils.c` | listener, signal handlers | `main`, `start_octopus_server`, `No_Pause_Waf` | rules are loaded before the first connection; signals do not end the process |

How they interact: the loop calls the relay's callbacks; `readcb` (also when
`eventcb` calls it to flush) calls `filter_check`, which calls the block list,
the rules, libinjection and PCRE one after the other **on one decoded buffer**,
and the log. The only state that outlives a call besides the bufferevents is
`param`, and of `param` only the block list is written after start-up, by
`strtok`.

What is hard here, and what the properties are for:

* **Deferred callbacks.** Both bufferevents have `BEV_OPT_DEFER_CALLBACKS`, so
  what a poll found is handled later, one bufferevent after the other; a
  callback can free, silence or rewire the other side while that side's own
  callbacks are already queued.
* **Three reasons to stop reading** (choke, block, close) share one `EV_READ`
  flag and one watermark.
* **Verdicts are taken twice** on blocked input (`eventcb` calls `readcb`
  again), and inspection has side effects (`strtok`) and unstable inputs (an
  unterminated copy, an unchecked `getpeername`).
* **Loops with indices** over text from outside (the decoder, three searches,
  some thirty SQL parsers, a fold that goes back to its start): each keeps its
  own positions, in chars that are signed and ints that trap.
* **No timeouts**: whatever is to happen eventually must follow from a peer's or
  the loop's next step.

The list with lines is `hazards` in `PROJECT.json`.

## Modules

| Module | Models | Composition |
|---|---|---|
| `Filter` | the inspection of one buffer, as operators | |
| `Proxy` | the loop, the connections, their peers | extends `Filter`, instantiates `Tunnel` for the refinement |
| `Tunnel` | what two peers may observe of a connection (abstract) | |
| `Match` | `urldecode`, `matchlist` and the searches, loop by loop | |
| `SqliTable` | the 8367 fingerprints of the data header | |
| `SqliTokens` | the parsers and the tokenizer of libinjection | |
| `SqliFold` | `libinjection_sqli_fold` | extends `SqliTokens` |
| `Sqli` | `libinjection_is_sqli` | extends `SqliFold`, instantiates `SqliTable` |
| `Startup` | `main` up to and in the loop, signals | |
| `MCProxy`, `MCMatch`, `MCSqli`, `MCStartup` | values for the constants | each extends its module |
| `Streams` | `Without`, a stream less the proxy's own messages | used by `Proxy` and `Tunnel` |
| `StreamProofs` | induction, recursive functions, `Without`, `Min`, `Max`: lemmas | extends `Streams` |
| `FilterProofs` | theorems on `filter_check` | extends `Filter`, `StreamProofs` |
| `ProxyProofs` | theorems on types and pairs, and on flow control | extends `Proxy` |
| `ProxyTunnel` | theorems on the streams, on blocking, and the refinement | extends `ProxyProofs`, `FilterProofs` |
| `MatchProofs` | theorems on the decoder and the searches | extends `Match`, `StreamProofs` |
| `SqliProofs` | theorems on the tokenizer, the fold and the verdict | extends `Sqli`, `StreamProofs` |
| `SqliTextProofs` | theorems on where kept tokens are in the text, on the fold's work and on what its rules drop | extends `SqliProofs` |
| `StartupProofs` | theorems on options, start-up and signals | extends `Startup`, `StreamProofs` |

`Filter` asks of a line only which detectors reject it; `Match` and `Sqli` say how
a detector comes to that. They share no state (a detector keeps none between
calls), so they are checked apart.

### Filter

Text is a sequence of *lines*; a line is an opaque value standing for the bytes
between two newlines. A line's own relation to a detector is a set
(`MatchLines`, `SqliLines`, `PcreLines`): what the regular expression or the
SQL tokenizer computes for it is not the point here. What is kept is what
depends on more than one line, or on earlier calls:

* `data` is not terminated. What the heap holds behind it continues the **last
  line**, which may thereby become another one (`Continued`, `Continuations`),
  and after a newline may be more text (`Texts`; one line of it, a bound). A longer line
  may have another fingerprint or fail a rule, so a verdict on the last line can be
  lost as well as won. A NUL byte in the input ends the text early. An input that is
  empty stays below the ten characters `is_request` asks for, because the allocation
  holds no more than that.
* a regular expression with `$`, or one that looks ahead, may match only where the
  text ends (`PcreEnd`, `PcreFindsAtEnd`); the others match whatever follows
  (`PcreFinds`).
* an escape may decode to a newline (`Urldecode` maps a line to several) or to
  a NUL byte; `urldecode` writes on past its buffer when the text is longer
  than the limit given to `strnlen` (`OverrunsTmpbuf`).
* `matchlist` and PCRE see at most that limit (`Scanned`), `split_and_check`
  sees all of the buffer, and leaves NUL bytes where its newlines were, before
  PCRE runs: `pcre_matchlist(tmpbuf, split)` has one relation for pairs of
  lines joined by a newline and one for pairs joined by a NUL byte.
* `blocklist_ip` looks at the list as earlier calls left it; `blocklist_after`
  is what it leaves. The first call sees all lines and cuts the string at
  every newline it passes, so later calls see the first.
* `filter_check` gives the verdict and the list; `MayEndProcess` collects the
  ways it ends the process: `write_log` exits when the log cannot be opened, a
  NULL address (`addr_2_str` of a family it does not know) goes to `strnstr`
  or `strlen`, a rule that does not compile exits and one that traps in Karp-Rabin
  aborts (`RulesMayEnd`), an overrun may do anything and is taken to end the process.

Three operators say what the rules promise of a buffer. `ContentRejected` is the
verdict of the rules on content on one text, but for matches that need its end. `RejectedForGood` asks for it in every
continuation of the buffer: that is what a later inspection, with other bytes on the
heap, cannot take back. `RequestForGood` is the same of `is_request`.

### Proxy

`bev[b]` is the record of one bufferevent; `b` is `<<connection, "in">>` for
the client's and `<<connection, "out">>` for the server's. `readcb`,
`drained_writecb`, `close_on_finished_writecb`, `eventcb` and `block_msg` are
operators of the same names from the bufferevents to the bufferevents, since
`eventcb` calls `readcb` on the way; `Forward`, `Choke`, `CloseWhenFlushed` and
`ClosePartner` are the pieces the code has as blocks. An action runs one whole
callback.

| Action | Code |
|---|---|
| `accept_cb`, `accept_cb_refused` | `accept_cb`, and its early return |
| `RunReadcb` | a deferred read callback: `readcb` with `filter_check` |
| `RunWritecb` | a deferred write callback, whichever is installed |
| `RunEventcb` | a deferred EOF or ERROR: `eventcb` with its `readcb` |
| `ProcessEnds` | a `filter_check` that does not come back |
| `Connected`, `ConnectFailed`, `SocketRead`, `SocketReadEnd`, `SocketWrite`, `SocketWriteError`, `Dispatch`, `CallbacksDone` | libevent (external) |
| `PeerSend`, `PeerCloses`, `PeerResets` | the client and the server (external) |

libevent is not in the repository. It is modelled from how the code uses it,
and from these facts: socket events found by one poll only record what happened
(`pend`) and queue the bufferevent once; the queue is run to its end before the
next poll; a bufferevent in the queue gets its read, then write, then event
callback, each with the callbacks and `ctx` installed *at that time*; EOF and
errors turn reading off; a write callback is due when no more than the low
watermark is left; `bufferevent_free` drops what was recorded. `BEV_EVENT_CONNECTED`
is left out, `eventcb` ignores it. A queue longer than the 32 callbacks that
libevent runs at a stretch does not occur in the instances.

`received` and `sent` record what was written to and sent by each peer, and
`held` what was in the buffer when a side was first blocked; they are history
and no guard reads them. `sent` also carries the bound on a peer's lines.

The address that `filter_check` gets is what `bufferevent_get_addr` returns: the
peer's; any, or none, when `getpeername` fails on a socket that is reset or not
connected; and any for the sides in `Inet6`, because the 16 bytes of a `struct
sockaddr` cut an IPv6 address and `inet_ntop` reads the rest from the stack
(`src/proxy.c:27-33`, `86-90`).

Abstractions to know of: the byte limit `MAX_OUTPUT` (512 KiB) is a number of
lines, `MaxOutput`; one read event takes at most `MaxRead` lines, and a read
callback inspects whatever the buffer holds, so a request may be judged in
pieces, as in the code (a read takes whole lines: one that ends within a line is not
modelled, except that the line itself may be any); a reset leaves what was on the wire readable; SSL is
absent, because `ssl_ctx` is `static` in `proxy.h` and `proxy.c`'s copy is
never set, so those branches of `accept_cb` cannot run.

### Tunnel

The abstract specification of a connection: per end a phase, what the peer has
`sent`, what is `due` to it and what it has `received`, and whether its stream is
`stopped`. A piece of a stream is judged: passed on, in order and once, or
refused with an answer to its sender; a stopped stream passes nothing. `End`
closes an end after a last judgement, and its partner at once only if nothing is
due to it. `Proxy` implements it (`ImplementsTunnel`, by `Seen == INSTANCE Tunnel
WITH ...`): `due` is what was received and what is in the output buffer, the phase
comes from `mem` and `ctx`, `stopped` from `held`, for what the rules on content
reject for good: a stream blocked for another reason may be judged again. The
mapping forgets buffers, watermarks, callbacks and the queue. The refinement is
checked by the run `filter` and proved in `ProxyTunnel`.

### Match

A text is a sequence of signed chars without its NUL. `DecodeChar` is a turn of
`urldecode`'s loop, `NextLine` one of `matchlist`'s, `DfaStep`, `HorspoolCompare`,
`HorspoolShift` and `KarpRoll` those of the searches. The transition table is
the operator `TF`: row and column as in the code, so that a negative char reads
in the row before, and before the first row anything, a value that is no row
included (`DfaLost`). `badCharHtable` has the same hole, for the text's chars when it
is read and for the rule's when it is written (`HorspoolLost`); that the write may
change another variable and the search go on is not modelled.
Karp-Rabin's arithmetic is that of an int of `IntBits` bits: sums, differences and
products that do not fit end in `trapped` (the build has `-ftrapv`), shifts drop
bits. What lies after the text's NUL is any char (`FirstWindows`). PCRE is two
constants.

### SqliTokens, SqliFold, Sqli, SqliTable

A text is a sequence of characters. Each parser of the code is an operator of the
same name from the text and a position to a token, the next position and the
dialect-specific comments it counted; `char_parse_map` chooses one. The searches
the parsers are written with (`memchr2`, `strlencspn`, ...) are sets of positions.

`SqliFold` is the loop of `libinjection_sqli_fold`, one action per turn and kind of
outcome. The chains of `else if` are tables (`TwoTokenRule`, `ThreeTokenRule`) that
name the first rule that applies; rules with the same effect share an action.
`Sqli` runs the fold in the contexts that `libinjection_is_sqli` tries and judges
each fingerprint. `SqliTable` has the black list, compressed: a section of the
sorted table is a set of rows, a row a sequence of sets of types. It holds exactly
the table's words of type `F`. The other words of the table are the constant
`Keywords`; an instance lists those its texts can form.

The model was compared with the compiled C code outside this project: on
more than 140 000 pairs of a text and a context the fingerprints and verdicts
were the same.

### Startup

One action per call of `main` and `start_octopus_server` that can fail, one per
option, one per rule file. `SignalArrives` pushes a handler in which the thread
waits for a key (`KeyPressed`); every other action needs the thread to be outside
of them (`At`). `getopt_long` is modelled for options written in full, with their
argument in the next word; abbreviations, `--x=y` and `-xy` are left out.
`given` records the options parsed. `strlcpy`, `strnstr` and `xstrndup` are by
character; the options' limits (256, 127, 12, 11, 10, 8, 3) are the code's.

## Properties and runs

| Run | Instance | Checks |
|---|---|---|
| `filter` | lines with an escaped newline, a NUL byte and a continuation that is judged otherwise, a rule with `$`, a log file, limit 2 | `RejectedHeldBack`, `Conservation`, `ImplementsTunnel` |
| `choke` | the server sends 5 lines, the client 1, either may be blocked | `TypeOK`, `Conservation`, `BoundedOutput`, `NoLostWakeup` |
| `shared` | two connections, both clients listed, one over IPv6 | `NoDanglingPartner`, `FirstListedBlocked` |
| `live` | fairness, lines that are blocked and lines that pass, 2 sent by the client and 1 by the server, `MaxOutput = 1` | `EndClosesBoth`, `Delivery`, `BlockedIsAnswered` |
| `match` | raw texts of up to 7 chars, escaped ones of up to 3, files of 1 to 3 rules, four algorithms | `DecodeInBounds`, `DecodesEncoding`, `LongestPrefix`, `NoneSkipped`, `RollingHash`, `ShortNeverTraps`, `VerdictIsOccurrence`, `SearchAdvances` |
| `sqli` | texts of characters, lexemes and words | `WindowInBounds`, `CommentIsLast`, `NothingRepeated`, `DropsWhatItMatched`, `FoldIsLinear`, `TokensInText`, `SkippedPassIsTheSame`, `ReadsInText`, `EvilIsSqli`, `ScanAdvances` |
| `startup` | command lines with every option | `ServesComplete`, `AlgorithmAsAsked`, `FlagsAsAsked`, `ThreeKeysResume`, `StrnstrFindsFirst`, `NotTerminated` |
| `recheck`, `flush`, `blocklist`, `pcre`, `trap` | see Findings | one property each, violated |

*Pairs.* `NoDanglingPartner`: each bufferevent is `Joined` (it and its partner
are live and point at each other), `Closing` (no partner, no reading, only
`close_on_finished_writecb`), or `Silent` (no callback). So no callback is given
a freed bufferevent, though frees and queued callbacks interleave freely.

*Flow control.* `NoLostWakeup`: on a joined side whose reading is off, either
the side was blocked, or its end is already queued, or `drained_writecb` is
installed on the partner and will be called. `BoundedOutput`: no output exceeds
the limit by more than one read. `Delivery` is the same seen from the peers.

*Data.* `Conservation`: what was passed on, what is in the input and what is on
the wire are together exactly what the peer sent, in order, while the sides
are joined, and a prefix of it always.

*Blocking.* `RejectedHeldBack`: from input that the rules on content reject,
whatever its unterminated last line goes on as, nothing is relayed later, not
through a choke that ends and not through the second inspection at the end of the
connection. Of what they reject *as it was received* this would not be true: in the
instance of `filter` the blocked request `GET`, `sqli` is judged again in `eventcb`
with `-` behind it, and is relayed. `FirstListedBlocked`: the first line of the block
list is enforced on IPv4 clients in every state, as long as `getpeername` knows them.
`BlockedIsAnswered`.

*Closing.* `EndClosesBoth`: a close or reset of either peer leads to both sides
freed, unless that side was blocked, and so does not read any more. A blocked side
whose peer closes, and a closing side whose peer never reads, may stay for ever
(`src/proxy.c:60`, `279`): the exception and the fairness of `SocketWrite` keep these
two hazards out of the property, and no document says that they do not occur.

*What the peers see.* `ImplementsTunnel`: whatever buffers and deferred callbacks
do, a step is one of `Tunnel` or nothing to the peers. It is more than
`Conservation`: an end is closed at once only with nothing due to it, a stream
stopped by a rule on content stays stopped, nothing is delivered to an end that
is gone.

*Decoding.* `DecodeInBounds`: no escape at the end of a text makes `urldecode` read
past the NUL, and a text within the limit of `strnlen` fits its buffer.
`DecodesEncoding`: whatever is escaped, in either case of the digits, `matchlist`
sees the text that was meant.

*Searching.* `LongestPrefix` is the automaton's invariant, `RollingHash`
Karp-Rabin's (the bytes read beyond the text never reach a comparison),
`NoneSkipped` says of all three that no occurrence is behind them, and
`SearchAdvances` that Horspool moves on. `ShortNeverTraps`: patterns of up to
`IntBits - 8` characters never overflow. `VerdictIsOccurrence`: the whole loop
answers that some rule, cut as the code cuts it, occurs in the text. For the
automaton and Horspool these are about ASCII texts; for bytes above 127 the code's
outcome depends on the stack. The model has a wrong verdict and a crash there, but
not every effect of the write before `badCharHtable` (`src/match_algorithms.c:117`).

*SQL.* `WindowInBounds`: at most six tokens are read, a rule looks at tokens that
were read and drops tokens that are there. `FoldIsLinear`: going back to the first
token costs at most `WorkPerToken` steps per token read: 75, the number that is
proved (texts of ever more signs after a name need 15). `DropsWhatItMatched`: rules
shorten the vector at its end, which is right only when the tokens they matched
are the last ones. It says so of the eight rules that compare marks; the other
rules may fire on tokens that the loop has gone past, after one of them was given
another type, and then drop tokens they have not matched (see Findings).
`CommentIsLast`, `NothingRepeated`, `EvilIsSqli`: what a fingerprint may hold.
`TokensInText`, `ScanAdvances`, `ReadsInText`: positions. `SkippedPassIsTheSame`: a
MySQL pass that is left out would have read the same tokens.

*Start-up.* `ServesComplete`: when the loop runs, all three rule texts are there
and both addresses are the ones last asked for, as far as `xstrndup` copies them
(256 characters: a longer address is cut and may still parse). `AlgorithmAsAsked`,
`FlagsAsAsked`: so are the algorithm and the detectors, unless an option took the
next for its argument. `NotTerminated`, `ThreeKeysResume`: signals.
`StrnstrFindsFirst`: `strnstr` against the definition of a first occurrence.

**Bounds.** `MaxOutput = 2` with a low watermark of 1 makes "full", "draining"
and "drained" three different states; `MaxRead = 2` makes a read that fills the
buffer at once and one that does not; three lines are a choke, its release and
one more choke. In `live`, `MaxOutput = 1` makes every line a choke and its
release. In `filter`, the line that decodes to two is rejected for good, `GET` and
`sqli` only as they were received, `GET` alone by the rule with `$` until something
follows, and what a second line adds comes after a verdict or before it. One connection is enough for the properties of a pair, since
pairs share only the callback queue and the block list, which `shared` and
`blocklist` have: of two clients with one line each, one cuts the list for the other.
`MaxSend` is the only bound on behaviours. Deadlock is not checked in `Proxy`'s
runs and in `startup`: the process may exit, and peers may stop with everything
said and done. It is checked in `match` and `sqli`, where a run that ends says so.

In `match`, patterns of three and four characters over two letters have every
kind of border (none, one, overlapping ones) and texts of seven hold two
overlapping occurrences and an attempt before them. `IntBits = 12` makes four
characters what 24 are to 32 bits: patterns on both sides of the limit occur.
`ScanLimit = 7` and `LineLimit = 8` are passed by one text and one rule. In `sqli`
the texts are all words of up to four characters over four small alphabets, one
for each group of parsers, and all phrases of up to three to six lexemes, chosen
so that every action, every rule of the two tables and the sixth token occur;
names longer than a token (33 characters) and the characters that have no letter
are among them, and so are phrases in which IN becomes a name behind the loop
(`Signs`) and one in which the loop goes back to the first token 24 times. In `startup`, words are as long as the code's limits make a
difference for (6 and 7, 10, 11 and 12 characters).

**Fairness** (`live` only): the loop serves every socket that stays ready and
runs what it deferred, which is what `event_base_dispatch` does; a connection
attempt ends, since TCP gives up; `SocketWrite` is fair, which says that a peer
goes on reading. Nothing is assumed of peers sending or closing. The code has no
timeouts, so without the assumption on reading `Closing` sides would stay
forever. A signal handler that waits for a key (`src/utils.c:48`) would break
the first assumption.

## Findings

* `recheck`: blocked input stays in the buffer, `eventcb` inspects it again,
  and the verdict may differ: it is relayed after its block page was sent
  (`src/proxy.c:271`). In the run it is the address of a client that has reset; a
  block list that was cut and an unfinished last line (see `RejectedHeldBack`) are
  other ways to it.
* `flush`: when both peers end in one poll, the second `eventcb` frees a side
  with output left (`src/proxy.c:288`, against the comment at 275).
* `blocklist`: `strtok` on the configuration itself leaves one line of the
  block list after the first inspection (`src/blocklist.c:14`). In the run one
  connection's request is inspected, and then that of a client on the second line
  of the list, on another connection, passes. `AddrKnown` keeps resets and IPv6 out
  of this property.
* `pcre`: `strtok` in `split_and_check` cuts the buffer the regular expressions
  get next (`src/proxy.c:71`, against `README.md:39`).
* `trap`: Karp-Rabin's roll multiplies a character by `z`, that is 2 to the length of
  the rule less one, and the build traps overflow (`src/match_algorithms.c:188`,
  `src/Makefile:9`). For rules of 26 to 32 characters the product with a letter
  does not fit an int, so the first roll aborts, whatever the text; from 33 on `z` has
  been shifted out to 0. `config/match_list_request.txt:16` and `:28` are rules of 29
  and 31 characters, so the third algorithm that the help text offers aborts with the
  shipped rules at requests that get as far. (25 characters may overflow in the
  difference.) The instance has rules of 6 characters in an int of 12 bits, and its
  property is about plain texts no shorter than the rule.

Seen on the way, without a document to hold the code to: a byte above 127 indexes
`TF` and `badCharHtable` before their start, and line 18 of the shipped match list
has such bytes; `libinjection_sqli_not_whitelist` looks for the character after a
number at the number's length, not at its end, so leading white space shifts it
(line 2129); the fold's result has six tokens when the sixth makes it evil.

The rules on three tokens that replace an operator (`src/libinjection_sqli.c:1795`,
"remove unary operators") or drop what follows one shorten the vector at its end.
When a rule fires late, because IN became a name behind the loop, other tokens are
lost: the compiled code folds `select - in a = -` to `select in in a`, but
`select - b a = -` to `select b a =`. The model does the same; no property holds the
code to the comment.

## Proofs

TLC checks the instances above; the theorems hold for every value of the
constants. The assumptions are the named ones the modules state:
`FilterAssumption` (types of the relations, that a NUL byte decodes to itself, as
`urldecode` copies what is no escape, and that a line continues itself, with nothing), `ProxyAssumption` (types; `MaxOutput`
and `MaxRead` positive; the block page is no line of a peer), `MatchAssumption`
(signed chars without NUL, more than 8 bits in an int, `LineLimit` > 4),
`StartupAssumption` (letters are those of the option string, a word has one dash
or two, a null pointer is no word and no position), `SqliTokensAssumption`
(`TokenSize` at least 2; `Keywords` gives words the types that the data header gives
words, which are not the types of comments, strings and punctuation; of a phrase
every word starts with a letter, and none says the same words twice in a row),
`SqliFoldAssumption` (no phrase of `Keywords` ends in the name of a function; one that
is a name or a function has no underscore; one that ends in IN, in LIKE or in another
phrase has none either, and is no type). The 985 words of the header, 108 of them
phrases, are so. The theorems
on `Startup` have the hypothesis `WellFormed(commands)`: a command line is a
sequence of words, a word one of characters; those on `Sqli` that a text is a
sequence of characters, any characters. TLC evaluates the assumptions in the runs,
and has checked every inductive invariant named below on the instances of the runs.

**Relay.** `IInv == TypeOK /\ NoDanglingPartner` is inductive. *No callback gets a
freed partner* by itself is not, because nothing then ties `ctx` to the other
side's `ctx`; with `Joined` symmetric, a callback of one side determines the class
of both. There is a lemma per callback on its effect (types, then classes).

| Theorem | Property | Rests on |
|---|---|---|
| `TypeCorrect`, `PartnersSafe` | `TypeOK`, `NoDanglingPartner` | `IInv` |
| `OutputBounded` | `BoundedOutput` | `FlowInv`: `Fresh`, `Flow`, `Bound` |
| `NoWakeupLost` | `NoLostWakeup` | `FlowInv`, `WakeAt` |
| `NothingLost` | `Conservation` | `FlowInv`, `ConservedAt` |
| `RejectedIsBlocked`, `FinishedIsForGood` | (of `filter_check`) | `TextExtends`, `FinishedExtends`, `DetectorsExtend` |
| `RejectedIsHeldBack` | `RejectedHeldBack` | `HeldInv`, `RejectedIsBlocked` |
| `FirstLineEnforced` | `FirstListedBlocked` | `ListInv`, `InUp` |
| `TunnelImplemented` | `ImplementsTunnel` | `FlowInv`, `Conservation` |

*Flow control.* That output is bounded is not inductive: `readcb` may add a whole
read to what is there. `Flow` says of joined sides what makes room for it: while
`drained_writecb` is installed on the partner, the other side neither reads nor has
input left, and the watermark is half the limit; without it there is room for one
read (`Room`), and what is in the input is one read (`OneRead`); a side that was
blocked sends nothing more (`Silenced`). `Bound` leaves one place more for the
block page. `Fresh` says that a connection not accepted yet has no history.
`NoLostWakeup` is inductive relative to `FlowInv`: each callback that turns reading
off leaves one of the four reasons in `WakeAt`, and no step takes the last one away
without turning reading on.

*Streams.* `ConservedAt(b)`: what was relayed, the input and the wire are together
what was sent. `Without` removes the proxy's own answers from a stream; the lemmas
on it (in `StreamProofs`) say that it goes over concatenation, and each callback
moves a beginning from one place to the next.

*Blocking.* What is rejected need not stay rejected when the heap makes another line
of the last one, so `RejectedIsBlocked` has a hypothesis: the rules reject every
continuation of the buffer (`RejectedForGood`). The text that the filter sees, decoded,
extends a decoded continuation (`TextExtends`), and what the rules find in whole
lines they find in more of them (`DetectorsExtend`), the cut at `ScanLimit` and at a
NUL byte included; a match that needs the text's end (`PcreFindsAtEnd`) does not
count. `FinishedIsForGood` says when the hypothesis holds: whatever the last line
becomes, the lines before it decode as they did (`FinishedExtends`), so what is found
in them is found for good. `HeldInv` ties `held` to the input a blocked side still
has, so that the second inspection in `eventcb` judges a text of the same buffer.
`FirstLineEnforced` rests on `ListInv`: `strtok` has left the list as it was, or cut
after its first line, and cutting twice is cutting once; it speaks of the clients
whose address `bufferevent_get_addr` knows (`AddrKnown`), and of requests that are one
however their last line goes on.

*Refinement.* Under the mapping `Phases`, `Dues`, `Halts` each callback and each
socket event is one step of `Tunnel` or a stutter, one lemma per action; the last
judgement and the end in `eventcb` are one `End` of `Tunnel`.

Two properties changed while they were being proved. `NothingRelayed`, on which
`ListedClientsBlocked`, `FirstListedBlocked` and `PcreRejectedHeldBack` rest, said
that a step leaves what was relayed as it is. An error of the *partner* frees it
with its unwritten output, so that what was relayed shrinks; the property now is
that it does not grow (`IsPrefix(Relayed(b)', Relayed(b))`). `ServesComplete`
compared addresses with the words given; `xstrndup` copies 256 characters.

**Match.** `MatchInv` (types, positions) carries `DecoderInBounds` and
`HorspoolAdvances`; `DecodeInv` gives `EncodingIsDecoded`; `SearchInv` adds an invariant for each search and carries
`WindowIsHashed`, `NothingIsSkipped` and `StateIsLongest`; `VerdictInv` says what is
known of the rules behind the one in hand and gives `VerdictIsRight`.

* Decoder: `Encodes` says that a text is made of parts (a character, or an escape
  with digits of either case) that stand for the characters of another, part by part.
  `DecodeInv` ties the decoder's position to a part: what is written is what the parts
  before it stand for. `EscapeValue` computes an escape from its two digits.
* Horspool: the shift is the distance of the last character under the window to
  its last place in the pattern, so an occurrence at any place in between would
  have that character at a later place of the pattern (`BadCharacter`).
* Automaton: the state is the longest beginning of the pattern that ends here.
  `Ends(pat, text, n, k)` says that k characters of the pattern end at n; a longer
  border after a character gives one before it, which bounds it by the state's
  fallback (`NextIsLongest`). As everywhere in `Match`, for ASCII texts.
* Karp-Rabin: both hashes are sums of chars times powers of two, modulo
  `2^IntBits`. `HashRolls`: one step of the code's shifts and subtractions takes the
  hash of a window to that of the next one, by congruences (`SameRemainder`,
  `CongruentSum`), and two ints that are congruent are the same int.
* `ShortIsSafe`: no `-ftrapv` trap for patterns of at most `IntBits - 8` characters.
  The hash of k chars lies between `-2^(k+7)` and `2^(k+7)`, and so does every
  intermediate value of a roll (`RollBetween`).

**Startup.** `SignalInv` (handlers are set before anything else; no signal waits
twice) gives `SignalsHandled` and `KeysResume`. `ConfigInv` has one part for each of
the rest: `AddressInv` and `AlgorithmInv` tie `param` to the last entry of the history
`given`; `FilesInv` and `ParsedInv` say, place by place, which texts are read and
which addresses parsed; `FlagsInv` speaks of the words consumed so far, and, once
the options are through, says that no option is left among the others. They give
`ServedAsAsked`, `AlgorithmAsNamed` and `FlagsAsWritten`. `MatchAfterIs`: a name that
`strnstr` finds within its own length is found at the start, and the three names
begin with different letters, so at most one is found. `StrnstrIsFirst` compares
the two loops of `strnstr` with the first occurrence, from the end of the string on.

**SQL detector.** `SqliInv` is one inductive invariant with a part for each of the
theorems on the fold; all of them hold for every text, context and dialect.

| Theorem | Property | Rests on |
|---|---|---|
| `FoldKeepsToWindow` | `WindowInBounds` | `SqliType`, `KeptInv`, `ResultInv` |
| `CommentsAreLast` | `CommentIsLast` | `CommentInv`, `TokenRead` |
| `RepeatsAreFolded` | `NothingRepeated` | `RepeatInv`, the two rule tables |
| `EvilIsReported` | `EvilIsSqli` | `EvilInv`, the fingerprint table |
| `TokensMoveOn` | `ScanAdvances` | `TokenRead` |
| `SkippedPassIsNoLoss` | `SkippedPassIsTheSame` | `DialectsAgree` |
| `TokensStayInText`, `ReadsStayInText` | `TokensInText`, `ReadsInText` | `TextInv`, `InOrder` |
| `WorkIsLinear` | `FoldIsLinear` | `WorkInv` |
| `MatchedIsDropped` | `DropsWhatItMatched` | `PassedInv`, `Late` |

*Tokenizer.* Every parser has a lemma `...Parses`: from a position in the text it
returns one after it and not behind the end, and its token lies between the two.
`TokenizerParses` goes through `char_parse_map`, `TokenRead` through the white space
before a token. `parse_string_core` looks for a closing quote again and again, past
doubled and escaped ones; that its recursive functions exist is `JumpExists` and
`ClosingExists`. `DialectsAgree`: only `parse_hash` and `parse_dash` ask for the
dialect, and where their answer depends on it they count the comment.

*Fold.* `WindowInBounds` needs the types of all that is kept, because what a rule
leaves in the window is judged by the next. That a comment is last is not inductive
by itself: `CommentInv` adds that no kept token starts behind `last_comment`, and
none of them behind the position of the scan; a token read later resets it.
`NothingRepeated` speaks of the whole window, but a turn of the loop looks at two or
three tokens: `RepeatInv` says that the tokens before `left` do not repeat, and that
the loop does not stop with tokens behind `left` unless they are too few or the
first one is of no repeated type (`left` goes back to 0 after a rule). `EvilInv`: an
evil token makes the fingerprint the one character `X`, which is in the black list
and which nothing in the white list takes back.

*Places.* That kept tokens end in what was read is not inductive once words are
merged: a merged phrase has one place, the first word's, and a length one more than
the two words'. `InOrder` says of every two kept tokens with a name that something
lies between them in the text, or, since some rules copy a token over the one before
it, that the second starts with the very words the first one ends with (`Shared`). A
merge of two tokens of the second kind would be a phrase that says words twice, which
`Keywords` has not; after any other, the phrase is no longer than the text it came
from. `ReadsInText` needs in addition where a number with a comment behind it can
have come from.

*Work.* `steps` is bounded by a potential. Each kept token carries a weight, 48 for a
type or a number, which are what words are retyped to last, and 72 for any other; what the loop has to
do before the next token, from `left` on, is at most a fixed number of steps per token
of the window (`Owes`). Every rule that goes back to the first token drops a token or
retypes a word, and what that releases pays for going through the window again; a
token that is read pays 75. `WorkInv` is this sum.

*What rules drop.* Rules are tried on every two tokens before the loop goes past them,
so two tokens behind it that a rule would take must have changed since. `Passed` says
of the pairs and the triples behind the loop what may still happen to them: of a pair
(`Two`), that no rule on marks takes it, and that a merge, a cast or COLLATE takes it
only if its second token is `Late`; of a triple (`Three`) the same of a sign between
them. A `Late` token is a word that can have got its type or its value when the loop
was past it: IN, LIKE, USER or a phrase. It is no sign, no type and has no
underscore, so whatever comes to stand beside it no rule on marks takes the two
(`CalmTwo`, `CalmThree`). The rules that do fire late only drop tokens, or leave a
`Late` token or a number where they fired, and `SqliFoldAssumption` makes the phrases
that are merged there `Late` (`MergedLate`). Two neighbours are excepted: the last two
that are kept after a rule has dropped tokens, to which the loop goes back.

*Induction over data* needs no induction theorem with an operator parameter here:
`StreamProofs` proves induction for **sets** of naturals from the least element of
a set (`NaturalInduction`, `IntervalInduction`, `SequenceInduction`), and from it
that the recursive functions of the models exist and obey their equations
(`RecursionExists`, `KeptExists`; `HashingExists` and `SearchingExists` for the hash
and for `strnstr`).

**Only model-checked:** `EndClosesBoth`, `Delivery`, `BlockedIsAnswered` (liveness:
it needs fairness and `ENABLED`, which the provers do not handle).

Two properties of the SQL detector changed while they were being proved.
`DropsWhatItMatched` named two rules as the exceptions; the rules on three tokens and
those that merge, cast and brace can fire late too (see Findings), on texts longer
than the instance had. `FoldIsLinear` allowed 12 steps per token; a text with signs
after a name needs 15, and the instance now has one.

## Not modelled

TLS (unreachable, see `Proxy`); banners and debug output; what is in the log file;
memory, so neither the leak of `tmpbuf` (`src/proxy.c:170`) nor a failing
allocation; the core-dump limit; the SQL words of the data header that are no
fingerprints, except for the ones in an instance (data, about 980 lines);
libinjection's statistics that nothing reads and its entry points that OctopusWAF
does not use; `getopt_long`'s abbreviations and joined arguments. PCRE, libevent
and libc are external. Nothing calls `isnull_argv`, `chomp`, `deadspace`,
`test_letter`, `all2lowcase`, `strlcat`, the array allocators of `src/mem_ops.c`
and `LoadCertificates`.

## Plan

*Done*: all modules of the plan; every safety property that the runs check proved;
the refinement of `Tunnel` proved.

Left: liveness of `Proxy` beyond the instance, when the provers handle fairness.
