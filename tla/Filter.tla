------------------------------- MODULE Filter -------------------------------
(***************************************************************************)
(* The inspection of one buffer: filter_check and what it calls.           *)
(*                                                                         *)
(* Text is a sequence of lines, a line being a value that stands for the   *)
(* bytes between two newlines.  What a detector says of a line is a set of *)
(* lines (the configuration and the pattern decide it); what depends on    *)
(* the text as a whole, on strtok's side effects or on the order of the    *)
(* detectors is modelled.                                                  *)
(***************************************************************************)
EXTENDS Integers, Sequences, FiniteSets
LOCAL INSTANCE SequencesExt

CONSTANTS
    Lines,           \* the lines a peer may send, and the heap may hold
    Urldecode,       \* the lines each line decodes to ("%0A" makes several)
    Continued,       \* the lines each line may be the beginning of
    NulLines,        \* the lines that hold a NUL byte: a C string ends there
    RequestLines,    \* the lines that is_request takes for a request's head
    MatchLines,      \* the lines a rule of match_list_request.txt matches
    SqliLines,       \* the lines libinjection calls SQL injection
    PcreLines,       \* the lines a rule of regex_rules.txt matches
    PcreEnd,         \* those it matches only where the text ends with them
    PcreNewline,     \* the pairs of lines a rule matches across a newline
    PcreNul,         \* the pairs of lines a rule matches across a NUL byte
    ScanLimit,       \* 6128, the limit of strnlen, in lines
    Addrs,           \* the texts of addresses
    NullAddr,        \* addr_2_str's NULL for an unknown address family
    Entries,         \* the lines of blocklist_ip.txt
    Inside,          \* <<address, entry>>: strnstr finds the address there
    OptMatch,        \* param.option_algorithm # 0
    OptLibinjection, \* param.libinjection_sqli
    OptPcre,         \* param.pcre
    RulesMayEnd,     \* a regex does not compile, or Karp-Rabin traps on a rule
    OptLog           \* param.logfile # NULL

ASSUME FilterAssumption ==
    /\ Urldecode \in [Lines -> Seq(Lines)]
    /\ Continued \in [Lines -> SUBSET Lines]
    /\ \A l \in Lines : l \in Continued[l]
    /\ NulLines \subseteq Lines /\ RequestLines \subseteq Lines
    \* a NUL byte decodes to itself
    /\ \A l \in NulLines : \E i \in DOMAIN Urldecode[l] :
                                Urldecode[l][i] \in NulLines
    /\ MatchLines \subseteq Lines /\ SqliLines \subseteq Lines
    /\ PcreLines \subseteq Lines /\ PcreEnd \subseteq Lines
    /\ PcreNewline \subseteq Lines \X Lines /\ PcreNul \subseteq Lines \X Lines
    /\ ScanLimit \in Nat
    /\ NullAddr \notin Addrs
    /\ Inside \subseteq Addrs \X Entries
    /\ {OptMatch, OptLibinjection, OptPcre, RulesMayEnd, OptLog}
           \subseteq BOOLEAN

-----------------------------------------------------------------------------
(* Text.  The last line of a buffer has no newline behind it: a buffer that *)
(* ends with a newline ends with an empty line.                             *)

\* The lines of text up to its first NUL byte.
CString(text) ==
    SubSeq(text, 1, Cardinality({i \in DOMAIN text :
                        \A j \in 1 .. i - 1 : text[j] \notin NulLines}))

\* A NUL byte ends the text; an empty allocation holds too little to pass for a
\* request.
Terminated(buf) == buf = <<>> \/ \E i \in DOMAIN buf : buf[i] \in NulLines

\* data is not terminated: whatever the heap holds behind it continues the last
\* line, which may make it another one to every detector.
Continuations(buf) ==
    IF Terminated(buf) THEN {CString(buf)}
    ELSE {Append(Front(buf), l) : l \in Continued[Last(buf)]}

\* The texts filter_check may find: the heap may hold a newline, too, and more
\* behind it (one line of it here).
Texts(buf) ==
    Continuations(buf) \cup
        IF Terminated(buf) THEN {}
        ELSE {Append(t, l) : t \in Continuations(buf), l \in Lines}

\* tmpbuf, the decoded text up to the first NUL byte in it.
urldecode(text) ==
    CString(FlattenSeq([i \in DOMAIN text |-> Urldecode[text[i]]]))

\* urldecode writes up to the text's end into a buffer of ScanLimit + 1.
OverrunsTmpbuf(text) == Len(text) > ScanLimit

\* The part of tmpbuf that len_tmp bounds.
Scanned(tmpbuf) == SubSeq(tmpbuf, 1, IF Len(tmpbuf) < ScanLimit
                                     THEN Len(tmpbuf) ELSE ScanLimit)

-----------------------------------------------------------------------------
(* The detectors.                                                           *)

is_request(tmpbuf) == tmpbuf # <<>> /\ tmpbuf[1] \in RequestLines

blocklist_ip(addr, list) == \E i \in DOMAIN list : <<addr, list[i]>> \in Inside

\* Mutant: strtok leaves the rest of the list for the next call.
blocklist_after_Rest(list) == IF list = <<>> THEN <<>> ELSE Tail(list)

\* strtok cuts the configuration's own string: the next call sees one line.
blocklist_after(list) == IF list = <<>> THEN <<>> ELSE <<Head(list)>>

matchlist(tmpbuf) ==
    LET text == Scanned(tmpbuf)
    IN  \E i \in DOMAIN text : text[i] \in MatchLines

split_and_check(tmpbuf) == \E i \in DOMAIN tmpbuf : tmpbuf[i] \in SqliLines

\* A rule matches whatever follows.  split says whether strtok has put NUL bytes
\* where the newlines were.
PcreFinds(tmpbuf, split) ==
    LET text == Scanned(tmpbuf)
    IN  \/ \E i \in DOMAIN text : text[i] \in PcreLines
        \/ \E i \in 1 .. Len(text) - 1 :
               <<text[i], text[i + 1]>> \in IF split THEN PcreNul
                                                    ELSE PcreNewline

\* A rule with $, or one that looks ahead, matches at the end of the text.
PcreFindsAtEnd(tmpbuf) ==
    LET text == Scanned(tmpbuf) IN text # <<>> /\ Last(text) \in PcreEnd

pcre_matchlist(tmpbuf, split) ==
    PcreFinds(tmpbuf, split) \/ PcreFindsAtEnd(tmpbuf)

-----------------------------------------------------------------------------
(* filter_check of a buffer from a peer at addr, with the block list as     *)
(* earlier calls left it.                                                   *)

Detected(tmpbuf, addr, list) ==
    \/ blocklist_ip(addr, list)
    \/ OptMatch /\ matchlist(tmpbuf)
    \/ OptLibinjection /\ split_and_check(tmpbuf)
    \/ OptPcre /\ pcre_matchlist(tmpbuf, OptLibinjection)

\* The verdict, and what is left of the block list.
filter_check(text, addr, list) ==
    LET tmpbuf == urldecode(text)
    IN  IF is_request(tmpbuf)
        THEN [block |-> Detected(tmpbuf, addr, list),
              list  |-> blocklist_after(list)]
        ELSE [block |-> FALSE, list |-> list]

\* strnstr or log_make is given a NULL address.
NullAddress(text, addr, list) ==
    /\ addr = NullAddr
    /\ is_request(urldecode(text))
    /\ list # <<>> \/ (OptLog /\ Detected(urldecode(text), addr, list))

\* The ways filter_check ends the process: a NULL address always does, the
\* overrun of tmpbuf, a rule and the log file (write_log exits when it cannot be
\* opened) may.
MayEndProcess(text, addr, list) ==
    \/ NullAddress(text, addr, list)
    \/ OverrunsTmpbuf(text)
    \/ RulesMayEnd /\ (OptMatch \/ OptPcre) /\ is_request(urldecode(text))
    \/ OptLog /\ filter_check(text, addr, list).block

-----------------------------------------------------------------------------
(* What the command line and the rule files promise of a buffer, whatever   *)
(* the other detectors are, whatever was inspected before and whatever the  *)
(* heap holds.                                                              *)

\* The operator's rules on content reject the text by themselves, and would
\* whatever came after it.
ContentRejected(text) ==
    LET tmpbuf == urldecode(text)
    IN  /\ is_request(tmpbuf)
        /\ \/ OptMatch /\ matchlist(tmpbuf)
           \/ OptLibinjection /\ split_and_check(tmpbuf)
           \/ OptPcre /\ PcreFinds(tmpbuf, OptLibinjection)

\* The rules reject the buffer however the heap continues its last line: for
\* what they find in the lines before it, or in what no more bytes can undo.
RejectedForGood(buf) == \A text \in Continuations(buf) : ContentRejected(text)

\* The buffer holds a request however its last line goes on.
RequestForGood(buf) ==
    \A text \in Continuations(buf) : is_request(urldecode(text))

\* A rule of regex_rules.txt rejects the buffer as it was received, however its
\* last line goes on.
PcreRejected(buf) ==
    /\ OptPcre /\ RequestForGood(buf)
    /\ \A text \in Continuations(buf) : PcreFinds(urldecode(text), FALSE)
=============================================================================
