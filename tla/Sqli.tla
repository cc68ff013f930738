-------------------------------- MODULE Sqli --------------------------------
(***************************************************************************)
(* libinjection_sqli: a text is folded to a fingerprint of at most five    *)
(* token types, in up to five contexts (a quote the text may have been     *)
(* inserted after, and a dialect), until one of the fingerprints is known  *)
(* and not excused.                                                        *)
(***************************************************************************)
EXTENDS SqliFold
LOCAL INSTANCE SequencesExt

Table == INSTANCE SqliTable

VARIABLES
    fingerprint,    \* a sequence of token types
    verdict,        \* "open", "sqli" or "benign"
    steps           \* history: the steps of the fold in this context

vars == <<src, tokenvec, pos, left, more, last_comment, pc, tlen,
          fingerprint, verdict, steps>>

-----------------------------------------------------------------------------
(* The verdict on a fingerprint.                                            *)

reparse_as_mysql == src.stats # {}

\* The table's fingerprints are in upper case: types that differ in case only
\* (t and T, f and F, ...) are the same to it.
libinjection_sqli_blacklist(fp) == fp # <<>> /\ Table!IsFingerprint(Upper(fp))

\* The character at i; the text is followed by a NUL.
CharAt(s, i) == IF i < Len(s) THEN At(s, i) ELSE Null

\* What is after a number that starts the text looks like the end of it.
NumberEnds(s, n) ==
    \/ CharAt(s, n) \in LowChars
    \/ CharAt(s, n) = "/" /\ CharAt(s, n + 1) = "*"
    \/ CharAt(s, n) = "-" /\ CharAt(s, n + 1) = "-"

FirstChar(t) == IF t.val = <<>> THEN Null ELSE t.val[1]

\* Two tokens: TRUE if they are no normal input.
not_whitelist_2(fp, t0, t1, st) ==
    IF fp[2] = "U" THEN st.tokens # 2
    ELSE IF FirstChar(t1) = "#" THEN FALSE
    ELSE IF t0.type = "n" /\ t1.type = "c" /\ FirstChar(t1) # "/" THEN FALSE
    ELSE IF t0.type = "1" /\ t1.type = "c"
    THEN \/ FirstChar(t1) = "/"
         \/ st.tokens > 2
         \/ NumberEnds(st.s, t0.len)
    ELSE ~(t1.len > 2 /\ FirstChar(t1) = "-")

\* Three tokens.
not_whitelist_3(fp, t0, t1, t2, st) ==
    IF fp \in {<<"s", "o", "s">>, <<"s", "&", "s">>}
    THEN t0.open = Null /\ t2.close = Null /\ t0.close = t2.open
    ELSE IF fp \in {<<"s", "&", "n">>, <<"n", "&", "1">>, <<"1", "&", "1">>,
                    <<"1", "&", "v">>, <<"1", "&", "s">>}
    THEN st.tokens # 3
    ELSE t1.type = "k" => /\ t1.len >= 5
                          /\ IsPrefix(<<"I", "N", "T", "O">>, Upper(t1.val))

SpPassword == <<"s", "p", "_", "p", "a", "s", "s", "w", "o", "r", "d">>

libinjection_sqli_not_whitelist(fp, vec, st) ==
    \/ /\ Len(fp) > 1 /\ fp[Len(fp)] = "c"
       /\ my_memmem(st.s, 0, Len(st.s), SpPassword) < Len(st.s)
    \/ CASE Len(fp) = 2 -> not_whitelist_2(fp, vec[0], vec[1], st)
         [] Len(fp) = 3 -> not_whitelist_3(fp, vec[0], vec[1], vec[2], st)
         [] OTHER -> TRUE

libinjection_sqli_check_fingerprint(fp, vec, st) ==
    /\ libinjection_sqli_blacklist(fp)
    /\ libinjection_sqli_not_whitelist(fp, vec, st)

-----------------------------------------------------------------------------
(* The contexts.                                                            *)

\* libinjection_sqli_init, and the first context.
Init(texts) ==
    /\ \E s \in texts : /\ FoldInit(Source(s, "none", "ansi"))
                        /\ verdict = IF s = <<>> THEN "benign" ELSE "open"
    /\ fingerprint = <<>> /\ steps = 0

Fold ==
    /\ verdict = "open" /\ FoldNext
    /\ steps' = steps + 1
    /\ UNCHANGED <<fingerprint, verdict>>

\* An empty backtick that is not closed ends the text in PHP.
PhpBacktick(t) ==
    t.type = "n" /\ t.open = "TICK" /\ t.len = 0 /\ t.close = Null

\* Mutant: the other types stay beside the evil one.
libinjection_sqli_fingerprint_KeepTypes ==
    /\ pc = "done"
    /\ fingerprint' = Result
    /\ pc' = "judge"
    /\ UNCHANGED <<src, tokenvec, pos, left, more, last_comment, tlen, verdict,
                   steps>>

\* The types of the folded tokens; an evil one stands for all of them.
libinjection_sqli_fingerprint ==
    /\ pc = "done"
    /\ LET types == IF tlen > 2 /\ PhpBacktick(tokenvec[tlen - 1])
                    THEN [Result EXCEPT ![tlen] = "c"] ELSE Result
           evil  == \E k \in 1 .. tlen : types[k] = "X"
       IN  /\ fingerprint' = IF evil THEN <<"X">> ELSE types
           /\ tokenvec' = IF evil
                THEN [tokenvec EXCEPT ![0].type = "X", ![0].val = <<"X">>,
                                      ![1].type = Null]
                ELSE [k \in Slots |-> IF k < tlen
                        THEN [tokenvec[k] EXCEPT !.type = types[k + 1]]
                        ELSE tokenvec[k]]
    /\ pc' = "judge"
    /\ UNCHANGED <<src, pos, left, more, last_comment, tlen, verdict,
                   steps>>

IsSqli == libinjection_sqli_check_fingerprint(fingerprint, tokenvec, src)

Sqli ==
    /\ pc = "judge" /\ verdict = "open" /\ IsSqli
    /\ verdict' = "sqli"
    /\ UNCHANGED <<foldVars, fingerprint, steps>>

Has(c) == memchr(src.s, 0, {c}) < Len(src.s)

\* The contexts that libinjection_is_sqli goes on to: at most one.
NextContexts ==
    LET quote == src.quote
        again == src.sql = "ansi" /\ reparse_as_mysql
    IN  IF again THEN {[quote |-> quote, sql |-> "mysql"]}
        ELSE IF quote = "none" /\ Has("'") THEN {[quote |-> "single", sql |-> "ansi"]}
        ELSE IF quote # "double" /\ Has("\"")
        THEN {[quote |-> "double", sql |-> "mysql"]}
        ELSE {}

\* libinjection_sqli_reset, for another context.
Reset ==
    /\ pc = "judge" /\ verdict = "open" /\ ~IsSqli
    /\ \E c \in NextContexts : src' = Source(src.s, c.quote, c.sql)
    /\ tokenvec' = [k \in Slots |-> NoToken]
    /\ pos' = 0 /\ left' = 0 /\ more' = TRUE
    /\ last_comment' = NoToken
    /\ pc' = "skip" /\ tlen' = 0
    /\ fingerprint' = <<>> /\ steps' = 0
    /\ UNCHANGED verdict

Benign ==
    /\ pc = "judge" /\ verdict = "open" /\ ~IsSqli
    /\ NextContexts = {}
    /\ verdict' = "benign"
    /\ UNCHANGED <<foldVars, fingerprint, steps>>

Returned == verdict # "open" /\ UNCHANGED vars

Next ==
    \/ Fold \/ libinjection_sqli_fingerprint
    \/ Sqli \/ Reset \/ Benign \/ Returned

-----------------------------------------------------------------------------
(* Properties.                                                              *)

\* A token that the fold keeps lies in the part of the text that has been
\* read, and what has been read lies in the text.
TokensInText ==
    /\ src.pos <= Len(src.s)
    /\ pc # "judge" => \A k \in 0 .. pos - 1 :
                            tokenvec[k].pos + tokenvec[k].len <= src.pos

\* A token is never found without moving on in the text.
ScanAdvances ==
    [][src'.tokens > src.tokens => src'.pos > src.pos]_vars

\* Reading on as MySQL, or as ANSI, makes a difference only at a comment that
\* is counted: a MySQL pass that is left out would have read the same tokens.
SkippedPassIsTheSame ==
    LET ansi  == libinjection_sqli_tokenize(src.s, src.pos, src.quote, "ansi")
        mysql == libinjection_sqli_tokenize(src.s, src.pos, src.quote, "mysql")
    IN  src.sql = "ansi" /\ ansi # mysql => ansi.stats # {}

\* The character after a number is read inside the text (libinjection has no
\* terminating NUL to rely on).
ReadsInText ==
    /\ pc = "judge" /\ Len(fingerprint) = 2
    /\ tokenvec[0].type = "1" /\ tokenvec[1].type = "c" /\ src.tokens <= 2
    /\ FirstChar(tokenvec[1]) \notin {"#", "/"}
    => tokenvec[0].len + 1 < Len(src.s)

\* A text with a token that could not be parsed reliably is reported, if the
\* fold keeps the token.
EvilIsSqli ==
    pc = "judge" /\ (\E k \in 0 .. tlen - 1 : tokenvec[k].type = "X") => IsSqli

\* The fold ends, and its work is linear in the tokens it reads: going back to
\* the first token, and changing a type back and forth, cannot go on for long.
WorkPerToken == 75
FoldIsLinear == steps <= WorkPerToken * (src.tokens + 1)
=============================================================================
