----------------------------- MODULE SqliTokens -----------------------------
(***************************************************************************)
(* The tokenizer of libinjection_sqli.c.                                   *)
(*                                                                         *)
(* A text is a sequence of characters, written as strings of one letter;   *)
(* "TICK" is the backtick, "TAB", "CTL" (any other control character),     *)
(* "DEL", "NBSP" (byte 160), "HI" (any other byte above 127) stand for     *)
(* characters that have none.                                              *)
(* Positions count from 0, as in the code.  A parser maps a text and the   *)
(* position of its first character to a token, the position after it, and  *)
(* the comments that only one SQL dialect takes for comments.              *)
(***************************************************************************)
EXTENDS Integers, Sequences, FiniteSets
LOCAL INSTANCE FiniteSetsExt

CONSTANTS
    Keywords,   \* the words of sql_keywords (in upper case) and their types
    TokenSize   \* LIBINJECTION_SQLI_TOKEN_SIZE

\* The types of the words of sql_keywords, which has no comments, no strings and
\* no marks; 'F' is the type of its fingerprints, which are no words.
KeywordTypes ==
    {"&", "1", "A", "B", "E", "T", "U", "f", "k", "n", "o", "t", "v"}

Null == "NUL"
Blank == " "

-----------------------------------------------------------------------------
(* Characters.                                                              *)

LowerCase == <<"a", "b", "c", "d", "e", "f", "g", "h", "i", "j", "k", "l", "m",
               "n", "o", "p", "q", "r", "s", "t", "u", "v", "w", "x", "y", "z">>
UpperCase == <<"A", "B", "C", "D", "E", "F", "G", "H", "I", "J", "K", "L", "M",
               "N", "O", "P", "Q", "R", "S", "T", "U", "V", "W", "X", "Y", "Z">>
Letters == {LowerCase[k] : k \in 1 .. 26} \cup {UpperCase[k] : k \in 1 .. 26}
ToUpper == [c \in Letters |->
                UpperCase[CHOOSE k \in 1 .. 26 : c \in {LowerCase[k], UpperCase[k]}]]
Digits == {"0", "1", "2", "3", "4", "5", "6", "7", "8", "9"}
HexDigits == Digits \cup {"A", "B", "C", "D", "E", "F",
                          "a", "b", "c", "d", "e", "f"}

\* char_is_white: what counts as white space after "--" and after a number.
Spaces == {Blank, "TAB", "LF", "VT", "FF", "CR", "NBSP", Null}

\* Characters below '!' as signed bytes.
LowChars == Spaces \cup {"CTL", "HI"}

\* What ends a word, and what ends a variable.
WordStops == Spaces \cup {"[", "]", "{", "}", "<", ">", ":", "\\", "?", "=",
                          "@", "!", "#", "~", "+", "-", "*", "/", "&", "|",
                          "^", "%", "(", ")", ",", "'", ";", "\""}
VarStops == ((WordStops \ {"[", "]", "{", "}", "NBSP"}) \cup {"TICK"})

Upper(w) == [k \in DOMAIN w |-> IF w[k] \in Letters THEN ToUpper[w[k]] ELSE w[k]]

\* The n characters of w after the i-th are words, and come again after them.
Echo(w, i, n) ==
    /\ i = 0 \/ w[i] = Blank
    /\ w[i + n + 1] = Blank
    /\ \A k \in 1 .. n : w[i + n + 1 + k] = w[i + k]
    /\ i + 2 * n + 1 = Len(w) \/ w[i + 2 * n + 2] = Blank

\* The words of sql_keywords are in upper case.  Of its phrases every word
\* starts with a letter, and no words come twice in a row.
ASSUME SqliTokensAssumption ==
    /\ TokenSize \in Nat \ {0, 1}
    /\ \A w \in DOMAIN Keywords :
           /\ Keywords[w] \in KeywordTypes
           /\ \A k \in 1 .. Len(w) :
                  w[k] = Blank => w[1] \in Letters /\ k < Len(w) /\ w[k + 1] \in Letters
           /\ \A i, n \in 0 .. Len(w) :
                  n > 0 /\ i + 2 * n + 1 <= Len(w) => ~Echo(w, i, n)

-----------------------------------------------------------------------------
(* Searching a text.  Len(s), which is no position, stands for NULL.        *)

At(s, i) == s[i + 1]
Part(s, i, n) == SubSeq(s, i + 1, i + n)

FirstOf(s, S) == IF S = {} THEN Len(s) ELSE Min(S)

\* memchr, of one of the characters cs, from i on.
memchr(s, i, cs) == FirstOf(s, {k \in i .. Len(s) - 1 : At(s, k) \in cs})

\* memchr2, of the characters c0 and c1 between the positions i and end.
memchr2(s, i, end, c0, c1) ==
    FirstOf(s, {k \in i .. end - 2 : At(s, k) = c0 /\ At(s, k + 1) = c1})

my_memmem(s, i, hlen, needle) ==
    FirstOf(s, {k \in i .. i + hlen - Len(needle) :
                    Part(s, k, Len(needle)) = needle})

\* How many characters of cs follow, from i on; strchr finds a NUL in any set.
Span(s, i, cs) == FirstOf(s, {k \in i .. Len(s) - 1 : At(s, k) \notin cs}) - i
strlenspn(s, i, cs) == Span(s, i, cs \cup {Null})
strlencspn(s, i, cs) == memchr(s, i, cs \cup {Null}) - i

\* The type the table gives to a word, whatever its case.
lookup(w) == IF Upper(w) \in DOMAIN Keywords THEN Keywords[Upper(w)] ELSE Null

-----------------------------------------------------------------------------
(* Tokens.                                                                  *)

NoToken == [type |-> Null, pos |-> 0, len |-> 0, val |-> <<>>,
            open |-> Null, close |-> Null]

\* st_assign to a cleared token: at most TokenSize - 1 characters are kept.
st_assign(s, type, pos, len) ==
    LET last == IF len < TokenSize THEN len ELSE TokenSize - 1
    IN  [NoToken EXCEPT !.type = type, !.pos = pos, !.len = last,
                        !.val = Part(s, pos, last)]

Parsed(tok, pos) == [tok |-> tok, pos |-> pos, stats |-> {}]

\* The token is the n characters from i on.
Take(s, type, i, n) == Parsed(st_assign(s, type, i, n), i + n)

\* The token is a string that starts at i and is closed at e by w characters.
TakeString(s, i, e, w, open, close) ==
    Parsed([st_assign(s, "s", i, e - i) EXCEPT
                !.open = open, !.close = IF e < Len(s) THEN close ELSE Null],
           IF e < Len(s) THEN e + w ELSE Len(s))

st_is_unary_op(t) ==
    /\ t.type = "o"
    /\ \/ t.len = 1 /\ t.val[1] \in {"+", "-", "!", "~"}
       \/ t.val = <<"!", "!">>
       \/ Upper(t.val) = <<"N", "O", "T">>

st_is_arithmetic_op(t) ==
    t.type = "o" /\ t.len = 1 /\ t.val[1] \in {"*", "/", "-", "+", "%"}

-----------------------------------------------------------------------------
(* The parsers.                                                             *)

parse_white(i) == Parsed(NoToken, i + 1)
parse_operator1(s, i) == Take(s, "o", i, 1)
parse_other(s, i) == Take(s, "?", i, 1)
parse_char(s, i) == Take(s, At(s, i), i, 1)

parse_eol_comment(s, i) ==
    LET e == memchr(s, i, {"LF"})
    IN  Parsed(st_assign(s, "c", i, e - i), IF e < Len(s) THEN e + 1 ELSE e)

parse_hash(s, i, sql) ==
    [(IF sql = "mysql" THEN parse_eol_comment(s, i)
                       ELSE parse_operator1(s, i)) EXCEPT !.stats = {"hash"}]

\* Mutant: "--" that only ANSI takes for a comment is not counted.
parse_dash_NotCounted(s, i, sql) ==
    IF i + 1 = Len(s) \/ At(s, i + 1) # "-" THEN parse_operator1(s, i)
    ELSE IF sql = "ansi" \/ i + 2 = Len(s) \/ At(s, i + 2) \in Spaces
    THEN parse_eol_comment(s, i)
    ELSE parse_operator1(s, i)

\* Mutant: a dash at the end of the text is a comment.
parse_dash_AtEnd(s, i, sql) ==
    IF i + 1 = Len(s) THEN parse_eol_comment(s, i)
    ELSE IF At(s, i + 1) # "-" THEN parse_operator1(s, i)
    ELSE [parse_eol_comment(s, i) EXCEPT !.stats = {"ddx"}]

parse_dash(s, i, sql) ==
    IF i + 1 = Len(s) \/ At(s, i + 1) # "-" THEN parse_operator1(s, i)
    ELSE IF i + 2 = Len(s) \/ At(s, i + 2) \in Spaces
    THEN parse_eol_comment(s, i)
    ELSE IF sql = "ansi"
    THEN [parse_eol_comment(s, i) EXCEPT !.stats = {"ddx"}]
    ELSE parse_operator1(s, i)

is_mysql_comment(s, i) == i + 2 < Len(s) /\ At(s, i + 2) = "!"

\* A comment inside a comment, and MySQL's conditional ones, are evil; a
\* comment without an end is not searched (the length wraps around).
parse_slash(s, i) ==
    LET e      == memchr2(s, i + 2, Len(s), "*", "/")
        nested == e < Len(s) /\ memchr2(s, i + 2, e + 1, "/", "*") < Len(s)
    IN  IF i + 1 = Len(s) \/ At(s, i + 1) # "*" THEN parse_operator1(s, i)
        ELSE Take(s, IF nested \/ is_mysql_comment(s, i) THEN "X" ELSE "c",
                  i, (IF e < Len(s) THEN e + 2 ELSE e) - i)

parse_backslash(s, i) ==
    IF i + 1 < Len(s) /\ At(s, i + 1) = "N" THEN Take(s, "1", i, 2)
                                            ELSE Take(s, "\\", i, 1)

parse_operator2(s, i) ==
    IF i + 1 = Len(s) THEN parse_operator1(s, i)
    ELSE IF i + 2 < Len(s) /\ Part(s, i, 3) = <<"<", "=", ">">>
    THEN Take(s, "o", i, 3)
    ELSE IF lookup(Part(s, i, 2)) # Null
    THEN Take(s, lookup(Part(s, i, 2)), i, 2)
    ELSE IF At(s, i) = ":" THEN Take(s, ":", i, 1)
    ELSE parse_operator1(s, i)

\* The character at q is after an odd number of backslashes, from start on.
is_backslash_escaped(s, start, q) ==
    Cardinality({j \in start .. q - 1 :
                    \A k \in j .. q - 1 : At(s, k) = "\\"}) % 2 = 1

is_double_delim_escaped(s, q) == q + 1 < Len(s) /\ At(s, q + 1) = At(s, q)

\* A string up to the next delimiter that is neither escaped nor doubled; with
\* offset 0 the opening quote is imagined.
parse_string_core(s, i, delim, offset) ==
    LET start == i + offset
        closing[q \in start .. Len(s)] ==
            LET d == memchr(s, q, {delim})
            IN  IF d = Len(s) THEN d
                ELSE IF is_backslash_escaped(s, start, d) THEN closing[d + 1]
                ELSE IF is_double_delim_escaped(s, d) THEN closing[d + 2]
                ELSE d
    IN  TakeString(s, start, closing[start], 1,
                   IF offset > 0 THEN delim ELSE Null, delim)

parse_string(s, i) == parse_string_core(s, i, At(s, i), 1)

\* Mutant: the token is not cut with the word.
parse_word_Uncut(s, i) ==
    LET n     == strlencspn(s, i, WordStops)
        tok   == st_assign(s, "n", i, n)
        cuts  == {k \in 0 .. tok.len - 1 :
                    /\ At(tok.val, k) \in {".", "TICK"}
                    /\ lookup(Part(tok.val, 0, k)) \notin {Null, "n"}}
    IN  Parsed(tok, IF cuts # {} THEN i + Min(cuts) ELSE i + n)

\* A word; what is before a dot or a backtick is one if the table knows it.
parse_word(s, i) ==
    LET n     == strlencspn(s, i, WordStops)
        tok   == st_assign(s, "n", i, n)
        cuts  == {k \in 0 .. tok.len - 1 :
                    /\ At(tok.val, k) \in {".", "TICK"}
                    /\ lookup(Part(tok.val, 0, k)) \notin {Null, "n"}}
        known == n < TokenSize /\ lookup(tok.val) # Null
    IN  IF cuts # {}
        THEN Take(s, lookup(Part(s, i, Min(cuts))), i, Min(cuts))
        ELSE Parsed([tok EXCEPT !.type = IF known THEN lookup(tok.val) ELSE "n"],
                    i + n)

parse_estring(s, i) ==
    IF i + 2 >= Len(s) \/ At(s, i + 1) # "'" THEN parse_word(s, i)
    ELSE parse_string_core(s, i, "'", 2)

parse_ustring(s, i) ==
    IF i + 2 < Len(s) /\ Part(s, i + 1, 2) = <<"&", "'">>
    THEN [parse_string(s, i + 2) EXCEPT
            !.tok.open = "u", !.tok.close = IF @ = "'" THEN "u" ELSE @]
    ELSE parse_word(s, i)

Closer(c) == CASE c = "(" -> ")" [] c = "[" -> "]" [] c = "{" -> "}"
               [] c = "<" -> ">" [] OTHER -> c

parse_qstring_core(s, i, offset) ==
    LET p == i + offset
    IN  IF \/ p + 2 >= Len(s)
           \/ At(s, p) \notin {"q", "Q"} \/ At(s, p + 1) # "'"
           \/ At(s, p + 2) \in LowChars
        THEN parse_word(s, i)
        ELSE TakeString(s, p + 3,
                        memchr2(s, p + 3, Len(s), Closer(At(s, p + 2)), "'"),
                        2, "q", "q")

parse_qstring(s, i) == parse_qstring_core(s, i, 0)

parse_nqstring(s, i) ==
    IF i + 2 < Len(s) /\ At(s, i + 1) = "'" THEN parse_estring(s, i)
                                            ELSE parse_qstring_core(s, i, 1)

\* b'01' and x'0F': a number, or a word when it is not closed.
QuotedNumber(s, i, digits) ==
    LET e == i + 2 + strlenspn(s, i + 2, digits)
    IN  IF i + 2 >= Len(s) \/ At(s, i + 1) # "'" \/ e >= Len(s)
        THEN parse_word(s, i)
        ELSE IF At(s, e) # "'" THEN parse_word(s, i)
        ELSE Take(s, "1", i, e + 1 - i)

parse_bstring(s, i) == QuotedNumber(s, i, {"0", "1"})
parse_xstring(s, i) == QuotedNumber(s, i, HexDigits)

parse_bword(s, i) ==
    LET e == memchr(s, i, {"]"})
    IN  Take(s, "n", i, (IF e < Len(s) THEN e + 1 ELSE e) - i)

parse_tick(s, i) ==
    LET r == parse_string_core(s, i, "TICK", 1)
    IN  [r EXCEPT !.tok.type = IF lookup(r.tok.val) = "f" THEN "f" ELSE "n"]

\* Mutant: a name that is no variable's is not stepped over.
parse_var_NoAt(s, i) ==
    Take(s, "v", i, strlencspn(s, i, VarStops))

parse_var(s, i) ==
    LET p == IF i + 1 < Len(s) /\ At(s, i + 1) = "@" THEN i + 2 ELSE i + 1
    IN  IF p < Len(s) /\ At(s, p) = "TICK"
        THEN [parse_tick(s, p) EXCEPT !.tok.type = "v"]
        ELSE IF p < Len(s) /\ At(s, p) \in {"'", "\""}
        THEN [parse_string(s, p) EXCEPT !.tok.type = "v"]
        ELSE Take(s, "v", p, strlencspn(s, p, VarStops))

\* $1,000.00, $$text$$, $tag$text$tag$, or a dollar by itself.  The end of a
\* tagged text is searched from the tag's length on, not from its position.
parse_money(s, i) ==
    LET n     == strlenspn(s, i + 1, Digits \cup {".", ","})
        m     == strlenspn(s, i + 1, Letters)
        start == i + m + 2
        e     == my_memmem(s, m + 2, Len(s) - start, Part(s, i, m + 2))
    IN  IF i + 1 = Len(s) THEN Take(s, "n", i, 1)
        ELSE IF n = 1 /\ At(s, i + 1) = "." THEN parse_word(s, i)
        ELSE IF n > 0 THEN Take(s, "1", i, 1 + n)
        ELSE IF At(s, i + 1) = "$"
        THEN TakeString(s, i + 2, memchr2(s, i + 2, Len(s), "$", "$"),
                        2, "$", "$")
        ELSE IF m = 0 \/ i + m + 1 = Len(s) THEN Take(s, "n", i, 1)
        ELSE IF At(s, i + m + 1) # "$" THEN Take(s, "n", i, 1)
        ELSE TakeString(s, start, IF e < start THEN Len(s) ELSE e,
                        m + 2, "$", "$")

PrefixedNumber(s, i, digits) ==
    LET n == strlenspn(s, i + 2, digits)
    IN  Take(s, IF n = 0 THEN "n" ELSE "1", i, 2 + n)

parse_number(s, i) ==
    LET Is(k, cs) == k < Len(s) /\ At(s, k) \in cs
        whole == i + Span(s, i, Digits)
        dot   == Is(whole, {"."})
        frac  == IF dot THEN whole + 1 + Span(s, whole + 1, Digits) ELSE whole
        exp   == Is(frac, {"E", "e"})
        sign  == IF ~exp THEN frac
                 ELSE IF Is(frac + 1, {"+", "-"}) THEN frac + 2 ELSE frac + 1
        power == IF exp THEN sign + Span(s, sign, Digits) ELSE sign
        end   == IF /\ Is(power, {"d", "D", "f", "F"})
                    /\ \/ power + 1 = Len(s)
                       \/ Is(power + 1, Spaces \cup {";", "u", "U"})
                 THEN power + 1 ELSE power
    IN  IF At(s, i) = "0" /\ Is(i + 1, {"X", "x"})
        THEN PrefixedNumber(s, i, HexDigits)
        ELSE IF At(s, i) = "0" /\ Is(i + 1, {"B", "b"})
        THEN PrefixedNumber(s, i, {"0", "1"})
        ELSE IF dot /\ frac = i + 1 THEN Take(s, ".", i, 1)
        ELSE Take(s, IF exp /\ power = sign THEN "n" ELSE "1", i, end - i)

-----------------------------------------------------------------------------
(* The tokenizer.                                                           *)

\* char_parse_map below 'A', except for digits and white space.
PunctuationParser(s, i, sql) ==
    LET c == At(s, i)
    IN  CASE c \in {"!", "&", "*", ":", "<", "=", ">"} -> parse_operator2(s, i)
          [] c \in {"'", "\""} -> parse_string(s, i)
          [] c = "#" -> parse_hash(s, i, sql)
          [] c = "$" -> parse_money(s, i)
          [] c \in {"%", "+"} -> parse_operator1(s, i)
          [] c \in {"(", ")", ",", ";"} -> parse_char(s, i)
          [] c = "-" -> parse_dash(s, i, sql)
          [] c = "/" -> parse_slash(s, i)
          [] c = "?" -> parse_other(s, i)
          [] c = "@" -> parse_var(s, i)

\* char_parse_map from 'A' on: letters, bytes above 127 and what is between.
WordParser(s, i) ==
    LET c == At(s, i)
    IN  CASE c \in {"B", "b"} -> parse_bstring(s, i)
          [] c \in {"E", "e"} -> parse_estring(s, i)
          [] c \in {"N", "n"} -> parse_nqstring(s, i)
          [] c \in {"Q", "q"} -> parse_qstring(s, i)
          [] c \in {"U", "u"} -> parse_ustring(s, i)
          [] c \in {"X", "x"} -> parse_xstring(s, i)
          [] c = "[" -> parse_bword(s, i)
          [] c = "\\" -> parse_backslash(s, i)
          [] c = "]" -> parse_other(s, i)
          [] c \in {"^", "~"} -> parse_operator1(s, i)
          [] c = "TICK" -> parse_tick(s, i)
          [] c \in {"{", "}"} -> parse_char(s, i)
          [] c = "|" -> parse_operator2(s, i)
          [] OTHER -> parse_word(s, i)

Blanks == Spaces \cup {"CTL", "DEL"}

char_parse_map(s, i, sql) ==
    CASE At(s, i) \in Blanks -> parse_white(i)
      [] At(s, i) \in Digits \cup {"."} -> parse_number(s, i)
      [] At(s, i) \in {"!", "\"", "#", "$", "%", "&", "'", "(", ")", "*", "+",
                       ",", "-", "/", ":", ";", "<", "=", ">", "?", "@"} ->
            PunctuationParser(s, i, sql)
      [] OTHER -> WordParser(s, i)

flag2delim(quote) == IF quote = "single" THEN "'" ELSE "\""

\* libinjection_sqli_tokenize: the next token of s from pos on, read in a
\* context of a quote and a dialect; no token when only white space is left
\* (parse_white is the one parser that makes none).
libinjection_sqli_tokenize(s, pos, quote, sql) ==
    LET i == FirstOf(s, {k \in pos .. Len(s) - 1 : At(s, k) \notin Blanks})
    IN  IF pos = 0 /\ quote # "none" /\ s # <<>>
        THEN parse_string_core(s, 0, flag2delim(quote), 0)
        ELSE IF i = Len(s) THEN Parsed(NoToken, Len(s))
        ELSE char_parse_map(s, i, sql)
=============================================================================
