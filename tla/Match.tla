-------------------------------- MODULE Match --------------------------------
(***************************************************************************)
(* How a text is decoded and compared with the rules: urldecode, matchlist *)
(* and the four searches it chooses from, loop by loop.                    *)
(*                                                                         *)
(* A text is a sequence of chars without its terminating NUL.  A char is   *)
(* signed, as in the build: a byte above 127 is negative.  Positions count *)
(* from 0 in the variables, as in the code, and from 1 in sequences.       *)
(***************************************************************************)
EXTENDS Integers, Sequences
LOCAL INSTANCE FiniteSetsExt

CONSTANTS
    Chars,       \* the chars in the texts, and in the memory after a text
    IntBits,     \* the width of int, 32 in the build
    ScanLimit,   \* 6128, the limit of strnlen on the text
    LineLimit,   \* 2048, the limit of strnlen on a rule
    Compiles,    \* the rules that pcre_compile accepts
    PcreMatches  \* <<rule, text>>: pcre_exec finds the rule in the text

ASSUME MatchAssumption ==
    /\ Chars \subseteq (-128 .. 127) \ {0}
    /\ IntBits \in Nat /\ IntBits > 8
    /\ ScanLimit \in Nat
    /\ LineLimit \in Nat /\ LineLimit > 4

VARIABLES
    plain,    \* the texts that data encodes (history)
    data,     \* the text as received
    pstr,     \* urldecode's read position
    tmpbuf,   \* what urldecode has written
    alg,      \* option_algorithm: 1 DFA, 2 Horspool, 3 Karp-Rabin, 4 PCRE
    rules,    \* the file's lines
    line,     \* the number of the line strtok gave last
    pat,      \* the pattern searched for
    pos,      \* the search's place in the text (i, shift or j)
    state,    \* DFA_Search's state
    nInd,     \* horspool_search's place in the pattern
    var2,     \* Rabin_Karp_search's hash of the window
    at_list,  \* matchlist's result
    pc

text    == <<plain, data, pstr, tmpbuf>>
search  == <<pat, pos, state, nInd, var2>>
vars    == <<plain, data, pstr, tmpbuf, alg, rules, line, pat, pos, state, nInd,
             var2, at_list, pc>>

-----------------------------------------------------------------------------
(* urldecode.                                                               *)

Percent == 37
Plus    == 43
Blank   == 32

SignedChar(n) == IF n % 256 > 127 THEN (n % 256) - 256 ELSE n % 256

\* Mutant: lower-case digits are read like upper-case ones.
from_hex_UpperOnly(ch) ==
    SignedChar(IF ch \in 48 .. 57 THEN ch - 48 ELSE ch - 65 + 10)

from_hex(ch) ==
    LET lower == IF ch \in 65 .. 90 THEN ch + 32 ELSE ch
    IN  SignedChar(IF ch \in 48 .. 57 THEN ch - 48 ELSE lower - 97 + 10)

\* The bit of n with this weight.
Bit(n, weight) == (n \div weight) % 2

\* from_hex(a) << 4 | from_hex(b), as a char.
Escape(a, b) ==
    LET bit(weight) == IF Bit(16 * from_hex(a), weight) + Bit(from_hex(b), weight) > 0
                       THEN weight ELSE 0
    IN  SignedChar(bit(1) + bit(2) + bit(4) + bit(8)
                   + bit(16) + bit(32) + bit(64) + bit(128))

\* A text ends at its first NUL.
CString(s) == SubSeq(s, 1, Min({i \in 0 .. Len(s) : i = Len(s) \/ s[i + 1] = 0}))

\* Mutant: the two characters after '%' are taken without a look for the end.
HasTwoMore_Unchecked == TRUE

HasTwoMore == pstr + 3 <= Len(data)

\* The char at the read position or after it, NUL at the end.
DataAt(k) == IF pstr + k < Len(data) THEN data[pstr + k + 1] ELSE 0

DecodeChar ==
    /\ pc = "decode" /\ pstr < Len(data)
    /\ \/ /\ DataAt(0) = Percent /\ HasTwoMore
          /\ tmpbuf' = Append(tmpbuf, Escape(DataAt(1), DataAt(2)))
          /\ pstr' = pstr + 3
       \/ /\ DataAt(0) = Percent /\ ~HasTwoMore
          /\ pstr' = pstr + 1 /\ UNCHANGED tmpbuf
       \/ /\ DataAt(0) # Percent
          /\ tmpbuf' = Append(tmpbuf, IF DataAt(0) = Plus THEN Blank ELSE DataAt(0))
          /\ pstr' = pstr + 1
    /\ UNCHANGED <<plain, data, alg, rules, line, at_list, pc>>
    /\ UNCHANGED search

\* tmpbuf has room for as much text as strnlen counted, and its NUL.
Overruns == Len(tmpbuf) > Min({Len(data), ScanLimit})

DecodeEnd ==
    /\ pc = "decode" /\ pstr >= Len(data)
    /\ \/ pc' = "rule"
       \/ Overruns /\ pc' = "crashed"
    /\ UNCHANGED <<alg, rules, line, at_list>>
    /\ UNCHANGED search /\ UNCHANGED text

\* The text given to matchlist, and the byte at a 0-based place in its buffer.
input     == LET s == CString(tmpbuf) IN SubSeq(s, 1, Min({Len(s), ScanLimit}))
InputAt(k) == LET s == CString(tmpbuf) IN IF k < Len(s) THEN s[k + 1] ELSE 0

-----------------------------------------------------------------------------
(* matchlist.                                                               *)

\* strnlen(line, 2048)
LineLen(l) == Min({Len(l), LineLimit})

\* Mutant: lines of four characters are searched for too.
IsRule_FourToo(l) == LineLen(l) >= 4

IsRule(l) == LineLen(l) > 4

\* The searches get line_len-2 characters of the line.
Pattern(l) == SubSeq(l, 1, LineLen(l) - 2)

SearchState == CASE alg = 1 -> "dfa" [] alg = 2 -> "horspool"
                 [] alg = 3 -> "hash" [] alg = 4 -> "pcre"

NextLine ==
    /\ pc = "rule" /\ ~at_list /\ line < Len(rules)
    /\ line' = line + 1
    /\ IF IsRule(rules[line'])
       THEN /\ pc' = SearchState
            /\ pat' = Pattern(rules[line'])
            /\ pos' = 0 /\ state' = 0 /\ nInd' = Len(pat') - 1 /\ var2' = 0
       ELSE UNCHANGED <<pc, pat, pos, state, nInd, var2>>
    /\ UNCHANGED <<alg, rules, at_list>> /\ UNCHANGED text

matchlist_returns ==
    /\ pc = "rule" /\ (at_list \/ line = Len(rules))
    /\ pc' = "done"
    /\ UNCHANGED <<alg, rules, line, at_list>>
    /\ UNCHANGED search /\ UNCHANGED text

\* A search is over: with TRUE the loop ends, with FALSE the next line is due.
Return(result) ==
    /\ at_list' = result /\ pc' = "rule"
    /\ UNCHANGED <<alg, rules, line>> /\ UNCHANGED text

\* A search goes on, or is the end of the process.
Continue(next) ==
    /\ pc' = next
    /\ UNCHANGED <<alg, rules, line, at_list>> /\ UNCHANGED text

-----------------------------------------------------------------------------
(* DFA_Search.                                                              *)

\* Mutant: after a mismatch the automaton starts from nothing.
NextMachineState_Restart(q, x) ==
    IF q < Len(pat) /\ x = pat[q + 1] THEN q + 1
    ELSE IF x = pat[1] THEN 1 ELSE 0

\* The longest beginning of the pattern that ends with x.
NextMachineState(q, x) ==
    IF q < Len(pat) /\ x = pat[q + 1] THEN q + 1
    ELSE Max({0} \cup {fix \in 1 .. q :
                           /\ pat[fix] = x
                           /\ \A i \in 1 .. fix - 1 : pat[i] = pat[q - fix + 1 + i]})

\* TF[state][(int)txt[i]]: a negative column is one of the row before, and
\* before the first row whatever the stack holds.
OutsideTable == state = 0 /\ InputAt(pos) < 0

TF == IF InputAt(pos) >= 0 THEN NextMachineState(state, InputAt(pos))
                           ELSE NextMachineState(state - 1, InputAt(pos) + 256)

DfaStep ==
    /\ pc = "dfa" /\ pos < Len(input)
    /\ \E q \in IF OutsideTable THEN 0 .. Len(pat) ELSE {TF} :
           /\ state' = q
           /\ IF q = Len(pat) THEN Return(TRUE) /\ pos' = pos
                              ELSE Continue("dfa") /\ pos' = pos + 1
    /\ UNCHANGED <<pat, nInd, var2>>

\* What was read from the stack is no row of the table.
DfaLost ==
    /\ pc = "dfa" /\ pos < Len(input) /\ OutsideTable
    /\ Continue("crashed") /\ UNCHANGED search

DfaEnd ==
    /\ pc = "dfa" /\ pos >= Len(input)
    /\ Return(FALSE) /\ UNCHANGED search

-----------------------------------------------------------------------------
(* horspool_search.                                                         *)

\* Mutant: the table keeps the first place of a character, not the last.
badCharHtable_First(c) ==
    IF \E i \in 1 .. Len(pat) : pat[i] = c
    THEN Min({i - 1 : i \in {i \in 1 .. Len(pat) : pat[i] = c}}) ELSE -1

badCharHtable(c) == Max({-1} \cup {i - 1 : i \in {i \in 1 .. Len(pat) : pat[i] = c}})

\* Mutant: no max_horspool.
Shift_NoMax(bad) == nInd - bad

Shift(bad) == Max({1, nInd - bad})

HorspoolCompare ==
    /\ pc = "horspool" /\ pos <= Len(input) - Len(pat)
    /\ nInd >= 0 /\ pat[nInd + 1] = InputAt(pos + nInd)
    /\ nInd' = nInd - 1
    /\ Continue("horspool") /\ UNCHANGED <<pat, pos, state, var2>>

HorspoolFound ==
    /\ pc = "horspool" /\ pos <= Len(input) - Len(pat)
    /\ nInd < 0
    /\ Return(TRUE) /\ UNCHANGED search

\* The table has no place for a negative char: its entry is what the stack holds
\* there, and the shift any.
HorspoolShift ==
    /\ pc = "horspool" /\ pos <= Len(input) - Len(pat)
    /\ nInd >= 0 /\ pat[nInd + 1] # InputAt(pos + nInd)
    /\ pos' \in IF InputAt(pos + nInd) >= 0
                THEN {pos + Shift(badCharHtable(InputAt(pos + nInd)))}
                ELSE pos + 1 .. Len(input) + 1
    /\ nInd' = Len(pat) - 1
    /\ Continue("horspool") /\ UNCHANGED <<pat, state, var2>>

\* The difference or the sum with such an entry overflows, or a negative char of
\* the pattern has had its entry written over something else.
HorspoolLost ==
    /\ pc = "horspool"
    /\ \/ /\ pos <= Len(input) - Len(pat)
          /\ nInd >= 0 /\ pat[nInd + 1] # InputAt(pos + nInd)
          /\ InputAt(pos + nInd) < 0
       \/ \E i \in 1 .. Len(pat) : pat[i] < 0
    /\ Continue("crashed") /\ UNCHANGED search

HorspoolEnd ==
    /\ pc = "horspool" /\ pos > Len(input) - Len(pat)
    /\ Return(FALSE) /\ UNCHANGED search

-----------------------------------------------------------------------------
(* Rabin_Karp_search.  The build has -ftrapv: a sum, difference or product  *)
(* that does not fit an int aborts; a shift drops the bits.                 *)

\* 1, shifted left k times.
TwoTo(k) == LET two[i \in 0 .. k] == IF i = 0 THEN 1 ELSE 2 * two[i - 1]
            IN  two[k]

\* Mutant: the hashes are of a narrower type than the arithmetic.
Fits_Narrower(n) == -TwoTo(IntBits - 2) <= n /\ n < TwoTo(IntBits - 2)

Fits(n) == -TwoTo(IntBits - 1) <= n /\ n < TwoTo(IntBits - 1)

Wrap(n) ==
    LET r == n % TwoTo(IntBits)
    IN  IF r < TwoTo(IntBits - 1) THEN r ELSE r - TwoTo(IntBits)

\* The hash after each character: doubled, plus the character.
Hashes(s) ==
    LET h[k \in 0 .. Len(s)] == IF k = 0 THEN 0 ELSE Wrap(2 * h[k - 1]) + s[k]
    IN  h

Hash(s) == Hashes(s)[Len(s)]

HashTraps(s) == \E k \in 1 .. Len(s) : ~Fits(Hashes(s)[k])

\* z: 1, shifted left match_len-1 times.
z == Wrap(TwoTo(Len(pat) - 1))

\* The first match_len bytes from the text on, its NUL and what follows it.
FirstWindows ==
    {[k \in 1 .. Len(pat) |-> IF k <= Len(CString(tmpbuf)) + 1 THEN InputAt(k - 1)
                                                               ELSE beyond[k]] :
        beyond \in [Len(CString(tmpbuf)) + 2 .. Len(pat) -> Chars]}

HashFirst ==
    /\ pc = "hash"
    /\ \E window \in FirstWindows :
           IF HashTraps(pat) \/ HashTraps(window)
           THEN Continue("trapped") /\ UNCHANGED var2
           ELSE Continue("karp") /\ var2' = Hash(window)
    /\ UNCHANGED <<pat, pos, state, nInd>>

KarpWindow == pc = "karp" /\ pos <= Len(input) - Len(pat)

Window(k) == [i \in 1 .. Len(pat) |-> InputAt(k + i - 1)]

KarpHit == Hash(pat) = var2 /\ Window(pos) = pat

KarpFound ==
    /\ KarpWindow /\ KarpHit
    /\ Return(TRUE) /\ UNCHANGED search

\* Mutant: the leading character leaves the hash with half its weight.
Rolled_HalfWeight ==
    Wrap(2 * (var2 - InputAt(pos) * (z \div 2))) + InputAt(pos + Len(pat))

\* The hash of the next window, and when computing it traps.
Rolled == Wrap(2 * (var2 - InputAt(pos) * z)) + InputAt(pos + Len(pat))

RollTraps ==
    \/ ~Fits(InputAt(pos) * z)
    \/ ~Fits(var2 - InputAt(pos) * z)
    \/ ~Fits(Rolled)

KarpRoll ==
    /\ KarpWindow /\ ~KarpHit
    /\ IF RollTraps
       THEN Continue("trapped") /\ UNCHANGED <<pos, var2>>
       ELSE Continue("karp") /\ pos' = pos + 1 /\ var2' = Rolled
    /\ UNCHANGED <<pat, state, nInd>>

KarpEnd ==
    /\ pc = "karp" /\ ~KarpWindow
    /\ Return(FALSE) /\ UNCHANGED search

-----------------------------------------------------------------------------
(* pcre_regex_search.  It gets the whole line, not the cut one.             *)

PcreSearch ==
    /\ pc = "pcre"
    /\ \/ rules[line] \in Compiles /\ Return(<<rules[line], input>> \in PcreMatches)
       \/ rules[line] \notin Compiles /\ Continue("exited")
    /\ UNCHANGED search

-----------------------------------------------------------------------------
\* texts are pairs of a text and what it encodes, files the rules to choose from.
Init(texts, files) ==
    /\ \E t \in texts : data = t[1] /\ plain = t[2]
    /\ pstr = 0 /\ tmpbuf = <<>>
    /\ alg \in 1 .. 4 /\ rules \in files[alg] /\ line = 0
    /\ pat = <<>> /\ pos = 0 /\ state = 0 /\ nInd = 0 /\ var2 = 0
    /\ at_list = FALSE /\ pc = "decode"

Ended == pc \in {"done", "crashed", "trapped", "exited"} /\ UNCHANGED vars

Next ==
    \/ DecodeChar \/ DecodeEnd
    \/ NextLine \/ matchlist_returns
    \/ DfaStep \/ DfaLost \/ DfaEnd
    \/ HorspoolCompare \/ HorspoolFound \/ HorspoolShift \/ HorspoolLost
    \/ HorspoolEnd
    \/ HashFirst \/ KarpFound \/ KarpRoll \/ KarpEnd
    \/ PcreSearch
    \/ Ended

-----------------------------------------------------------------------------
(* Properties.                                                              *)

OccursAt(p, s, k) == k + Len(p) <= Len(s) /\ SubSeq(s, k + 1, k + Len(p)) = p

Occurs(p, s) == \E k \in 0 .. Len(s) - Len(p) : OccursAt(p, s, k)

\* DFA_Search and horspool_search index a table with the text's chars.
AsciiInput == \A i \in 1 .. Len(input) : input[i] > 0

\* urldecode never reads past the text's NUL, and a text within the limit of
\* strnlen never overruns the buffer made for it, whatever its escapes are.
DecodeInBounds ==
    /\ pstr <= Len(data)
    /\ Len(data) <= ScanLimit => Len(tmpbuf) <= Len(data)

\* Whatever is escaped, and however, matchlist sees the text that was meant, up
\* to the NUL that ends it.
DecodesEncoding ==
    pc = "rule" => \A s \in plain : CString(tmpbuf) = CString(s)

\* The automaton's state is the length of the longest beginning of the pattern
\* that the text read so far ends with: NextMachineState falls back to the right
\* place after a mismatch.
LongestPrefix ==
    pc = "dfa" /\ AsciiInput =>
        state = Max({q \in 0 .. Len(pat) : q <= pos /\ OccursAt(SubSeq(pat, 1, q),
                                                   SubSeq(input, 1, pos), pos - q)})

\* No search steps over an occurrence: none begins before Horspool's shift or
\* Karp-Rabin's j, none ends before the automaton's place.
NoneSkipped ==
    /\ pc = "horspool" /\ AsciiInput =>
           \A k \in 0 .. pos - 1 : ~OccursAt(pat, input, k)
    /\ pc = "karp" => \A k \in 0 .. pos - 1 : ~OccursAt(pat, input, k)
    /\ pc = "dfa" /\ AsciiInput => ~Occurs(pat, SubSeq(input, 1, pos))

\* The rolled hash is the hash of the window it stands for, without the reads
\* beyond the text at either end ever reaching a comparison.
RollingHash == KarpWindow => var2 = Hash(Window(pos))

\* A pattern whose hash fits an int (24 characters for 32 bits) never traps,
\* whatever follows the text in memory.
ShortNeverTraps == Len(pat) + 8 <= IntBits => pc # "trapped"

\* The loop over the rules answers TRUE exactly when one of them occurs in the
\* text, cut as matchlist cuts it; and all algorithms agree on that.
VerdictIsOccurrence ==
    pc = "done" /\ alg \in 1 .. 3 /\ (alg = 3 \/ AsciiInput) =>
        (at_list <=> \E i \in 1 .. Len(rules) :
                         Len(rules[i]) > 4 /\ Occurs(Pattern(rules[i]), input))

\* Every shift goes on in the text: no search turns back or stands still.
SearchAdvances ==
    [][pc = "horspool" /\ nInd' > nInd /\ line' = line => pos' > pos]_vars

\* opt_extract.c:60 "match algorithm you can choice (dfa, horspool or karp-rabin)":
\* each answers for every rule and every text of plain characters that is as long
\* as the rule.
EachAlgorithmAnswers ==
    AsciiInput /\ Len(pat) <= Len(input) => pc # "trapped"
=============================================================================
