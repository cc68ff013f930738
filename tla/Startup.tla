------------------------------- MODULE Startup -------------------------------
(***************************************************************************)
(* From main to the event loop: the handlers, the options, the rule files, *)
(* the listener; and the signals that arrive on the way and afterwards.    *)
(*                                                                         *)
(* An argument is a sequence of characters.  getopt_long is modelled for   *)
(* options written out in full with their argument in the next word.       *)
(***************************************************************************)
EXTENDS Integers, Sequences
LOCAL INSTANCE FiniteSetsExt

CONSTANTS
    Short,      \* [word -> letter] "-h" and the like
    Long,       \* [word -> letter] "--host" and the like
    Sockaddrs,  \* the words evutil_parse_sockaddr_port accepts
    Numbers,    \* the words atoi makes a port of
    Contents,   \* what a rule file may hold: Null without a file, <<>>, lines
    Signals,    \* SIGINT, SIGTSTP, SIGQUIT
    Null        \* a pointer that was never set

Words == DOMAIN Short \cup DOMAIN Long

Letters == {"h", "r", "d", "m", "s", "p", "l"}

ASSUME StartupAssumption ==
    /\ Null \notin Words \cup Sockaddrs \cup Numbers
    /\ Null \notin Nat
    /\ \A w \in DOMAIN Short : Short[w] \in Letters
    /\ \A w \in DOMAIN Long : Long[w] \in Letters
    \* a word with one dash, or with two
    /\ DOMAIN Short \cap DOMAIN Long = {}
    /\ Signals \subseteq {"SIGINT", "SIGTSTP", "SIGQUIT"}

VARIABLES
    argv,      \* the words after the program's name
    optind,    \* the words getopt_long has consumed
    match,     \* parser_opts' options_match
    given,     \* the options parsed so far, with their arguments (history)
    param,     \* struct choice
    listen_on, connect_to,
    caught,    \* the signals that have a handler
    handlers,  \* the handlers that wait for a key, innermost last
    pc

opts == <<optind, match, given>>
addr == <<listen_on, connect_to>>
sigs == <<caught, handlers>>
vars == <<argv, optind, match, given, param, listen_on, connect_to, caught,
          handlers, pc>>

\* The thread runs only when it is not in a handler.
At(place) == pc = place /\ handlers = <<>>

Exit == pc' = "exited"

-----------------------------------------------------------------------------
(* Bounded strings.                                                         *)

Prefix(s, n) == SubSeq(s, 1, Min({Len(s), n}))

strnlen(s, n) == Min({Len(s), n})

\* Mutant: siz counts characters, and there is one less for the NUL.
strlcpy_LessNul(s, siz) == Prefix(s, siz - 2)

\* What dst holds afterwards.
strlcpy(s, siz) == Prefix(s, siz - 1)

xstrndup(s, n) == Prefix(s, n)

\* Mutant: the rest of find may go past slen.
strnstr_PastEnd(s, find, slen) ==
    LET at[k \in 0 .. Len(s)] ==
            IF slen - k < 1 \/ k = Len(s) THEN Null
            ELSE IF SubSeq(s, k + 1, Min({Len(s), k + Len(find)})) = find THEN k
            ELSE at[k + 1]
    IN  IF find = <<>> THEN 0 ELSE at[0]

\* The 0-based place that strnstr's two loops stop at.
strnstr(s, find, slen) ==
    LET len  == Len(find) - 1
        at[k \in 0 .. Len(s)] ==
            IF slen - k < 1 \/ k = Len(s) THEN Null
            ELSE IF s[k + 1] # find[1] THEN at[k + 1]
            ELSE IF len > slen - k - 1 THEN Null
            ELSE IF Prefix(SubSeq(s, k + 2, Len(s)), len) = Tail(find) THEN k
            ELSE at[k + 1]
    IN  IF find = <<>> THEN 0 ELSE at[0]

-----------------------------------------------------------------------------
(* main before the options.                                                 *)

\* Mutant: SIGQUIT is forgotten.
HandledSignals_Two == Signals \ {"SIGQUIT"}

HandledSignals == Signals

\* load_signal_alarm, one sigaction after the other.
load_signal_alarm ==
    /\ At("signals")
    /\ \/ \E s \in HandledSignals \ caught :
              caught' = caught \cup {s} /\ UNCHANGED pc
       \/ HandledSignals \subseteq caught /\ pc' = "sigpipe" /\ UNCHANGED caught
       \/ ~(HandledSignals \subseteq caught) /\ Exit /\ UNCHANGED caught
    /\ UNCHANGED <<param, handlers>>
    /\ UNCHANGED argv /\ UNCHANGED opts /\ UNCHANGED addr

\* signal(SIGPIPE, SIG_IGN), and the count of the arguments.
IgnoreSigpipe ==
    /\ At("sigpipe")
    /\ \/ Len(argv) + 1 >= 6 /\ pc' = "options"
       \/ Exit
    /\ UNCHANGED <<param>>
    /\ UNCHANGED argv /\ UNCHANGED opts /\ UNCHANGED addr /\ UNCHANGED sigs

-----------------------------------------------------------------------------
(* parser_opts.                                                             *)

\* Mutant: flags take an argument in their long form too.
NeedsArgument_Always(w) == TRUE

\* "h:r:d:m:s:p:l:" gives every short option an argument, long_options only some.
NeedsArgument(w) == w \in DOMAIN Long => Long[w] \in {"h", "r", "m", "l"}

Letter(w) == IF w \in DOMAIN Short THEN Short[w] ELSE Long[w]

\* The next option among the words not consumed, other words are passed over.
NextOption == {i \in optind + 1 .. Len(argv) :
                  /\ argv[i] \in Words
                  /\ \A j \in optind + 1 .. i - 1 : argv[j] \notin Words}

Dfa       == <<"d", "f", "a">>
Horspool  == <<"h", "o", "r", "s", "p", "o", "o", "l">>
KarpRabin == <<"k", "a", "r", "p", "-", "r", "a", "b", "i", "n">>

\* options_match after -m: the last of the three that is found, or as before.
MatchAfter(optarg) ==
    LET algorithm == strlcpy(optarg, 11)
        found(name) == strnstr(algorithm, name, Len(name)) # Null
    IN  IF found(KarpRabin) THEN 3
        ELSE IF found(Horspool) THEN 2
        ELSE IF found(Dfa) THEN 1 ELSE match

\* One turn of the switch.
Accepts(c, optarg) ==
    CASE c \in {"h", "r"} -> strnlen(optarg, 256) > 6
      [] c = "l"          -> strnlen(optarg, 127) > 1
      [] c = "m"          -> strnlen(optarg, 12) <= 11 /\ MatchAfter(optarg) # 0
      [] OTHER            -> TRUE

Assigned(c, optarg) ==
    CASE c = "h" -> [param EXCEPT !.hostarg = xstrndup(optarg, 256)]
      [] c = "r" -> [param EXCEPT !.redirectarg = xstrndup(optarg, 256)]
      [] c = "l" -> [param EXCEPT !.logfile = xstrndup(optarg, 256)]
      [] c = "m" -> [param EXCEPT !.option_algorithm = MatchAfter(optarg)]
      [] c = "d" -> [param EXCEPT !.debug = TRUE]
      [] c = "s" -> [param EXCEPT !.libinjection_sqli = TRUE]
      [] c = "p" -> [param EXCEPT !.pcre = TRUE]

ParseOption ==
    /\ At("options")
    /\ \E i \in NextOption :
           LET c      == Letter(argv[i])
               optarg == IF NeedsArgument(argv[i]) THEN argv[i + 1] ELSE <<>>
           IN  /\ ~NeedsArgument(argv[i]) \/ i < Len(argv)
               /\ IF Accepts(c, optarg)
                  THEN /\ param' = Assigned(c, optarg)
                       /\ match' = IF c = "m" THEN MatchAfter(optarg) ELSE match
                       /\ given' = Append(given, <<c, optarg>>)
                       /\ UNCHANGED pc
                  ELSE Exit /\ UNCHANGED <<param, match, given>>
               /\ optind' = IF NeedsArgument(argv[i]) THEN i + 1 ELSE i
    /\ UNCHANGED argv /\ UNCHANGED addr /\ UNCHANGED sigs

\* '?': the last word is an option without its argument.
MissingArgument ==
    /\ At("options")
    /\ \E i \in NextOption :
           /\ NeedsArgument(argv[i]) /\ i = Len(argv)
           /\ optind' = i
           /\ IF Letter(argv[i]) \in {"h", "r", "m"} THEN Exit ELSE UNCHANGED pc
    /\ UNCHANGED <<param, match, given>>
    /\ UNCHANGED argv /\ UNCHANGED addr /\ UNCHANGED sigs

OptionsEnd ==
    /\ At("options") /\ NextOption = {}
    /\ pc' = "regex_rules"
    /\ UNCHANGED <<param>>
    /\ UNCHANGED argv /\ UNCHANGED opts /\ UNCHANGED addr /\ UNCHANGED sigs

-----------------------------------------------------------------------------
(* load_all_rules: read_lines for three files.  A file that is not there     *)
(* ends the process because close(-1) fails, an empty one because fread      *)
(* returns nothing; fdopen and fclose may fail too.                         *)

RuleFiles == <<"regex_rules", "match_rules", "block_addr_list">>

AfterFile(f) == CASE f = "regex_rules" -> "match_rules"
                  [] f = "match_rules" -> "block_addr_list"
                  [] f = "block_addr_list" -> "host"

\* Mutant: a missing file is no error.
Readable_Missing(lines) == lines # <<>>

Readable(lines) == lines \notin {Null, <<>>}

load_all_rules ==
    \E i \in 1 .. 3 :
        LET f == RuleFiles[i]
        IN  /\ At(f)
            /\ \/ \E lines \in Contents :
                      /\ Readable(lines)
                      /\ param' = [param EXCEPT ![f] = lines]
                      /\ pc' = AfterFile(f)
               \/ Exit /\ UNCHANGED param
            /\ UNCHANGED argv /\ UNCHANGED opts /\ UNCHANGED addr /\ UNCHANGED sigs

-----------------------------------------------------------------------------
(* start_octopus_server.                                                    *)

\* signal, which may fail, and evutil_parse_sockaddr_port of param.hostarg.  A
\* host that is only a number leaves the address as burn_mem left it, of no family.
ParseHost ==
    /\ At("host")
    /\ \/ param.hostarg = Null /\ pc' = "crashed" /\ UNCHANGED listen_on
       \/ /\ param.hostarg \in Sockaddrs
          /\ listen_on' = param.hostarg /\ pc' = "redirect"
       \/ /\ param.hostarg \notin Sockaddrs \cup {Null}
          /\ UNCHANGED listen_on
          /\ pc' = IF param.hostarg \in Numbers THEN "redirect" ELSE "exited"
       \/ Exit /\ UNCHANGED listen_on
    /\ UNCHANGED <<param, connect_to>>
    /\ UNCHANGED argv /\ UNCHANGED opts /\ UNCHANGED sigs

RedirectOk == param.redirectarg \in Sockaddrs

ParseRedirect ==
    /\ At("redirect")
    /\ \/ param.redirectarg = Null /\ pc' = "crashed" /\ UNCHANGED connect_to
       \/ RedirectOk /\ connect_to' = param.redirectarg /\ pc' = "base"
       \/ param.redirectarg # Null /\ ~RedirectOk /\ Exit /\ UNCHANGED connect_to
    /\ UNCHANGED <<param, listen_on>>
    /\ UNCHANGED argv /\ UNCHANGED opts /\ UNCHANGED sigs

\* event_base_new and RAND_poll may fail.
MakeBase ==
    /\ At("base")
    /\ pc' = "listen" \/ Exit
    /\ UNCHANGED <<param>>
    /\ UNCHANGED argv /\ UNCHANGED opts /\ UNCHANGED addr /\ UNCHANGED sigs

\* There is no socket of no family.
Listen ==
    /\ At("listen")
    /\ \/ listen_on # Null /\ pc' = "serving"
       \/ Exit
    /\ UNCHANGED <<param>>
    /\ UNCHANGED argv /\ UNCHANGED opts /\ UNCHANGED addr /\ UNCHANGED sigs

DispatchEnds ==
    /\ At("serving") /\ Exit
    /\ UNCHANGED <<param>>
    /\ UNCHANGED argv /\ UNCHANGED opts /\ UNCHANGED addr /\ UNCHANGED sigs

-----------------------------------------------------------------------------
(* Signals.  sa_mask is empty: a handler is interrupted by the other        *)
(* signals, not by its own.  Without a handler SIGINT and SIGQUIT end the   *)
(* process; SIGTSTP only suspends it, which is taken for an end too.        *)

Stopped == pc \in {"exited", "crashed", "killed"}

\* Mutant: a handler may be interrupted by its own signal.
Blocked_Never(s) == FALSE

Blocked(s) == \E i \in DOMAIN handlers : handlers[i] = s

SignalArrives(s) ==
    /\ ~Stopped /\ ~Blocked(s)
    /\ IF s \in caught
       THEN handlers' = Append(handlers, s) /\ UNCHANGED pc
       ELSE pc' = "killed" /\ UNCHANGED handlers
    /\ UNCHANGED <<param, caught>>
    /\ UNCHANGED argv /\ UNCHANGED opts /\ UNCHANGED addr

\* getchar returns, and with it the innermost handler.
KeyPressed ==
    /\ ~Stopped /\ handlers # <<>>
    /\ handlers' = SubSeq(handlers, 1, Len(handlers) - 1)
    /\ UNCHANGED <<param, caught, pc>>
    /\ UNCHANGED argv /\ UNCHANGED opts /\ UNCHANGED addr

-----------------------------------------------------------------------------
Init(commands) ==
    /\ argv \in commands
    /\ optind = 0 /\ match = 0 /\ given = <<>>
    /\ param = [hostarg |-> Null, redirectarg |-> Null, logfile |-> Null,
                block_addr_list |-> Null, regex_rules |-> Null,
                match_rules |-> Null, debug |-> FALSE,
                libinjection_sqli |-> FALSE, pcre |-> FALSE,
                option_algorithm |-> 0]
    /\ listen_on = Null /\ connect_to = Null
    /\ caught = {} /\ handlers = <<>> /\ pc = "signals"

Next ==
    \/ load_signal_alarm \/ IgnoreSigpipe
    \/ ParseOption \/ MissingArgument \/ OptionsEnd
    \/ load_all_rules
    \/ ParseHost \/ ParseRedirect \/ MakeBase \/ Listen \/ DispatchEnds
    \/ \E s \in Signals : SignalArrives(s)
    \/ KeyPressed

-----------------------------------------------------------------------------
(* Properties.                                                              *)

LastOf(c) == given[Max({i \in DOMAIN given : given[i][1] = c})][2]

\* The loop starts only when every text filter_check reads without a look is
\* there, and both addresses are the ones last asked for, as far as xstrndup
\* copies them, parsed: every way of leaving one out has ended the process before.
ServesComplete ==
    pc = "serving" =>
        /\ \A i \in 1 .. 3 : param[RuleFiles[i]] \notin {Null, <<>>}
        /\ \A c \in {"h", "r"} : \E i \in DOMAIN given : given[i][1] = c
        /\ listen_on = Prefix(LastOf("h"), 256)
        /\ connect_to = Prefix(LastOf("r"), 256)
        /\ {listen_on, connect_to} \subseteq Sockaddrs

\* The algorithm is the one the last -m that names an algorithm names, spelt in
\* full: ten characters survive strlcpy, and no name is found inside another.
AlgorithmAsAsked ==
    pc = "serving" =>
        LET names(a) == IF Prefix(a, 3) = Dfa THEN 1
                        ELSE IF Prefix(a, 8) = Horspool THEN 2
                        ELSE IF Prefix(a, 10) = KarpRabin THEN 3 ELSE 0
            ms == {i \in DOMAIN given : given[i][1] = "m" /\ names(given[i][2]) # 0}
        IN  param.option_algorithm =
                IF ms = {} THEN 0 ELSE names(given[Max(ms)][2])

FlagOf(c) == CASE c = "d" -> param.debug [] c = "s" -> param.libinjection_sqli
               [] c = "p" -> param.pcre

\* A detector asked for in its long form is on while serving, unless the word
\* before took it for its argument, and none is on that no word asks for.
FlagsAsAsked ==
    pc = "serving" =>
        \A c \in {"d", "s", "p"} :
            /\ \A i \in DOMAIN argv :
                   argv[i] \in DOMAIN Long /\ Long[argv[i]] = c =>
                       \/ FlagOf(c)
                       \/ i > 1 /\ argv[i - 1] \in DOMAIN Short
                       \/ i > 1 /\ argv[i - 1] \in DOMAIN Long
                                /\ Long[argv[i - 1]] \in {"h", "r", "m", "l"}
            /\ FlagOf(c) => \E i \in DOMAIN argv :
                                argv[i] \in Words /\ Letter(argv[i]) = c

\* Once the options are parsed no signal of the terminal ends the process, as
\* No_Pause_Waf's message says.
NotTerminated ==
    [][pc \notin {"signals", "killed"} => pc' # "killed"]_vars

\* Each of the three handlers waits at most once: three keys always bring the
\* loop back, however the signals nest.
ThreeKeysResume == Len(handlers) <= 3

\* For any two words of the command line, strnstr finds the first occurrence of
\* the one within the first slen characters of the other, and none beyond.
StrnstrFindsFirst ==
    pc = "sigpipe" =>
        \A i \in DOMAIN argv, j \in DOMAIN argv : \A slen \in 0 .. Len(argv[i]) + 1 :
            LET s    == argv[i]
                find == argv[j]
                at   == {k \in 0 .. Len(s) :
                             /\ k + Len(find) <= Min({slen, Len(s)})
                             /\ SubSeq(s, k + 1, k + Len(find)) = find}
            IN  strnstr(s, find, slen) = IF at = {} THEN Null ELSE Min(at)
=============================================================================
