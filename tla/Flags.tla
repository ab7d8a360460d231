------------------------------- MODULE Flags -------------------------------
(***************************************************************************)
(* How vgi-odata-worker reads its command line and picks its transport:    *)
(* docker-entrypoint.sh puts arguments before the user's, main.go filters  *)
(* them with filterKnownFlags, the flag package parses what is left, and   *)
(* main dispatches.  The filter and the parser each decide which token is  *)
(* the value of the one before, and have to agree.                         *)
(***************************************************************************)
EXTENDS Integers, Sequences

CONSTANTS
    Word,           \* tokens without a leading dash, and values after "="
    Argv,           \* the arguments a user or a launcher may give
    DefaultAddr,    \* 127.0.0.1:0
    ContainerAddr,  \* 0.0.0.0:$PORT
    Empty,          \* the empty string
    None

ASSUME WordAssumption ==
    /\ {DefaultAddr, ContainerAddr, Empty, "true", "false"} \subseteq Word
    /\ None \notin Word

\* The flags that take a value, as main declares them and the SDK registers them.
TakesValue == {"log-level", "log-format", "log-logger", "unix", "http-addr"}
Defined == TakesValue \cup {"http"}

ASSUME EmptyAssumption == Empty \notin Defined

\* What filterKnownFlags is told of that; the slip is to forget the last one.
valueFlagsShort == {"log-level", "log-format", "log-logger", "unix"}
valueFlags == {"log-level", "log-format", "log-logger", "unix", "http-addr"}

\* A token: how many dashes it begins with, the rest up to "=", and what follows.
Token == [dashes : 0 .. 3, name : Defined \cup Word \cup {"other"}, value : Word \cup {None}]

Plain(w) == [dashes |-> 0, name |-> w, value |-> None]
Flag(n) == [dashes |-> 2, name |-> n, value |-> None]

ASSUME ArgvAssumption == Argv \subseteq Seq(Token)

VARIABLES
    entry,  \* "direct", or the container's "http" or "stdio"
    argv,   \* os.Args[1:]
    i,      \* loop counter of filterKnownFlags
    out,    \* tokens it has kept; later, those the parser has still to read
    set,    \* value of each flag
    pc, mode

vars == <<entry, argv, i, out, set, pc, mode>>

\* docker-entrypoint.sh: in http mode the address comes first, then "$@".
Given(e, rest) ==
    IF e = "http"
    THEN <<Flag("http"), Flag("http-addr"), Plain(ContainerAddr)>> \o rest
    ELSE rest

Unset == [n \in Defined |-> CASE n = "http" -> Plain("false")
                              [] n = "http-addr" -> Plain(DefaultAddr)
                              [] OTHER -> Plain(Empty)]

Init == /\ entry \in {"direct", "http", "stdio"}
        /\ \E rest \in Argv : argv = Given(entry, rest)
        /\ i = 1
        /\ out = << >>
        /\ set = Unset
        /\ pc = "filter"
        /\ mode = None

\* filterKnownFlags keeps a token with dashes and a name that is defined; the
\* slip is to keep every token with dashes.
KnownOrNot(t) == t.dashes > 0
Known(t) == t.dashes > 0 /\ t.name \in Defined

\* Where the loop goes on after a token that is dropped; the slip is to drop the
\* next one with it, as its value.
AfterBoth == i + 2
After == i + 1

\* One turn of its loop: "continue", or the token and perhaps the next.
Skip ==
    /\ pc = "filter"
    /\ i <= Len(argv)
    /\ ~Known(argv[i])
    /\ i' = After
    /\ UNCHANGED <<entry, argv, out, set, pc, mode>>

Keep ==
    /\ pc = "filter"
    /\ i <= Len(argv)
    /\ Known(argv[i])
    /\ LET t == argv[i]
           last == IF t.name \in valueFlags /\ t.value = None /\ i + 1 <= Len(argv)
                   THEN i + 1 ELSE i
       IN  /\ out' = out \o SubSeq(argv, i, last)
           /\ i' = last + 1
    /\ UNCHANGED <<entry, argv, set, pc, mode>>

Filtered ==
    /\ pc = "filter"
    /\ i > Len(argv)
    /\ pc' = "parse"
    /\ UNCHANGED <<entry, argv, i, out, set, mode>>

(***************************************************************************)
(* flag.CommandLine.Parse: it stops at the first token that is no flag,    *)
(* and ends the process on a usage error (ExitOnError).                    *)
(***************************************************************************)
IsFlag(t) == t.dashes > 0 /\ ~(t.name = Empty /\ t.dashes <= 2)
WellFormed(t) == t.dashes <= 2 /\ t.name \in Defined

Parsing == pc = "parse" /\ out # << >> /\ IsFlag(Head(out))

Sets(v, used) ==
    /\ set' = [set EXCEPT ![Head(out).name] = v]
    /\ out' = SubSeq(out, used + 1, Len(out))
    /\ UNCHANGED <<entry, argv, i, pc, mode>>

UsageError ==
    /\ pc' = "usage"
    /\ UNCHANGED <<entry, argv, i, out, set, mode>>

ParseUnknown ==
    /\ Parsing
    /\ ~WellFormed(Head(out))
    /\ UsageError

ParseSwitch ==
    /\ Parsing
    /\ WellFormed(Head(out))
    /\ Head(out).name \notin TakesValue
    /\ LET v == Head(out).value
       IN  \/ v = None /\ Sets(Plain("true"), 1)
           \/ v \in {"true", "false"} /\ Sets(Plain(v), 1)
           \/ v \notin {None, "true", "false"} /\ UsageError

ParseValue ==
    /\ Parsing
    /\ WellFormed(Head(out))
    /\ Head(out).name \in TakesValue
    /\ LET v == Head(out).value
       IN  \/ v # None /\ Sets(Plain(v), 1)
           \/ v = None /\ Len(out) > 1 /\ Sets(out[2], 2)
           \/ v = None /\ Len(out) = 1 /\ UsageError

Parsed == pc = "parse" /\ ~Parsing

\* logFlags.Apply rejects a level, a format or a logger that was given.
ApplyFails ==
    /\ Parsed
    /\ \E n \in {"log-level", "log-format", "log-logger"} : set[n] # Unset[n]
    /\ pc' = "fatal"
    /\ UNCHANGED <<entry, argv, i, out, set, mode>>

\* The end of main: --http, else a socket path, else stdio.
Dispatch ==
    /\ Parsed
    /\ pc' = "running"
    /\ mode' = CASE set["http"] = Plain("true") -> "http"
                 [] set["http"] # Plain("true") /\ set["unix"] # Plain(Empty) -> "unix"
                 [] OTHER -> "stdio"
    /\ UNCHANGED <<entry, argv, i, out, set>>

Terminated == pc \in {"usage", "fatal", "running"} /\ UNCHANGED vars

Next == \/ Skip \/ Keep \/ Filtered
        \/ ParseUnknown \/ ParseSwitch \/ ParseValue
        \/ ApplyFails \/ Dispatch \/ Terminated

Spec == Init /\ [][Next]_vars

(***************************************************************************)
(* What a command line says, read off it directly: a token is a value when *)
(* the one before is a flag that wants one, and the last setting counts.   *)
(***************************************************************************)
Wants(t) == t.dashes > 0 /\ t.name \in TakesValue /\ t.value = None

IsValue ==
    LET value[k \in 0 .. Len(argv)] == k > 1 /\ ~value[k - 1] /\ Wants(argv[k - 1])
    IN  value

Own == {k \in DOMAIN argv : ~IsValue[k] /\ argv[k].dashes > 0 /\ argv[k].name \in Defined}

Settings(n) == {k \in Own : argv[k].name = n}

Says(n) ==
    IF Settings(n) = {} THEN Unset[n]
    ELSE LET k == CHOOSE k \in Settings(n) : \A other \in Settings(n) : other <= k
         IN  CASE argv[k].value # None -> Plain(argv[k].value)
               [] argv[k].value = None /\ n \in TakesValue -> argv[k + 1]
               [] OTHER -> Plain("true")

Malformed(k) ==
    \/ argv[k].dashes > 2
    \/ Wants(argv[k]) /\ k = Len(argv)
    \/ argv[k].name = "http" /\ argv[k].value \notin {None, "true", "false"}

(***************************************************************************)
(* Properties                                                              *)
(***************************************************************************)
TypeOK ==
    /\ entry \in {"direct", "http", "stdio"}
    /\ argv \in Seq(Token) /\ out \in Seq(Token)
    /\ i \in 1 .. Len(argv) + 1
    /\ set \in [Defined -> Token]
    /\ pc \in {"filter", "parse", "usage", "fatal", "running"}
    /\ mode \in {None, "http", "unix", "stdio"}

\* Nothing that a launcher adds for itself keeps the worker from starting: only a
\* flag of the worker's own, misspelt, can (main.go, "Unknown launcher flags are
\* tolerated" and the comment on filterKnownFlags).
ForeignTolerated == pc = "usage" => \E k \in Own : Malformed(k)

\* The worker serves the transport that its own flags ask for, at the address or
\* the path they give, whatever stands between them: filter and parser read the
\* same tokens as values (main.go, filterKnownFlags and the dispatch of main).
ServesAsAsked ==
    pc = "running" =>
        /\ set["http-addr"] = Says("http-addr")
        /\ set["unix"] = Says("unix")
        /\ mode = "http" <=> Says("http") = Plain("true")
        /\ mode = "unix" <=> Says("http") # Plain("true") /\ Says("unix") # Plain(Empty)

\* A container started in http mode serves HTTP on the published port, or does
\* not start, unless the user's arguments set the transport or the address
\* (docker-entrypoint.sh, "Bind 0.0.0.0 on a FIXED port").
ContainerReachable ==
    (/\ entry = "http"
     /\ pc = "running"
     /\ \A k \in Own : argv[k].name \in {"http", "http-addr"} => k <= 2)
    => mode = "http" /\ set["http-addr"] = Plain(ContainerAddr)
=============================================================================
