------------------------------ MODULE MCLaunch ------------------------------
(***************************************************************************)
(* Small instances of a launch. A port is one of 0..4, 3 being the largest *)
(* u16, and every other setting is blank, one word or another. A server    *)
(* started by hand gets every command line and environment; the other      *)
(* launches vary what is in the files instead.                             *)
(***************************************************************************)
EXTENDS Launch

NothingGiven == [k \in Declared |-> None]

Ports   == {None, Blank, Number(0), Number(1), Number(4), Word("http")}
Filters == {None, Blank, Word("debug"), Word("unreadable")}
Lists   == {None, Blank, Word("a")}

CommandLine(flagsGiven, unknown, extra) ==
  [given |-> flagsGiven, unknown |-> unknown, extra |-> extra]

\* Origins are said where hosts are, in another word.
Origin(h) == IF h \in {None, Blank} THEN h ELSE Word("origin")

Given(p, f, h) ==
  [NothingGiven EXCEPT !["PORT"] = p, !["RUST_LOG"] = f,
                       !["MCP_ALLOWED_HOSTS"] = h, !["MCP_ALLOWED_ORIGINS"] = Origin(h)]

\* The two settings of OpenTelemetry are said together.
Secrets(s, n) ==
  [NothingGiven EXCEPT !["SERVER_AUTH_SECRET"] = s, !["OTEL_SERVICE_NAME"] = n,
                       !["OTEL_EXPORTER_OTLP_ENDPOINT"] = n]

Contract(c) == [NothingGiven EXCEPT !["ACT_MCP_FLAGS_CONFIG"] = c]

PlainLine == CommandLine(NothingGiven, FALSE, FALSE)

MCCommandLines ==
  {CommandLine(Given(p, f, h), FALSE, FALSE) : p \in Ports, f \in Filters, h \in Lists}
    \cup {CommandLine(NothingGiven, u, ~u) : u \in BOOLEAN}
    \cup {CommandLine(Secrets(s, n), FALSE, FALSE) :
            s \in {None, Blank, Word("flag")}, n \in {None, Word("flag")}}
    \cup {CommandLine(Contract(Word("flag")), FALSE, FALSE)}

\* The image sets a port; whoever runs it may set another, or use another image.
ContainerEnvironments ==
  {[Secrets(s, n) EXCEPT !["PORT"] = p] :
     s \in {None, Word("env")}, n \in {None, Blank, Word("env")}, p \in {None, Number(3)}}

MCEnvironments ==
  {Given(p, f, h) :
     p \in {None, Blank, Number(0), Number(2), Number(4)}, f \in {None, Word("trace")},
     h \in {None, Blank, Word("b")}}
    \cup ContainerEnvironments
    \cup {Contract(Blank), Contract(Word("env"))}

MCPlaces == [file : BOOLEAN, candidates : {{}, {1}, {2, 3}}]

-----------------------------------------------------------------------------
(* What the texts spell. With quotes or a pad around it a secret is longer *)
(* but still one.                                                          *)

MCSecretOf(text) ==
  [id |-> text, bytes |-> IF text.kind = "raw" THEN 5 ELSE 3,
   visible |-> text.kind # "raw" \/ text.value.special # "wide",
   blank |-> text.kind = "raw" /\ text.value.special = "newline"]

Authority(name, parses) ==
  [name |-> name, upper |-> FALSE, bytes |-> 1, visible |-> TRUE, parses |-> parses,
   userinfo |-> FALSE]

MCLocalHost(p) == Authority([kind |-> "local", port |-> p], TRUE)
MCHostsOf(text) == {Authority(text, text.kind = "word")}
MCOriginsOf(text) ==
  {[visible |-> TRUE, scheme |-> "https", authority |-> Authority(text, TRUE), path |-> "/"]}

-----------------------------------------------------------------------------
(* Files of one or two lines.                                              *)

Unquoted(text) == Value(text, None, None, None, FALSE)
Comment == Line(None, FALSE, Unquoted(Blank))

number  == Line("PORT", FALSE, Unquoted(Number(1)))
quoted  == Line("PORT", FALSE, Value(Number(1), "single", None, None, FALSE))
secret  == Line("SERVER_AUTH_SECRET", FALSE, Unquoted(Word("s")))
padded  == Line("SERVER_AUTH_SECRET", FALSE, Value(Word("s"), None, None, None, TRUE))
export  == Line("SERVER_AUTH_SECRET", TRUE, Value(Word("t"), "double", None, None, FALSE))
nested  == Line("SERVER_AUTH_SECRET", FALSE, Value(Word("s"), "single", "double", "newline", FALSE))
wide    == Line("SERVER_AUTH_SECRET", FALSE, Value(Word("w"), "double", None, "wide", FALSE))
umlaut  == Line("SERVER_AUTH_SECRET", FALSE, Value(Word("w"), None, None, "wide", FALSE))
hollow  == Line("SERVER_AUTH_SECRET", FALSE, Value(Blank, "single", None, None, FALSE))
empty   == Line("SERVER_AUTH_SECRET", FALSE, Unquoted(Blank))
escaped == Line("OTEL_SERVICE_NAME", FALSE, Value(Word("n"), "double", None, "newline", FALSE))
blank   == Line("OTEL_SERVICE_NAME", FALSE, Unquoted(Blank))

MCFiles ==
  {<<>>, <<number>>, <<Comment, secret>>, <<secret, blank>>, <<secret, number>>,
   <<padded, number>>, <<secret, padded>>, <<quoted, number>>, <<export, blank>>,
   <<escaped>>, <<hollow>>, <<empty, number>>, <<Comment, quoted>>, <<nested>>, <<wide, number>>, <<umlaut>>, <<quoted, export>>}

ByHand == Way("hand", None, None, FALSE, FALSE, FALSE)

MCLaunches ==
  {ByHand}
    \cup {Way("env-run", f, None, FALSE, FALSE, FALSE) : f \in MCFiles \cup {None, Junk}}
    \cup {Way("image", None, f, k, r, s) :
            f \in MCFiles \cup {None, Junk}, k, r, s \in BOOLEAN}
    \cup {Way("env-docker-run", f, b, k, FALSE, TRUE) :
            f \in MCFiles \cup {None, Junk}, b \in {None, Junk, <<secret, blank>>},
            k \in BOOLEAN}
    \cup {Way("cluster", f, b, k, FALSE, TRUE) :
            f \in MCFiles \cup {None, Junk}, b \in {None, <<secret, blank>>}, k \in BOOLEAN}

\* The command lines vary only for a server started by hand, and the places of
\* the contract, on which nothing else depends, only for one of them.
MCInit ==
  /\ launch \in MCLaunches
  /\ argv \in IF launch = ByHand THEN MCCommandLines ELSE {PlainLine}
  /\ place \in IF launch = ByHand /\ argv = PlainLine THEN MCPlaces
               ELSE {[file |-> TRUE, candidates |-> {1}]}
  /\ ambient \in IF launch = ByHand THEN MCEnvironments ELSE ContainerEnvironments
  /\ LaunchInit

MCSpec == MCInit /\ [][LaunchNext]_<<vars, launchVars>>
=============================================================================
