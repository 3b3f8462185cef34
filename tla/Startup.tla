------------------------------- MODULE Startup -------------------------------
(***************************************************************************)
(* How the process gets its settings: the flags contract is located, the   *)
(* command line is parsed against it, the flags that were really given are *)
(* merged over a snapshot of the environment (startup.rs, env_map.rs), and *)
(* the merged map is read a second time by Config::from_env_map.           *)
(*                                                                         *)
(* A text is a record: blank, a number, or a word. What it says as a       *)
(* secret or as a list is what module Policy judges. The flags2env parser is *)
(* modelled by what startup.rs asks of it.                                 *)
(***************************************************************************)
EXTENDS Policy, FiniteSetsExt

CONSTANTS
  MaxPort,         \* the largest u16
  DefaultPort,     \* the 8080 of startup.rs, of config.rs and of the contract
  CommandLines,    \* the command lines a process may be given
  Environments,    \* the environments it may inherit: [Key -> Text]
  Places,          \* whether the named contract is a file, and which candidates are
  SecretOf(_),     \* the secret, the authorities and the origins a text spells
  HostsOf(_),
  OriginsOf(_),
  LocalHost(_)     \* the authority of localhost, with a port or None

ASSUME StartupAssumption == MaxPort \in Nat /\ DefaultPort \in 1 .. MaxPort

VARIABLES
  argv,      \* the command line: the flags given, and what else is in it
  ambient,   \* the process environment
  place,     \* where the contract may be
  phase,     \* "start", "located", "parsed", "ready", "configured" or "failed"
  contract,  \* the contract in use: NamedContract or the number of a candidate
  flags,     \* parsed.flags
  env,       \* StartupFlags.env
  port,      \* StartupFlags.port
  cfg        \* the Config main ends up with

inputs == <<argv, ambient, place>>
vars == <<inputs, phase, contract, flags, env, port, cfg>>

Blank == [kind |-> "blank"]
Number(n) == [kind |-> "number", n |-> n]
Word(w) == [kind |-> "word", w |-> w]

\* The flags .cli-flags.toml declares, by the key each one stands for, and the
\* keys startup.rs takes an override from.
Declared == {"PORT", "RUST_LOG", "MCP_ALLOWED_HOSTS", "MCP_ALLOWED_ORIGINS",
             "ACT_MCP_FLAGS_CONFIG", "OTEL_EXPORTER_OTLP_ENDPOINT", "OTEL_SERVICE_NAME",
             "SERVER_AUTH_SECRET"}
Overridable == {"PORT", "RUST_LOG", "MCP_ALLOWED_HOSTS", "MCP_ALLOWED_ORIGINS"}

DefaultOf ==
  [k \in Declared |->
     CASE k = "PORT" -> Number(DefaultPort)
       [] k = "MCP_ALLOWED_ORIGINS" -> Blank
       [] k \in {"RUST_LOG", "MCP_ALLOWED_HOSTS"} -> Word("default")
       [] OTHER -> None]

Init ==
  /\ argv \in CommandLines
  /\ ambient \in Environments
  /\ place \in Places
  /\ phase = "start"
  /\ contract = None
  /\ flags = None
  /\ env = None
  /\ port = None
  /\ cfg = None

\* The candidates are numbered from 1, in the order they are tried.
NamedContract == 0

Fail == phase' = "failed" /\ UNCHANGED <<contract, flags, env, port, cfg>>

-----------------------------------------------------------------------------

\* A path that is named must be there; the candidates are tried in order only
\* when none is. The path is the environment's: no flag has been read yet.
ResolveConfigPath ==
  /\ phase = "start"
  /\ LET named == ambient["ACT_MCP_FLAGS_CONFIG"] \notin {None, Blank}
     IN IF IF named THEN place.file ELSE place.candidates # {}
        THEN /\ phase' = "located"
             /\ contract' = IF named THEN NamedContract ELSE Min(place.candidates)
             /\ UNCHANGED <<flags, env, port, cfg>>
        ELSE Fail
  /\ UNCHANGED inputs

\* The parser reports a value of the wrong type, and gives every declared flag
\* that is missing its default.
WrongValue == argv.given["PORT"] \notin {None} /\ argv.given["PORT"].kind # "number"
ParsedFlags ==
  [k \in Declared |-> IF argv.given[k] # None THEN argv.given[k] ELSE DefaultOf[k]]

ParseFlags ==
  /\ phase = "located"
  /\ \/ Fail                          \* the audit of the contract fails
     \/ /\ ~argv.unknown /\ ~WrongValue /\ ~argv.extra
        /\ phase' = "parsed"
        /\ flags' = ParsedFlags
        /\ UNCHANGED <<contract, env, port, cfg>>
  /\ UNCHANGED inputs

-----------------------------------------------------------------------------

\* env_value: absent and blank are the same.
EnvValue(e, k, default) == IF e[k] \in {None, Blank} THEN default ELSE e[k]

\* parse::<u16>()
IsU16(text) == text.kind = "number" /\ text.n \in 0 .. MaxPort

\* Mutant: the defaults of the contract count as flags.
OverridesDefaults == {k \in Overridable : flags[k] # None}

\* Mutant: every flag on the command line is an override.
OverridesAll == {k \in Declared : argv.given[k] # None /\ flags[k] # None}

\* Only a flag that is on the command line is an override (argv_has_flag).
Overrides == {k \in Overridable : argv.given[k] # None /\ flags[k] # None}

\* get_env_map: later entries win, the empty ones too.
MergedEnv == [k \in Declared |-> IF k \in Overrides THEN flags[k] ELSE ambient[k]]

\* Mutant: the port is read from the environment as it was before the merge.
StartupPortAmbient(e) == EnvValue(ambient, "PORT", Number(DefaultPort))

StartupPort(e) == EnvValue(e, "PORT", Number(DefaultPort))

\* A filter is a directive the tracing crate can read.
ValidFilter(text) == text # Word("unreadable")

MergeEnv ==
  /\ phase = "parsed"
  /\ IF /\ IsU16(StartupPort(MergedEnv))
        /\ StartupPort(MergedEnv).n # 0
        /\ ValidFilter(EnvValue(MergedEnv, "RUST_LOG", Word("default")))
     THEN /\ phase' = "ready"
          /\ env' = MergedEnv
          /\ port' = StartupPort(MergedEnv).n
          /\ UNCHANGED <<contract, flags, cfg>>
     ELSE Fail
  /\ UNCHANGED inputs

\* Mutant: the default list names no port.
DefaultHostsBare == {LocalHost(None)}

\* DEFAULT_ALLOWED_HOSTS, for one of the four names it gives.
DefaultHosts == {LocalHost(None), LocalHost(DefaultPort)}

Said(e, k) == EnvValue(e, k, None) # None

\* The settings from_env_map takes out of the map, before it validates them.
SettingsOf(e) ==
  [secret  |-> IF Said(e, "SERVER_AUTH_SECRET") THEN SecretOf(e["SERVER_AUTH_SECRET"])
               ELSE None,
   hosts   |-> IF Said(e, "MCP_ALLOWED_HOSTS") THEN HostsOf(e["MCP_ALLOWED_HOSTS"])
               ELSE DefaultHosts,
   origins |-> IF Said(e, "MCP_ALLOWED_ORIGINS") THEN OriginsOf(e["MCP_ALLOWED_ORIGINS"])
               ELSE {}]

\* Mutant: config.rs has another default.
ConfigPortOther(e) == EnvValue(e, "PORT", Number(DefaultPort - 1))

ConfigPort(e) == EnvValue(e, "PORT", Number(DefaultPort))

\* Config::from_env_map reads the port again, main overwrites it; the rest of it
\* becomes the AppState of the router. The endpoint is what telemetry::init is
\* going to find in the same map.
FromEnvMap ==
  /\ phase = "ready"
  /\ IF IsU16(ConfigPort(env)) /\ ValidConfig(SettingsOf(env))
     THEN /\ phase' = "configured"
          /\ cfg' = [port     |-> port,
                     read     |-> ConfigPort(env).n,
                     filter   |-> EnvValue(env, "RUST_LOG", Word("default")),
                     service  |-> EnvValue(env, "OTEL_SERVICE_NAME", Word("default")),
                     endpoint |-> EnvValue(env, "OTEL_EXPORTER_OTLP_ENDPOINT", None),
                     app      |-> AppState(SettingsOf(env))]
          /\ UNCHANGED <<contract, flags, env, port>>
     ELSE Fail
  /\ UNCHANGED inputs

Next == ResolveConfigPath \/ ParseFlags \/ MergeEnv \/ FromEnvMap

Spec == Init /\ [][Next]_vars

-----------------------------------------------------------------------------
(* What startup promises.                                                  *)

ChosenEnv == [k \in Declared |-> IF argv.given[k] # None THEN argv.given[k] ELSE ambient[k]]
Chosen(k, default) == EnvValue(ChosenEnv, k, default)

\* A flag beats the environment and the environment beats the default; a blank
\* value, wherever it comes from, is the default, and a blank flag hides what
\* the environment says (argv_has_flag and get_env_map).
SettingsHavePrecedence ==
  phase = "configured" =>
    /\ IsU16(Chosen("PORT", Number(DefaultPort)))
    /\ cfg.port = Chosen("PORT", Number(DefaultPort)).n
    /\ cfg.filter = Chosen("RUST_LOG", Word("default"))
    /\ cfg.app.allowedHosts = AppState(SettingsOf(ChosenEnv)).allowedHosts
    /\ cfg.app.allowedOrigins = AppState(SettingsOf(ChosenEnv)).allowedOrigins

\* The port is parsed in two places, each with a default of its own: the one main
\* binds is the one from_env_map has read, which cannot fail over it any more, and
\* it is one that can be bound (main.rs:27-28).
PortsAgree ==
  /\ phase = "ready" => IsU16(ConfigPort(env))
  /\ phase = "configured" => cfg.read = cfg.port /\ cfg.port \in 1 .. MaxPort

\* .cli-flags.toml:5-6, "Authentication and OpenTelemetry exporter configuration
\* remain environment-only": the contract declares flags for them all the same
\* (51-73), which the parser lets through, but no override is made of one.
EnvironmentOnly ==
  phase = "configured" =>
    /\ cfg.app.authSecret = SettingsOf(ambient).secret
    /\ cfg.service = EnvValue(ambient, "OTEL_SERVICE_NAME", Word("default"))
    /\ cfg.endpoint = EnvValue(ambient, "OTEL_EXPORTER_OTLP_ENDPOINT", None)

-----------------------------------------------------------------------------
(* What the tests say and startup does not do.                             *)

\* startup.rs:178, "secret-bearing option must remain unknown", and README.md:64-65,
\* "`SERVER_AUTH_SECRET` remains excluded from the CLI contract": a process that is
\* given its secret as a flag does not start.
SecretFlagRefused ==
  argv.given["SERVER_AUTH_SECRET"] \notin {None, Blank} => phase \in {"start", "located", "failed"}
=============================================================================
