# Verification of act-mcp-server

TLA+ models, TLC runs and TLAPS proofs for act-mcp-server.rs: an HTTP server
that answers the JSON-RPC requests of the Model Context Protocol behind a
shared secret, counts its tool calls in OpenTelemetry metrics, and drains when
it is told to stop; and for the shell recipes that handle the environments it
is started in.

Paths are those of the repository: `src/main.rs` is the server's entry point.

## 1. The system

| Component | Source | State it keeps | Operations |
| --- | --- | --- | --- |
| startup flags | `src/startup.rs`, `src/env_map.rs`, `.cli-flags.toml` | a snapshot of environment and command line | locate the contract, parse, merge, check port and filter |
| configuration | `src/config.rs`, `src/state.rs` | none after startup: an immutable `AppState` | parse, validate and normalise secret, hosts, origins |
| gate | `src/auth.rs` | none | four checks per request, in order: configured, host, secret, origin |
| router | `src/routes.rs` | none | route, gate, limit the body, extract JSON, probes |
| JSON-RPC handler | `src/mcp.rs` | none (a session is the client's) | envelope, ids, notifications, `initialize`, `ping`, `tools/list`, `tools/call` |
| telemetry | `src/telemetry.rs` | meter provider, three instruments, a reader thread; tracer provider, a queue of spans, an exporting thread | init, record a tool call, export, flush at shutdown |
| process lifecycle | `src/main.rs` | how far `main` has got, signal handlers, one task per connection | start, accept, drain, flush, exit |
| environment recipes | `.just/env.just`, `justfile` | `env/enc`, `env/dec`, the `.env` link, `.sops.yaml`, the age key of each machine | decrypt, encrypt, edit, use, clean, run, hand to docker or kubernetes, make keys, rekey, audit |
| dotenv normaliser | `.just/dotenv.py` | none | parse once, render for a shell, docker, kubernetes |
| container entrypoint | `scripts/sops-entrypoint.sh` | none | decrypt, merge into the environment, exec |

How they meet. `main` runs startup, configuration and telemetry init one after
the other; each may end the process. The router then serves every connection in
a task of its own: gate, body limit and extractor are layers around the handler,
and the handler records each tool call on the telemetry's instruments, which a
reader thread collects at any moment. A signal reaches the accept loop and each
connection's task at different times; `main` comes back from `serve` when the
last connection is gone, asks the reader for a last cycle and the span processor
for what it holds, and exits. The
recipes share files without a lock, each command of each recipe being a step of
its own.

What is hard:

- request tasks write three instruments one by one while the reader collects;
- exports fail, are late, or are under way when the last one is asked for;
- a signal races accepting, reading, handling and answering, on each connection;
- startup fails half-way, handlers cannot be installed, `SIGTERM` comes early;
- layers in the wrong order would buffer or disclose before the gate;
- an error must be answered under the id of its request, a notification never;
- the span processor's queue is bounded, and nobody waits for it or its collector;
- recipes fail or are interrupted between two commands, and run beside others;
- a value passes two parsers and three renderings on its way to the gate;
- keys are lost, before an audit or after it, and a rekey stops half-way.

`PROJECT.json` lists these at their lines, under `hazards`, with the properties
that cover them or the reason none does.

## 2. The modules

| Module | Models | Notes |
| --- | --- | --- |
| `Http` | responses and `None` | shared by all |
| `Policy` | `config.rs`, `auth.rs` | pure operators: what a valid configuration is, and `RequireServerAuth` |
| `Rpc` | `mcp.rs` | pure operators over JSON values as records: `Respond(version, body)` |
| `RpcSession` | a client that follows the handshake, and the handler | what a client may rely on over several messages |
| `RpcSessionProofs` | theorems about `RpcSession` | |
| `Telemetry` | `telemetry.rs`, and the SDK's periodic reader as it uses it | a component: variables, actions, no `Next` of its own |
| `Server` | `main.rs`, `routes.rs`, composed with the three above | the core: 22 actions and the reader's |
| `McpService` | the promise to clients | abstract: a request is answered in one step |
| `ServerProperties` | invariants, action properties, refinement, liveness of `Server` | |
| `ServerProofs` | theorems about the metrics and the drain | |
| `GateProofs` | theorems about the gate and the drain | extends `ServerProofs` |
| `ServiceProofs` | the theorem that `Server` implements `McpService` | extends `GateProofs` |
| `Traces` | the spans of `mcp.rs`, the tracer provider of `telemetry.rs` and its shutdown | beside `Server`, with a `main` of its own |
| `TracesProofs` | theorems about `Traces` | |
| `Startup` | `startup.rs`, `env_map.rs`, the contract, `Config::from_env_map` | one step per stage of startup |
| `Dotenv` | `dotenv.py`, and the loop of `sops-entrypoint.sh` | pure operators: what a file of lines means to each |
| `Launch` | `env-run`, `env-docker-run`, `env-k8s-secret`, `sops-entrypoint.sh`, composed with `Startup` and `Policy` | from the ciphertext to the gate |
| `LaunchProofs` | theorems about `Startup` and `Launch`, and the lemmas about the loops of `Dotenv` | |
| `EnvFiles` | `env.just` and the `justfile`'s link recipes | one action per command of a recipe |
| `EnvFilesProofs` | theorems about `EnvFiles` | |
| `Recipients` | `env-keygen`, `env-whoami`, `env-new`, `env-rekey`, the audit of `env-check`, `.sops.yaml` | who can open which ciphertext |
| `RecipientsProofs` | theorems about `Recipients` | |
| `MCServer`, `MCRpc`, `MCLaunch`, `MCEnvFiles`, `MCRecipients` | instances for TLC | texts, requests, environments, symmetry |

### Server

A connection is at one of the stages `closed`, `fresh`, `arriving`, `idle`,
`head`, `body`, `calls`, `errors`, `latency`, `write`. The steps of a task are
those between two points at which it can be interleaved with another: reading a
frame, running the extractor and the handler in one poll (`RunHandler`), writing
each of the three instruments (atomics another thread may read in between), and
writing the answer. A client may go at any stage at which the task waits for it.
`got` counts the frames of the body buffered so far, so that the order of gate
and body limit shows.

`main` goes through `boot`, `configured`, `instrumented`, `serving`, `draining`,
`flushing` and `exited`, or ends `failed` or `killed`. `ArmSignals` is the first
poll of `shutdown_signal`: both branches of the `select!`, in either order, each
with a handler that may fail to install. `Pid1` says whether an uncaught signal
is ignored (the container's entrypoint execs the server as PID 1) or ends the
process. `StopAccepting` and `NoticeDrain` are the accept loop and a connection
learning of the signal, each at its own time; a connection may still be accepted
in between.

`Telemetry` keeps what the instruments hold (`totals`), where the reader is
(`reader`), and what the collector has (`exported`). Cycles collect instrument by
instrument; an export succeeds, fails, or is still going on when `shutdown()`
stops waiting for it (`GiveUp`), after which the process exits with `flush`
`"late"`. Instruments are built on first use from the provider of that moment
(`Forced`).

`McpService` states what all this amounts to for clients, and
`ImplementsService` is the refinement: `app`, the request and answer of each
connection in the server's hands, and the count of tools run implement the
one-step service.

### Traces

Workers are inside a span or not (`open`), and a span that ends is put on the
queue of the batch processor or dropped when that is full (`LeaveCall`); the
processor's thread takes batches and exports them, each once (`ExportBatch`).
`main` leaves `serve()` when no call is left, shuts the meter provider down,
whose error it only logs, and then asks the tracer provider (`ShutdownMetrics`),
for which it waits so long and no longer (`GiveUp`). The processor is the SDK's
and modelled by what `telemetry.rs` relies on. The spans share nothing with the
instruments of module `Telemetry` but the order of `shutdown`, so the module
stands alone: product states of the two would say nothing more.

### EnvFiles

A file is absent, junk, or a text known by the edits it includes. A terminal is
closed for good, or open and runs one recipe at a time (`OneTerminal`: all but one
are closed); its job holds the command it is at, the names still to do, and the text in its
temporary file or editor. A user may edit a copy, pull a teammate's edit, or
write a `.env` of their own when the terminal is idle; `Interrupt` ends a recipe
between any two commands. `sops` fails at will (no key, no ciphertext). The shell
semantics that matter are in the actions: a redirection truncates before its
command runs (`Truncate`), `set -e` and `pipefail` stop a recipe except inside
the argument of `eval` (`EnvRun`), and the end of a pipe acts on what has come
through it (`EnvK8sSecret`). The bootstrap `_env-dec` may refuse a recipe before it
begins, which changes no file and is no step here.

### Recipients

A machine has a key, or has lost it. Rules gain the key that `env-whoami` prints
or lose one; a new file takes the keys of its rule, and `env-rekey` goes from
file to file on one machine. A file that is in line is left alone; one that is
not has to be opened first, and the one where that fails ends the recipe under
`set -e`. `audited` remembers that `env-check` has passed, and that nothing was
written since under a rule it would not pass. One recipe runs at a time, as the
repository is passed on by commits; a key may be lost at any moment.

### Startup

`Overrides` is what the code's `argv_has_flag` guards select: `ParsedFlags` has a
default for every declared flag, so the guards are what keeps defaults from
hiding the environment. The port is parsed by `MergeEnv` and by `FromEnvMap`. The
parser of flags-2-env is outside the repository and modelled by its uses: it
rejects unknown options, wrong integers and positionals, and fills in defaults.
The contract declares flags for the secret, the endpoint of the exporter and its
name of the service too, of which no override is made: `EnvironmentOnly` says that
they have no effect. That the one for the secret is accepted at all is against the
README, a test and the CI of the repository (run `flag`). Both parses of the port
have a default of their own (`StartupPort`, `ConfigPort`). The contract is looked
for where the environment says, since no flag has been read yet.
`FromEnvMap` takes secret, hosts and origins from the merged map with their
defaults (`SettingsOf`, `DefaultHosts`), has `Policy` judge them, and ends with
the `AppState` the router gets. What a text spells is a parameter (`SecretOf`,
`HostsOf`, `OriginsOf`, `LocalHost`).

### Launch and Dotenv

A server is started by hand, by `env-run`, by `docker run` of the image, whose
entrypoint decrypts the ciphertext baked into it, or by `env-docker-run` or in a
cluster, after which that entrypoint runs as well. The entrypoint's tests are
actions in their order (`NothingBaked`, `NoKey`, `Decrypt`); what `env-run` hands
on is evaluated export by export (`AfterShell`), a Secret is sorted pairs of which
the cluster takes one per key (`AfterSecret`), and what the entrypoint merges goes
line by line over what is set already (`AfterMerge`). `Folded` is the copy
`env-docker-env-file` leaves, once `env-encrypt` has made a ciphertext of it. A
value has quotes, quotes within them, an escape or a character outside ASCII, and
a padding `=`, which the two parsers treat differently. `Startup` goes on with
the environment that results, and the first callers are put before `Policy`'s
gate: `CiphertextHolderAdmitted` relates a line of the ciphertext to the status
its holder is answered.

## 3. What TLC checks

| Run | Question | Bounds |
| --- | --- | --- |
| `drain` | does shutdown lose a metric, a request, or an answer? | 2 connections, 2 requests, one tool call that fails and one that does not, PID 1 |
| `gate` | do the layers implement the one-step service, for every kind of request, and does a drain have a cause? | 2 connections, 2 requests out of 20 kinds, 12 environments |
| `live` | does the drain end, is each call answered? | 2 connections, 1 request, under `FairSpec` |
| `session` | what a client may rely on, over every envelope | ids, methods, params and arguments of each kind |
| `settings` | which of flag, environment, container, ciphertext and default wins, does a container with a key ever start without its variables, do host, container and cluster read a file alike, and is the holder of the secret let in? | started by hand: each setting absent, blank, given, wrong, ports 0..4 with 3 for 65535; by recipe or image: 17 files of up to two lines, each kind of value, key and sops there or not |
| `recipes` | are copies whole, whatever runs beside; and, with one terminal open, do the recipes keep ciphertext, edits and a foreign `.env`, and does `env-clean` leave plaintext? | one terminal open and 2 environments, or 2 and 1 (`MCBound`); 2 edits, 1 interrupt |
| `traces` | is a span dropped by anything but a full queue, does main leave one behind, and can the collector hold the process? | 6 calls, a queue of 3, batches of 2, under `FairSpec` |
| `keys` | is "recipients synced" true, and is a lost key survivable? | 3 machines, 4 keys, 2 environments |

The runs that end in a violation state what a document, a comment or a test says
and the code does not do:

| Run | Says | Does |
| --- | --- | --- |
| `notify` | every notification gets 202 | not under an unsupported protocol header |
| `padding` | the entrypoint keeps base64 intact | a value that ends in its only `=` loses it, as the base64 of a 32-byte secret does |
| `bare` | `env-run` exports the variables, a Secret is rendered from the environment | when sops fails the command runs without them, and the Secret is empty |
| `flag` | the secret is no part of the command line, and a flag for it is unknown | the contract declares one: it is accepted, and has no effect |

Three properties say where the code's promise ends, so that a change of it shows:

- `DrainHasACause`: when the Ctrl-C handler cannot be installed, that branch of
  `shutdown_signal` completes, and the server drains and logs a signal nobody
  sent (`main.rs:62`); with the handler in place a drain follows a signal.
- `CiphertextHolderAdmitted`: a secret with a character outside ASCII passes
  every check at startup and is answered 401, since no header that `to_str`
  reads can present it (`config.rs:67`, `auth.rs:60`); and on a port other than
  8080 the default hosts admit a name without the port only (`config.rs:11`). A
  secret that is blank counts as absent and leaves the endpoint closed, with 503.
  It speaks of containers that `docker run` or `env-docker-run` starts; `env-run`
  and the cluster may start without the secret (run `bare`), and are left out.
- `LostKeyIsSurvivable`: it speaks of the first key that is lost. `env-check` counts
  the recipients a file names, so one that is lost already counts as one of the two
  (`env.just:290`).

Where the recipes do not keep what they are said to keep, the properties stop too:

- `OwnEnvKept` holds with one terminal open. With two, a `.env` that is written
  between the test and the `rm` is removed (`justfile:28-29`).
- `EditsSurviveEditing` holds with one terminal open, and for all recipes but
  `env-encrypt`: an edit that arrives while the editor of `env-edit` is open is taken
  back, and `env-encrypt` puts a whole copy, however old, over what the ciphertext
  has become (`env.just:109`), although `env/README.md:59-67` calls both clean.
- `CleanLeavesNothing` holds until a recipe is interrupted: the temporary file of a
  decryption is not in the glob of `env-clean` (`env.just:80`, `325`).
- `RenderingsAgree` is about plain values, and for a copy folded back about values
  that are quoted once. The entrypoint has a parser of its own, which keeps quotes and
  escapes (`sops-entrypoint.sh:46`), though `env/README.md:119-120` says that all paths
  share one; and a value quoted twice changes in a copy that is folded back, which
  no line of the repository excludes or promises.

Bounds. Two connections are enough for every pair of tasks to race on an
instrument and for one to be closing while the other is fresh; with more the
proofs below take over. Two requests let a connection be kept and used again,
and a body limit of one frame has a body at the limit and one past it. A cycle
of the reader has a step per instrument and one for the send, so any record can
fall on either side of it. The symbolic sizes of secrets, hosts and messages keep
the order of the code's constants (for secrets 2..3 for 24..4096). Two edits tell
a copy that is older from one that is not; two terminals put any command of one
recipe between any two of another. A terminal is open or closed for good, so one
run has both: as long as two are open, `MCBound` keeps all work on one
environment, and stops at the recipes that only read a ciphertext and touch no file.
One environment is enough there: `CopiesAreWhole`, which is what is checked of two
open terminals, is about one copy, and recipes share nothing of two environments
but the link. Three machines and four keys let one be lost and replaced while two
others are named; a queue of three takes one batch and a half.
`settings` does not combine every command line with every
file, since flags meet the environment only after the launch: a server started by
hand takes all command lines, contracts and environments, one started otherwise
all files. Deadlock is not checked: the process ends, the
client may stop, a launch and startup are over after a few steps, and terminals are left idle.
Symmetry is over connections, terminals, edits, machines, keys and environments, and is not used where
liveness is checked.

Fairness (`FairSpec`). tokio polls every ready task, so a connection's own steps,
the steps of `main`, and noticing the signal are weakly fair; the reader is a
thread of its own. Clients, signals and the operator owe nothing, hence
`DrainEnds` assumes `ClientsFinish`: no client stays for ever in the middle of a
head or a body. The code has no timeout that would discharge this assumption
(`with_graceful_shutdown` has none), which is why it is stated. In `Traces`, `FairSpec` is weak fairness of `main`'s own
steps and of the SDK's timeout for its shutdown; nothing is assumed of the
collector, nor of the thread that waits for it.

Each property of a passing run has a mutant: a definition of the code changed as
a plausible bug would change it, kept beside the definition it replaces and
marked `Mutant:`, for which TLC finds the property violated.

## 4. What is proved

`ServerProofs`, `GateProofs` and `ServiceProofs` prove seven invariants, two action
properties and the refinement of `Spec` for any finite
set of connections, any requests, environments, limits and bounds. Their
assumptions are `ServerAssumption` and those of `Policy` and `Rpc`: finite
connections, natural limits, and that `None` is no request and no configuration.

| Theorem | States |
| --- | --- |
| `TypeCorrect` | `TypeOK`: types, and a buffered body within the limit |
| `DrainIsQuiet` | `QuietShutdown`: no flush and no exit while a connection is open |
| `MetricsAreConserved` | `MetricsConserved`: instruments lag behind the tools that ran by exactly the tasks between two of them |
| `LastExportIsComplete` | `FinalExportComplete`: a successful flush has exported every call |
| `StrangersAreNotBuffered` | `NothingBufferedForStrangers`: no byte of a body is kept, and nothing handled, before the gate is passed |
| `RefusalsTellNothing` | `RefusalsAreBlind`: callers without the secret learn nothing of the allowed origins |
| `DrainIsCaused` | `DrainHasACause`: a drain follows a signal or a handler that could not be installed |
| `ExportsNeverShrink` | `ExportsAreMonotone`: what the collector has never shrinks |
| `DrainServesNoMore` | `DrainTakesNoNewRequest`: a connection in the drain takes up no request but the one that is arriving |
| `ServiceIsImplemented` | `ImplementsService`: `Spec` implements `McpService` |

The inductive invariant is

    TypeInv /\ PhasesOK /\ ProviderOK /\ MetricsConserved /\ FlushOK

- `TypeInv` is `TypeOK` with `StagesOK`: a connection in the server's hands has a
  request, and one past the handler has the answer to it. Without it
  `RecordCall` could not tell whether a call has failed.
- `PhasesOK`: connections are open only while the process serves or drains, so
  none is left in `flushing` and nothing can be recorded any more.
- `ProviderOK`: instruments, once built, belong to the provider that `main` has
  installed, so that no record goes to a no-op meter.
- `MetricsConserved` is inductive given those. Its induction is about
  cardinalities: a task that moves from one instrument to the next leaves one set
  of debts and pays one (`RecordPays`, `HandlerOwes`, `DebtsKept`, from
  `CountChange`).
- `FlushOK`: the last cycle begins after the drain and collects instruments that
  no longer change, so what it has collected so far is what they hold, and what
  it sends is all. It is the strengthening that rules out taking a periodic cycle
  under way for the last one.

- `GateOK`, over each connection on its own: one that buffers, or is in the
  handler, carries a request that `RequireServerAuth` has let through, and an
  answer to a stranger is `Refusal`, which is a function of the host alone. Both
  properties of the gate follow from it; `RefusalsAreBlind` alone, which compares
  two connections, is not inductive.
- `ExportsOK`: what was exported is behind the batch under way, as far as that is
  collected, and the batch behind the instruments.
- `ClosingOK`: a connection that has noticed the drain is not between two requests.
- `CauseOK`: the process is draining only if `shutdown_signal` has fired, and it
  fires only with a signal heard or without the handler for `INT`.

Each conjunct is preserved by every action (one step per action in `TypeStep`,
`PhasesStep`, `ProviderStep`, `MetricsStep`, `FlushStep`, `ExportsStep`, `GateStep`,
`CauseStep`, `ClosingStep`); the temporal step of each theorem is propositional.

The refinement needs two more invariants: `AppOK`, that the policy is that of a
valid configuration, and `HandOK`, that what waits for its body is the handler's
and has no answer yet. `TrustedPass` shows that the gate passes exactly the
callers `McpService` trusts, `HeadAnswer` that the router's other answers are
among those it allows, and `ServiceStep` maps the steps: `LoadConfig` to
`Configure`, `ReceiveHead` to `Ask`, an answer of `Route`, `ReceiveFrame` or
`RunHandler` to `Reply`, the end of a request to `Leave`, the end of the process to
`Stop`, and the rest to a stutter. It assumes `Readable`: sizes are natural
numbers, an authority or origin that parses is visible ASCII, and so is the
secret. The last is not the code's to guarantee: `ValidAuthSecret` (`config.rs`)
accepts a secret with letters outside ASCII, which no header that `to_str` reads
can carry, so its holder is refused and `McpService` promises more than the server
does. Without such secrets the promise is kept in full.

`TracesProofs` needs `TracesAssumption` (positive sizes):

| Theorem | States |
| --- | --- |
| `TypeCorrect` | `TypeOK`: counts, and a queue within its bound |
| `ExitsAreFlushed` | `ExitMeansFlushed`: main returns with all spans out unless it was told they are late |
| `DropsAreFull` | `DropsOnlyWhenFull`: a step that drops a span finds the queue full |

The last rests on no call being open, and none opened, once `serve()` has
returned, so that no span meets a processor that was asked to shut down.

`RpcSessionProofs` needs `SessionAssumption`: a string has no more characters than
bytes.

| Theorem | States |
| --- | --- |
| `IdsComeBack` | `IdsAreEchoed`: an answer has the id of its request, or null where there is none to take |
| `NegotiatedStaysUsable` | `NegotiatedIsUsable`: a negotiated revision is accepted later |
| `NotificationsDoNothing` | `NotificationsAreInert`: without an id no tool is run and no result given |
| `PingRunsOnItsSchema` | `AcceptedArgumentsFitSchema`: what ping runs on, its schema admits |

`SessionInv` says that the answer in hand is `Respond` of the request in hand and
that the client's revision is a supported one; the rest of each proof goes along
the paths of `Handle`. The schema bounds characters and the code bounds bytes,
which is where the assumption is used.

`LaunchProofs` proves every property of the run `settings` of `LaunchSpec`, for any
command lines, environments, contracts, files of any length and ways to launch.

| Theorem | States |
| --- | --- |
| `PrecedenceIsKept` | `SettingsHavePrecedence`: flag over environment over default |
| `OnePort` | `PortsAgree`: the port that is bound is the one that was read, and is one |
| `SecretsComeByEnvironment` | `EnvironmentOnly`: no flag sets the secret, or the endpoint and service name of the exporter |
| `EnvironmentsWin` | `ContainerWins`: the entrypoint replaces nothing that is set |
| `AllOrNothing` | `DecryptedOrRefused`: all variables of the ciphertext, or no start |
| `RenderingsMeanTheSame` | `RenderingsAgree`: host, container and cluster read a plain file alike, and a folded copy is read as its file |
| `HolderIsAdmitted` | `CiphertextHolderAdmitted`: what the holder of a file's secret is answered |

It assumes, besides `PolicyAssumption` and `StartupAssumption`, that files are
sequences of lines whose keys are declared and whose values a file can
have (`LaunchAssumption`), that what is a secret in a file spells one, visible
unless it has a character outside ASCII, and that the authorities of localhost
differ from port to port (`TextAssumption`). TLC evaluates both on the files of
the runs.

- `StartupInv` goes with the phases: the flags are those parsed, the map is the merge of
  them, the port is that of the map, and the `Config` is what is made of it.
  `Launching`: startup begins only when the environment is complete, which is
  why what the recipes and the entrypoint do to it cannot invalidate `StartupInv`.
- `FilesInv` is `ContainerWins`, `DecryptedOrRefused` and what makes them inductive:
  until the entrypoint has run, an image's environment is still the one given; what
  `env-docker-run` has set is set, and stays as it is while the entrypoint merges
  another file into it; and a key that one line gives has that line's value.
- The loops. `Parse`, `AfterShell`, `AfterSecret` and `AfterMerge` are folds, and a
  fold of the community modules is a function on sets of indices that takes the
  greatest one out. `FoldRuns` shows that there is such a function for a loop over n
  lines, `RunSteps` that its values at 1..0, 1..1, ..., 1..n are the states of the loop.
  The induction is over the set of those lengths for which this holds
  (`Induction`, from the well-foundedness of the naturals). From the states follow,
  again by induction, `MergeMeans` (what was set is kept, what was not comes from a
  line that gives it), `ParseMeans` (the pairs are those of the lines with a key, in
  their order), `AssignMeans` and `ShellMeans` (the last line of a key counts),
  and `PairsListed` (a Secret holds each pair once, in some order).
- `HolderAdmittedHolds` puts the three together: the secret's line is in the
  environment by `FilesInv`, as it is shown by `ReadAsMeant`, in the `AppState` by
  `StartupInv`, and `DefaultHostsJudged` and the four checks of `RequireServerAuth` do
  the rest. A blank secret came to light in this proof: the endpoint is closed
  then, which the property now says.

`EnvFilesProofs` needs `EnvFilesAssumption`: texts are neither absent nor junk, and
a foreign `.env` is no environment's.

| Theorem | States |
| --- | --- |
| `TypeCorrect` | `TypeOK`: files and jobs, for any terminals |
| `CopiesStayWhole` | `CopiesAreWhole`: no copy is replaced by junk, for any terminals |
| `CiphertextIsSafe` | `CiphertextSurvives`, with one terminal open |
| `OnlyFoldingLosesEdits` | `EditsSurviveEditing`, with one terminal open |
| `OwnEnvIsSafe` | `OwnEnvKept`, with one terminal open |
| `CleanIsClean` | `CleanLeavesNothing`, with one terminal open |

`TypeInv` says what each command needs of its job: a name to act on, and in the
temporary file or the editor a text. `CopiesAreWhole` follows, as only
`MoveTemp` and the user put a text in place of another. The four others hold for one
terminal open only (`OneTerminal`): their invariant `OneTerminal => AloneInv`
says that what a recipe has tested is still so when it acts on it (the ciphertext it
truncates is none, the link it removes is its own, what it has in its editor is
what the file has), which a second terminal can undo between the two commands. `ActKeeps` shows that a
terminal does not undo it itself, and `AloneStep` that nobody else does: a terminal
that acts is open and stays so (`ActingIsOpen`, `ActingStaysOpen`), so the others are
closed.

`RecipientsProofs` needs `RecipientsAssumption`: finitely many keys, and `None` is
neither a key nor a set of keys.

| Theorem | States |
| --- | --- |
| `RekeyIsComplete` | `SyncedMeansSynced`: at its end `env-rekey` has every file in line with its rule |
| `OneLostKeyIsSurvived` | `LostKeyIsSurvivable`: after the audit one key may be lost |

The first strengthens the end of the loop to its middle: the files it has been
through are in line (`SyncInv`). The second rests on `NamedInv`: rules and files
name only keys that were made, and what was audited names two; of two keys one is
left when one is lost (`OneIsLeft`), and a key that was made and not lost is on
some machine.

Every invariant and action property of the passing runs is stated by a theorem, and so
is the refinement. Only model-checked are the liveness properties `DrainEnds`,
`CallsAreAnswered` and `ShutdownEnds`: fairness and `ENABLED` are out of the prover's
reach. What the runs that end in a violation check has a counterexample of TLC's instead of
a proof.

## 5. What is not modelled

- What a span or a log line says, and sampling: `Traces` counts spans. What
  happens to them before `init` or without an endpoint is nothing.
- The output of the tools beyond whether they fail, and the text of errors.
- Constant-time comparison of digests: `SecretsMatch` is equality, which is what
  a digest comparison decides up to collisions.
- HTTP/2, header limits and timeouts of hyper, which the code leaves at their
  defaults; constant security headers.
- The text of the YAML that `env-k8s-secret` prints, and the `kubectl` behind it.
- The questions `env-check` puts to git and `.gitignore`, and `env-list`,
  `env-status` and `env-doctor`, which report and change nothing. What `sops`
  writes in a rekey is left to `EnvFiles`; commits and merges of the
  ciphertext between machines are a single shared repository in `Recipients`.
- Generated bindings, which nothing calls; lint wrappers; images and workflows;
  the conformance script and fleet metadata.

## 6. Plan

Done: the core (`Policy`, `Rpc`, `RpcSession`, `Telemetry`, `Server`, `McpService`),
the environment and its way to the server (`Startup`, `Dotenv`, `Launch`, `EnvFiles`),
`Traces` and `Recipients`, each with the theorems of section 4. Next, in this order:

1. What `EnvFiles` keeps with more terminals than one: the parts of `AloneInv` that
   a terminal keeps of the environments nobody else works on.
2. A promise for the environment, as `McpService` is one for clients: from a file
   and an environment to the settings in one step, implemented by `LaunchSpec`.
3. A working copy per machine in `Recipients`, with ciphertexts that conflict.
