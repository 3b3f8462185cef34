---------------------------- MODULE LaunchProofs ----------------------------
(***************************************************************************)
(* Proofs about how the server comes by its environment and makes its      *)
(* settings of it, for any command line, environment, file and way to      *)
(* start it.                                                               *)
(***************************************************************************)
EXTENDS Launch, FiniteSetTheorems, WellFoundedInduction, TLAPS

-----------------------------------------------------------------------------
(* Startup.                                                                *)

\* What goes with the phases: the flags that were parsed, the map they were merged
\* into and its port, and the Config made of it.
StartupInv ==
  /\ phase \in {"parsed", "ready", "configured"} => flags = ParsedFlags
  /\ phase \in {"ready", "configured"} =>
       /\ env = MergedEnv
       /\ IsU16(StartupPort(env)) /\ StartupPort(env).n # 0
       /\ port = StartupPort(env).n
  /\ phase = "configured" =>
       cfg = [port     |-> port,
              read     |-> ConfigPort(env).n,
              filter   |-> EnvValue(env, "RUST_LOG", Word("default")),
              service  |-> EnvValue(env, "OTEL_SERVICE_NAME", Word("default")),
              endpoint |-> EnvValue(env, "OTEL_EXPORTER_OTLP_ENDPOINT", None),
              app      |-> AppState(SettingsOf(env))]
  /\ phase = "configured" => ValidConfig(SettingsOf(env))

\* Every stage of startup keeps what the stages before it have established.
LEMMA StartupStep == StartupInv /\ [Next]_vars => StartupInv'
<1> SUFFICES ASSUME StartupInv, [Next]_vars PROVE StartupInv'
  OBVIOUS
<1>1. CASE ResolveConfigPath
  BY <1>1 DEF ResolveConfigPath, Fail, inputs, StartupInv
<1>2. CASE ParseFlags
  BY <1>2 DEF ParseFlags, Fail, inputs, StartupInv, ParsedFlags
<1>3. CASE MergeEnv
  <2>1. UNCHANGED <<MergedEnv, ParsedFlags, flags>>
    BY <1>3 DEF MergeEnv, Fail, inputs, MergedEnv, Overrides, ParsedFlags
  <2> QED
    BY <1>3, <2>1 DEF MergeEnv, Fail, StartupInv
<1>4. CASE FromEnvMap
  <2>1. UNCHANGED <<MergedEnv, ParsedFlags, flags, env, port>>
    BY <1>4 DEF FromEnvMap, Fail, inputs, MergedEnv, Overrides, ParsedFlags
  <2> QED
    BY <1>4, <2>1 DEF FromEnvMap, Fail, StartupInv
<1>5. CASE UNCHANGED vars
  BY <1>5 DEF vars, inputs, StartupInv, ParsedFlags, MergedEnv, Overrides
<1> QED
  BY <1>1, <1>2, <1>3, <1>4, <1>5 DEF Next

\* Nothing has been established yet.
LEMMA InitStartupInv == Init => StartupInv
  BY DEF Init, StartupInv

\* It holds of startup by itself, whatever the environment it inherits.
LEMMA StartupInvariant == Spec => []StartupInv
  BY InitStartupInv, StartupStep, PTL DEF Spec

\* The map the Config is read from is the one the user has chosen, but for what
\* is no flag's to choose.
LEMMA MergedIsChosen ==
  ASSUME flags = ParsedFlags
  PROVE  /\ \A k \in Overridable : MergedEnv[k] = ChosenEnv[k]
         /\ \A k \in Declared \ Overridable : MergedEnv[k] = ambient[k]
  BY DEF MergedEnv, Overrides, ParsedFlags, ChosenEnv, Declared, Overridable

\* What the Config was made of is what flag, environment and default make of each
\* key that a flag may set.
LEMMA PrecedenceHolds == StartupInv => SettingsHavePrecedence
<1> SUFFICES ASSUME StartupInv, phase = "configured" PROVE SettingsHavePrecedence
  BY DEF SettingsHavePrecedence
<1>1. \A k \in Overridable : env[k] = ChosenEnv[k]
  BY MergedIsChosen DEF StartupInv
<1>2. /\ env["PORT"] = ChosenEnv["PORT"]
      /\ env["RUST_LOG"] = ChosenEnv["RUST_LOG"]
      /\ env["MCP_ALLOWED_HOSTS"] = ChosenEnv["MCP_ALLOWED_HOSTS"]
      /\ env["MCP_ALLOWED_ORIGINS"] = ChosenEnv["MCP_ALLOWED_ORIGINS"]
  BY <1>1 DEF Overridable
<1>3. /\ IsU16(Chosen("PORT", Number(DefaultPort)))
      /\ cfg.port = Chosen("PORT", Number(DefaultPort)).n
      /\ cfg.filter = Chosen("RUST_LOG", Word("default"))
  BY <1>2 DEF StartupInv, StartupPort, Chosen, EnvValue
<1>4. /\ SettingsOf(env).hosts = SettingsOf(ChosenEnv).hosts
      /\ SettingsOf(env).origins = SettingsOf(ChosenEnv).origins
  BY <1>2 DEF SettingsOf, Said, EnvValue
<1>5. cfg.app = AppState(SettingsOf(env))
  BY DEF StartupInv
<1> QED
  BY <1>3, <1>4, <1>5 DEF SettingsHavePrecedence, AppState

\* The merge leaves the other keys as the environment has them.
LEMMA EnvironmentOnlyHolds == StartupInv => EnvironmentOnly
<1> SUFFICES ASSUME StartupInv, phase = "configured" PROVE EnvironmentOnly
  BY DEF EnvironmentOnly
<1>1. /\ env["SERVER_AUTH_SECRET"] = ambient["SERVER_AUTH_SECRET"]
      /\ env["OTEL_SERVICE_NAME"] = ambient["OTEL_SERVICE_NAME"]
      /\ env["OTEL_EXPORTER_OTLP_ENDPOINT"] = ambient["OTEL_EXPORTER_OTLP_ENDPOINT"]
  BY MergedIsChosen DEF StartupInv, Declared, Overridable
<1>2. SettingsOf(env).secret = SettingsOf(ambient).secret
  BY <1>1 DEF SettingsOf, Said, EnvValue
<1> QED
  BY <1>1, <1>2 DEF StartupInv, EnvironmentOnly, AppState, EnvValue

\* Both parses read the port of one map, with one default, and the first has found
\* it to be valid.
LEMMA PortsAgreeHolds == StartupInv => PortsAgree
  BY StartupAssumption DEF StartupInv, PortsAgree, StartupPort, ConfigPort, IsU16
-----------------------------------------------------------------------------
(* Startup as a launch goes through it: what is decrypted changes the       *)
(* environment, and it does so before the server reads it.                 *)

Launching == stage # "running" => phase = "start"

\* Whatever is laid over the environment, the stages of startup find it as the
\* first of them did.
LEMMA LaunchStep ==
  StartupInv /\ Launching /\ [LaunchNext]_<<vars, launchVars>> => StartupInv' /\ Launching'
<1> SUFFICES ASSUME StartupInv, Launching, [LaunchNext]_<<vars, launchVars>>
             PROVE  StartupInv' /\ Launching'
  OBVIOUS
<1>1. ASSUME NEW s, NEW e, Go(s, e), stage # "running"
      PROVE  StartupInv' /\ Launching'
  BY <1>1 DEF Go, Launching, StartupInv
<1>2. CASE LaunchEnvRun
  BY <1>2, <1>1 DEF LaunchEnvRun
<1>3. CASE LaunchDockerRun
  BY <1>3, <1>1 DEF LaunchDockerRun
<1>4. CASE LaunchCluster
  BY <1>4, <1>1 DEF LaunchCluster
<1>5. CASE NothingBaked
  BY <1>5, <1>1 DEF NothingBaked
<1>6. CASE NoKey
  BY <1>6, <1>1 DEF NoKey
<1>7. CASE Decrypt
  BY <1>7, <1>1 DEF Decrypt
<1>8. CASE stage = "running" /\ Next /\ UNCHANGED launchVars
  BY <1>8, StartupStep DEF launchVars, Launching
<1>9. CASE UNCHANGED <<vars, launchVars>>
  BY <1>9, StartupStep DEF launchVars, vars, inputs, Launching
<1> QED
  BY <1>2, <1>3, <1>4, <1>5, <1>6, <1>7, <1>8, <1>9 DEF LaunchNext

\* So the invariant of startup holds of every launch.
LEMMA LaunchInvariant == LaunchSpec => [](StartupInv /\ Launching)
<1>1. LaunchInit => StartupInv /\ Launching
  BY InitStartupInv DEF LaunchInit, Init, Launching
<1> QED
  BY <1>1, LaunchStep, PTL DEF LaunchSpec

\* However the server is launched, a flag beats the environment and the
\* environment beats the default, and a blank flag hides what the environment
\* says (argv_has_flag, get_env_map, from_env_map).
THEOREM PrecedenceIsKept == LaunchSpec => []SettingsHavePrecedence
  BY LaunchInvariant, PrecedenceHolds, PTL

\* The port main binds is the one from_env_map has read, and can be bound.
THEOREM OnePort == LaunchSpec => []PortsAgree
  BY LaunchInvariant, PortsAgreeHolds, PTL

\* No flag sets the secret, the endpoint of the exporter or its name of the service,
\* although the contract declares flags for all three (.cli-flags.toml, startup.rs).
THEOREM SecretsComeByEnvironment == LaunchSpec => []EnvironmentOnly
  BY LaunchInvariant, EnvironmentOnlyHolds, PTL

-----------------------------------------------------------------------------
(* What the loops over a file do. Each is a left fold, and FoldLeft is a   *)
(* function on the subsets of 1..n that takes the largest index out: it    *)
(* exists, so the CHOOSE of the fold is it, and its values at 1..0, 1..1,  *)
(* ..., 1..n are the states between one turn of the loop and the next.     *)

\* The body of a loop: the entrypoint's merge, a shell's exports or the parser's.
Loop(m, acc, x) ==
  CASE m = "merge" -> Merge(acc, x) [] m = "assign" -> Assign(acc, x) [] OTHER -> Parsed(acc, x)

\* Induction over the naturals, with the property given as a set: the library's
\* own theorems take it as an operator.
LEMMA Induction ==
  ASSUME NEW S, 0 \in S, \A n \in Nat : n \in S => n + 1 \in S
  PROVE  Nat \subseteq S
<1> SUFFICES ASSUME Nat \ S # {} PROVE FALSE
  OBVIOUS
<1>1. PICK n \in Nat \ S : \A k \in Nat \ S : ~(<<k, n>> \in OpToRel(<, Nat))
  BY NatLessThanWellFounded, WFMin
<1>2. n # 0 /\ n - 1 \in Nat
  OBVIOUS
<1>3. <<n - 1, n>> \in OpToRel(<, Nat)
  BY <1>2 DEF OpToRel
<1>4. n - 1 \in S
  BY <1>1, <1>2, <1>3
<1> QED
  BY <1>2, <1>4

\* A set of indices has a greatest one, and Max is it.
LEMMA MaxIs ==
  ASSUME NEW n \in Nat, NEW s \in SUBSET (1 .. n), s # {}
  PROVE  Max(s) \in s /\ \A k \in s : k <= Max(s)
<1> DEFINE S == {m \in Nat : \A t \in SUBSET (1 .. m) : t # {} =>
                   \E x \in t : \A y \in t : x >= y}
<1>1. 0 \in S
  <2>1. 1 .. 0 = {}
    OBVIOUS
  <2> QED
    BY <2>1
<1>2. ASSUME NEW m \in Nat, m \in S PROVE m + 1 \in S
  <2>1. ASSUME NEW t \in SUBSET (1 .. m + 1), t # {} PROVE \E x \in t : \A y \in t : x >= y
    <3>1. CASE m + 1 \in t
      BY <3>1
    <3>2. CASE m + 1 \notin t
      <4>1. t \in SUBSET (1 .. m)
        BY <3>2
      <4> QED
        BY <4>1, <2>1, <1>2
    <3> QED
      BY <3>1, <3>2
  <2> QED
    BY <2>1
<1>3. n \in S
  <2> HIDE DEF S
  <2> QED BY <1>1, <1>2, Induction
<1>4. \E x \in s : \A y \in s : x >= y
  BY <1>3
<1> QED
  BY <1>4 DEF Max

\* An index that no other exceeds is the one Max takes.
LEMMA MaxIsTop ==
  ASSUME NEW n \in Nat, NEW s \in SUBSET (1 .. n), NEW x \in s, \A y \in s : y <= x
  PROVE  Max(s) = x
<1>1. Max(s) \in s /\ x <= Max(s)
  BY MaxIs
<1>2. Max(s) <= x /\ Max(s) \in 1 .. n /\ x \in 1 .. n
  BY <1>1
<1> QED
  BY <1>1, <1>2

\* g is the recursive function by which MapThenFoldSet folds a sequence.
Runs(m, base, seq, n, g) ==
  g = [s \in SUBSET (1 .. n) |->
         IF s = {} THEN base ELSE Loop(m, g[s \ {Max(s)}], seq[Max(s)])]

\* There is such a function for a sequence of any length.
LEMMA FoldRuns ==
  ASSUME NEW m, NEW base, NEW seq, NEW n \in Nat
  PROVE  \E g : Runs(m, base, seq, n, g)
<1> DEFINE S == {k \in Nat : \E g : Runs(m, base, seq, k, g)}
<1>1. 0 \in S
  <2>1. Runs(m, base, seq, 0, [s \in {{}} |-> base])
    <3>1. SUBSET (1 .. 0) = {{}}
      OBVIOUS
    <3> QED
      BY <3>1 DEF Runs
  <2> QED
    BY <2>1
<1>2. ASSUME NEW k \in Nat, k \in S PROVE k + 1 \in S
  <2>1. PICK g : Runs(m, base, seq, k, g)
    BY <1>2
  <2> DEFINE h == [s \in SUBSET (1 .. k + 1) |->
                     IF k + 1 \in s THEN Loop(m, g[s \ {k + 1}], seq[k + 1]) ELSE g[s]]
  <2>2. ASSUME NEW s \in SUBSET (1 .. k + 1)
        PROVE  h[s] = IF s = {} THEN base ELSE Loop(m, h[s \ {Max(s)}], seq[Max(s)])
    <3>1. CASE k + 1 \in s
      <4>1. Max(s) = k + 1
        <5>1. k + 1 \in Nat /\ \A y \in s : y <= k + 1
          OBVIOUS
        <5> QED
          BY <3>1, <5>1, MaxIsTop
      <4>2. s \ {k + 1} \in SUBSET (1 .. k + 1) /\ k + 1 \notin s \ {k + 1}
        OBVIOUS
      <4>3. h[s \ {k + 1}] = g[s \ {k + 1}]
        BY <4>2
      <4>4. h[s] = Loop(m, g[s \ {k + 1}], seq[k + 1])
        BY <3>1
      <4> QED
        BY <3>1, <4>1, <4>3, <4>4
    <3>2. CASE k + 1 \notin s
      <4>1. \A y \in s : y \in 1 .. k
        BY <3>2
      <4>2. s \in SUBSET (1 .. k) /\ s \ {Max(s)} \in SUBSET (1 .. k)
        BY <4>1
      <4>3. \A t \in SUBSET (1 .. k) : t \in SUBSET (1 .. k + 1) /\ k + 1 \notin t
        OBVIOUS
      <4>4. h[s] = g[s] /\ h[s \ {Max(s)}] = g[s \ {Max(s)}]
        BY <4>2, <4>3
      <4>5. g[s] = IF s = {} THEN base ELSE Loop(m, g[s \ {Max(s)}], seq[Max(s)])
        BY <2>1, <4>2 DEF Runs
      <4> QED
        BY <4>4, <4>5
    <3> QED
      BY <3>1, <3>2
  <2>3. Runs(m, base, seq, k + 1, h)
    BY <2>2, Zenon DEF Runs
  <2> QED
    BY <2>3
<1>3. n \in S
  <2> HIDE DEF S
  <2> QED BY <1>1, <1>2, Induction
<1> QED
  BY <1>3

\* acc is the state of the loop before its first turn and after each of them.
Steps(m, base, seq, n, acc, result) ==
  /\ acc[0] = base
  /\ \A i \in 1 .. n : acc[i] = Loop(m, acc[i - 1], seq[i])
  /\ acc[n] = result

\* Taken at the initial segments, that function is the state of the loop turn by
\* turn.
LEMMA RunSteps ==
  ASSUME NEW m, NEW base, NEW seq, NEW n \in Nat, NEW g, Runs(m, base, seq, n, g)
  PROVE  \E acc : Steps(m, base, seq, n, acc, g[1 .. n])
<1>1. \A s \in SUBSET (1 .. n) :
        g[s] = IF s = {} THEN base ELSE Loop(m, g[s \ {Max(s)}], seq[Max(s)])
  BY DEF Runs
<1>2. \A i \in 1 .. n : /\ 1 .. i \in SUBSET (1 .. n) /\ 1 .. i # {}
                        /\ Max(1 .. i) = i /\ (1 .. i) \ {i} = 1 .. (i - 1)
  <2> TAKE i \in 1 .. n
  <2>1. 1 .. i \in SUBSET (1 .. n) /\ 1 .. i # {} /\ i \in 1 .. i
    OBVIOUS
  <2>2. Max(1 .. i) = i
    <3>1. i \in Nat /\ \A y \in 1 .. i : y <= i
      OBVIOUS
    <3> QED
      BY <2>1, <3>1, MaxIsTop
  <2> QED
    BY <2>1, <2>2
<1> DEFINE acc == [i \in 0 .. n |-> g[1 .. i]]
<1>3. acc[0] = base
  <2>1. 1 .. 0 = {}
    OBVIOUS
  <2>2. acc[0] = g[{}] /\ {} \in SUBSET (1 .. n)
    BY <2>1
  <2> QED
    BY <1>1, <2>2
<1>4. \A i \in 1 .. n : acc[i] = Loop(m, acc[i - 1], seq[i])
  <2> TAKE i \in 1 .. n
  <2>1. g[1 .. i] = Loop(m, g[(1 .. i) \ {i}], seq[i])
    BY <1>1, <1>2
  <2>2. acc[i] = g[1 .. i] /\ acc[i - 1] = g[1 .. (i - 1)]
    OBVIOUS
  <2> QED
    BY <1>2, <2>1, <2>2
<1>5. acc[n] = g[1 .. n]
  OBVIOUS
<1> HIDE DEF acc
<1> QED
  BY <1>3, <1>4, <1>5 DEF Steps

\* The entrypoint's while loop goes through the lines in their order.
LEMMA MergeSteps ==
  ASSUME NEW before, NEW lines, NEW n \in Nat, DOMAIN lines = 1 .. n
  PROVE  \E acc : /\ acc[0] = before
                  /\ \A i \in 1 .. n : acc[i] = Merge(acc[i - 1], lines[i])
                  /\ acc[n] = AfterMerge(lines, before)
<1> DEFINE iter == CHOOSE g : g = [s \in SUBSET (1 .. n) |->
                       IF s = {} THEN before ELSE Merge(g[s \ {Max(s)}], lines[Max(s)])]
<1>1. AfterMerge(lines, before) = iter[1 .. n]
  BY DEF AfterMerge, FoldLeft, MapThenFoldSet
<1>2. Runs("merge", before, lines, n, iter)
  <2>1. PICK g : Runs("merge", before, lines, n, g)
    BY FoldRuns
  <2>2. g = [s \in SUBSET (1 .. n) |->
               IF s = {} THEN before ELSE Merge(g[s \ {Max(s)}], lines[Max(s)])]
    BY <2>1 DEF Runs, Loop
  <2>3. iter = [s \in SUBSET (1 .. n) |->
               IF s = {} THEN before ELSE Merge(iter[s \ {Max(s)}], lines[Max(s)])]
    BY <2>2, Zenon
  <2> HIDE DEF iter
  <2> QED
    BY <2>3 DEF Runs, Loop
<1> HIDE DEF iter
<1>3. PICK acc : Steps("merge", before, lines, n, acc, iter[1 .. n])
  BY <1>2, RunSteps
<1> QED
  BY <1>1, <1>3 DEF Steps, Loop

\* The exports of a rendering take effect one after the other.
LEMMA AssignSteps ==
  ASSUME NEW before, NEW pairs, NEW n \in Nat, DOMAIN pairs = 1 .. n
  PROVE  \E acc : /\ acc[0] = before
                  /\ \A i \in 1 .. n : acc[i] = Assign(acc[i - 1], pairs[i])
                  /\ acc[n] = FoldLeft(Assign, before, pairs)
<1> DEFINE iter == CHOOSE g : g = [s \in SUBSET (1 .. n) |->
                       IF s = {} THEN before ELSE Assign(g[s \ {Max(s)}], pairs[Max(s)])]
<1>1. FoldLeft(Assign, before, pairs) = iter[1 .. n]
  BY DEF FoldLeft, MapThenFoldSet
<1>2. Runs("assign", before, pairs, n, iter)
  <2>1. PICK g : Runs("assign", before, pairs, n, g)
    BY FoldRuns
  <2>2. g = [s \in SUBSET (1 .. n) |->
               IF s = {} THEN before ELSE Assign(g[s \ {Max(s)}], pairs[Max(s)])]
    BY <2>1 DEF Runs, Loop
  <2>3. iter = [s \in SUBSET (1 .. n) |->
               IF s = {} THEN before ELSE Assign(iter[s \ {Max(s)}], pairs[Max(s)])]
    BY <2>2, Zenon
  <2> HIDE DEF iter
  <2> QED
    BY <2>3 DEF Runs, Loop
<1> HIDE DEF iter
<1>3. PICK acc : Steps("assign", before, pairs, n, acc, iter[1 .. n])
  BY <1>2, RunSteps
<1> QED
  BY <1>1, <1>3 DEF Steps, Loop

\* dotenv.py's parser goes through the lines in their order.
LEMMA ParsedSteps ==
  ASSUME NEW lines, NEW n \in Nat, DOMAIN lines = 1 .. n
  PROVE  \E acc : /\ acc[0] = <<>>
                  /\ \A i \in 1 .. n : acc[i] = Parsed(acc[i - 1], lines[i])
                  /\ acc[n] = Parse(lines)
<1> DEFINE iter == CHOOSE g : g = [s \in SUBSET (1 .. n) |->
                       IF s = {} THEN <<>> ELSE Parsed(g[s \ {Max(s)}], lines[Max(s)])]
<1>1. Parse(lines) = iter[1 .. n]
  BY DEF Parse, FoldLeft, MapThenFoldSet
<1>2. Runs("parse", <<>>, lines, n, iter)
  <2>1. PICK g : Runs("parse", <<>>, lines, n, g)
    BY FoldRuns
  <2>2. g = [s \in SUBSET (1 .. n) |->
               IF s = {} THEN <<>> ELSE Parsed(g[s \ {Max(s)}], lines[Max(s)])]
    BY <2>1 DEF Runs, Loop
  <2>3. iter = [s \in SUBSET (1 .. n) |->
               IF s = {} THEN <<>> ELSE Parsed(iter[s \ {Max(s)}], lines[Max(s)])]
    BY <2>2, Zenon
  <2> HIDE DEF iter
  <2> QED
    BY <2>3 DEF Runs, Loop
<1> HIDE DEF iter
<1>3. PICK acc : Steps("parse", <<>>, lines, n, acc, iter[1 .. n])
  BY <1>2, RunSteps
<1> QED
  BY <1>1, <1>3 DEF Steps, Loop

-----------------------------------------------------------------------------
(* What a file means, key by key.                                          *)

\* A line the entrypoint takes a value of a key from.
Gives(line, k) == line.key = k /\ ~line.export

\* A file of n lines, each of a declared key or of none.
IsLines(lines, n) ==
  DOMAIN lines = 1 .. n /\ \A i \in 1 .. n : lines[i].key \in Declared \cup {None}

\* An environment has a value, or None, for each declared key and for no other.
IsEnv(e) == e = [k \in Declared |-> e[k]]

\* e is what the first j lines make of an environment that is merged: what was
\* set is kept, what was not comes from a line that gives it.
MergedTo(lines, before, j, e) ==
  /\ IsEnv(e)
  /\ \A k \in Declared :
       IF before[k] # None \/ \A i \in 1 .. j : ~Gives(lines[i], k)
       THEN e[k] = before[k]
       ELSE \E i \in 1 .. j : Gives(lines[i], k) /\ e[k] = Seen(ReadValue(lines[i].value))

\* sops-entrypoint.sh's loop does that, whatever the file and the environment.
LEMMA MergeMeans ==
  ASSUME NEW n \in Nat, NEW lines, IsLines(lines, n), NEW before, IsEnv(before),
         None \notin Declared,
         \A i \in 1 .. n : Seen(ReadValue(lines[i].value)) # None
  PROVE  MergedTo(lines, before, n, AfterMerge(lines, before))
<1>1. PICK acc : /\ acc[0] = before
                 /\ \A i \in 1 .. n : acc[i] = Merge(acc[i - 1], lines[i])
                 /\ acc[n] = AfterMerge(lines, before)
  BY MergeSteps DEF IsLines
<1> DEFINE S == {j \in Nat : j <= n => MergedTo(lines, before, j, acc[j])}
<1>2. 0 \in S
  BY <1>1 DEF MergedTo
<1>3. ASSUME NEW j \in Nat, j \in S PROVE j + 1 \in S
  <2> SUFFICES ASSUME j + 1 <= n PROVE MergedTo(lines, before, j + 1, acc[j + 1])
    OBVIOUS
  <2> DEFINE e == acc[j]  l == lines[j + 1]  f == acc[j + 1]
  <2>1. MergedTo(lines, before, j, e) /\ j + 1 \in 1 .. n /\ j <= n
    BY <1>3
  <2>2. f = Merge(e, l) /\ l.key \in Declared \cup {None}
    BY <1>1, <2>1 DEF IsLines
  <2>3. Seen(ReadValue(l.value)) # None
    BY <2>1
  <2> HIDE DEF e, f, l
  <2>4. IsEnv(e) /\ IsEnv(f)
    BY <2>1, <2>2 DEF MergedTo, IsEnv, Merge
  <2>5. ASSUME NEW k \in Declared
        PROVE  IF before[k] # None \/ \A i \in 1 .. j + 1 : ~Gives(lines[i], k)
               THEN f[k] = before[k]
               ELSE \E i \in 1 .. j + 1 : Gives(lines[i], k) /\ f[k] = Seen(ReadValue(lines[i].value))
    <3>1. CASE l.key # k \/ l.export \/ e[k] # None
      <4>1. f[k] = e[k]
        BY <2>2, <2>4, <3>1 DEF Merge, IsEnv
      <4> QED
        BY <2>1, <3>1, <4>1 DEF MergedTo, Gives, l
    <3>2. CASE l.key = k /\ ~l.export /\ e[k] = None
      <4>1. f[k] = Seen(ReadValue(l.value))
        BY <2>2, <2>4, <3>2 DEF Merge, IsEnv
      <4>2. before[k] = None
        BY <2>1, <3>2 DEF MergedTo
      <4> QED
        BY <2>1, <3>2, <4>1, <4>2 DEF Gives, l
    <3> QED
      BY <3>1, <3>2
  <2> QED
    BY <2>4, <2>5 DEF MergedTo, f
<1>4. n \in S
  <2> HIDE DEF S
  <2> QED BY <1>2, <1>3, Induction
<1> QED
  BY <1>1, <1>4

\* e is what the first j pairs make of an environment: the last of a key counts.
AssignedTo(pairs, before, j, e) ==
  /\ IsEnv(e)
  /\ \A k \in Declared :
       IF \A i \in 1 .. j : pairs[i][1] # k
       THEN e[k] = before[k]
       ELSE \E i \in 1 .. j : /\ pairs[i][1] = k
                              /\ \A h \in i + 1 .. j : pairs[h][1] # k
                              /\ e[k] = Seen(pairs[i][2])

\* Exporting the pairs in turn does that.
LEMMA AssignMeans ==
  ASSUME NEW n \in Nat, NEW pairs, DOMAIN pairs = 1 .. n, NEW before, IsEnv(before)
  PROVE  AssignedTo(pairs, before, n, FoldLeft(Assign, before, pairs))
<1>1. PICK acc : /\ acc[0] = before
                 /\ \A i \in 1 .. n : acc[i] = Assign(acc[i - 1], pairs[i])
                 /\ acc[n] = FoldLeft(Assign, before, pairs)
  BY AssignSteps
<1> DEFINE S == {j \in Nat : j <= n => AssignedTo(pairs, before, j, acc[j])}
<1>2. 0 \in S
  BY <1>1 DEF AssignedTo
<1>3. ASSUME NEW j \in Nat, j \in S PROVE j + 1 \in S
  <2> SUFFICES ASSUME j + 1 <= n PROVE AssignedTo(pairs, before, j + 1, acc[j + 1])
    OBVIOUS
  <2> DEFINE e == acc[j]  f == acc[j + 1]
  <2>1. AssignedTo(pairs, before, j, e) /\ j + 1 \in 1 .. n /\ j <= n
    BY <1>3
  <2>2. f = [e EXCEPT ![pairs[j + 1][1]] = Seen(pairs[j + 1][2])]
    <3>1. f = Assign(e, pairs[j + 1])
      BY <1>1, <2>1
    <3> HIDE DEF e, f
    <3> QED
      BY <3>1 DEF Assign
  <2> HIDE DEF e, f
  <2>4. IsEnv(e) /\ IsEnv(f)
    BY <2>1, <2>2 DEF AssignedTo, IsEnv
  <2>5. ASSUME NEW k \in Declared
        PROVE  IF \A i \in 1 .. j + 1 : pairs[i][1] # k
               THEN f[k] = before[k]
               ELSE \E i \in 1 .. j + 1 : /\ pairs[i][1] = k
                                          /\ \A h \in i + 1 .. j + 1 : pairs[h][1] # k
                                          /\ f[k] = Seen(pairs[i][2])
    <3>1. CASE pairs[j + 1][1] # k
      <4>1. f[k] = e[k]
        BY <2>2, <2>4, <3>1 DEF IsEnv
      <4> QED
        BY <2>1, <3>1, <4>1 DEF AssignedTo
    <3>2. CASE pairs[j + 1][1] = k
      <4>1. f[k] = Seen(pairs[j + 1][2])
        BY <2>2, <2>4, <3>2 DEF IsEnv
      <4> QED
        BY <2>1, <3>2, <4>1
    <3> QED
      BY <3>1, <3>2
  <2> QED
    BY <2>4, <2>5 DEF AssignedTo, f
<1>4. n \in S
  <2> HIDE DEF S
  <2> QED BY <1>2, <1>3, Induction
<1> QED
  BY <1>1, <1>4

\* What dotenv.py keeps of a line.
Pair(line) == <<line.key, Normalised(line.value)>>

\* pairs are those of the lines up to j that have a key, in the order of the
\* lines: at says which line a pair is of.
ParsedTo(lines, j, pairs) ==
  /\ pairs \in Seq({Pair(lines[i]) : i \in 1 .. j})
  /\ \E at \in [1 .. Len(pairs) -> 1 .. j] :
       /\ \A p, q \in 1 .. Len(pairs) : p < q => at[p] < at[q]
       /\ \A p \in 1 .. Len(pairs) : lines[at[p]].key # None /\ pairs[p] = Pair(lines[at[p]])
       /\ \A i \in 1 .. j : lines[i].key # None => \E p \in 1 .. Len(pairs) : at[p] = i

\* dotenv.py's parse returns them.
LEMMA ParseMeans ==
  ASSUME NEW n \in Nat, NEW lines, IsLines(lines, n)
  PROVE  ParsedTo(lines, n, Parse(lines))
<1>1. PICK acc : /\ acc[0] = <<>>
                 /\ \A i \in 1 .. n : acc[i] = Parsed(acc[i - 1], lines[i])
                 /\ acc[n] = Parse(lines)
  BY ParsedSteps DEF IsLines
<1> DEFINE S == {j \in Nat : j <= n => ParsedTo(lines, j, acc[j])}
<1>2. 0 \in S
  <2>1. ASSUME NEW none \in Seq({Pair(lines[i]) : i \in 1 .. 0}), Len(none) = 0
        PROVE  ParsedTo(lines, 0, none)
    <3>1. 1 .. Len(none) = {} /\ 1 .. 0 = {}
      BY <2>1
    <3>2. [p \in {} |-> 0] \in [1 .. Len(none) -> 1 .. 0]
      BY <3>1
    <3> QED
      BY <3>1, <3>2 DEF ParsedTo
  <2>2. <<>> \in Seq({Pair(lines[i]) : i \in 1 .. 0}) /\ Len(<<>>) = 0
    OBVIOUS
  <2> QED
    BY <1>1, <2>1, <2>2
<1>3. ASSUME NEW j \in Nat, j \in S PROVE j + 1 \in S
  <2> SUFFICES ASSUME j + 1 <= n PROVE ParsedTo(lines, j + 1, acc[j + 1])
    OBVIOUS
  <2> DEFINE e == acc[j]  l == lines[j + 1]  f == acc[j + 1]
  <2>1. ParsedTo(lines, j, e) /\ j + 1 \in 1 .. n /\ j <= n
    BY <1>3
  <2>2. f = IF l.key = None THEN e ELSE Append(e, Pair(l))
    BY <1>1, <2>1 DEF Parsed, Pair
  <2> HIDE DEF e, f
  <2>3. PICK at \in [1 .. Len(e) -> 1 .. j] :
       /\ \A p, q \in 1 .. Len(e) : p < q => at[p] < at[q]
       /\ \A p \in 1 .. Len(e) : lines[at[p]].key # None /\ e[p] = Pair(lines[at[p]])
       /\ \A i \in 1 .. j : lines[i].key # None => \E p \in 1 .. Len(e) : at[p] = i
    BY <2>1 DEF ParsedTo
  <2>4. e \in Seq({Pair(lines[i]) : i \in 1 .. j + 1})
    BY <2>1 DEF ParsedTo
  <2>5. CASE l.key = None
    <3>1. at \in [1 .. Len(e) -> 1 .. j + 1]
      BY <2>3
    <3>2. \A i \in 1 .. j + 1 : lines[i].key # None => \E p \in 1 .. Len(e) : at[p] = i
      BY <2>3, <2>5
    <3>3. ParsedTo(lines, j + 1, e)
      BY <2>3, <2>4, <3>1, <3>2 DEF ParsedTo
    <3> QED
      BY <2>2, <2>5, <3>3 DEF f
  <2>6. CASE l.key # None
    <3> DEFINE to == [p \in 1 .. Len(e) + 1 |-> IF p = Len(e) + 1 THEN j + 1 ELSE at[p]]
    <3>1. /\ f \in Seq({Pair(lines[i]) : i \in 1 .. j + 1})
          /\ Len(f) = Len(e) + 1
          /\ Len(e) \in Nat
          /\ \A p \in 1 .. Len(e) : f[p] = e[p]
          /\ f[Len(e) + 1] = Pair(l)
      <4>1. Pair(l) \in {Pair(lines[i]) : i \in 1 .. j + 1} /\ f = Append(e, Pair(l))
        BY <2>2, <2>6
      <4> HIDE DEF l
      <4> QED
        BY <2>4, <4>1
    <3>2. to \in [1 .. Len(f) -> 1 .. j + 1]
      BY <2>3, <3>1
    <3>10. Len(f) = Len(e) + 1 /\ Len(e) \in Nat
      BY <3>1
    <3>9. \A p, q \in 1 .. Len(f) : p < q => p \in 1 .. Len(e)
      BY <3>10
    <3>7. /\ \A p \in 1 .. Len(f) : p \in 1 .. Len(e) \/ p = Len(e) + 1
          /\ \A p \in 1 .. Len(e) : p \in 1 .. Len(f) /\ p # Len(e) + 1 /\ at[p] \in 1 .. j
          /\ Len(e) + 1 \in 1 .. Len(f)
      BY <3>10
    <3>8. /\ \A p \in 1 .. Len(e) : to[p] = at[p]
          /\ to[Len(e) + 1] = j + 1
      BY <3>1, <3>7
    <3> HIDE DEF to
    <3>3. \A p, q \in 1 .. Len(f) : p < q => to[p] < to[q]
      <4> SUFFICES ASSUME NEW p \in 1 .. Len(f), NEW q \in 1 .. Len(f), p < q
                   PROVE  to[p] < to[q]
        OBVIOUS
      <4>1. p \in 1 .. Len(e)
        BY <3>9
      <4>2. CASE q \in 1 .. Len(e)
        BY <2>3, <3>8, <4>1, <4>2
      <4>3. CASE q = Len(e) + 1
        BY <3>7, <3>8, <4>1, <4>3
      <4> QED
        BY <3>7, <4>2, <4>3
    <3>4. \A p \in 1 .. Len(f) : lines[to[p]].key # None /\ f[p] = Pair(lines[to[p]])
      <4> TAKE p \in 1 .. Len(f)
      <4>1. CASE p \in 1 .. Len(e)
        BY <2>3, <3>1, <3>7, <3>8, <4>1
      <4>2. CASE p = Len(e) + 1
        BY <2>6, <3>1, <3>7, <3>8, <4>2
      <4> QED
        BY <3>7, <3>8, <4>1, <4>2
    <3>5. \A i \in 1 .. j + 1 : lines[i].key # None => \E p \in 1 .. Len(f) : to[p] = i
      <4> TAKE i \in 1 .. j + 1
      <4>1. CASE i \in 1 .. j
        BY <2>3, <3>7, <3>8, <4>1
      <4>2. CASE i = j + 1
        BY <3>7, <3>8, <4>2
      <4> QED
        BY <4>1, <4>2
    <3>6. ParsedTo(lines, j + 1, f)
      BY <3>1, <3>2, <3>3, <3>4, <3>5 DEF ParsedTo
    <3> QED
      BY <3>6 DEF f
  <2> QED
    BY <2>5, <2>6
<1>4. n \in S
  <2> HIDE DEF S
  <2> QED BY <1>2, <1>3, Induction
<1> QED
  BY <1>1, <1>4

\* e is what a file makes of an environment that a shell lays it over: the last
\* line of a key counts, normalised.
LaidTo(lines, before, n, e) ==
  /\ IsEnv(e)
  /\ \A k \in Declared :
       IF \A i \in 1 .. n : lines[i].key # k
       THEN e[k] = before[k]
       ELSE \E i \in 1 .. n : /\ lines[i].key = k
                              /\ \A h \in i + 1 .. n : lines[h].key # k
                              /\ e[k] = Seen(Normalised(lines[i].value))

\* Parsing and exporting do that: the last pair of a key is the last line's.
LEMMA ShellMeans ==
  ASSUME NEW n \in Nat, NEW lines, IsLines(lines, n), NEW before, IsEnv(before),
         None \notin Declared
  PROVE  LaidTo(lines, before, n, AfterShell(lines, before))
<1> DEFINE pairs == Parse(lines)  e == AfterShell(lines, before)  m == Len(pairs)
<1>1. ParsedTo(lines, n, pairs)
  BY ParseMeans
<1>2. m \in Nat /\ DOMAIN pairs = 1 .. m
  BY <1>1 DEF ParsedTo
<1>3. AssignedTo(pairs, before, m, e)
  BY <1>2, AssignMeans DEF AfterShell
<1> HIDE DEF pairs, e
<1>4. PICK at \in [1 .. m -> 1 .. n] :
        /\ \A p, q \in 1 .. m : p < q => at[p] < at[q]
        /\ \A p \in 1 .. m : lines[at[p]].key # None /\ pairs[p] = Pair(lines[at[p]])
        /\ \A i \in 1 .. n : lines[i].key # None => \E p \in 1 .. m : at[p] = i
  BY <1>1 DEF ParsedTo
<1>5. \A p \in 1 .. m : /\ pairs[p][1] = lines[at[p]].key
                        /\ pairs[p][2] = Normalised(lines[at[p]].value)
  BY <1>4 DEF Pair
<1> HIDE DEF m
<1>6. ASSUME NEW k \in Declared
      PROVE  IF \A i \in 1 .. n : lines[i].key # k
             THEN e[k] = before[k]
             ELSE \E i \in 1 .. n : /\ lines[i].key = k
                                    /\ \A h \in i + 1 .. n : lines[h].key # k
                                    /\ e[k] = Seen(Normalised(lines[i].value))
  <2>1. CASE \A p \in 1 .. m : pairs[p][1] # k
    <3>1. e[k] = before[k]
      BY <1>3, <2>1 DEF AssignedTo
    <3>2. \A i \in 1 .. n : lines[i].key # k
      BY <1>4, <1>5, <2>1
    <3> QED
      BY <3>1, <3>2
  <2>2. CASE \E p \in 1 .. m : pairs[p][1] = k
    <3>1. PICK p \in 1 .. m : /\ pairs[p][1] = k
                              /\ \A h \in p + 1 .. m : pairs[h][1] # k
                              /\ e[k] = Seen(pairs[p][2])
      BY <1>3, <2>2 DEF AssignedTo
    <3>2. at[p] \in 1 .. n /\ lines[at[p]].key = k /\ e[k] = Seen(Normalised(lines[at[p]].value))
      BY <1>4, <1>5, <3>1
    <3>3. ASSUME NEW h \in at[p] + 1 .. n, lines[h].key = k PROVE FALSE
      <4>1. h \in 1 .. n /\ at[p] < h
        BY <3>2
      <4>2. PICK q \in 1 .. m : at[q] = h
        BY <1>4, <3>3, <4>1
      <4>3. ~(q < p) /\ q # p
        BY <1>4, <4>1, <4>2
      <4>4. q \in p + 1 .. m
        BY <1>2, <4>3
      <4> QED
        BY <1>5, <3>1, <3>3, <4>2, <4>4
    <3> QED
      BY <3>2, <3>3
  <2> QED
    BY <2>1, <2>2
<1> QED
  BY <1>3, <1>6 DEF LaidTo, AssignedTo, e

\* The files of the launches are such files.
LEMMA FileIsLines ==
  ASSUME NEW lines, IsFile(lines)
  PROVE  Len(lines) \in Nat /\ IsLines(lines, Len(lines))
  BY DEF IsFile, IsLines

\* A Secret holds the pairs in some order, each of them once and no others.
LEMMA PairsListed ==
  ASSUME NEW lines, IsFile(lines)
  PROVE  /\ SetToSeqs(ToSet(Parse(lines))) # {}
         /\ \A pairs \in SetToSeqs(ToSet(Parse(lines))) :
              \E n \in Nat : DOMAIN pairs = 1 .. n /\ ToSet(pairs) = ToSet(Parse(lines))
<1> DEFINE all == ToSet(Parse(lines))  n == Cardinality(all)
<1>1. IsFiniteSet(all)
  <2>1. ParsedTo(lines, Len(lines), Parse(lines))
    BY FileIsLines, ParseMeans
  <2>2. Len(Parse(lines)) \in Nat /\ DOMAIN Parse(lines) = 1 .. Len(Parse(lines))
        /\ Parse(lines) \in [1 .. Len(Parse(lines)) -> all]
    BY <2>1 DEF ParsedTo, ToSet
  <2>3. Parse(lines) \in Surjection(1 .. Len(Parse(lines)), all)
    BY <2>2 DEF Surjection, ToSet
  <2> QED
    BY <2>2, <2>3, FS_NatSurjection DEF ExistsSurjection
<1>2. n \in Nat /\ ExistsBijection(1 .. n, all)
  BY <1>1, FS_CardinalityType
<1> HIDE DEF all
<1>3. SetToSeqs(all) = {f \in [1 .. n -> all] : \A i, j \in 1 .. n : i # j => f[i] # f[j]}
  BY DEF SetToSeqs
<1>4. SetToSeqs(all) # {}
  <2>1. PICK f : f \in Injection(1 .. n, all)
    BY <1>2 DEF ExistsBijection, Bijection
  <2> QED
    BY <1>3, <2>1 DEF Injection, IsInjective
<1>5. ASSUME NEW pairs \in SetToSeqs(all)
      PROVE  DOMAIN pairs = 1 .. n /\ ToSet(pairs) = all
  <2>1. pairs \in [1 .. n -> all] /\ pairs \in Injection(1 .. n, all)
    BY <1>3, <1>5 DEF Injection, IsInjective
  <2>2. Cardinality(1 .. n) = n
    BY <1>2, FS_Interval
  <2>3. pairs \in Surjection(1 .. n, all)
    BY <1>1, <2>1, <2>2, FS_Injection
  <2> QED
    BY <2>1, <2>3 DEF Surjection, ToSet
<1> QED
  BY <1>2, <1>4, <1>5 DEF all

\* A Secret laid over an environment leaves an environment.
LEMMA SecretIsEnv ==
  ASSUME NEW lines, IsFile(lines), NEW before, IsEnv(before), NEW e \in AfterSecret(lines, before)
  PROVE  IsEnv(e)
<1>1. PICK pairs \in SetToSeqs(ToSet(Parse(lines))) : e = FoldLeft(Assign, before, pairs)
  BY DEF AfterSecret
<1>2. PICK n \in Nat : DOMAIN pairs = 1 .. n
  BY PairsListed
<1> QED
  BY <1>1, <1>2, AssignMeans DEF AssignedTo

-----------------------------------------------------------------------------
(* What the files give a process stays given, until it has its settings.   *)

\* What the files have given is there and stays there until the server has its
\* settings: whatever the entrypoint merges later neither unsets nor replaces what
\* env-docker-run has set or the container was given.
FilesInv ==
  /\ launch \in Launches /\ IsEnv(ambient)
  /\ launch.path = "image" =>
       /\ stage # "recipe"
       /\ stage = "entrypoint" => ambient = given
  /\ ContainerWins /\ DecryptedOrRefused
  /\ (launch.path = "env-docker-run" /\ stage \in {"entrypoint", "running"}) =>
       /\ launch.file \notin {None, Junk} /\ SetsAll(launch.file)
       /\ \A k \in Declared, i \in DOMAIN launch.file :
            LinesOf(launch.file, k) = {i}
              => ambient[k] = Seen(Normalised(launch.file[i].value))
  /\ (launch.path = "image" /\ stage = "running" /\ launch.key /\ launch.baked # None) =>
       \A k \in Declared, i \in DOMAIN launch.baked :
         (LinesOf(launch.baked, k) = {i} /\ ~launch.baked[i].export /\ given[k] = None)
           => ambient[k] = Seen(ReadValue(launch.baked[i].value))

\* A shell that lays a file over an environment sets each key of it, and a key that
\* one line gives to what that line says.
LEMMA ShellSets ==
  ASSUME NEW lines, IsFile(lines), NEW before, IsEnv(before), NEW e, e = AfterShell(lines, before)
  PROVE  /\ IsEnv(e)
         /\ \A i \in DOMAIN lines : lines[i].key # None => e[lines[i].key] # None
         /\ \A k \in Declared, i \in DOMAIN lines :
              LinesOf(lines, k) = {i} => e[k] = Seen(Normalised(lines[i].value))
<1> DEFINE n == Len(lines)
<1>1. n \in Nat /\ IsLines(lines, n) /\ DOMAIN lines = 1 .. n
  BY FileIsLines DEF IsLines
<1>2. LaidTo(lines, before, n, e)
  BY <1>1, ShellMeans, LaunchAssumption
<1> HIDE DEF n
<1>3. ASSUME NEW i \in DOMAIN lines, lines[i].key # None PROVE e[lines[i].key] # None
  <2>1. lines[i].key \in Declared
    BY <1>1, <1>3 DEF IsLines
  <2>2. PICK h \in 1 .. n : e[lines[i].key] = Seen(Normalised(lines[h].value))
    BY <1>1, <1>2, <2>1 DEF LaidTo
  <2> QED
    BY <1>1, <2>2 DEF IsFile, IsValue
<1>4. ASSUME NEW k \in Declared, NEW i \in DOMAIN lines, LinesOf(lines, k) = {i}
      PROVE  e[k] = Seen(Normalised(lines[i].value))
  BY <1>1, <1>2, <1>4 DEF LaidTo, LinesOf
<1> QED
  BY <1>2, <1>3, <1>4 DEF LaidTo

\* The entrypoint sets each key of a ciphertext that was not set, and a key that
\* one line gives to what that line says; the others it leaves alone.
LEMMA MergeSets ==
  ASSUME NEW lines, IsFile(lines), NEW before, IsEnv(before), NEW e, e = AfterMerge(lines, before)
  PROVE  /\ IsEnv(e)
         /\ \A k \in Declared : before[k] # None => e[k] = before[k]
         /\ \A i \in DOMAIN lines :
              (lines[i].key # None /\ ~lines[i].export) => e[lines[i].key] # None
         /\ \A k \in Declared, i \in DOMAIN lines :
              (LinesOf(lines, k) = {i} /\ ~lines[i].export /\ before[k] = None)
                => e[k] = Seen(ReadValue(lines[i].value))
<1> DEFINE n == Len(lines)
<1>1. n \in Nat /\ IsLines(lines, n) /\ DOMAIN lines = 1 .. n
  BY FileIsLines DEF IsLines
<1>2. MergedTo(lines, before, n, e)
  BY <1>1, MergeMeans, LaunchAssumption DEF IsFile, IsValue
<1> HIDE DEF n
<1>3. ASSUME NEW i \in DOMAIN lines, lines[i].key # None, ~lines[i].export
      PROVE  e[lines[i].key] # None
  <2>1. lines[i].key \in Declared
    BY <1>1, <1>3 DEF IsLines
  <2>2. \A h \in 1 .. n : Seen(ReadValue(lines[h].value)) # None
    BY <1>1 DEF IsFile, IsValue
  <2> QED
    BY <1>1, <1>2, <1>3, <2>1, <2>2 DEF MergedTo, Gives
<1>4. ASSUME NEW k \in Declared, NEW i \in DOMAIN lines, LinesOf(lines, k) = {i},
             ~lines[i].export, before[k] = None
      PROVE  e[k] = Seen(ReadValue(lines[i].value))
  BY <1>1, <1>2, <1>4 DEF MergedTo, Gives, LinesOf
<1>5. \A k \in Declared : before[k] # None => e[k] = before[k]
  BY <1>2 DEF MergedTo
<1>6. IsEnv(e)
  BY <1>2 DEF MergedTo
<1> QED
  BY <1>3, <1>4, <1>5, <1>6

\* No file has been read yet.
LEMMA InitFiles == LaunchInit => FilesInv
<1> SUFFICES ASSUME LaunchInit PROVE FilesInv
  OBVIOUS
<1>1. launch \in Launches /\ IsEnv(ambient) /\ given = ambient
  BY LaunchAssumption DEF LaunchInit, Init, IsEnv
<1>2. /\ launch.path = "hand" => stage = "running"
      /\ launch.path = "image" => stage = "entrypoint"
      /\ launch.path \in {"env-docker-run", "cluster"} => stage = "recipe"
  BY DEF LaunchInit
<1> QED
  BY <1>1, <1>2 DEF FilesInv, ContainerWins, DecryptedOrRefused

\* Each recipe and each way through the entrypoint keeps it, and startup reads the
\* environment without changing it.
LEMMA FilesStep == FilesInv /\ [LaunchNext]_<<vars, launchVars>> => FilesInv'
<1> SUFFICES ASSUME FilesInv, [LaunchNext]_<<vars, launchVars>> PROVE FilesInv'
  OBVIOUS
<1>1. \A f \in {launch.file, launch.baked} \ {None, Junk} : IsFile(f)
  BY LaunchAssumption DEF FilesInv
<1>2. IsEnv(ambient)
  BY DEF FilesInv
<1>3. ASSUME NEW s, NEW e, Go(s, e)
      PROVE  /\ stage' = s /\ ambient' = e /\ UNCHANGED <<launch, given>>
  BY <1>3 DEF Go
<1>4. ASSUME NEW e, Go("refused", e), IsEnv(e) PROVE FilesInv'
  BY <1>4, <1>3 DEF FilesInv, ContainerWins, DecryptedOrRefused
<1>5. CASE LaunchEnvRun
  <2>1. launch.path = "env-run" /\ launch' = launch
    BY <1>3, <1>5 DEF LaunchEnvRun
  <2>2. IsEnv(ambient')
    BY <1>1, <1>2, <1>3, <1>5, ShellSets DEF LaunchEnvRun
  <2> QED
    BY <2>1, <2>2 DEF FilesInv, ContainerWins, DecryptedOrRefused
<1>6. CASE LaunchDockerRun
  <2>1. CASE Go("refused", ambient)
    BY <2>1, <1>2, <1>4
  <2>2. CASE /\ launch.file \notin {None, Junk}
             /\ Go("entrypoint", AfterShell(launch.file, ambient))
    <3>1. IsFile(launch.file) /\ launch.path = "env-docker-run"
      BY <1>1, <1>6, <2>2 DEF LaunchDockerRun
    <3>2. /\ stage' = "entrypoint" /\ UNCHANGED <<launch, given>>
          /\ ambient' = AfterShell(launch.file, ambient)
      BY <1>3, <2>2
    <3>3. /\ IsEnv(ambient')
          /\ \A i \in DOMAIN launch.file :
               launch.file[i].key # None => ambient'[launch.file[i].key] # None
          /\ \A k \in Declared, i \in DOMAIN launch.file :
               LinesOf(launch.file, k) = {i}
                 => ambient'[k] = Seen(Normalised(launch.file[i].value))
      BY <1>2, <3>1, <3>2, ShellSets
    <3>4. SetsAll(launch.file)'
      BY <3>2, <3>3 DEF SetsAll
    <3> QED
      BY <2>2, <3>1, <3>2, <3>3, <3>4 DEF FilesInv, ContainerWins, DecryptedOrRefused
  <2> QED
    BY <1>6, <2>1, <2>2 DEF LaunchDockerRun
<1>7. CASE LaunchCluster
  <2>1. launch.path = "cluster"
    BY <1>7 DEF LaunchCluster
  <2>2. CASE Go("refused", ambient)
    BY <2>2, <1>2, <1>4
  <2>3. ASSUME NEW e, IsEnv(e), Go("entrypoint", e) PROVE FilesInv'
    BY <1>3, <2>1, <2>3 DEF FilesInv, ContainerWins, DecryptedOrRefused
  <2>4. ASSUME launch.file \notin {None, Junk}, NEW e \in AfterSecret(launch.file, ambient)
        PROVE  IsEnv(e)
    BY <1>1, <1>2, <2>4, SecretIsEnv
  <2> QED
    BY <1>2, <1>7, <2>2, <2>3, <2>4 DEF LaunchCluster
<1>8. CASE NothingBaked
  BY <1>3, <1>8 DEF NothingBaked, FilesInv, ContainerWins, DecryptedOrRefused, SetsAll
<1>9. CASE NoKey
  BY <1>3, <1>9 DEF NoKey, FilesInv, ContainerWins, DecryptedOrRefused, SetsAll
<1>10. CASE Decrypt
  <2>1. CASE Go("refused", ambient)
    BY <2>1, <1>2, <1>4
  <2>2. CASE /\ launch.baked # Junk
             /\ Go("running", AfterMerge(launch.baked, ambient))
    <3>1. stage = "entrypoint" /\ launch.baked # None /\ launch.key
      BY <1>10 DEF Decrypt
    <3>2. IsFile(launch.baked)
      BY <1>1, <2>2, <3>1
    <3>3. /\ stage' = "running" /\ UNCHANGED <<launch, given>>
          /\ ambient' = AfterMerge(launch.baked, ambient)
      BY <1>3, <2>2
    <3>4. /\ IsEnv(ambient')
          /\ \A k \in Declared : ambient[k] # None => ambient'[k] = ambient[k]
          /\ \A i \in DOMAIN launch.baked :
               (launch.baked[i].key # None /\ ~launch.baked[i].export)
                 => ambient'[launch.baked[i].key] # None
          /\ \A k \in Declared, i \in DOMAIN launch.baked :
               (LinesOf(launch.baked, k) = {i} /\ ~launch.baked[i].export /\ ambient[k] = None)
                 => ambient'[k] = Seen(ReadValue(launch.baked[i].value))
      BY <1>2, <3>2, <3>3, MergeSets
    <3>5. SetsAll(launch.baked)'
      BY <3>3, <3>4 DEF SetsAll
    <3>6. launch.path = "env-docker-run" =>
            /\ launch.file \notin {None, Junk} /\ SetsAll(launch.file)'
            /\ \A k \in Declared, i \in DOMAIN launch.file :
                 LinesOf(launch.file, k) = {i}
                   => ambient'[k] = Seen(Normalised(launch.file[i].value))
      <4> SUFFICES ASSUME launch.path = "env-docker-run"
                   PROVE  /\ launch.file \notin {None, Junk} /\ SetsAll(launch.file)'
                          /\ \A k \in Declared, i \in DOMAIN launch.file :
                               LinesOf(launch.file, k) = {i}
                                 => ambient'[k] = Seen(Normalised(launch.file[i].value))
        OBVIOUS
      <4>1. /\ launch.file \notin {None, Junk} /\ SetsAll(launch.file)
            /\ \A k \in Declared, i \in DOMAIN launch.file :
                 LinesOf(launch.file, k) = {i}
                   => ambient[k] = Seen(Normalised(launch.file[i].value))
        BY <3>1 DEF FilesInv
      <4>2. /\ IsFile(launch.file)
            /\ \A i \in DOMAIN launch.file :
                 /\ launch.file[i].key \in Declared \cup {None}
                 /\ Seen(Normalised(launch.file[i].value)) # None
        BY <1>1, <4>1 DEF IsFile, IsValue
      <4>3. SetsAll(launch.file)'
        BY <3>3, <3>4, <4>1, <4>2 DEF SetsAll
      <4> QED
        BY <3>4, <4>1, <4>2, <4>3
    <3>7. launch.path = "image" => ambient = given
      BY <3>1 DEF FilesInv
    <3>8. ContainerWins'
      BY <3>3, <3>4, <3>7 DEF ContainerWins
    <3>9. DecryptedOrRefused'
      BY <2>2, <3>3, <3>5, <3>6 DEF DecryptedOrRefused, SetsAll
    <3> QED
      BY <2>2, <3>3, <3>4, <3>6, <3>7, <3>8, <3>9 DEF FilesInv
  <2> QED
    BY <1>10, <2>1, <2>2 DEF Decrypt
<1>11. CASE stage = "running" /\ Next /\ UNCHANGED launchVars
  <2>1. ambient' = ambient
    BY <1>11 DEF Next, ResolveConfigPath, ParseFlags, MergeEnv, FromEnvMap, inputs
  <2> QED
    BY <1>11, <2>1 DEF launchVars, FilesInv, ContainerWins, DecryptedOrRefused, SetsAll
<1>12. CASE UNCHANGED <<vars, launchVars>>
  BY <1>12 DEF launchVars, vars, inputs, FilesInv, ContainerWins, DecryptedOrRefused, SetsAll
<1> QED
  BY <1>5, <1>6, <1>7, <1>8, <1>9, <1>10, <1>11, <1>12 DEF LaunchNext

\* Variables that are set in the container's environment win over what is baked
\* into the image, the empty ones too (sops-entrypoint.sh).
THEOREM EnvironmentsWin == LaunchSpec => []ContainerWins
<1>1. FilesInv => ContainerWins
  BY DEF FilesInv
<1> QED
  BY InitFiles, FilesStep, <1>1, PTL DEF LaunchSpec

\* A container that was given a key runs with every variable of its ciphertext, and
\* one that env-docker-run starts with every variable of the file, or not at all.
THEOREM AllOrNothing == LaunchSpec => []DecryptedOrRefused
<1>1. FilesInv => DecryptedOrRefused
  BY DEF FilesInv
<1> QED
  BY InitFiles, FilesStep, <1>1, PTL DEF LaunchSpec

-----------------------------------------------------------------------------
(* From the ciphertext to the gate.                                        *)

\* What is read as it is meant reaches the environment as it is shown.
LEMMA ReadAsMeant ==
  ASSUME NEW line, IsValue(line.value), NEW byRecipe \in BOOLEAN, IsRead(line, byRecipe),
         NEW seen,
         seen = IF byRecipe THEN Seen(Normalised(line.value)) ELSE Seen(ReadValue(line.value))
  PROVE  /\ seen # None
         /\ line.value.special # "wide" => seen = Bared(line.value)
         /\ line.value.special = "wide" =>
              /\ Blank \notin {seen, Bared(line.value)}
              /\ seen \in {Bared(line.value), Seen(Normalised(line.value))}
<1> DEFINE v == line.value
<1>1. /\ v = Value(v.text, v.quotes, v.inner, v.special, v.padded)
      /\ v.special \in {None, "wide"} /\ v.inner = None /\ v.padded = FALSE
      /\ ~byRecipe => v.quotes = None
  BY DEF IsValue, IsRead, IsBare
<1>2. seen # None
  BY DEF IsValue
<1>3. ~byRecipe => ReadValue(v) = v
  BY <1>1 DEF ReadValue, Value
<1>4. /\ Normalised(v).text = v.text /\ Normalised(v).quotes = None
      /\ Normalised(v).special = v.special /\ Normalised(v).padded = FALSE
  BY <1>1 DEF Normalised, Value
<1>5. CASE v.special = "wide"
  <2>1. "wide" # None
    BY LaunchAssumption
  <2>2. byRecipe => seen = [kind |-> "raw", value |-> Normalised(v)]
    BY <1>4, <1>5, <2>1 DEF Seen
  <2>3. ~byRecipe => seen = [kind |-> "raw", value |-> v] /\ seen = Bared(v)
    <3>1. [v EXCEPT !.quotes = None] = v \/ byRecipe
      BY <1>1 DEF Value
    <3> QED
      BY <1>1, <1>3, <1>5, <2>1, <3>1 DEF Seen, Bared
  <2>4. Bared(v) = [kind |-> "raw", value |-> [v EXCEPT !.quotes = None]]
    BY <1>1, <1>5, <2>1 DEF Bared, Seen, Value
  <2>5. Blank \notin {seen, Bared(v)}
    BY <2>2, <2>3, <2>4 DEF Blank
  <2> QED
    BY <1>2, <1>5, <2>3, <2>5
<1>6. CASE v.special # "wide"
  <2>1. v.special = None
    BY <1>1, <1>6
  <2>2. seen = v.text
    BY <1>1, <1>3, <1>4, <2>1 DEF Seen
  <2>3. Bared(v) = v.text
    <3>1. /\ [v EXCEPT !.quotes = None].quotes = None
          /\ [v EXCEPT !.quotes = None].special = None
          /\ [v EXCEPT !.quotes = None].padded = FALSE
          /\ [v EXCEPT !.quotes = None].text = v.text
      BY <1>1, <2>1 DEF Value
    <3> QED
      BY <3>1 DEF Bared, Seen
  <2> QED
    BY <1>2, <1>6, <2>2, <2>3
<1> QED
  BY <1>5, <1>6

\* The default list admits its names without a port and with the default one, and
\* with no other port.
LEMMA DefaultHostsJudged ==
  ASSUME NEW app, app.allowedHosts = ParseAllowedHosts(DefaultHosts), ValidAllowedHosts(DefaultHosts),
         NEW p \in 1 .. MaxPort
  PROVE  /\ HostAllowed(LocalHost(None), app)
         /\ HostAllowed(LocalHost(p), app) <=> p = DefaultPort
<1>1. /\ LocalHost(None) # None /\ LocalHost(None).visible
      /\ LocalHost(p) # None /\ LocalHost(p).visible
  BY TextAssumption
<1>2. /\ NormalizeHost(LocalHost(None)) # None
      /\ NormalizeHost(LocalHost(DefaultPort)) # None
  BY DEF ValidAllowedHosts, DefaultHosts
<1>3. app.allowedHosts = {NormalizeHost(LocalHost(None)), NormalizeHost(LocalHost(DefaultPort))}
  BY DEF ParseAllowedHosts, DefaultHosts
<1>4. HostAllowed(LocalHost(None), app)
  BY <1>1, <1>2, <1>3 DEF HostAllowed
<1>5. CASE p = DefaultPort
  BY <1>1, <1>2, <1>3, <1>4, <1>5 DEF HostAllowed
<1>6. CASE p # DefaultPort
  <2>1. /\ LocalHost(p).name # LocalHost(None).name
        /\ LocalHost(p).name # LocalHost(DefaultPort).name
    BY <1>6, TextAssumption, StartupAssumption
  <2>2. NormalizeHost(LocalHost(p)) # None => NormalizeHost(LocalHost(p)).name = LocalHost(p).name
    BY DEF NormalizeHost
  <2>3. /\ NormalizeHost(LocalHost(None)).name = LocalHost(None).name
        /\ NormalizeHost(LocalHost(DefaultPort)).name = LocalHost(DefaultPort).name
    BY <1>2 DEF NormalizeHost
  <2> QED
    BY <1>3, <1>4, <1>6, <2>1, <2>2, <2>3 DEF HostAllowed
<1> QED
  BY <1>5, <1>6

\* Whoever knows the secret in the file is judged by the gate as it was meant,
\* since the file's value is the process's, and the process's is the gate's.
LEMMA HolderAdmittedHolds == StartupInv /\ Launching /\ FilesInv => CiphertextHolderAdmitted
<1> DEFINE recipe == launch.path = "env-docker-run"
           lines  == IF recipe THEN launch.file ELSE launch.baked
           key == "SERVER_AUTH_SECRET"
<1> SUFFICES ASSUME StartupInv, Launching, FilesInv,
                    phase = "configured", ~Said(env, "MCP_ALLOWED_HOSTS"),
                    recipe \/ (launch.path = "image" /\ launch.key /\ lines # None
                                /\ given[key] = None),
                    NEW i \in LinesOf(lines, key),
                    LinesOf(lines, key) = {i}, IsRead(lines[i], recipe)
             PROVE  LET v      == lines[i].value
                        answer == CASE v.special = "wide" -> 401
                                    [] Bared(v) = Blank   -> 503
                                    [] OTHER              -> Pass
                    IN /\ RequireServerAuth(cfg.app, Caller(v, None)) = answer
                       /\ RequireServerAuth(cfg.app, Caller(v, cfg.port))
                            = IF cfg.port = DefaultPort \/ answer = 503 THEN answer ELSE 421
  BY DEF CiphertextHolderAdmitted
<1> DEFINE v == lines[i].value  seen == ambient[key]
<1>1. stage = "running"
  BY DEF Launching
<1>2. lines \notin {None, Junk} /\ IsFile(lines)
  <2>1. lines \notin {None, Junk} /\ launch \in Launches
    BY <1>1 DEF FilesInv, DecryptedOrRefused
  <2> QED
    BY <2>1, LaunchAssumption
<1>3. i \in DOMAIN lines /\ IsValue(v) /\ key \in Declared
  BY <1>2 DEF LinesOf, IsFile, Declared
<1>4. seen = IF recipe THEN Seen(Normalised(v)) ELSE Seen(ReadValue(v))
  BY <1>1, <1>2, <1>3 DEF FilesInv, IsRead
<1>5. /\ seen # None
      /\ v.special # "wide" => seen = Bared(v)
      /\ v.special = "wide" =>
           Blank \notin {seen, Bared(v)} /\ seen \in {Bared(v), Seen(Normalised(v))}
  BY <1>3, <1>4, ReadAsMeant
<1>6. /\ None \notin {SecretOf(Bared(v)), SecretOf(Seen(Normalised(v)))}
      /\ SecretOf(Bared(v)).visible <=> v.special # "wide"
  <2>1. v.special # "newline" /\ launch \in Launches /\ lines \in {launch.file, launch.baked} \ {None, Junk}
    BY <1>2 DEF IsRead, FilesInv
  <2> QED
    BY <2>1, TextAssumption
<1>7. /\ cfg.app.authSecret = IF seen = Blank THEN None ELSE SecretOf(seen)
      /\ cfg.app.authSecret # None => ValidAuthSecret(cfg.app.authSecret)
      /\ cfg.app.allowedHosts = ParseAllowedHosts(DefaultHosts)
      /\ ValidAllowedHosts(DefaultHosts)
      /\ cfg.port \in 1 .. MaxPort
  <2>1. cfg.app.authSecret = SettingsOf(ambient).secret
    BY EnvironmentOnlyHolds DEF EnvironmentOnly
  <2>2. SettingsOf(ambient).secret = IF seen = Blank THEN None ELSE SecretOf(seen)
    BY <1>5 DEF SettingsOf, Said, EnvValue
  <2>3. cfg.app = AppState(SettingsOf(env)) /\ ValidConfig(SettingsOf(env))
    BY DEF StartupInv
  <2>4. SettingsOf(env).hosts = DefaultHosts
    BY DEF SettingsOf
  <2>5. cfg.port \in 1 .. MaxPort
    BY PortsAgreeHolds DEF PortsAgree
  <2> QED
    BY <2>1, <2>2, <2>3, <2>4, <2>5 DEF AppState, ValidConfig
<1>8. /\ HostAllowed(LocalHost(None), cfg.app)
      /\ HostAllowed(LocalHost(cfg.port), cfg.app) <=> cfg.port = DefaultPort
  BY <1>7, DefaultHostsJudged
<1> DEFINE mine == Caller(v, None)  ours == Caller(v, cfg.port)
<1>9. /\ mine.secret = SecretOf(Bared(v)) /\ mine.host = LocalHost(None) /\ mine.origin = None
      /\ ours.secret = SecretOf(Bared(v)) /\ ours.host = LocalHost(cfg.port) /\ ours.origin = None
  BY DEF Caller
<1> HIDE DEF v, seen, mine, ours, lines
<1>10. CASE v.special = "wide"
  <2>1. cfg.app.authSecret # None /\ ~PresentedSecret(SecretOf(Bared(v)))
    BY <1>5, <1>6, <1>7, <1>10 DEF PresentedSecret
  <2>2. /\ RequireServerAuth(cfg.app, mine) = 401
        /\ RequireServerAuth(cfg.app, ours) = IF cfg.port = DefaultPort THEN 401 ELSE 421
    BY <1>8, <1>9, <2>1 DEF RequireServerAuth
  <2> QED
    BY <1>5, <1>10, <2>2 DEF v, mine, ours
<1>11. CASE v.special # "wide" /\ Bared(v) = Blank
  <2>1. cfg.app.authSecret = None
    BY <1>5, <1>7, <1>11
  <2>2. RequireServerAuth(cfg.app, mine) = 503 /\ RequireServerAuth(cfg.app, ours) = 503
    BY <2>1 DEF RequireServerAuth
  <2> QED
    BY <1>11, <2>2 DEF v, mine, ours
<1>12. CASE v.special # "wide" /\ Bared(v) # Blank
  <2>1. /\ cfg.app.authSecret = SecretOf(Bared(v)) /\ cfg.app.authSecret # None
        /\ PresentedSecret(SecretOf(Bared(v)))
    BY <1>5, <1>6, <1>7, <1>12, PolicyAssumption DEF PresentedSecret, ValidAuthSecret
  <2>2. /\ RequireServerAuth(cfg.app, mine) = Pass
        /\ RequireServerAuth(cfg.app, ours) = IF cfg.port = DefaultPort THEN Pass ELSE 421
    BY <1>8, <1>9, <2>1 DEF RequireServerAuth, SecretsMatch, OriginAllowed
  <2> QED
    BY <1>12, <2>2 DEF v, mine, ours, Pass
<1> QED
  BY <1>10, <1>11, <1>12

\* A container lets in whoever knows the secret of the file it was started with, on
\* a default host name, but for the secrets and ports named there (config.rs, auth.rs).
THEOREM HolderIsAdmitted == LaunchSpec => []CiphertextHolderAdmitted
  BY LaunchInvariant, InitFiles, FilesStep, HolderAdmittedHolds, PTL DEF LaunchSpec

-----------------------------------------------------------------------------
(* The renderings.                                                         *)

\* The environment nothing is set in.
LEMMA UnsetIsEnv == IsEnv(Unset) /\ \A k \in Declared : Unset[k] = None
  BY DEF IsEnv, Unset

\* Environments that agree on each key are the same.
LEMMA SameEnv ==
  ASSUME NEW d, NEW e, IsEnv(d), IsEnv(e), \A k \in Declared : d[k] = e[k]
  PROVE  d = e
  BY DEF IsEnv

\* Neither parser changes a value with nothing around it.
LEMMA BareIsItself ==
  ASSUME NEW v, IsValue(v), IsBare(v)
  PROVE  ReadValue(v) = v /\ Normalised(v) = v
<1>1. /\ v = [text |-> v.text, quotes |-> None, inner |-> None, special |-> v.special,
              changed |-> FALSE, padded |-> FALSE]
      /\ None # "double"
  BY LaunchAssumption DEF IsValue, IsBare, Value
<1>2. ReadValue(v) = v
  BY <1>1 DEF ReadValue
<1>3. Normalised(v) = v
  <2>1. /\ v.quotes = None /\ v.inner = None /\ v.changed = FALSE
        /\ v = [x \in {"text", "quotes", "inner", "special", "changed", "padded"} |-> v[x]]
    BY <1>1
  <2>2. (v.changed \/ (v.quotes = "double" /\ v.special # None)) = FALSE
    BY <1>1, <2>1
  <2>3. \A x, y, z : [[[v EXCEPT !.quotes = x] EXCEPT !.inner = y] EXCEPT !.changed = z]
          = [k \in {"text", "quotes", "inner", "special", "changed", "padded"} |->
               CASE k = "quotes" -> x [] k = "inner" -> y [] k = "changed" -> z [] OTHER -> v[k]]
    BY <2>1
  <2> QED
    BY <2>1, <2>2, <2>3 DEF Normalised
<1> QED
  BY <1>2, <1>3

\* A value that is not quoted twice is normalised at once.
LEMMA NormalisedOnce ==
  ASSUME NEW v, IsValue(v), ~Nested(v)
  PROVE  Normalised(Normalised(v)) = Normalised(v)
  BY LaunchAssumption DEF IsValue, Nested, Normalised, Value

\* A shell reads each line of a plain file as it is written, and no other.
LEMMA PlainLines ==
  ASSUME NEW lines, IsFile(lines), IsPlain(lines), NEW k \in Declared, NEW e,
         e = AfterShell(lines, Unset)
  PROVE  /\ (\A i \in DOMAIN lines : lines[i].key # k) => e[k] = None
         /\ \A i \in DOMAIN lines :
              lines[i].key = k => ~lines[i].export /\ e[k] = Seen(lines[i].value)
                                  /\ ReadValue(lines[i].value) = lines[i].value
                                  /\ Normalised(lines[i].value) = lines[i].value
<1>1. Len(lines) \in Nat /\ DOMAIN lines = 1 .. Len(lines) /\ IsLines(lines, Len(lines))
  BY FileIsLines DEF IsLines
<1>2. LaidTo(lines, Unset, Len(lines), e)
  BY <1>1, ShellMeans, UnsetIsEnv, LaunchAssumption
<1>3. ASSUME NEW i \in DOMAIN lines, lines[i].key = k
      PROVE  /\ ~lines[i].export /\ e[k] = Seen(lines[i].value)
             /\ ReadValue(lines[i].value) = lines[i].value
             /\ Normalised(lines[i].value) = lines[i].value
  <2>1. k # None
    BY LaunchAssumption
  <2>2. ~lines[i].export /\ IsBare(lines[i].value) /\ IsValue(lines[i].value)
    BY <1>3, <2>1 DEF IsPlain, IsFile
  <2>3. LinesOf(lines, k) = {i}
    BY <1>3, <2>1 DEF IsPlain, LinesOf
  <2>4. e[k] = Seen(Normalised(lines[i].value))
    BY <2>3, ShellSets, UnsetIsEnv
  <2> QED
    BY <2>2, <2>4, BareIsItself
<1> QED
  BY <1>1, <1>2, <1>3, UnsetIsEnv DEF LaidTo

\* So does the entrypoint's loop,
LEMMA PlainMerge ==
  ASSUME NEW lines, IsFile(lines), IsPlain(lines)
  PROVE  AfterMerge(lines, Unset) = AfterShell(lines, Unset)
<1> DEFINE d == AfterMerge(lines, Unset)  e == AfterShell(lines, Unset)
<1>1. Len(lines) \in Nat /\ DOMAIN lines = 1 .. Len(lines) /\ IsLines(lines, Len(lines))
  BY FileIsLines DEF IsLines
<1>2. MergedTo(lines, Unset, Len(lines), d)
  BY <1>1, MergeMeans, UnsetIsEnv, LaunchAssumption DEF IsFile, IsValue
<1>3. IsEnv(e)
  BY ShellSets, UnsetIsEnv
<1>4. ASSUME NEW k \in Declared PROVE d[k] = e[k]
  <2> HIDE DEF d, e
  <2>1. /\ (\A i \in DOMAIN lines : lines[i].key # k) => e[k] = None
        /\ \A i \in DOMAIN lines :
              lines[i].key = k => ~lines[i].export /\ e[k] = Seen(lines[i].value)
                                  /\ ReadValue(lines[i].value) = lines[i].value
    BY PlainLines DEF e
  <2> QED
    BY <1>1, <1>2, <2>1, UnsetIsEnv DEF MergedTo, Gives
<1> QED
  BY <1>2, <1>3, <1>4, SameEnv DEF MergedTo

\* and so does a cluster, in whatever order the pairs of the Secret come.
LEMMA PlainSecret ==
  ASSUME NEW lines, IsFile(lines), IsPlain(lines)
  PROVE  AfterSecret(lines, Unset) = {AfterShell(lines, Unset)}
<1> DEFINE e == AfterShell(lines, Unset)  all == ToSet(Parse(lines))
<1>1. Len(lines) \in Nat /\ DOMAIN lines = 1 .. Len(lines) /\ IsLines(lines, Len(lines))
  BY FileIsLines DEF IsLines
<1>2. IsEnv(e)
  BY ShellSets, UnsetIsEnv
<1>3. /\ \A pair \in all : \E i \in DOMAIN lines :
            pair = <<lines[i].key, Normalised(lines[i].value)>>
      /\ \A i \in DOMAIN lines :
            lines[i].key # None => <<lines[i].key, Normalised(lines[i].value)>> \in all
  <2>1. ParsedTo(lines, Len(lines), Parse(lines))
    BY <1>1, ParseMeans
  <2> DEFINE pairs == Parse(lines)  m == Len(pairs)
  <2>2. DOMAIN pairs = 1 .. m
    BY <2>1 DEF ParsedTo
  <2> HIDE DEF pairs, m
  <2>3. PICK at \in [1 .. m -> 1 .. Len(lines)] :
          /\ \A p \in 1 .. m : pairs[p] = Pair(lines[at[p]])
          /\ \A i \in 1 .. Len(lines) : lines[i].key # None => \E p \in 1 .. m : at[p] = i
    BY <2>1 DEF ParsedTo, pairs, m
  <2>4. all = {pairs[p] : p \in 1 .. m}
    BY <2>2 DEF ToSet, pairs
  <2> HIDE DEF all
  <2>5. ASSUME NEW pair \in all
        PROVE  \E i \in DOMAIN lines : pair = Pair(lines[i])
    BY <1>1, <2>3, <2>4
  <2>6. ASSUME NEW i \in DOMAIN lines, lines[i].key # None PROVE Pair(lines[i]) \in all
    <3>1. PICK p \in 1 .. m : at[p] = i
      BY <1>1, <2>3, <2>6
    <3> QED
      BY <2>3, <2>4, <3>1
  <2> QED
    BY <2>5, <2>6 DEF Pair
<1> HIDE DEF e, all
<1>4. ASSUME NEW pairs \in SetToSeqs(all)
      PROVE  FoldLeft(Assign, Unset, pairs) = e
  <2> DEFINE d == FoldLeft(Assign, Unset, pairs)
  <2>1. PICK n \in Nat : DOMAIN pairs = 1 .. n /\ ToSet(pairs) = all
    BY <1>4, PairsListed DEF all
  <2>2. AssignedTo(pairs, Unset, n, d)
    BY <2>1, AssignMeans, UnsetIsEnv
  <2> HIDE DEF d
  <2>3. ASSUME NEW k \in Declared PROVE d[k] = e[k]
    <3>0. k # None
      BY LaunchAssumption
    <3>1. /\ (\A i \in DOMAIN lines : lines[i].key # k) => e[k] = None
          /\ \A i \in DOMAIN lines :
               lines[i].key = k => e[k] = Seen(lines[i].value)
                                   /\ Normalised(lines[i].value) = lines[i].value
      BY PlainLines DEF e
    <3>2. CASE \A h \in 1 .. n : pairs[h][1] # k
      <4>1. d[k] = None
        BY <2>2, <3>2, UnsetIsEnv DEF AssignedTo
      <4>2. ASSUME NEW i \in DOMAIN lines, lines[i].key = k PROVE FALSE
        <5>1. <<lines[i].key, Normalised(lines[i].value)>> \in ToSet(pairs)
          BY <1>3, <2>1, <3>0, <4>2
        <5>2. PICK h \in 1 .. n : pairs[h] = <<lines[i].key, Normalised(lines[i].value)>>
          BY <2>1, <5>1 DEF ToSet
        <5> QED
          BY <3>2, <4>2, <5>2
      <4> QED
        BY <3>1, <4>1, <4>2
    <3>3. CASE \E h \in 1 .. n : pairs[h][1] = k
      <4>1. PICK h \in 1 .. n : pairs[h][1] = k /\ d[k] = Seen(pairs[h][2])
        BY <2>2, <3>3 DEF AssignedTo
      <4>2. pairs[h] \in all
        BY <2>1 DEF ToSet
      <4>3. PICK i \in DOMAIN lines : pairs[h] = <<lines[i].key, Normalised(lines[i].value)>>
        BY <1>3, <4>2
      <4> QED
        BY <3>1, <4>1, <4>3
    <3> QED
      BY <3>2, <3>3
  <2> QED
    BY <1>2, <2>2, <2>3, SameEnv DEF AssignedTo, d
<1>5. SetToSeqs(all) # {}
  BY PairsListed DEF all
<1> QED
  BY <1>4, <1>5 DEF AfterSecret, all, e

\* A copy that was normalised means the same when it is folded back: the last line
\* of a key in the copy is the copy of the last in the file.
LEMMA FoldedBack ==
  ASSUME NEW lines, IsFile(lines), \A i \in DOMAIN lines : ~Nested(lines[i].value)
  PROVE  AfterShell(Folded(lines), Unset) = AfterShell(lines, Unset)
<1> DEFINE n == Len(lines)  pairs == Parse(lines)  m == Len(pairs)  copy == Folded(lines)
           d == AfterShell(copy, Unset)  e == AfterShell(lines, Unset)
<1>1. n \in Nat /\ DOMAIN lines = 1 .. n /\ IsLines(lines, n)
  BY FileIsLines DEF IsLines
<1>2. ParsedTo(lines, n, pairs)
  BY <1>1, ParseMeans
<1>3. m \in Nat /\ DOMAIN pairs = 1 .. m
  BY <1>2 DEF ParsedTo
<1> HIDE DEF pairs, m, n
<1>4. PICK at \in [1 .. m -> 1 .. n] :
        /\ \A p, q \in 1 .. m : p < q => at[p] < at[q]
        /\ \A p \in 1 .. m : lines[at[p]].key # None /\ pairs[p] = Pair(lines[at[p]])
        /\ \A i \in 1 .. n : lines[i].key # None => \E p \in 1 .. m : at[p] = i
  BY <1>2 DEF ParsedTo, m
<1>5. /\ DOMAIN copy = 1 .. m
      /\ \A p \in 1 .. m : /\ copy[p].key = lines[at[p]].key
                           /\ copy[p].value = Normalised(lines[at[p]].value)
  BY <1>3, <1>4 DEF Folded, Line, Pair, pairs
<1> HIDE DEF copy
<1>6. IsLines(copy, m)
  BY <1>1, <1>4, <1>5 DEF IsLines
<1>7. LaidTo(copy, Unset, m, d) /\ LaidTo(lines, Unset, n, e)
  BY <1>1, <1>3, <1>6, ShellMeans, UnsetIsEnv, LaunchAssumption
<1> HIDE DEF d, e
<1>8. ASSUME NEW k \in Declared PROVE d[k] = e[k]
  <2>0. k # None
    BY LaunchAssumption
  <2>1. CASE \A i \in 1 .. n : lines[i].key # k
    <3>1. \A p \in 1 .. m : copy[p].key # k
      BY <1>4, <1>5, <2>1
    <3> QED
      BY <1>7, <2>1, <3>1 DEF LaidTo
  <2>2. CASE \E i \in 1 .. n : lines[i].key = k
    <3>1. PICK i \in 1 .. n : /\ lines[i].key = k
                              /\ \A h \in i + 1 .. n : lines[h].key # k
                              /\ e[k] = Seen(Normalised(lines[i].value))
      BY <1>7, <2>2 DEF LaidTo
    <3>2. PICK q \in 1 .. m : at[q] = i
      BY <1>4, <2>0, <3>1
    <3>3. copy[q].key = k
      BY <1>5, <3>1, <3>2
    <3>4. PICK p \in 1 .. m : /\ copy[p].key = k
                              /\ \A h \in p + 1 .. m : copy[h].key # k
                              /\ d[k] = Seen(Normalised(copy[p].value))
      BY <1>7, <3>3 DEF LaidTo
    <3>5. ~(p < q)
      <4>1. p < q => q \in p + 1 .. m
        BY <1>3
      <4> QED
        BY <3>3, <3>4, <4>1
    <3>6. ~(q < p)
      <4>1. lines[at[p]].key = k /\ at[p] \in 1 .. n
        BY <1>4, <1>5, <3>4
      <4>2. q < p => at[p] \in i + 1 .. n
        BY <1>1, <1>4, <3>2, <4>1
      <4> QED
        BY <3>1, <4>1, <4>2
    <3>7. p = q
      BY <1>3, <3>5, <3>6
    <3>8. d[k] = Seen(Normalised(Normalised(lines[i].value)))
      BY <1>5, <3>2, <3>4, <3>7
    <3>9. Normalised(Normalised(lines[i].value)) = Normalised(lines[i].value)
      BY <1>1, NormalisedOnce DEF IsFile
    <3> QED
      BY <3>1, <3>8, <3>9
  <2> QED
    BY <2>1, <2>2
<1> QED
  BY <1>7, <1>8, SameEnv DEF LaidTo, d, e, copy

\* So the renderings agree on the files of every launch.
LEMMA RenderingsHold == launch \in Launches => RenderingsAgree
<1> SUFFICES ASSUME launch \in Launches PROVE RenderingsAgree
  OBVIOUS
<1>1. \A f \in {launch.file, launch.baked} \ {None, Junk} : IsFile(f)
  BY LaunchAssumption
<1> QED
  BY <1>1, PlainMerge, PlainSecret, FoldedBack DEF RenderingsAgree

\* A plain file means the same to a host, a container and a cluster, and so does a
\* file and its normalised copy (dotenv.py, sops-entrypoint.sh, env-encrypt).
THEOREM RenderingsMeanTheSame == LaunchSpec => []RenderingsAgree
<1>1. FilesInv => RenderingsAgree
  BY RenderingsHold DEF FilesInv
<1> QED
  BY InitFiles, FilesStep, <1>1, PTL DEF LaunchSpec
=============================================================================
