------------------------------- MODULE Launch -------------------------------
(***************************************************************************)
(* How the server comes by its environment: it is started by hand, by      *)
(* env-run on a host, by docker run of the image, whose entrypoint         *)
(* decrypts the ciphertext that is baked in, or by env-docker-run or in a  *)
(* cluster, where an env-file or the Secret of env-k8s-secret is laid over *)
(* the image's environment before that entrypoint runs. Module Startup     *)
(* takes over from there, and module Policy judges its first callers.      *)
(***************************************************************************)
EXTENDS Startup, Dotenv

CONSTANTS
  Launches,   \* the ways to start the server
  Junk        \* a ciphertext that cannot be decrypted

\* A value as it is written in a file: only what is quoted has quotes within, and
\* whatever a process sees of it is there.
IsValue(v) ==
  /\ v = Value(v.text, v.quotes, v.inner, v.special, v.padded)
  /\ v.special \in {None, "newline", "wide"}
  /\ v.padded \in BOOLEAN
  /\ v.quotes = None => v.inner = None
  /\ None \notin {Seen(ReadValue(v)), Seen(Normalised(v))}

IsFile(lines) ==
  /\ lines \in Seq(ToSet(lines))
  /\ \A i \in DOMAIN lines :
       lines[i].key \in Declared \cup {None} /\ IsValue(lines[i].value)

\* The lines a file gives a key on, and what is between the quotes of a value.
LinesOf(lines, k) == {i \in DOMAIN lines : lines[i].key = k}
Bared(v) == Seen([v EXCEPT !.quotes = None])

\* The files are dotenv files of declared keys and the environments have a value,
\* or none, for each of them.
ASSUME LaunchAssumption ==
  /\ None \notin Declared \cup {"double", "wide", "newline"}
  /\ \A e \in Environments : e = [k \in Declared |-> e[k]]
  /\ \A w \in Launches : \A f \in {w.file, w.baked} \ {None, Junk} : IsFile(f)

\* A secret on one line is a text, and of visible ASCII but for its characters
\* outside ASCII; a host name with one port is not the one with another.
ASSUME TextAssumption ==
  /\ \A w \in Launches : \A f \in {w.file, w.baked} \ {None, Junk} :
       \A i \in LinesOf(f, "SERVER_AUTH_SECRET") :
         LET v == f[i].value
         IN  v.special # "newline" =>
               /\ None \notin {SecretOf(Bared(v)), SecretOf(Seen(Normalised(v)))}
               /\ SecretOf(Bared(v)).visible <=> v.special # "wide"
  /\ None \notin 1 .. MaxPort
  /\ \A p, q \in {None} \cup 1 .. MaxPort :
       /\ LocalHost(p) # None /\ LocalHost(p).visible
       /\ LocalHost(p).name = LocalHost(q).name => p = q

VARIABLES
  launch,   \* the way chosen, a record of launch choices
  given,    \* the environment before anything is added to it
  stage     \* "recipe", "entrypoint", "running" or "refused"

launchVars == <<launch, given, stage>>

\* path is "hand", "env-run", "image", "env-docker-run" or "cluster"; file is the
\* environment of the recipe and baked the one of the image, each None, Junk or
\* lines; key, required and sops are what the entrypoint looks for.
Way(path, file, baked, key, required, sops) ==
  [path |-> path, file |-> file, baked |-> baked, key |-> key,
   required |-> required, sops |-> sops]

LaunchInit ==
  /\ Init
  /\ launch \in Launches
  /\ given = ambient
  /\ stage = CASE launch.path = "hand"  -> "running"
               [] launch.path = "image" -> "entrypoint"
               [] OTHER                 -> "recipe"

Go(s, e) ==
  /\ stage' = s
  /\ ambient' = e
  /\ UNCHANGED <<argv, place, phase, contract, flags, env, port, cfg, launch, given>>

-----------------------------------------------------------------------------
(* The recipes. sops may fail on any file, for want of a key.              *)

\* Nothing stops env-run once its file is there.
LaunchEnvRun ==
  /\ stage = "recipe"
  /\ launch.path = "env-run"
  /\ \/ launch.file = None /\ Go("refused", ambient)
     \/ launch.file # None /\ Go("running", ambient)
     \/ launch.file \notin {None, Junk} /\ Go("running", AfterShell(launch.file, ambient))

\* The assignment stops the recipe when sops or dotenv.py fails.
LaunchDockerRun ==
  /\ stage = "recipe"
  /\ launch.path = "env-docker-run"
  /\ \/ Go("refused", ambient)
     \/ /\ launch.file \notin {None, Junk}
        /\ FitsEnvFile(launch.file)
        /\ Go("entrypoint", AfterShell(launch.file, ambient))

\* dotenv.py renders a Secret of whatever comes through the pipe, nothing
\* included; without a Secret no container is started.
LaunchCluster ==
  /\ stage = "recipe"
  /\ launch.path = "cluster"
  /\ \/ Go("refused", ambient)
     \/ launch.file # None /\ Go("entrypoint", ambient)
     \/ /\ launch.file \notin {None, Junk}
        /\ \E e \in AfterSecret(launch.file, ambient) : Go("entrypoint", e)

-----------------------------------------------------------------------------
(* The entrypoint, in the order of its tests.                              *)

NothingBaked ==
  /\ stage = "entrypoint"
  /\ launch.baked = None
  /\ Go("running", ambient)

NoKey ==
  /\ stage = "entrypoint"
  /\ launch.baked # None
  /\ ~launch.key
  /\ Go(IF launch.required THEN "refused" ELSE "running", ambient)

\* Mutant: what sops prints is used whether or not it fails.
DecryptAnyhow ==
  /\ stage = "entrypoint"
  /\ launch.baked # None
  /\ launch.key
  /\ \/ Go(IF launch.sops THEN "running" ELSE "refused", ambient)
     \/ /\ launch.sops
        /\ launch.baked # Junk
        /\ Go("running", AfterMerge(launch.baked, ambient))

\* Without sops, or when it fails, the server is not started.
Decrypt ==
  /\ stage = "entrypoint"
  /\ launch.baked # None
  /\ launch.key
  /\ \/ Go("refused", ambient)
     \/ /\ launch.sops
        /\ launch.baked # Junk
        /\ Go("running", AfterMerge(launch.baked, ambient))

-----------------------------------------------------------------------------

LaunchNext ==
  \/ LaunchEnvRun \/ LaunchDockerRun \/ LaunchCluster
  \/ NothingBaked \/ NoKey \/ Decrypt
  \/ stage = "running" /\ Next /\ UNCHANGED launchVars

LaunchSpec == LaunchInit /\ [][LaunchNext]_<<vars, launchVars>>

-----------------------------------------------------------------------------

\* sops-entrypoint.sh:44-45, "Variables already set in the container environment
\* win", the empty ones too, over what is baked into the image.
ContainerWins ==
  (launch.path = "image" /\ stage = "running") =>
    \A k \in Declared : given[k] # None => ambient[k] = given[k]

SetsAll(lines) ==
  \A i \in DOMAIN lines :
    (lines[i].key # None /\ ~lines[i].export) => ambient[lines[i].key] # None

\* A container that was given a key runs with every variable of its ciphertext or
\* not at all (the entrypoint stops where sops is missing or fails), and one that
\* env-docker-run starts with every variable of the recipe's file.
DecryptedOrRefused ==
  stage = "running" =>
    /\ (launch.path \in {"image", "env-docker-run", "cluster"}
          /\ launch.key /\ launch.baked # None)
         => launch.baked # Junk /\ SetsAll(launch.baked)
    /\ launch.path = "env-docker-run"
         => launch.file \notin {None, Junk} /\ SetsAll(launch.file)

\* A value with nothing around it, and one that is quoted twice.
IsBare(v) == v.quotes = None /\ ~v.padded
Nested(v) == v.quotes # None /\ v.inner # None

IsPlain(lines) ==
  /\ \A i \in DOMAIN lines :
       lines[i].key # None => ~lines[i].export /\ IsBare(lines[i].value)
  /\ \A i, j \in DOMAIN lines : lines[i].key = lines[j].key => i = j \/ lines[i].key = None

Unset == [k \in Declared |-> None]

\* A file of plain values, each given once, means the same to a host, a container
\* and a cluster, although the entrypoint has a parser of its own; and a copy that
\* env-docker-env-file has normalised means the same again when env-encrypt folds
\* it back, unless a value is quoted twice.
RenderingsAgree ==
  \A f \in {launch.file, launch.baked} \ {None, Junk} :
    /\ IsPlain(f) => /\ AfterMerge(f, Unset) = AfterShell(f, Unset)
                     /\ AfterSecret(f, Unset) = {AfterShell(f, Unset)}
    /\ (FitsEnvFile(f) /\ \A i \in DOMAIN f : ~Nested(f[i].value))
         => AfterShell(Folded(f), Unset) = AfterShell(f, Unset)

\* A caller that presents the secret in v.
Caller(v, p) == [secret |-> SecretOf(Bared(v)), host |-> LocalHost(p), origin |-> None]

\* What both parsers read as it is meant: the recipe's strips quotes as well.
IsRead(line, byRecipe) ==
  /\ line.value.special # "newline" /\ line.value.inner = None
  /\ IF byRecipe THEN ~line.value.padded ELSE ~line.export /\ IsBare(line.value)

\* From the ciphertext to the gate: whoever knows the secret of the file a
\* container was started with is let in, on a host name of the default list
\* (config.rs:11), unless a character of it is outside ASCII: such a secret
\* passes every check at startup and then admits nobody (auth.rs:60), and one that
\* is blank leaves the endpoint closed. The list names one port, so a client that
\* gives the server's port with the name is answered 421 if that is another one.
CiphertextHolderAdmitted ==
  LET recipe == launch.path = "env-docker-run"
      lines  == IF recipe THEN launch.file ELSE launch.baked
  IN ( /\ phase = "configured" /\ ~Said(env, "MCP_ALLOWED_HOSTS")
       /\ recipe \/ (launch.path = "image" /\ launch.key /\ lines # None
                      /\ given["SERVER_AUTH_SECRET"] = None) )
     => \A i \in LinesOf(lines, "SERVER_AUTH_SECRET") :
          (LinesOf(lines, "SERVER_AUTH_SECRET") = {i} /\ IsRead(lines[i], recipe)) =>
            LET v      == lines[i].value
                answer == CASE v.special = "wide" -> 401
                            [] Bared(v) = Blank   -> 503
                            [] OTHER              -> Pass
            IN /\ RequireServerAuth(cfg.app, Caller(v, None)) = answer
               /\ RequireServerAuth(cfg.app, Caller(v, cfg.port))
                    = IF cfg.port = DefaultPort \/ answer = 503 THEN answer ELSE 421

\* sops-entrypoint.sh:43-44, "Splitting on the first `=` only keeps URLs, base64
\* and JWTs intact": a value without quotes reaches the server as it is written,
\* if the container has none of its own and the file has no other.
ValuesStayIntact ==
  (launch.path = "image" /\ stage = "running" /\ launch.key
     /\ launch.baked \notin {None, Junk})
    => \A i \in DOMAIN launch.baked :
         LET l == launch.baked[i]
         IN ( /\ l.key # None /\ ~l.export /\ l.value.quotes = None
              /\ given[l.key] = None
              /\ \A j \in DOMAIN launch.baked :
                   launch.baked[j].key = l.key => j = i )
            => ambient[l.key] = Seen(l.value)
=============================================================================
