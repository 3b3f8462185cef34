------------------------------ MODULE EnvFiles ------------------------------
(***************************************************************************)
(* The recipes of .just/env.just and the justfile that move an environment *)
(* between its committed ciphertext (env/enc), its decrypted copy          *)
(* (env/dec), the .env link, a child process, a container and a cluster.   *)
(*                                                                         *)
(* One terminal or several run recipes, each a sequence of shell commands  *)
(* that may fail or be interrupted between any two; nothing locks the      *)
(* files. A terminal is open or closed for good.                           *)
(* A file is None, a text, or Junk: something that is no environment, as   *)
(* an empty or a zeroed file. A text is known by the edits it includes.    *)
(***************************************************************************)
EXTENDS Integers, FiniteSets, Http

CONSTANTS
  Names,           \* the environments
  Terminals,       \* bound: the terminals a user may have open
  Recipes,         \* the recipes in use
  Edits,           \* bound: the edits ever made
  MaxInterrupts,   \* bound: recipes interrupted in a behaviour
  Junk

\* What a file may be, and what .env may be, can be told apart.
ASSUME EnvFilesAssumption ==
  /\ \A edits \in SUBSET Edits : [edits |-> edits] \notin {None, Junk}
  /\ None # Junk
  /\ "foreign" \notin Names \cup {None}
  /\ MaxInterrupts \in Nat

VARIABLES
  enc,         \* env/enc/<name>.env.enc
  dec,         \* env/dec/<name>.env
  link,        \* .env: None, a name, or "foreign"
  litter,      \* whether a temporary file of env/dec is left with plaintext in it
  started,     \* what recipes have started or rendered, and whether it had the
               \* variables of its environment
  made,        \* the edits made so far, here or by a teammate
  job,         \* what each terminal runs
  interrupts

vars == <<enc, dec, link, litter, started, made, job, interrupts>>

Text(edits) == [edits |-> edits]
IsText(f) == f \notin {None, Junk}

\* A job is at a command of its recipe, on one name, with others to do, and
\* holds the text of its temporary file or of its editor.
Job(recipe, at, name, todo, held) ==
  [recipe |-> recipe, at |-> at, name |-> name, todo |-> todo, held |-> held]
Idle == Job(None, "idle", None, {}, None)
Closed == Job(None, "closed", None, {}, None)

Step(t, j) == job' = [job EXCEPT ![t] = j]
End(t) == Step(t, Idle)
GoOn(t) == Step(t, [job[t] EXCEPT !.at = "next", !.held = None])
At(t, recipes, at) == job[t].recipe \in recipes /\ job[t].at = at

Init ==
  /\ enc = [n \in Names |-> None]
  /\ dec = [n \in Names |-> None]
  /\ link = None
  /\ litter = FALSE
  /\ started = {}
  /\ made = {}
  /\ job \in [Terminals -> {Idle, Closed}]
  /\ interrupts = 0

\* What sops prints of an environment; Junk when it fails, for want of a key or
\* because the file is no ciphertext.
Decrypted(n) == {Junk} \cup ({enc[n]} \ {None})

-----------------------------------------------------------------------------
(* A recipe begins; a recipe over several names ends after the last. That  *)
(* _env-dec may refuse it first, for a symlink or the want of ores-sops,   *)
(* changes none of the files here.                                         *)

OnSeveral == {"env-decrypt", "env-encrypt"}
Decrypting == {"env-decrypt", "env-use", "env-docker-env-file"}

Begin(t) ==
  /\ job[t] = Idle
  /\ \E r \in Recipes, s \in SUBSET Names :
       /\ CASE r \in OnSeveral    -> s # {}
            [] r = "env-clean"    -> s = {n \in Names : dec[n] # None}
            [] r = "env-unuse"    -> s = {}
            [] OTHER              -> Cardinality(s) = 1
       /\ Step(t, Job(r, IF r = "env-unuse" THEN "link" ELSE "next", None, s, None))
  /\ UNCHANGED <<enc, dec, link, litter, started, made, interrupts>>

Finish(t) ==
  /\ job[t].at = "next"
  /\ job[t].todo = {}
  /\ IF job[t].recipe = "env-use" THEN Step(t, [job[t] EXCEPT !.at = "link"]) ELSE End(t)
  /\ UNCHANGED <<enc, dec, link, litter, started, made, interrupts>>

\* A recipe takes up the next name: n is the file it is about, and at the
\* command it goes on with.
Take(t, recipes, n) == At(t, recipes, "next") /\ n \in job[t].todo
On(t, n, at, held) ==
  Step(t, [job[t] EXCEPT !.at = at, !.name = n, !.todo = @ \ {n}, !.held = held])

-----------------------------------------------------------------------------
(* env-decrypt, env-docker-env-file, and env-use, which begins with the    *)
(* former.                                                                 *)

MakeTemp(t) ==
  /\ \E n \in Names :
       /\ Take(t, Decrypting, n)
       /\ IF enc[n] = None THEN End(t) ELSE On(t, n, "sops", Junk)
  /\ UNCHANGED <<enc, dec, link, litter, started, made, interrupts>>

\* Mutant: sops writes to the copy itself.
SopsDecryptInPlace(t) ==
  /\ At(t, Decrypting, "sops")
  /\ \E p \in Decrypted(job[t].name) :
       /\ dec' = [dec EXCEPT ![job[t].name] = p]
       /\ IF p = Junk THEN End(t) ELSE GoOn(t)
  /\ UNCHANGED <<enc, link, litter, started, made, interrupts>>

\* Mutant: a failure of sops goes unnoticed.
SopsDecryptUnnoticed(t) ==
  /\ At(t, Decrypting, "sops")
  /\ \E p \in Decrypted(job[t].name) : Step(t, [job[t] EXCEPT !.at = "move", !.held = p])
  /\ UNCHANGED <<enc, dec, link, litter, started, made, interrupts>>

\* set -e leaves the temporary file behind, empty, when sops fails.
SopsDecrypt(t) ==
  /\ At(t, Decrypting, "sops")
  /\ \E p \in Decrypted(job[t].name) :
       IF p = Junk
       THEN End(t)
       ELSE Step(t, [job[t] EXCEPT !.at = "move", !.held = p])
  /\ UNCHANGED <<enc, dec, link, litter, started, made, interrupts>>

\* Mutant: the temporary file is copied, not moved.
MoveTempCopies(t) ==
  /\ At(t, Decrypting, "move")
  /\ dec' = [dec EXCEPT ![job[t].name] = job[t].held]
  /\ litter' = TRUE
  /\ GoOn(t)
  /\ UNCHANGED <<enc, link, started, made, interrupts>>

MoveTemp(t) ==
  /\ At(t, Decrypting, "move")
  /\ dec' = [dec EXCEPT ![job[t].name] = job[t].held]
  /\ GoOn(t)
  /\ UNCHANGED <<enc, link, litter, started, made, interrupts>>

-----------------------------------------------------------------------------
(* The .env link.                                                          *)

Managed == link \in Names

\* Mutant: whatever .env is, it is replaced.
CheckLinkNot(t) ==
  /\ At(t, {"env-use", "env-unuse"}, "link")
  /\ Step(t, [job[t] EXCEPT !.at = "unlink"])
  /\ UNCHANGED <<enc, dec, link, litter, started, made, interrupts>>

CheckLink(t) ==
  /\ At(t, {"env-use", "env-unuse"}, "link")
  /\ LET use == job[t].recipe = "env-use"
     IN IF (use => dec[job[t].name] # None) /\ (Managed \/ (use /\ link = None))
        THEN Step(t, [job[t] EXCEPT !.at = IF Managed THEN "unlink" ELSE "ln"])
        ELSE End(t)
  /\ UNCHANGED <<enc, dec, link, litter, started, made, interrupts>>

\* rm -f removes what .env is by now.
RemoveLink(t) ==
  /\ At(t, {"env-use", "env-unuse"}, "unlink")
  /\ link' = None
  /\ IF job[t].recipe = "env-use" THEN Step(t, [job[t] EXCEPT !.at = "ln"]) ELSE End(t)
  /\ UNCHANGED <<enc, dec, litter, started, made, interrupts>>

MakeLink(t) ==
  /\ At(t, {"env-use"}, "ln")
  /\ link' = IF link = None THEN job[t].name ELSE link
  /\ End(t)
  /\ UNCHANGED <<enc, dec, litter, started, made, interrupts>>

-----------------------------------------------------------------------------
(* env-encrypt, env-edit and env-new.                                      *)

\* Mutant: the editor opens the decrypted copy where there is one.
OpenedCopy(n) == IF IsText(dec[n]) THEN {dec[n]} ELSE Decrypted(n)

\* sops edit opens the ciphertext, or an empty one where there is none.
Opened(n) == IF enc[n] = None THEN {Junk, Text({})} ELSE Decrypted(n)

OpenEdit(t) ==
  /\ \E n \in Names :
       /\ \/ Take(t, {"env-edit"}, n)
          \/ Take(t, {"env-encrypt"}, n) /\ dec[n] # None /\ enc[n] # None
       /\ \E p \in Opened(n) : IF p = Junk THEN End(t) ELSE On(t, n, "edit", p)
  /\ UNCHANGED <<enc, dec, link, litter, started, made, interrupts>>

\* The editor is the user: it adds an edit, or leaves the text alone.
SaveEdit(t) ==
  /\ At(t, {"env-edit"}, "edit")
  /\ \/ \E e \in Edits \ made :
          /\ enc' = [enc EXCEPT ![job[t].name] =
                       Text(job[t].held.edits \cup {e})]
          /\ made' = made \cup {e}
     \/ UNCHANGED <<enc, made>>
  /\ GoOn(t)
  /\ UNCHANGED <<dec, link, litter, started, interrupts>>

\* The editor is cp: what is saved is the copy as it is now, whatever sops had
\* opened. A copy that is gone or zeroed makes the editor or sops fail.
CopyIn(t) ==
  /\ At(t, {"env-encrypt"}, "edit")
  /\ LET copy == dec[job[t].name]
     IN IF ~IsText(copy) THEN End(t) /\ UNCHANGED enc
        ELSE /\ GoOn(t)
             /\ enc' = [enc EXCEPT ![job[t].name] =
                          IF copy = job[t].held THEN @ ELSE copy]
  /\ UNCHANGED <<dec, link, litter, started, made, interrupts>>

\* Mutant: env-encrypt writes every ciphertext anew.
CheckFreshAlways(t) ==
  /\ \E n \in Names :
       \/ /\ Take(t, {"env-new"}, n)
          /\ IF enc[n] # None THEN End(t) ELSE On(t, n, "truncate", None)
       \/ /\ Take(t, {"env-encrypt"}, n)
          /\ IF dec[n] = None THEN End(t) ELSE On(t, n, "truncate", None)
  /\ UNCHANGED <<enc, dec, link, litter, started, made, interrupts>>

\* There must be no ciphertext yet; there must be a copy for env-encrypt.
CheckFresh(t) ==
  /\ \E n \in Names :
       \/ /\ Take(t, {"env-new"}, n)
          /\ IF enc[n] # None THEN End(t) ELSE On(t, n, "truncate", None)
       \/ /\ Take(t, {"env-encrypt"}, n)
          /\ \/ dec[n] = None /\ End(t)
             \/ dec[n] # None /\ enc[n] = None /\ On(t, n, "truncate", None)
  /\ UNCHANGED <<enc, dec, link, litter, started, made, interrupts>>

\* The shell opens the ciphertext for writing before sops runs.
Truncate(t) ==
  /\ At(t, {"env-new", "env-encrypt"}, "truncate")
  /\ enc' = [enc EXCEPT ![job[t].name] = Junk]
  /\ Step(t, [job[t] EXCEPT !.at = "seal"])
  /\ UNCHANGED <<dec, link, litter, started, made, interrupts>>

Seal(t) ==
  /\ At(t, {"env-new", "env-encrypt"}, "seal")
  /\ LET text == IF job[t].recipe = "env-new" THEN Text({}) ELSE dec[job[t].name]
     IN \/ IsText(text) /\ enc' = [enc EXCEPT ![job[t].name] = text] /\ GoOn(t)
        \/ End(t) /\ UNCHANGED enc
  /\ UNCHANGED <<dec, link, litter, started, made, interrupts>>

-----------------------------------------------------------------------------
(* env-clean.                                                              *)

\* The glob is *.env: the temporary files, .<name>.XXXXXX, are not in it.
Wipe(t) ==
  /\ \E n \in Names :
       /\ Take(t, {"env-clean"}, n)
       /\ dec' = [dec EXCEPT ![n] = Junk]
       /\ On(t, n, "rm", None)
  /\ UNCHANGED <<enc, link, litter, started, made, interrupts>>

RemoveCopy(t) ==
  /\ At(t, {"env-clean"}, "rm")
  /\ dec' = [dec EXCEPT ![job[t].name] = None]
  /\ GoOn(t)
  /\ UNCHANGED <<enc, link, litter, started, made, interrupts>>

-----------------------------------------------------------------------------
(* Recipes that hand an environment on without writing it to disk.         *)

Start(recipe, whole) == started' = started \cup {[recipe |-> recipe, whole |-> whole]}

\* eval "$(...)" succeeds whatever happens inside: the command runs anyway.
EnvRun(t) ==
  /\ \E n \in Names :
       /\ Take(t, {"env-run"}, n)
       /\ \/ enc[n] = None /\ UNCHANGED started
          \/ enc[n] # None /\ \E p \in Decrypted(n) : Start("env-run", IsText(p))
  /\ End(t)
  /\ UNCHANGED <<enc, dec, link, litter, made, interrupts>>

\* The assignment stops the recipe when sops or dotenv.py fails.
EnvDockerRun(t) ==
  /\ \E n \in Names :
       /\ Take(t, {"env-docker-run"}, n)
       /\ \/ UNCHANGED started
          \/ enc[n] # None /\ \E p \in Decrypted(n) : IsText(p) /\ Start("env-docker-run", TRUE)
  /\ End(t)
  /\ UNCHANGED <<enc, dec, link, litter, made, interrupts>>

\* dotenv.py renders a Secret of whatever comes through the pipe, nothing
\* included; kubectl at the end of the next pipe applies it, as its comment says.
EnvK8sSecret(t) ==
  /\ \E n \in Names :
       /\ Take(t, {"env-k8s-secret"}, n)
       /\ \/ enc[n] = None /\ UNCHANGED started
          \/ enc[n] # None /\ \E p \in Decrypted(n) : Start("env-k8s-secret", IsText(p))
  /\ End(t)
  /\ UNCHANGED <<enc, dec, link, litter, made, interrupts>>

-----------------------------------------------------------------------------
(* What a user does between recipes, and to them.                          *)

EditCopy(t) ==
  /\ job[t] = Idle
  /\ \E n \in Names, e \in Edits \ made :
       /\ IsText(dec[n])
       /\ dec' = [dec EXCEPT ![n] = Text(@.edits \cup {e})]
       /\ made' = made \cup {e}
  /\ UNCHANGED <<enc, link, litter, started, job, interrupts>>

\* git pull: a teammate's edit arrives.
Pull(t) ==
  /\ job[t] = Idle
  /\ \E n \in Names, e \in Edits \ made :
       /\ enc[n] # Junk
       /\ enc' = [enc EXCEPT ![n] = IF @ = None THEN Text({e})
                                    ELSE Text(@.edits \cup {e})]
       /\ made' = made \cup {e}
  /\ UNCHANGED <<dec, link, litter, started, job, interrupts>>

\* The user puts a .env of their own in place.
OwnEnv(t) ==
  /\ job[t] = Idle
  /\ link' = "foreign"
  /\ UNCHANGED <<enc, dec, litter, started, made, job, interrupts>>

Interrupt(t) ==
  /\ job[t] \notin {Idle, Closed}
  /\ interrupts < MaxInterrupts
  /\ interrupts' = interrupts + 1
  /\ litter' = (litter \/ job[t].at = "move")
  /\ End(t)
  /\ UNCHANGED <<enc, dec, link, started, made>>

Next ==
  \E t \in Terminals :
    \/ Begin(t) \/ Finish(t)
    \/ MakeTemp(t) \/ SopsDecrypt(t) \/ MoveTemp(t)
    \/ CheckLink(t) \/ RemoveLink(t) \/ MakeLink(t)
    \/ OpenEdit(t) \/ SaveEdit(t) \/ CopyIn(t)
    \/ CheckFresh(t) \/ Truncate(t) \/ Seal(t)
    \/ Wipe(t) \/ RemoveCopy(t)
    \/ EnvRun(t) \/ EnvDockerRun(t) \/ EnvK8sSecret(t)
    \/ EditCopy(t) \/ Pull(t) \/ OwnEnv(t) \/ Interrupt(t)

Spec == Init /\ [][Next]_vars

-----------------------------------------------------------------------------
(* What the recipes promise.                                               *)

Texts == [edits : SUBSET Edits]

\* Every file is absent, junk or a text, and every job at a command of its
\* recipe with the file that command needs (env.just, justfile).
TypeOK ==
  /\ enc \in [Names -> Texts \cup {None, Junk}]
  /\ dec \in [Names -> Texts \cup {None, Junk}]
  /\ link \in Names \cup {None, "foreign"}
  /\ litter \in BOOLEAN
  /\ made \subseteq Edits
  /\ interrupts \in 0 .. MaxInterrupts
  /\ \A t \in Terminals :
       /\ job[t].todo \subseteq Names
       /\ job[t].at \in {"sops", "move", "edit", "truncate", "seal", "rm"}
            => job[t].name \in Names
       /\ job[t].at \in {"move", "edit"} => job[t].held \in Texts

\* A decrypted copy is replaced whole or not at all, whatever fails, is
\* interrupted or runs beside it: only env-clean makes junk of one (env-decrypt
\* and env-docker-env-file write through a temporary file).
CopiesAreWhole ==
  [][\A n \in Names :
       dec'[n] = Junk => \/ dec[n] = Junk
                         \/ \E t \in Terminals : job[t].recipe = "env-clean"]_vars

\* At most one terminal is open.
OneTerminal ==
  \A t, u \in Terminals : t = u \/ job[t] = Closed \/ job[u] = Closed

\* With one terminal, a ciphertext that can be decrypted is never replaced by
\* one that cannot (env-new, env-encrypt and their redirections).
CiphertextSurvives ==
  [][OneTerminal => \A n \in Names : IsText(enc[n]) => IsText(enc'[n])]_vars

\* justfile:18-19, "an unmanaged .env file or foreign symlink is never
\* clobbered". It holds with one terminal, whose user is busy while it runs: .env
\* is tested and then removed (justfile:28-29).
OwnEnvKept == [][(OneTerminal /\ link = "foreign") => link' = "foreign"]_vars

Lost(n) == IsText(enc[n]) /\ IsText(enc'[n]) /\ ~(enc[n].edits \subseteq enc'[n].edits)

\* env/README.md:59-60, "`env-edit` re-encrypts only the values you actually
\* changed": with one terminal, no edit is lost from a ciphertext by anything but
\* the folding back of a copy (env-edit, env-new).
EditsSurviveEditing ==
  [][OneTerminal =>
       \A n \in Names :
         Lost(n) => \E t \in Terminals : job[t].recipe = "env-encrypt"]_vars

PlaintextOnDisk == litter \/ \E n \in Names : IsText(dec[n])

\* env.just:318, "Wipe decrypted plaintext from env/dec": with one terminal none
\* is left when env-clean ends, whatever failed before it. It does not hold once a
\* decryption has been interrupted: the glob of env-clean does not match a
\* temporary file.
CleanLeavesNothing ==
  [][OneTerminal =>
       \A t \in Terminals :
         (interrupts = 0 /\ At(t, {"env-clean"}, "next") /\ job[t].todo = {})
           => (job'[t] = Idle => ~PlaintextOnDisk')]_vars

-----------------------------------------------------------------------------
(* What the comments say and the recipes do not do.                        *)

\* env.just:139, "Run a command with <name>'s variables exported.", and
\* env.just:392, "Render a Kubernetes Secret from <name>.": what a recipe hands
\* on is the environment or nothing.
HandedOnWhole == \A s \in started : s.whole
=============================================================================
