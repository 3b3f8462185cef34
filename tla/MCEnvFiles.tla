----------------------------- MODULE MCEnvFiles -----------------------------
(***************************************************************************)
(* Small instances of the environment recipes.                             *)
(***************************************************************************)
EXTENDS EnvFiles, TLC

MCSymmetry ==
  Permutations(Terminals) \cup Permutations(Edits) \cup Permutations(Names)

AllRecipes ==
  {"env-decrypt", "env-use", "env-unuse", "env-docker-env-file", "env-encrypt",
   "env-edit", "env-new", "env-clean", "env-run", "env-docker-run",
   "env-k8s-secret"}

\* Where two terminals are open they work on one environment, and what a recipe
\* hands on is not looked at: they race over its files alone.
Untouched(n) ==
  /\ enc[n] = None /\ dec[n] = None
  /\ \A t \in Terminals : job[t].name # n /\ n \notin job[t].todo

MCBound ==
  OneTerminal \/ (started = {} /\ \E n \in Names : \A m \in Names \ {n} : Untouched(m))
=============================================================================
