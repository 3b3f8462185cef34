------------------------------- MODULE Dotenv -------------------------------
(***************************************************************************)
(* What a decrypted environment means to those who load it: the parser     *)
(* .just/dotenv.py with its renderings for a shell and for docker, and the *)
(* loop of scripts/sops-entrypoint.sh, which has a parser of its own.      *)
(*                                                                         *)
(* A file is a sequence of lines. A line has a key, None in a comment, an  *)
(* empty line, a row of sops' own and whatever else is no assignment; it   *)
(* may begin with "export ". A value has a text, the quotes around it and  *)
(* those within them, something special in it that is read in another way  *)
(* between double quotes ("newline", written as an escape, or "wide", a    *)
(* character outside ASCII), and padding: its only = is its last           *)
(* character, as in the base64 of 32 bytes.                                *)
(***************************************************************************)
EXTENDS SequencesExt, Http

Value(text, quotes, inner, special, padded) ==
  [text |-> text, quotes |-> quotes, inner |-> inner, special |-> special,
   changed |-> FALSE, padded |-> padded]

Line(key, export, value) == [key |-> key, export |-> export, value |-> value]

\* An environment is a function from keys; its texts are what a process sees.
\* A value is seen as its text once nothing else is around it.
Seen(v) ==
  IF v.quotes = None /\ v.special = None /\ ~v.padded
  THEN v.text
  ELSE [kind |-> "raw", value |-> v]

-----------------------------------------------------------------------------
(* dotenv.py.                                                              *)

\* One pair of quotes is stripped. Between double quotes an escape is expanded,
\* and a character outside ASCII is read byte by byte and becomes several.
Normalised(v) ==
  [v EXCEPT !.quotes = v.inner,
            !.inner = None,
            !.changed = @ \/ (v.quotes = "double" /\ v.special # None)]

Parsed(pairs, line) ==
  IF line.key = None THEN pairs ELSE Append(pairs, <<line.key, Normalised(line.value)>>)

Parse(lines) == FoldLeft(Parsed, <<>>, lines)

Assign(env, pair) == [env EXCEPT ![pair[1]] = Seen(pair[2])]

\* Mode "shell", evaluated: each export takes effect in turn.
AfterShell(lines, env) == FoldLeft(Assign, env, Parse(lines))

\* Mode "envfile" refuses a value with a new line in it, which docker would cut.
FitsEnvFile(lines) ==
  \A i \in DOMAIN Parse(lines) :
    LET v == Parse(lines)[i][2] IN ~(v.changed /\ v.special = "newline")

\* The copy env-docker-env-file leaves, as env-encrypt folds it back.
Folded(lines) ==
  [i \in DOMAIN Parse(lines) |-> Line(Parse(lines)[i][1], FALSE, Parse(lines)[i][2])]

\* Mode "k8s": a Secret of the sorted pairs, whose data envFrom lays over what
\* the image sets. Of several values of a key the cluster takes one.
AfterSecret(lines, env) ==
  {FoldLeft(Assign, env, pairs) : pairs \in SetToSeqs(ToSet(Parse(lines)))}

-----------------------------------------------------------------------------
(* sops-entrypoint.sh.                                                     *)

\* IFS== read -r key value: of several fields the last one takes the rest of
\* the line, but a delimiter that ends the line after one field is dropped.
ReadValue(v) == IF v.quotes = None THEN [v EXCEPT !.padded = FALSE] ELSE v

\* Mutant: a variable that is set but empty is taken for one that is not set.
MergeOverBlank(env, line) ==
  IF line.key = None \/ line.export \/ env[line.key] \notin {None, [kind |-> "blank"]}
  THEN env
  ELSE [env EXCEPT ![line.key] = Seen(ReadValue(line.value))]

\* A key with a space in it, as after "export ", is skipped, and so is one that
\* is set, be it to the empty string.
Merge(env, line) ==
  IF line.key = None \/ line.export \/ env[line.key] # None
  THEN env
  ELSE [env EXCEPT ![line.key] = Seen(ReadValue(line.value))]

\* Mutant: the secrets are piped to the loop without a new line at their end.
AfterMergeCut(lines, env) == FoldLeft(Merge, env, IF lines = <<>> THEN lines ELSE Front(lines))

AfterMerge(lines, env) == FoldLeft(Merge, env, lines)
=============================================================================
