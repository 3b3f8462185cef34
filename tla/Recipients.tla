----------------------------- MODULE Recipients -----------------------------
(***************************************************************************)
(* Who can open the encrypted environments: the age keys of the machines   *)
(* (env-keygen, env-whoami), the rules of .sops.yaml, the recipients of    *)
(* each ciphertext, env-rekey that brings the latter in line with the      *)
(* rules file by file, and env-check that audits them (.just/env.just).    *)
(*                                                                         *)
(* The repository passes from hand to hand: one recipe runs at a time, and *)
(* may be interrupted. What sops writes is the concern of module EnvFiles. *)
(***************************************************************************)
EXTENDS FiniteSets, Naturals, Http

CONSTANTS
  Names,       \* the environments
  Machines,    \* the machines with a working copy, the offline store included
  Keys         \* bound: the age keys ever made

ASSUME RecipientsAssumption ==
  IsFiniteSet(Keys) /\ None \notin Keys /\ \A s \in SUBSET Keys : s # None

VARIABLES
  key,         \* the key of each machine, or None
  lost,        \* the keys that were made and are gone for good
  rules,       \* .sops.yaml: the recipients each environment should have
  recipients,  \* the recipients each ciphertext has, None where there is no file
  rekey,       \* the run of env-rekey under way, or None
  audited      \* history: env-check has passed, and no file was written since
               \* under a rule that the check would not pass

vars == <<key, lost, rules, recipients, rekey, audited>>

Init ==
  /\ key = [m \in Machines |-> None]
  /\ lost = {}
  /\ rules = [n \in Names |-> {}]
  /\ recipients = [n \in Names |-> None]
  /\ rekey = None
  /\ audited = FALSE

Files == {n \in Names : recipients[n] # None}
Made == lost \cup {key[m] : m \in {l \in Machines : key[l] # None}}

-----------------------------------------------------------------------------

\* A machine makes its key once: one that is there is never overwritten.
EnvKeygen(m) ==
  /\ rekey = None
  /\ key[m] = None
  /\ \E k \in Keys \ Made : key' = [key EXCEPT ![m] = k]
  /\ UNCHANGED <<lost, rules, recipients, rekey, audited>>

\* A machine is lost, or its key file is.
LoseKey(m) ==
  /\ key[m] # None
  /\ key' = [key EXCEPT ![m] = None]
  /\ lost' = lost \cup {key[m]}
  /\ UNCHANGED <<rules, recipients, rekey, audited>>

\* The rules gain what env-whoami prints on a machine, or lose a recipient.
EditRules(n) ==
  /\ rekey = None
  /\ \/ \E m \in Machines :
          key[m] # None /\ rules' = [rules EXCEPT ![n] = @ \cup {key[m]}]
     \/ \E k \in rules[n] : rules' = [rules EXCEPT ![n] = @ \ {k}]
  /\ UNCHANGED <<key, lost, recipients, rekey, audited>>

\* What a rule must name for a file written under it to pass env-check.
Survivable(s) == Cardinality(s) >= 2

\* A new file has the recipients of its rule; that takes no key.
EnvNew(n) ==
  /\ rekey = None
  /\ recipients[n] = None
  /\ rules[n] # {}
  /\ recipients' = [recipients EXCEPT ![n] = rules[n]]
  /\ audited' = (audited /\ Survivable(rules[n]))
  /\ UNCHANGED <<key, lost, rules, rekey>>

-----------------------------------------------------------------------------
(* env-rekey, the files in any order.                                      *)

BeginRekey(m) ==
  /\ rekey = None
  /\ rekey' = [on |-> m, todo |-> Files]
  /\ UNCHANGED <<key, lost, rules, recipients, audited>>

Opens(m, n) == key[m] # None /\ key[m] \in recipients[n]

\* Mutant: a file that cannot be opened is passed over.
RekeyFilePassingOver(n) ==
  /\ rekey # None
  /\ n \in rekey.todo
  /\ rekey' = [rekey EXCEPT !.todo = @ \ {n}]
  /\ recipients' = IF Opens(rekey.on, n) /\ rules[n] # {}
                   THEN [recipients EXCEPT ![n] = rules[n]] ELSE recipients
  /\ audited' = (audited /\ (recipients'[n] = rules[n] => Survivable(rules[n])))
  /\ UNCHANGED <<key, lost, rules>>

\* sops updatekeys: a file that is in line with its rule is left alone, another
\* one has to be opened first; the file where that fails ends the recipe.
RekeyFile(n) ==
  /\ rekey # None
  /\ n \in rekey.todo
  /\ IF recipients[n] = rules[n]
     THEN rekey' = [rekey EXCEPT !.todo = @ \ {n}] /\ UNCHANGED <<recipients, audited>>
     ELSE IF Opens(rekey.on, n) /\ rules[n] # {}
     THEN /\ rekey' = [rekey EXCEPT !.todo = @ \ {n}]
          /\ recipients' = [recipients EXCEPT ![n] = rules[n]]
          /\ audited' = (audited /\ Survivable(rules[n]))
     ELSE rekey' = None /\ UNCHANGED <<recipients, audited>>
  /\ UNCHANGED <<key, lost, rules>>

\* "recipients synced": the loop has come to its end.
RekeyDone ==
  /\ rekey # None
  /\ rekey.todo = {}
  /\ rekey' = None
  /\ UNCHANGED <<key, lost, rules, recipients, audited>>

Interrupt ==
  /\ rekey # None
  /\ rekey' = None
  /\ UNCHANGED <<key, lost, rules, recipients, audited>>

-----------------------------------------------------------------------------

\* Mutant: a file with one recipient passes.
EnvCheckOne(m) ==
  /\ rekey = None
  /\ audited' = \A n \in Files : recipients[n] # {} /\ (key[m] # None => Opens(m, n))
  /\ UNCHANGED <<key, lost, rules, recipients, rekey>>

\* Every file names two recipients and, on a machine that has a key, opens with
\* it. Whether anybody still has the keys that are named is not to be seen.
EnvCheck(m) ==
  /\ rekey = None
  /\ audited' = \A n \in Files : Survivable(recipients[n]) /\ (key[m] # None => Opens(m, n))
  /\ UNCHANGED <<key, lost, rules, recipients, rekey>>

Next ==
  \/ \E m \in Machines : EnvKeygen(m) \/ LoseKey(m) \/ BeginRekey(m) \/ EnvCheck(m)
  \/ \E n \in Names : EditRules(n) \/ EnvNew(n) \/ RekeyFile(n)
  \/ RekeyDone \/ Interrupt

Spec == Init /\ [][Next]_vars

-----------------------------------------------------------------------------
(* What the recipes promise.                                               *)

\* env-rekey does not say "recipients synced" unless they are: every file is for
\* the keys its rule names, on a machine that cannot open them all as well.
SyncedMeansSynced ==
  (rekey # None /\ rekey.todo = {}) =>
    \A n \in Files : recipients[n] = rules[n]

\* Once env-check has passed, the loss of a key leaves every file readable by
\* some machine ("needs >= 2 so a lost key is survivable"), through rekeys that
\* stop or are interrupted half-way, as long as the rules they follow name two
\* keys. This is the first key that is lost: of two, one may have been lost before
\* the check, which counts the names in a file (env.just:290).
LostKeyIsSurvivable ==
  (audited /\ Cardinality(lost) <= 1) =>
    \A n \in Files : \E m \in Machines : Opens(m, n)
=============================================================================
