-------------------------- MODULE RecipientsProofs --------------------------
(***************************************************************************)
(* Proofs about the recipients of module Recipients, for any number of     *)
(* environments, machines and keys.                                        *)
(***************************************************************************)
EXTENDS Recipients, FiniteSetTheorems, TLAPS

TypeInv ==
  /\ recipients \in [Names -> (SUBSET Keys) \cup {None}]
  /\ rules \in [Names -> SUBSET Keys]
  /\ key \in [Machines -> Keys \cup {None}]
  /\ rekey \in [on : Machines, todo : SUBSET Names] \cup {None}

\* The files env-rekey has been through are in line with their rules, which do
\* not change meanwhile.
SyncInv ==
  rekey # None => \A n \in Files \ rekey.todo : recipients[n] = rules[n]

\* Each recipe and each loss keeps the types.
LEMMA TypeStep == TypeInv /\ [Next]_vars => TypeInv'
<1> SUFFICES ASSUME TypeInv, [Next]_vars PROVE TypeInv'
  OBVIOUS
<1> USE DEF TypeInv
<1>1. CASE \E m \in Machines : EnvKeygen(m) \/ LoseKey(m) \/ EnvCheck(m)
  BY <1>1 DEF EnvKeygen, LoseKey, EnvCheck
<1>2. ASSUME NEW m \in Machines, BeginRekey(m) PROVE TypeInv'
  BY <1>2 DEF BeginRekey, Files
<1>3. ASSUME NEW n \in Names, EditRules(n) PROVE TypeInv'
  BY <1>3 DEF EditRules
<1>4. ASSUME NEW n \in Names, EnvNew(n) PROVE TypeInv'
  BY <1>4 DEF EnvNew
<1>5. ASSUME NEW n \in Names, RekeyFile(n) PROVE TypeInv'
  <2>1. rekey' = None \/ rekey' = [rekey EXCEPT !.todo = @ \ {n}]
    BY <1>5 DEF RekeyFile
  <2>2. recipients' = recipients \/ recipients' = [recipients EXCEPT ![n] = rules[n]]
    BY <1>5 DEF RekeyFile
  <2>3. rekey # None /\ UNCHANGED <<key, rules>>
    BY <1>5 DEF RekeyFile
  <2>4. rekey' \in [on : Machines, todo : SUBSET Names] \cup {None}
    BY <2>1, <2>3
  <2>5. recipients' \in [Names -> (SUBSET Keys) \cup {None}]
    BY <2>2
  <2> QED
    BY <2>3, <2>4, <2>5
<1>6. CASE RekeyDone \/ Interrupt \/ UNCHANGED vars
  BY <1>6 DEF RekeyDone, Interrupt, vars
<1> QED
  BY <1>1, <1>2, <1>3, <1>4, <1>5, <1>6 DEF Next

\* One more file of the rekey is in line, and no rule changes under it.
LEMMA SyncStep == TypeInv /\ SyncInv /\ [Next]_vars => SyncInv'
<1> SUFFICES ASSUME TypeInv, SyncInv, [Next]_vars PROVE SyncInv'
  OBVIOUS
<1> USE DEF TypeInv, SyncInv, Files
<1>1. CASE \E m \in Machines : EnvKeygen(m) \/ LoseKey(m) \/ EnvCheck(m)
  BY <1>1 DEF EnvKeygen, LoseKey, EnvCheck
<1>2. CASE \E n \in Names : EditRules(n) \/ EnvNew(n)
  BY <1>2 DEF EditRules, EnvNew
<1>3. ASSUME NEW m \in Machines, BeginRekey(m) PROVE SyncInv'
  <2>1. rekey' = [on |-> m, todo |-> Files] /\ UNCHANGED <<rules, recipients>>
    BY <1>3 DEF BeginRekey
  <2>2. rekey'.todo = Files
    BY <2>1 DEF Files
  <2> QED
    BY <2>1, <2>2
<1>4. ASSUME NEW n \in Names, RekeyFile(n) PROVE SyncInv'
  <2>1. rekey # None /\ n \in rekey.todo /\ UNCHANGED rules
    BY <1>4 DEF RekeyFile
  <2>2. CASE rekey' = None
    BY <2>2
  <2>3. CASE rekey' # None
    <3>1. rekey' = [rekey EXCEPT !.todo = @ \ {n}]
      BY <1>4, <2>3 DEF RekeyFile
    <3>2. rekey'.todo = rekey.todo \ {n}
      BY <2>1, <3>1
    <3>3. recipients'[n] = rules[n]
      BY <1>4, <2>3 DEF RekeyFile
    <3>4. \A o \in Names \ {n} : recipients'[o] = recipients[o]
      BY <1>4 DEF RekeyFile
    <3> QED
      BY <2>1, <3>2, <3>3, <3>4
  <2> QED
    BY <2>2, <2>3
<1>5. CASE RekeyDone \/ Interrupt \/ UNCHANGED vars
  BY <1>5 DEF RekeyDone, Interrupt, vars
<1> QED
  BY <1>1, <1>2, <1>3, <1>4, <1>5 DEF Next

\* env-rekey reports success only when every ciphertext is for the keys its rule
\* names (env-rekey, env.just).
THEOREM RekeyIsComplete == Spec => []SyncedMeansSynced
<1>1. Init => TypeInv /\ SyncInv
  BY DEF Init, TypeInv, SyncInv
<1>2. TypeInv /\ SyncInv => SyncedMeansSynced
  BY DEF SyncInv, SyncedMeansSynced
<1> QED
  BY <1>1, <1>2, TypeStep, SyncStep, PTL DEF Spec

-----------------------------------------------------------------------------
(* The loss of a key.                                                      *)

\* Rules and files name keys that were made; what has passed the audit names two.
NamedInv ==
  /\ lost \subseteq Keys
  /\ \A n \in Names : rules[n] \subseteq Made
  /\ \A n \in Files : recipients[n] \subseteq Made
  /\ audited => \A n \in Files : Survivable(recipients[n])

\* A key that was made is made for good.
LEMMA MadeGrows ==
  ASSUME TypeInv, [Next]_vars
  PROVE  Made \subseteq Made'
<1> USE DEF TypeInv, Made
<1>1. CASE \E m \in Machines : EnvKeygen(m) \/ LoseKey(m) \/ BeginRekey(m) \/ EnvCheck(m)
  BY <1>1 DEF EnvKeygen, LoseKey, BeginRekey, EnvCheck
<1>2. CASE \E n \in Names : EditRules(n) \/ EnvNew(n) \/ RekeyFile(n)
  BY <1>2 DEF EditRules, EnvNew, RekeyFile
<1>3. CASE RekeyDone \/ Interrupt \/ UNCHANGED vars
  BY <1>3 DEF RekeyDone, Interrupt, vars
<1> QED
  BY <1>1, <1>2, <1>3 DEF Next

\* Only keys that were made get into rules and files.
LEMMA NamedStep == TypeInv /\ NamedInv /\ [Next]_vars => NamedInv'
<1> SUFFICES ASSUME TypeInv, NamedInv, [Next]_vars PROVE NamedInv'
  OBVIOUS
<1>a. Made \subseteq Made'
  BY MadeGrows
<1> USE <1>a DEF TypeInv, NamedInv, Files
<1>1. CASE \E m \in Machines : EnvKeygen(m) \/ LoseKey(m) \/ BeginRekey(m)
  BY <1>1 DEF EnvKeygen, LoseKey, BeginRekey
<1>2. CASE \E m \in Machines : EnvCheck(m)
  BY <1>2 DEF EnvCheck
<1>3. ASSUME NEW n \in Names, EditRules(n) PROVE NamedInv'
  <2>1. \A m \in Machines : key[m] # None => key[m] \in Made
    BY DEF Made
  <2> QED
    BY <1>3, <2>1 DEF EditRules
<1>4. ASSUME NEW n \in Names, EnvNew(n) PROVE NamedInv'
  BY <1>4 DEF EnvNew
<1>5. ASSUME NEW n \in Names, RekeyFile(n) PROVE NamedInv'
  BY <1>5 DEF RekeyFile
<1>6. CASE RekeyDone \/ Interrupt \/ UNCHANGED vars
  BY <1>6 DEF RekeyDone, Interrupt, vars
<1> QED
  BY <1>1, <1>2, <1>3, <1>4, <1>5, <1>6 DEF Next

\* Of two keys at least, one is left when at most one is gone.
LEMMA OneIsLeft ==
  ASSUME NEW S, NEW L, IsFiniteSet(S), IsFiniteSet(L),
         Survivable(S), Cardinality(L) <= 1
  PROVE  \E k \in S : k \notin L
<1> SUFFICES ASSUME S \subseteq L PROVE FALSE
  OBVIOUS
<1>1. Cardinality(S) <= Cardinality(L)
  BY FS_Subset
<1>2. Cardinality(S) \in Nat /\ Cardinality(L) \in Nat
  BY FS_CardinalityType
<1> QED
  BY <1>1, <1>2 DEF Survivable

\* Of two keys one is left when one is lost: a machine opens every audited file
\* (env-check, env.just).
THEOREM OneLostKeyIsSurvived == Spec => []LostKeyIsSurvivable
<1>1. Init => TypeInv /\ NamedInv
  BY RecipientsAssumption DEF Init, TypeInv, NamedInv, Files
<1>2. TypeInv /\ NamedInv => LostKeyIsSurvivable
  <2> SUFFICES ASSUME TypeInv, NamedInv, audited, Cardinality(lost) <= 1, NEW n \in Files
               PROVE  \E m \in Machines : Opens(m, n)
    BY DEF LostKeyIsSurvivable
  <2>1. recipients[n] \in SUBSET Keys
    BY DEF TypeInv, Files
  <2>2. IsFiniteSet(recipients[n]) /\ IsFiniteSet(lost)
    BY <2>1, FS_Subset, RecipientsAssumption DEF NamedInv
  <2>3. PICK k \in recipients[n] : k \notin lost
    BY <2>2, OneIsLeft DEF NamedInv
  <2>4. k \in Made
    BY <2>3 DEF NamedInv
  <2>5. PICK m \in Machines : key[m] # None /\ k = key[m]
    BY <2>3, <2>4 DEF Made
  <2> QED
    BY <2>3, <2>5 DEF Opens
<1> QED
  BY <1>1, <1>2, TypeStep, NamedStep, PTL DEF Spec
=============================================================================
