--------------------------- MODULE EnvFilesProofs ---------------------------
(***************************************************************************)
(* Proofs about the environment recipes, for any environments, recipes in  *)
(* use, edits and interruptions: what holds with any number of terminals,  *)
(* and what holds when at most one is open.                                *)
(***************************************************************************)
EXTENDS EnvFiles, FiniteSetTheorems, TLAPS

-----------------------------------------------------------------------------
(* Any number of terminals.                                                *)

Jobs ==
  [recipe : Recipes \cup {None},
   at     : {"idle", "closed", "next", "sops", "move", "link", "unlink", "ln", "edit",
             "truncate", "seal", "rm"},
   name   : Names \cup {None},
   todo   : SUBSET Names,
   held   : Texts \cup {None, Junk}]

\* A job has the file its command needs; one of env-use has it from the first
\* command that follows its decryption, there being a name to decrypt.
JobOK(j) ==
  /\ j \in Jobs
  /\ j.at \in {"sops", "move", "edit", "truncate", "seal", "rm"} => j.name \in Names
  /\ j.at \in {"move", "edit"} => j.held \in Texts
  /\ j.recipe = "env-use" =>
       /\ j.at \in {"link", "unlink", "ln"} => j.name \in Names
       /\ j.at = "next" => j.todo # {} \/ j.name \in Names

Files == Texts \cup {None, Junk}

FilesOK ==
  /\ enc \in [Names -> Files]
  /\ dec \in [Names -> Files]
  /\ link \in Names \cup {None, "foreign"}
  /\ litter \in BOOLEAN
  /\ made \subseteq Edits
  /\ interrupts \in 0 .. MaxInterrupts

JobsOK == job \in [Terminals -> Jobs] /\ \A t \in Terminals : JobOK(job[t])

TypeInv == FilesOK /\ JobsOK

\* The texts are the files that are neither absent nor junk.
LEMMA TextsAreTexts == \A f \in Files : IsText(f) <=> f \in Texts
  BY EnvFilesAssumption DEF Files, Texts, IsText

\* An edit more makes a text of a text.
LEMMA EditedText ==
  ASSUME NEW f \in Texts, NEW e \in Edits
  PROVE  /\ Text(f.edits \cup {e}) \in Texts /\ IsText(Text(f.edits \cup {e}))
         /\ Text({e}) \in Texts /\ IsText(Text({e}))
         /\ Text({}) \in Texts /\ IsText(Text({}))
  BY EnvFilesAssumption DEF Texts, Text, IsText

\* One terminal goes on with a job that is all right, the others with theirs.
LEMMA StepIsOK ==
  ASSUME JobsOK, NEW t \in Terminals, NEW j, JobOK(j), Step(t, j)
  PROVE  JobsOK'
  BY DEF JobsOK, JobOK, Step

\* A terminal at its prompt has nothing to hold, nor has one that is closed.
LEMMA IdleIsOK == JobOK(Idle) /\ JobOK(Closed)
  BY DEF JobOK, Jobs, Idle, Closed, Job

\* So it does when its recipe ends, or goes on to what it has left to do.
LEMMA EndIsOK ==
  ASSUME JobsOK, NEW t \in Terminals, End(t)
  PROVE  JobsOK'
  BY IdleIsOK, StepIsOK DEF End

\* A recipe that has done with a name keeps it in mind.
LEMMA GoOnIsOK ==
  ASSUME JobsOK, NEW t \in Terminals, job[t].name \in Names, GoOn(t)
  PROVE  JobsOK'
<1>1. JobOK([job[t] EXCEPT !.at = "next", !.held = None])
  BY DEF JobOK, Jobs, JobsOK
<1> QED
  BY <1>1, StepIsOK DEF GoOn

\* The temporary file is made for a name with a ciphertext.
LEMMA DecryptedIsFile ==
  ASSUME FilesOK, NEW n \in Names, NEW p \in Decrypted(n)
  PROVE  p \in Files /\ (p # Junk => p \in Texts)
  BY DEF FilesOK, Decrypted, Files

\* Whatever recipe does it, a job turns to a name of its list.
LEMMA OnIsOK ==
  ASSUME JobsOK, NEW t \in Terminals, NEW n \in Names, NEW at, NEW held \in Files,
         at \in {"sops", "edit", "truncate", "rm"}, at = "edit" => held \in Texts,
         On(t, n, at, held)
  PROVE  JobsOK'
<1>1. JobOK([job[t] EXCEPT !.at = at, !.name = n, !.todo = @ \ {n}, !.held = held])
  BY DEF JobOK, Jobs, JobsOK, Files
<1> QED
  BY <1>1, StepIsOK DEF On

\* Every command leaves files that are files, and its terminal at a command that
\* has the file it needs.
LEMMA TypeStep == TypeInv /\ [Next]_vars => TypeInv'
<1> SUFFICES ASSUME TypeInv, [Next]_vars PROVE TypeInv'
  OBVIOUS
<1> USE DEF TypeInv
<1>1. CASE UNCHANGED vars
  BY <1>1 DEF vars, FilesOK, JobsOK
<1>2. ASSUME UNCHANGED <<enc, dec, link, litter, made, interrupts>>, JobsOK'
      PROVE  TypeInv'
  BY <1>2 DEF FilesOK
<1>3. ASSUME NEW t \in Terminals, Begin(t) PROVE TypeInv'
  <2>1. PICK r \in Recipes, s \in SUBSET Names :
          /\ r = "env-use" => Cardinality(s) = 1
          /\ Step(t, Job(r, IF r = "env-unuse" THEN "link" ELSE "next", None, s, None))
    BY <1>3 DEF Begin, OnSeveral
  <2>2. r = "env-use" => s # {}
    BY <2>1, FS_EmptySet
  <2>3. JobOK(Job(r, IF r = "env-unuse" THEN "link" ELSE "next", None, s, None))
    BY <2>2 DEF JobOK, Jobs, Job
  <2> QED
    BY <2>1, <2>3, <1>2, <1>3, StepIsOK DEF Begin
<1>4. ASSUME NEW t \in Terminals, Finish(t) PROVE TypeInv'
  <2>1. CASE job[t].recipe = "env-use"
    <3>1. JobOK([job[t] EXCEPT !.at = "link"])
      BY <1>4, <2>1 DEF Finish, JobOK, Jobs, JobsOK
    <3> QED
      BY <2>1, <3>1, <1>2, <1>4, StepIsOK DEF Finish
  <2>2. CASE job[t].recipe # "env-use"
    BY <2>2, <1>2, <1>4, EndIsOK DEF Finish
  <2> QED
    BY <2>1, <2>2
<1>5. ASSUME NEW t \in Terminals, MakeTemp(t) PROVE TypeInv'
  BY <1>5, <1>2, EndIsOK, OnIsOK DEF MakeTemp, Files
<1>6. ASSUME NEW t \in Terminals, SopsDecrypt(t) PROVE TypeInv'
  <2>1. job[t] \in Jobs /\ JobOK(job[t]) /\ job[t].at = "sops" /\ job[t].name \in Names
    BY <1>6 DEF SopsDecrypt, At, JobsOK, JobOK
  <2>2. PICK p \in Decrypted(job[t].name) :
          IF p = Junk THEN End(t) ELSE Step(t, [job[t] EXCEPT !.at = "move", !.held = p])
    BY <1>6 DEF SopsDecrypt
  <2>3. p # Junk => JobOK([job[t] EXCEPT !.at = "move", !.held = p])
    BY <2>1, <2>2, DecryptedIsFile DEF JobOK, Jobs
  <2> QED
    BY <1>2, <1>6, <2>2, <2>3, EndIsOK, StepIsOK DEF SopsDecrypt
<1>7. ASSUME NEW t \in Terminals, MoveTemp(t) PROVE TypeInv'
  <2>1. job[t].name \in Names /\ job[t].held \in Texts
    BY <1>7 DEF MoveTemp, At, JobsOK, JobOK
  <2> QED
    BY <1>7, <2>1, GoOnIsOK DEF MoveTemp, FilesOK, Files
<1>8. ASSUME NEW t \in Terminals, CheckLink(t) PROVE TypeInv'
  <2>1. job[t] \in Jobs /\ JobOK(job[t]) /\ job[t].at = "link"
    BY <1>8 DEF CheckLink, At, JobsOK
  <2>2. JobOK([job[t] EXCEPT !.at = IF Managed THEN "unlink" ELSE "ln"])
    BY <2>1 DEF JobOK, Jobs
  <2> QED
    BY <1>2, <1>8, <2>2, EndIsOK, StepIsOK DEF CheckLink
<1>9. ASSUME NEW t \in Terminals, RemoveLink(t) PROVE TypeInv'
  <2>1. job[t] \in Jobs /\ JobOK(job[t]) /\ job[t].at = "unlink"
    BY <1>9 DEF RemoveLink, At, JobsOK
  <2>2. JobOK([job[t] EXCEPT !.at = "ln"])
    BY <2>1 DEF JobOK, Jobs
  <2>3. JobsOK'
    BY <1>9, <2>2, EndIsOK, StepIsOK DEF RemoveLink
  <2> QED
    BY <1>9, <2>3 DEF RemoveLink, FilesOK
<1>10. ASSUME NEW t \in Terminals, MakeLink(t) PROVE TypeInv'
  <2>1. job[t].name \in Names
    BY <1>10 DEF MakeLink, At, JobsOK, JobOK
  <2> QED
    BY <1>10, <2>1, EndIsOK DEF MakeLink, FilesOK
<1>11. ASSUME NEW t \in Terminals, OpenEdit(t) PROVE TypeInv'
  <2>1. PICK n \in Names : \E p \in Opened(n) : IF p = Junk THEN End(t) ELSE On(t, n, "edit", p)
    BY <1>11 DEF OpenEdit
  <2>2. \A p \in Opened(n) : p # Junk => p \in Texts
    BY DecryptedIsFile DEF Opened, Texts, Text
  <2> QED
    BY <1>11, <1>2, <2>1, <2>2, EndIsOK, OnIsOK DEF OpenEdit, Files
<1>12. ASSUME NEW t \in Terminals, SaveEdit(t) PROVE TypeInv'
  <2>1. job[t].name \in Names /\ job[t].held \in Texts
    BY <1>12 DEF SaveEdit, At, JobsOK, JobOK
  <2> QED
    BY <1>12, <2>1, GoOnIsOK, EditedText DEF SaveEdit, FilesOK, Files
<1>13. ASSUME NEW t \in Terminals, CopyIn(t) PROVE TypeInv'
  <2>1. job[t].name \in Names
    BY <1>13 DEF CopyIn, At, JobsOK, JobOK
  <2>2. JobsOK'
    BY <1>13, <2>1, EndIsOK, GoOnIsOK DEF CopyIn
  <2> QED
    BY <1>13, <2>1, <2>2 DEF CopyIn, FilesOK
<1>14. ASSUME NEW t \in Terminals, CheckFresh(t) PROVE TypeInv'
  BY <1>14, <1>2, EndIsOK, OnIsOK DEF CheckFresh, Files
<1>15. ASSUME NEW t \in Terminals, Truncate(t) PROVE TypeInv'
  <2>1. job[t] \in Jobs /\ JobOK(job[t]) /\ job[t].name \in Names
    BY <1>15 DEF Truncate, At, JobsOK, JobOK
  <2>2. JobOK([job[t] EXCEPT !.at = "seal"])
    BY <2>1 DEF JobOK, Jobs
  <2> QED
    BY <1>15, <2>1, <2>2, StepIsOK DEF Truncate, FilesOK, Files
<1>16. ASSUME NEW t \in Terminals, Seal(t) PROVE TypeInv'
  <2>1. job[t].name \in Names
    BY <1>16 DEF Seal, At, JobsOK, JobOK
  <2>2. Text({}) \in Files /\ dec[job[t].name] \in Files
    BY <2>1 DEF Texts, Text, FilesOK, Files
  <2>3. JobsOK'
    BY <1>16, <2>1, EndIsOK, GoOnIsOK DEF Seal
  <2> QED
    BY <1>16, <2>1, <2>2, <2>3 DEF Seal, FilesOK
<1>17. ASSUME NEW t \in Terminals, Wipe(t) PROVE TypeInv'
  BY <1>17, OnIsOK DEF Wipe, FilesOK, Files
<1>18. ASSUME NEW t \in Terminals, RemoveCopy(t) PROVE TypeInv'
  <2>1. job[t].name \in Names
    BY <1>18 DEF RemoveCopy, At, JobsOK, JobOK
  <2> QED
    BY <1>18, <2>1, GoOnIsOK DEF RemoveCopy, FilesOK, Files
<1>19. ASSUME NEW t \in Terminals, EnvRun(t) \/ EnvDockerRun(t) \/ EnvK8sSecret(t)
       PROVE  TypeInv'
  BY <1>19, <1>2, EndIsOK DEF EnvRun, EnvDockerRun, EnvK8sSecret
<1>20. ASSUME NEW t \in Terminals, EditCopy(t) PROVE TypeInv'
  <2>1. PICK n \in Names, e \in Edits :
          /\ IsText(dec[n])
          /\ dec' = [dec EXCEPT ![n] = Text(@.edits \cup {e})]
          /\ made' = made \cup {e}
    BY <1>20 DEF EditCopy
  <2>2. dec[n] \in Texts
    BY <2>1, TextsAreTexts DEF FilesOK
  <2> QED
    BY <1>20, <2>1, <2>2, EditedText DEF EditCopy, FilesOK, JobsOK, Files
<1>21. ASSUME NEW t \in Terminals, Pull(t) PROVE TypeInv'
  <2>1. PICK n \in Names, e \in Edits :
          /\ enc[n] # Junk
          /\ enc' = [enc EXCEPT ![n] = IF @ = None THEN Text({e}) ELSE Text(@.edits \cup {e})]
          /\ made' = made \cup {e}
    BY <1>21 DEF Pull
  <2>2. enc[n] = None \/ enc[n] \in Texts
    BY <2>1 DEF FilesOK, Files
  <2>3. Text({e}) \in Texts
    BY DEF Texts, Text
  <2> QED
    BY <1>21, <2>1, <2>2, <2>3, EditedText DEF Pull, FilesOK, JobsOK, Files
<1>22. ASSUME NEW t \in Terminals, OwnEnv(t) PROVE TypeInv'
  BY <1>22 DEF OwnEnv, FilesOK, JobsOK
<1>23. ASSUME NEW t \in Terminals, Interrupt(t) PROVE TypeInv'
  BY <1>23, EndIsOK, EnvFilesAssumption DEF Interrupt, FilesOK
<1> QED
  BY <1>1, <1>3, <1>4, <1>5, <1>6, <1>7, <1>8, <1>9, <1>10, <1>11, <1>12, <1>13, <1>14,
     <1>15, <1>16, <1>17, <1>18, <1>19, <1>20, <1>21, <1>22, <1>23 DEF Next

\* There is nothing yet, and nobody at work.
LEMMA InitTypeInv == Init => TypeInv
<1>1. Init => FilesOK
  <2>1. 0 \in 0 .. MaxInterrupts
    BY EnvFilesAssumption
  <2> QED
    BY <2>1 DEF Init, FilesOK, Files
<1>2. Init => JobsOK
  <2>1. Idle \in Jobs /\ Closed \in Jobs
    BY IdleIsOK DEF JobOK
  <2> QED
    BY <2>1, IdleIsOK DEF Init, JobsOK
<1> QED
  BY <1>1, <1>2 DEF TypeInv

\* So files and jobs are all right for ever.
LEMMA TypeInvariant == Spec => []TypeInv
  BY InitTypeInv, TypeStep, PTL DEF Spec

\* Whatever terminals do beside one another, and whatever fails or is interrupted,
\* every file is absent, junk or a text and every job has the file its next command
\* needs (env.just, justfile).
THEOREM TypeCorrect == Spec => []TypeOK
<1>1. TypeInv => TypeOK
  BY DEF TypeInv, FilesOK, JobsOK, JobOK, Jobs, Files, TypeOK
<1> QED
  BY <1>1, TypeInvariant, PTL

\* Nothing but env-clean makes junk of a decrypted copy, whatever fails, is
\* interrupted or runs in another terminal: decryptions go through a temporary
\* file that is moved in place (env-decrypt, env-docker-env-file).
THEOREM CopiesStayWhole == Spec => CopiesAreWhole
<1>1. ASSUME TypeInv, [Next]_vars, NEW n \in Names, dec'[n] = Junk, dec[n] # Junk
      PROVE  \E t \in Terminals : job[t].recipe = "env-clean"
  <2>1. dec' # dec
    BY <1>1
  <2>2. PICK t \in Terminals : MoveTemp(t) \/ Wipe(t) \/ RemoveCopy(t) \/ EditCopy(t)
    BY <1>1, <2>1
       DEF Next, vars, Begin, Finish, MakeTemp, SopsDecrypt, CheckLink, RemoveLink, MakeLink,
           OpenEdit, SaveEdit, CopyIn, CheckFresh, Truncate, Seal, EnvRun, EnvDockerRun,
           EnvK8sSecret, Pull, OwnEnv, Interrupt
  <2>3. CASE MoveTemp(t)
    <3>1. job[t].name \in Names /\ job[t].held \in Texts
      BY <1>1, <2>3 DEF MoveTemp, At, TypeInv, JobsOK, JobOK
    <3>2. IsText(job[t].held)
      BY <3>1, TextsAreTexts DEF Files
    <3> QED
      BY <1>1, <2>3, <3>1, <3>2 DEF MoveTemp, IsText, TypeInv, FilesOK
  <2>4. CASE Wipe(t)
    BY <2>4 DEF Wipe, Take, At
  <2>5. CASE RemoveCopy(t)
    BY <2>5 DEF RemoveCopy, At
  <2>6. CASE EditCopy(t)
    <3>1. PICK m \in Names, e \in Edits :
            IsText(dec[m]) /\ dec' = [dec EXCEPT ![m] = Text(@.edits \cup {e})]
      BY <2>6 DEF EditCopy
    <3>2. dec[m] \in Texts
      BY <1>1, <3>1, TextsAreTexts DEF TypeInv, FilesOK
    <3>3. dec \in [Names -> Files] /\ dec'[m] # Junk
      BY <1>1, <3>1, <3>2, EditedText DEF IsText, TypeInv, FilesOK
    <3> QED
      BY <1>1, <3>1, <3>3
  <2> QED
    BY <2>2, <2>3, <2>4, <2>5, <2>6
<1>2. TypeInv /\ [Next]_vars
        => [\A n \in Names :
              dec'[n] = Junk => \/ dec[n] = Junk
                                \/ \E t \in Terminals : job[t].recipe = "env-clean"]_vars
  BY <1>1
<1> QED
  BY <1>2, TypeInvariant, PTL DEF Spec, CopiesAreWhole

-----------------------------------------------------------------------------
(* One terminal.                                                           *)

\* What a recipe has made sure of is still so when it acts on it: the ciphertext it
\* is about to truncate is none, the link it is about to remove is its own, the
\* text it edits is the ciphertext's; and env-clean has yet to come to every copy.
AloneJob(j) ==
  /\ j.at \in {"truncate", "seal"} => ~IsText(enc[j.name])
  /\ j.at = "unlink" => Managed
  /\ (j.recipe = "env-edit" /\ j.at = "edit") => j.held = enc[j.name] \/ ~IsText(enc[j.name])
  /\ (j.recipe = "env-clean" /\ j.at \in {"next", "rm"}) =>
       \A n \in Names : IsText(dec[n]) => n \in j.todo

Tidy == interrupts = 0 => ~litter

AloneInv == Tidy /\ \A t \in Terminals : AloneJob(job[t])

\* What the terminal that acts leaves behind.
Kept(t) == Tidy /\ AloneJob(job[t])

Act(t) ==
  \/ Begin(t) \/ Finish(t)
  \/ MakeTemp(t) \/ SopsDecrypt(t) \/ MoveTemp(t)
  \/ CheckLink(t) \/ RemoveLink(t) \/ MakeLink(t)
  \/ OpenEdit(t) \/ SaveEdit(t) \/ CopyIn(t)
  \/ CheckFresh(t) \/ Truncate(t) \/ Seal(t)
  \/ Wipe(t) \/ RemoveCopy(t)
  \/ EnvRun(t) \/ EnvDockerRun(t) \/ EnvK8sSecret(t)
  \/ EditCopy(t) \/ Pull(t) \/ OwnEnv(t) \/ Interrupt(t)

\* A terminal that acts is open.
LEMMA ActingIsOpen ==
  ASSUME NEW t \in Terminals, Act(t)
  PROVE  job[t] # Closed
<1>1. Closed.at = "closed" /\ Idle.at = "idle" /\ Closed.recipe = None
  BY DEF Closed, Idle, Job
<1>2. CASE Begin(t) \/ EditCopy(t) \/ Pull(t) \/ OwnEnv(t)
  BY <1>1, <1>2 DEF Begin, EditCopy, Pull, OwnEnv
<1>3. CASE Finish(t) \/ Interrupt(t)
  BY <1>1, <1>3 DEF Finish, Interrupt
<1>4. CASE \/ MakeTemp(t) \/ OpenEdit(t) \/ CheckFresh(t) \/ Wipe(t)
           \/ EnvRun(t) \/ EnvDockerRun(t) \/ EnvK8sSecret(t)
  <2>1. job[t].at = "next"
    BY <1>4 DEF MakeTemp, OpenEdit, CheckFresh, Wipe, EnvRun, EnvDockerRun, EnvK8sSecret,
                Take, At
  <2> QED
    BY <1>1, <2>1
<1>5. CASE \/ SopsDecrypt(t) \/ MoveTemp(t) \/ CheckLink(t) \/ RemoveLink(t) \/ MakeLink(t)
           \/ SaveEdit(t) \/ CopyIn(t) \/ Truncate(t) \/ Seal(t) \/ RemoveCopy(t)
  <2>1. job[t].at \in {"sops", "move", "link", "unlink", "ln", "edit", "truncate", "seal", "rm"}
    BY <1>5 DEF SopsDecrypt, MoveTemp, CheckLink, RemoveLink, MakeLink, SaveEdit, CopyIn,
                Truncate, Seal, RemoveCopy, At
  <2> QED
    BY <1>1, <2>1
<1> QED
  BY <1>2, <1>3, <1>4, <1>5 DEF Act

\* It steps, and stays open, and the other terminals do not step.
LEMMA ActingStaysOpen ==
  ASSUME JobsOK, NEW t \in Terminals, Act(t)
  PROVE  job'[t] # Closed /\ \A u \in Terminals \ {t} : job'[u] = job[u]
<1>1. Closed.at = "closed" /\ Idle.at = "idle"
  BY DEF Closed, Idle, Job
<1>2. \A j : Step(t, j) => job'[t] = j /\ \A u \in Terminals \ {t} : job'[u] = job[u]
  BY DEF Step, JobsOK
<1>3. ASSUME NEW j, Step(t, j), j.at # "closed"
      PROVE  job'[t] # Closed /\ \A u \in Terminals \ {t} : job'[u] = job[u]
  BY <1>1, <1>2, <1>3
<1>4. ASSUME NEW at, NEW name, NEW todo, NEW held, at # "closed",
             \/ Step(t, [job[t] EXCEPT !.at = at])
             \/ Step(t, [job[t] EXCEPT !.at = at, !.held = held])
             \/ Step(t, [job[t] EXCEPT !.at = at, !.name = name, !.todo = todo, !.held = held])
      PROVE  job'[t] # Closed /\ \A u \in Terminals \ {t} : job'[u] = job[u]
  <2>1. /\ [job[t] EXCEPT !.at = at].at = at
        /\ [job[t] EXCEPT !.at = at, !.held = held].at = at
        /\ [job[t] EXCEPT !.at = at, !.name = name, !.todo = todo, !.held = held].at = at
    BY DEF JobsOK, Jobs
  <2> QED
    BY <1>3, <1>4, <2>1
<1>5. ASSUME End(t)
      PROVE  job'[t] # Closed /\ \A u \in Terminals \ {t} : job'[u] = job[u]
  BY <1>1, <1>3, <1>5 DEF End
<1>6. ASSUME GoOn(t)
      PROVE  job'[t] # Closed /\ \A u \in Terminals \ {t} : job'[u] = job[u]
  BY <1>4, <1>6 DEF GoOn
<1>7. ASSUME NEW n, NEW at, NEW held, On(t, n, at, held), at # "closed"
      PROVE  job'[t] # Closed /\ \A u \in Terminals \ {t} : job'[u] = job[u]
  BY <1>4, <1>7 DEF On
<1>8. CASE EditCopy(t) \/ Pull(t) \/ OwnEnv(t)
  BY <1>1, <1>8 DEF EditCopy, Pull, OwnEnv
<1>9. CASE Begin(t)
  <2>1. PICK r, s : Step(t, Job(r, IF r = "env-unuse" THEN "link" ELSE "next", None, s, None))
    BY <1>9 DEF Begin
  <2>2. Job(r, IF r = "env-unuse" THEN "link" ELSE "next", None, s, None).at # "closed"
    BY DEF Job
  <2> QED
    BY <1>3, <2>1, <2>2
<1>10. CASE Finish(t) \/ CheckLink(t) \/ RemoveLink(t) \/ Truncate(t)
  BY <1>4, <1>5, <1>10 DEF Finish, CheckLink, RemoveLink, Truncate
<1>11. CASE SopsDecrypt(t)
  BY <1>4, <1>5, <1>11 DEF SopsDecrypt
<1>12. CASE \/ MoveTemp(t) \/ MakeLink(t) \/ SaveEdit(t) \/ CopyIn(t) \/ Seal(t) \/ RemoveCopy(t)
            \/ EnvRun(t) \/ EnvDockerRun(t) \/ EnvK8sSecret(t) \/ Interrupt(t)
  BY <1>5, <1>6, <1>12
     DEF MoveTemp, MakeLink, SaveEdit, CopyIn, Seal, RemoveCopy, EnvRun, EnvDockerRun,
         EnvK8sSecret, Interrupt
<1>13. CASE MakeTemp(t) \/ OpenEdit(t) \/ CheckFresh(t) \/ Wipe(t)
  BY <1>5, <1>7, <1>13 DEF MakeTemp, OpenEdit, CheckFresh, Wipe
<1> QED
  BY <1>8, <1>9, <1>10, <1>11, <1>12, <1>13 DEF Act

\* A recipe that has ended has made sure of nothing.
LEMMA IdleIsAlone ==
  ASSUME JobsOK, NEW t \in Terminals, Tidy', End(t)
  PROVE  Kept(t)'
<1>1. job'[t] = Idle
  BY DEF End, Step, JobsOK
<1> QED
  BY <1>1 DEF Kept, AloneJob, Idle, Job

\* Nor has one that turns to the temporary file of a name.
LEMMA TurnIsAlone ==
  ASSUME JobsOK, NEW t \in Terminals, NEW n, NEW held, Tidy', On(t, n, "sops", held)
  PROVE  Kept(t)'
<1>1. job'[t].at = "sops"
  BY DEF On, Step, JobsOK, Jobs
<1> QED
  BY <1>1 DEF Kept, AloneJob

\* What a terminal has made sure of it does not undo itself.
LEMMA ActKeeps ==
  ASSUME TypeInv, AloneInv, NEW t \in Terminals, Act(t)
  PROVE  Kept(t)'
<1>1. JobsOK /\ FilesOK /\ Tidy
  BY DEF TypeInv, AloneInv
<1>2. ASSUME UNCHANGED <<litter, interrupts>> PROVE Tidy'
  BY <1>1, <1>2 DEF Tidy
<1>3. CASE Begin(t)
  <2>1. PICK r \in Recipes, s \in SUBSET Names :
          /\ r = "env-clean" => s = {n \in Names : dec[n] # None}
          /\ job' = [job EXCEPT ![t] =
               Job(r, IF r = "env-unuse" THEN "link" ELSE "next", None, s, None)]
    BY <1>3 DEF Begin, OnSeveral, Step
  <2>2. job'[t] = Job(r, IF r = "env-unuse" THEN "link" ELSE "next", None, s, None)
    BY <2>1, <1>1 DEF JobsOK
  <2> QED
    BY <1>3, <2>1, <2>2, <1>2 DEF Kept, Begin, AloneJob, Job, IsText
<1>4. CASE Finish(t)
  <2>1. CASE job[t].recipe = "env-use"
    <3>1. job'[t] = [job[t] EXCEPT !.at = "link"] /\ job[t] \in Jobs
      BY <1>1, <1>4, <2>1 DEF Finish, Step, JobsOK
    <3> QED
      BY <1>4, <2>1, <3>1, <1>2 DEF Kept, Finish, AloneJob, Jobs
  <2>2. CASE job[t].recipe # "env-use"
    BY <2>2, <1>1, <1>2, <1>4, IdleIsAlone DEF Finish
  <2> QED
    BY <2>1, <2>2
<1>5. CASE MakeTemp(t)
  <2>1. End(t) \/ \E n \in Names : On(t, n, "sops", Junk)
    BY <1>5 DEF MakeTemp
  <2> QED
    BY <1>5, <2>1, <1>1, <1>2, IdleIsAlone, TurnIsAlone DEF MakeTemp
<1>6. CASE SopsDecrypt(t)
  <2>1. End(t) \/ \E p \in Decrypted(job[t].name) :
                   Step(t, [job[t] EXCEPT !.at = "move", !.held = p])
    BY <1>6 DEF SopsDecrypt
  <2>2. ASSUME NEW p, Step(t, [job[t] EXCEPT !.at = "move", !.held = p])
        PROVE  job'[t].at = "move"
    BY <2>2, <1>1 DEF Step, JobsOK, Jobs
  <2> QED
    BY <1>6, <2>1, <2>2, <1>1, <1>2, IdleIsAlone DEF Kept, SopsDecrypt, AloneJob
<1>7. CASE MoveTemp(t)
  <2>1. job'[t].at = "next" /\ job'[t].recipe # "env-clean"
    BY <1>7, <1>1 DEF MoveTemp, At, Decrypting, GoOn, Step, JobsOK, Jobs
  <2> QED
    BY <1>7, <2>1, <1>2 DEF Kept, MoveTemp, AloneJob
<1>8. CASE CheckLink(t)
  <2>1. ASSUME Step(t, [job[t] EXCEPT !.at = IF Managed THEN "unlink" ELSE "ln"])
        PROVE  job'[t].at = IF Managed THEN "unlink" ELSE "ln"
    BY <2>1, <1>1 DEF Step, JobsOK, Jobs
  <2>2. UNCHANGED Managed
    BY <1>8 DEF CheckLink, Managed
  <2> QED
    BY <1>8, <2>1, <2>2, <1>1, <1>2, IdleIsAlone DEF Kept, CheckLink, AloneJob
<1>9. CASE RemoveLink(t)
  <2>1. ASSUME Step(t, [job[t] EXCEPT !.at = "ln"]) PROVE job'[t].at = "ln"
    BY <2>1, <1>1 DEF Step, JobsOK, Jobs
  <2> QED
    BY <1>9, <2>1, <1>1, <1>2, IdleIsAlone DEF Kept, RemoveLink, AloneJob
<1>10. CASE MakeLink(t)
  BY <1>10, <1>1, <1>2, IdleIsAlone DEF MakeLink
<1>11. CASE OpenEdit(t)
  <2>1. End(t) \/ \E n \in Names : \E p \in Opened(n) : p # Junk /\ On(t, n, "edit", p)
    BY <1>11 DEF OpenEdit
  <2>2. ASSUME NEW n \in Names, NEW p \in Opened(n), p # Junk, On(t, n, "edit", p)
        PROVE  Kept(t)'
    <3>1. job'[t].at = "edit" /\ job'[t].name = n /\ job'[t].held = p
      BY <2>2, <1>1 DEF On, Step, JobsOK, Jobs
    <3>2. p = enc[n] \/ ~IsText(enc[n])
      BY <2>2 DEF Opened, Decrypted, IsText
    <3> QED
      BY <1>11, <3>1, <3>2, <1>2 DEF Kept, OpenEdit, AloneJob
  <2> QED
    BY <1>11, <2>1, <2>2, <1>1, <1>2, IdleIsAlone DEF OpenEdit
<1>12. CASE SaveEdit(t)
  <2>1. job'[t].at = "next" /\ job'[t].recipe # "env-clean"
    BY <1>12, <1>1 DEF SaveEdit, At, GoOn, Step, JobsOK, Jobs
  <2> QED
    BY <1>12, <2>1, <1>2 DEF Kept, SaveEdit, AloneJob
<1>13. CASE CopyIn(t)
  <2>1. GoOn(t) => job'[t].at = "next" /\ job'[t].recipe # "env-clean"
    BY <1>13, <1>1 DEF CopyIn, At, GoOn, Step, JobsOK, Jobs
  <2> QED
    BY <1>13, <2>1, <1>1, <1>2, IdleIsAlone DEF Kept, CopyIn, AloneJob
<1>14. CASE CheckFresh(t)
  <2>1. End(t) \/ \E n \in Names : enc[n] = None /\ On(t, n, "truncate", None)
    BY <1>14 DEF CheckFresh
  <2>2. ASSUME NEW n \in Names, enc[n] = None, On(t, n, "truncate", None) PROVE Kept(t)'
    <3>1. job'[t].at = "truncate" /\ job'[t].name = n
      BY <2>2, <1>1 DEF On, Step, JobsOK, Jobs
    <3> QED
      BY <1>14, <2>2, <3>1, <1>2 DEF Kept, CheckFresh, AloneJob, IsText
  <2> QED
    BY <1>14, <2>1, <2>2, <1>1, <1>2, IdleIsAlone DEF CheckFresh
<1>15. CASE Truncate(t)
  <2>1. /\ job'[t].at = "seal" /\ job'[t].name = job[t].name
        /\ job[t].name \in Names
    BY <1>15, <1>1 DEF Truncate, At, Step, JobsOK, Jobs, JobOK
  <2>2. ~IsText(enc'[job[t].name])
    BY <1>15, <1>1, <2>1 DEF Truncate, FilesOK, IsText
  <2> QED
    BY <1>15, <2>1, <2>2, <1>2 DEF Kept, Truncate, AloneJob
<1>16. CASE Seal(t)
  <2>1. GoOn(t) => job'[t].at = "next" /\ job'[t].recipe # "env-clean"
    BY <1>16, <1>1 DEF Seal, At, GoOn, Step, JobsOK, Jobs
  <2> QED
    BY <1>16, <2>1, <1>1, <1>2, IdleIsAlone DEF Kept, Seal, AloneJob
<1>17. CASE Wipe(t)
  <2>1. PICK n \in Names :
          /\ Take(t, {"env-clean"}, n)
          /\ dec' = [dec EXCEPT ![n] = Junk]
          /\ On(t, n, "rm", None)
    BY <1>17 DEF Wipe
  <2>2. job'[t].at = "rm" /\ job'[t].todo = job[t].todo \ {n}
    BY <2>1, <1>1 DEF On, Step, JobsOK, Jobs
  <2>3. \A m \in Names : IsText(dec'[m]) => m # n /\ IsText(dec[m])
    BY <2>1, <1>1 DEF FilesOK, IsText
  <2>4. \A m \in Names : IsText(dec[m]) => m \in job[t].todo
    BY <2>1 DEF Take, At, AloneInv, AloneJob
  <2> QED
    BY <1>17, <2>2, <2>3, <2>4, <1>2 DEF Kept, Wipe, AloneJob
<1>18. CASE RemoveCopy(t)
  <2>1. job'[t].at = "next" /\ job'[t].todo = job[t].todo
    BY <1>18, <1>1 DEF RemoveCopy, GoOn, Step, JobsOK, Jobs
  <2>2. \A m \in Names : IsText(dec'[m]) => IsText(dec[m])
    BY <1>18, <1>1 DEF RemoveCopy, FilesOK, IsText
  <2>3. \A m \in Names : IsText(dec[m]) => m \in job[t].todo
    BY <1>18 DEF RemoveCopy, At, AloneInv, AloneJob
  <2> QED
    BY <1>18, <2>1, <2>2, <2>3, <1>2 DEF Kept, RemoveCopy, AloneJob
<1>19. CASE EnvRun(t) \/ EnvDockerRun(t) \/ EnvK8sSecret(t)
  BY <1>19, <1>1, <1>2, IdleIsAlone DEF EnvRun, EnvDockerRun, EnvK8sSecret
<1>20. CASE EditCopy(t) \/ Pull(t) \/ OwnEnv(t)
  BY <1>20, <1>2 DEF Kept, EditCopy, Pull, OwnEnv, AloneJob, Idle, Job
<1>21. CASE Interrupt(t)
  <2>1. Tidy'
    BY <1>21, <1>1, EnvFilesAssumption DEF Interrupt, Tidy, FilesOK
  <2> QED
    BY <1>21, <2>1, <1>1, IdleIsAlone DEF Interrupt
<1> QED
  BY <1>3, <1>4, <1>5, <1>6, <1>7, <1>8, <1>9, <1>10, <1>11, <1>12, <1>13,
     <1>14, <1>15, <1>16, <1>17, <1>18, <1>19, <1>20, <1>21 DEF Act

\* With all terminals but one closed, nobody else undoes it either; and none that
\* is open closes.
LEMMA AloneStep ==
  TypeInv /\ (OneTerminal => AloneInv) /\ [Next]_vars => (OneTerminal => AloneInv)'
<1> SUFFICES ASSUME TypeInv, OneTerminal => AloneInv, [Next]_vars, OneTerminal'
             PROVE  AloneInv'
  OBVIOUS
<1>1. CASE UNCHANGED vars
  BY <1>1 DEF vars, OneTerminal, AloneInv, AloneJob, Tidy, Managed
<1>2. ASSUME NEW t \in Terminals, Act(t) PROVE AloneInv'
  <2>1. /\ job[t] # Closed /\ job'[t] # Closed
        /\ \A u \in Terminals \ {t} : job'[u] = job[u]
    BY <1>2, ActingIsOpen, ActingStaysOpen DEF TypeInv
  <2>2. OneTerminal
    BY <2>1 DEF OneTerminal
  <2>3. Kept(t)'
    BY <1>2, <2>2, ActKeeps
  <2>4. ASSUME NEW u \in Terminals \ {t} PROVE AloneJob(job[u])'
    <3>1. job'[u] = Closed
      BY <2>1, <2>4 DEF OneTerminal
    <3> QED
      BY <3>1 DEF AloneJob, Closed, Job
  <2> QED
    BY <2>3, <2>4 DEF Kept, AloneInv
<1> QED
  BY <1>1, <1>2 DEF Next, Act

\* Nothing has been made sure of yet, and nothing is left about.
LEMMA AloneInvariant == Spec => [](TypeInv /\ (OneTerminal => AloneInv))
<1>1. Init => AloneInv
  <2>1. AloneJob(Idle) /\ AloneJob(Closed)
    BY DEF AloneJob, Idle, Closed, Job
  <2> QED
    BY <2>1 DEF Init, AloneInv, Tidy
<1> QED
  BY <1>1, AloneStep, TypeInvariant, PTL DEF Spec

\* The recipes that write a ciphertext, and the user and the team.
LEMMA WhoWritesCiphertext ==
  ASSUME [Next]_vars, NEW n \in Names, enc'[n] # enc[n]
  PROVE  \E t \in Terminals :
           SaveEdit(t) \/ CopyIn(t) \/ Truncate(t) \/ Seal(t) \/ Pull(t)
  BY DEF Next, vars, Begin, Finish, MakeTemp, SopsDecrypt, MoveTemp, CheckLink, RemoveLink,
         MakeLink, OpenEdit, CheckFresh, Wipe, RemoveCopy, EnvRun, EnvDockerRun,
         EnvK8sSecret, EditCopy, OwnEnv, Interrupt

\* What becomes of a ciphertext that can be decrypted, but for a copy that is folded
\* back: it keeps its edits.
LEMMA CiphertextStep ==
  ASSUME TypeInv, AloneInv, [Next]_vars, NEW n \in Names, IsText(enc[n])
  PROVE  /\ IsText(enc'[n])
         /\ Lost(n) => \E t \in Terminals : job[t].recipe = "env-encrypt"
<1> USE DEF TypeInv
<1>1. enc[n] \in Texts /\ enc \in [Names -> Files]
  BY TextsAreTexts DEF FilesOK
<1>2. CASE enc'[n] = enc[n]
  BY <1>2 DEF Lost
<1>3. ASSUME NEW t \in Terminals, SaveEdit(t), enc'[n] # enc[n]
      PROVE  IsText(enc'[n]) /\ enc[n].edits \subseteq enc'[n].edits
  <2>1. PICK e \in Edits : enc' = [enc EXCEPT ![job[t].name] = Text(job[t].held.edits \cup {e})]
    BY <1>3 DEF SaveEdit
  <2>2. job[t].held \in Texts
    BY <1>3 DEF SaveEdit, At, JobsOK, JobOK
  <2>3. n = job[t].name /\ enc'[n] = Text(job[t].held.edits \cup {e})
    BY <1>1, <1>3, <2>1
  <2>4. job[t].held = enc[n]
    BY <1>3, <2>3 DEF SaveEdit, At, AloneInv, AloneJob
  <2>5. IsText(enc'[n])
    BY <2>2, <2>3, EditedText
  <2> QED
    BY <2>3, <2>4, <2>5 DEF Text
<1>4. ASSUME NEW t \in Terminals, CopyIn(t), enc'[n] # enc[n]
      PROVE  IsText(enc'[n]) /\ job[t].recipe = "env-encrypt"
  BY <1>1, <1>4 DEF CopyIn, At
<1>5. ASSUME NEW t \in Terminals, Truncate(t) \/ Seal(t), enc'[n] # enc[n] PROVE FALSE
  <2>1. ~IsText(enc[job[t].name])
    BY <1>5 DEF Truncate, Seal, At, AloneInv, AloneJob
  <2> QED
    BY <1>1, <1>5, <2>1 DEF Truncate, Seal
<1>6. ASSUME NEW t \in Terminals, Pull(t), enc'[n] # enc[n]
      PROVE  IsText(enc'[n]) /\ enc[n].edits \subseteq enc'[n].edits
  <2>1. PICK m \in Names, e \in Edits :
          enc' = [enc EXCEPT ![m] = IF @ = None THEN Text({e}) ELSE Text(@.edits \cup {e})]
    BY <1>6 DEF Pull
  <2>2. enc'[n] = Text(enc[n].edits \cup {e})
    BY <1>1, <1>6, <2>1 DEF IsText
  <2>3. IsText(enc'[n])
    BY <1>1, <2>2, EditedText
  <2> QED
    BY <2>2, <2>3 DEF Text
<1> QED
  BY <1>2, <1>3, <1>4, <1>5, <1>6, WhoWritesCiphertext DEF Lost

\* With one terminal, a ciphertext that can be decrypted is never replaced by one
\* that cannot, although the redirections of env-new and env-encrypt empty a file
\* before sops runs.
THEOREM CiphertextIsSafe == Spec => CiphertextSurvives
<1>1. TypeInv /\ (OneTerminal => AloneInv) /\ [Next]_vars
        => [OneTerminal => \A n \in Names : IsText(enc[n]) => IsText(enc'[n])]_vars
  BY CiphertextStep
<1> QED
  BY <1>1, AloneInvariant, PTL DEF Spec, CiphertextSurvives

\* With one terminal, only the folding back of a copy loses an edit of a ciphertext (env-encrypt);
\* env-edit, env-new and git pull do not.
THEOREM OnlyFoldingLosesEdits == Spec => EditsSurviveEditing
<1>1. TypeInv /\ (OneTerminal => AloneInv) /\ [Next]_vars
        => [OneTerminal =>
              \A n \in Names :
                Lost(n) => \E t \in Terminals : job[t].recipe = "env-encrypt"]_vars
  BY CiphertextStep DEF Lost
<1> QED
  BY <1>1, AloneInvariant, PTL DEF Spec, EditsSurviveEditing

\* With one terminal, a .env that is not a link of the recipes is never removed or replaced by them,
\* its user being busy while a recipe runs (env-use, env-unuse).
THEOREM OwnEnvIsSafe == Spec => OwnEnvKept
<1>1. ASSUME AloneInv, [Next]_vars, link = "foreign" PROVE link' = "foreign"
  <2>1. \A t \in Terminals : ~RemoveLink(t)
    BY <1>1, EnvFilesAssumption DEF RemoveLink, At, AloneInv, AloneJob, Managed
  <2>2. \A t \in Terminals : MakeLink(t) \/ OwnEnv(t) => link' = "foreign"
    BY <1>1, EnvFilesAssumption DEF MakeLink, OwnEnv
  <2> QED
    BY <1>1, <2>1, <2>2
       DEF Next, vars, Begin, Finish, MakeTemp, SopsDecrypt, MoveTemp, CheckLink, MakeLink,
           OpenEdit, SaveEdit, CopyIn, CheckFresh, Truncate, Seal, Wipe, RemoveCopy,
           EnvRun, EnvDockerRun, EnvK8sSecret, EditCopy, Pull, OwnEnv, Interrupt
<1>2. (OneTerminal => AloneInv) /\ [Next]_vars
        => [(OneTerminal /\ link = "foreign") => link' = "foreign"]_vars
  BY <1>1
<1> QED
  BY <1>2, AloneInvariant, PTL DEF Spec, OwnEnvKept

\* With one terminal, when env-clean has come to its end no plaintext is left in env/dec, unless a
\* decryption has been interrupted and left a temporary file.
THEOREM CleanIsClean == Spec => CleanLeavesNothing
<1>1. ASSUME TypeInv, AloneInv, [Next]_vars, NEW t \in Terminals, OneTerminal,
             interrupts = 0, At(t, {"env-clean"}, "next"), job[t].todo = {}, job'[t] = Idle
      PROVE  ~PlaintextOnDisk'
  <2>1. ~litter /\ \A n \in Names : ~IsText(dec[n])
    BY <1>1 DEF AloneInv, AloneJob, Tidy, At
  <2>2. job[t] # Idle
    BY <1>1 DEF At, Idle, Job
  <2>3. PICK u \in Terminals : Act(u) \/ UNCHANGED vars
    BY <1>1 DEF Next, Act
  <2>4. job' # job /\ job[t].at = "next"
    BY <1>1, <2>2 DEF At
  <2>5. ~( \/ MakeTemp(t) \/ OpenEdit(t) \/ CheckFresh(t) \/ Wipe(t)
           \/ EnvRun(t) \/ EnvDockerRun(t) \/ EnvK8sSecret(t) )
    BY <1>1 DEF Take, MakeTemp, OpenEdit, CheckFresh, Wipe, EnvRun, EnvDockerRun, EnvK8sSecret
  <2>6. ~( \/ SopsDecrypt(t) \/ MoveTemp(t) \/ CheckLink(t) \/ RemoveLink(t) \/ MakeLink(t)
           \/ SaveEdit(t) \/ CopyIn(t) \/ Truncate(t) \/ Seal(t) \/ RemoveCopy(t) )
    BY <2>4 DEF At, SopsDecrypt, MoveTemp, CheckLink, RemoveLink, MakeLink, SaveEdit, CopyIn,
                Truncate, Seal, RemoveCopy
  <2>7. ~(Begin(t) \/ EditCopy(t) \/ Pull(t) \/ OwnEnv(t))
    BY <2>2 DEF Begin, EditCopy, Pull, OwnEnv
  <2>8. Finish(t) \/ Interrupt(t)
    <3>1. job[t] # Closed
      BY <1>1 DEF At, Closed, Job
    <3>2. Act(u)
      BY <2>3, <2>4 DEF vars
    <3>3. u = t
      BY <1>1, <3>1, <3>2, ActingIsOpen DEF OneTerminal
    <3> QED
      BY <3>2, <3>3, <2>5, <2>6, <2>7 DEF Act
  <2> QED
    BY <1>1, <2>1, <2>8 DEF Finish, Interrupt, At, PlaintextOnDisk
<1>2. TypeInv /\ (OneTerminal => AloneInv) /\ [Next]_vars
        => [OneTerminal =>
              \A t \in Terminals :
                (interrupts = 0 /\ At(t, {"env-clean"}, "next") /\ job[t].todo = {})
                  => (job'[t] = Idle => ~PlaintextOnDisk')]_vars
  BY <1>1
<1> QED
  BY <1>2, AloneInvariant, PTL DEF Spec, CleanLeavesNothing
=============================================================================
