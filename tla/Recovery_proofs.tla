---------------------------- MODULE Recovery_proofs ----------------------------
(***************************************************************************)
(* What recovery preserves, for any number of workers, saves and restarts. *)
(***************************************************************************)
EXTENDS Recovery, TLAPS

LEMMA InitInv == Init => Inv
<1>1. Init => TypeOK /\ NothingSkipped /\ CountNotAhead /\ CopiesCovered /\ CopiesNotAhead
  BY DEF Init, TypeOK, NothingSkipped, CountNotAhead, CopiesCovered, CopiesNotAhead,
         Covered, Down, Asleep, BootState, SaverState, X
<1>2. Init => StepRestored
  BY DEF Init, StepRestored, Down, Asleep, Past, Read, Booting, Saving
<1>3. Init => CountRestored
  BY DEF Init, CountRestored, Down, Asleep, Booting, Saving
<1> QED  BY <1>1, <1>2, <1>3 DEF Inv

-----------------------------------------------------------------------------
(* Types *)

LEMMA BootOnType ==
  ASSUME TypeOK, NEW w \in Worker, NEW b \in BootState, BootOn(w, b)
  PROVE  boot' \in [Worker -> BootState]
BY DEF TypeOK, BootOn

LEMMA SaverOnType ==
  ASSUME TypeOK, NEW w \in Worker, NEW s \in SaverState, SaverOn(w, s)
  PROVE  saver' \in [Worker -> SaverState]
BY DEF TypeOK, SaverOn

LEMMA CountsType ==
  ASSUME TypeOK, NEW k \in {"start", "save", "reset", "reboot", "rewind"}, Counts(k)
  PROVE  used' \in [{"start", "save", "reset", "reboot", "rewind"} -> Nat]
<1>1. used[k] + 1 \in Nat
  BY DEF TypeOK
<1> QED  BY <1>1 DEF TypeOK, Counts

LEMMA NextType == ASSUME TypeOK, [Next]_vars PROVE TypeOK'
<1> USE DEF keydbVars, savedVars, history
<1>0. /\ Down \in BootState /\ Up \in BootState /\ Asleep \in SaverState
      /\ \A w \in Worker : boot[w] \in BootState /\ saver[w] \in SaverState
      /\ step \in Nat /\ completed \in Nat /\ savedStep \in Nat
      /\ savedCompleted \in Nat
  BY DEF TypeOK, Down, Up, Asleep, BootState, SaverState
<1>1. ASSUME NEW w \in Worker, Start(w) PROVE TypeOK'
  <2>1. [Down EXCEPT !.pc = "getCompleted", !.step = step] \in BootState
    BY <1>0 DEF BootState
  <2> QED  BY <1>1, <2>1, BootOnType, CountsType DEF Start, TypeOK
<1>2. ASSUME NEW w \in Worker, GetCompleted(w) PROVE TypeOK'
  <2>1. [boot[w] EXCEPT !.pc = "getSavedStep", !.completed = completed] \in BootState
    BY <1>0 DEF BootState
  <2> QED  BY <1>2, <2>1, BootOnType DEF GetCompleted, TypeOK
<1>3. ASSUME NEW w \in Worker, GetSavedStep(w) PROVE TypeOK'
  <2>1. [boot[w] EXCEPT !.pc = "getSavedCompleted", !.savedStep = savedStep]
          \in BootState
    BY <1>0 DEF BootState
  <2> QED  BY <1>3, <2>1, BootOnType DEF GetSavedStep, TypeOK
<1>4. ASSUME NEW w \in Worker, GetSavedCompleted(w) PROVE TypeOK'
  <2>1. [boot[w] EXCEPT !.pc = "setStep", !.savedCompleted = savedCompleted]
          \in BootState
    BY <1>0 DEF BootState
  <2> QED  BY <1>4, <2>1, BootOnType DEF GetSavedCompleted, TypeOK
<1>5. ASSUME NEW w \in Worker, RestoreStep(w) PROVE TypeOK'
  <2>1. [boot[w] EXCEPT !.pc = "setCompleted"] \in BootState
    BY <1>0 DEF BootState
  <2>2. boot[w].savedStep \in Nat
    BY <1>0 DEF BootState
  <2> QED  BY <1>0, <1>5, <2>1, <2>2, BootOnType DEF RestoreStep, Restored, TypeOK
<1>6. ASSUME NEW w \in Worker, RestoreCompleted(w) PROVE TypeOK'
  <2>1. boot[w].savedCompleted \in Nat
    BY <1>0 DEF BootState
  <2> QED  BY <1>0, <1>6, <2>1, BootOnType DEF RestoreCompleted, CountSet, TypeOK
<1>7. ASSUME NEW w \in Worker, SaveBegins(w) PROVE TypeOK'
  <2>1. [Asleep EXCEPT !.pc = "getCompleted", !.step = step] \in SaverState
    BY <1>0 DEF SaverState
  <2> QED  BY <1>7, <2>1, SaverOnType, CountsType DEF SaveBegins, TypeOK
<1>8. ASSUME NEW w \in Worker, SaveReads(w) PROVE TypeOK'
  <2>1. [saver[w] EXCEPT !.pc = "saveStep", !.completed = completed] \in SaverState
    BY <1>0 DEF SaverState
  <2> QED  BY <1>8, <2>1, SaverOnType DEF SaveReads, TypeOK
<1>9. ASSUME NEW w \in Worker, SaveStep(w) PROVE TypeOK'
  <2>1. /\ [saver[w] EXCEPT !.pc = "saveCompleted"] \in SaverState
        /\ saver[w].step \in Nat
    BY <1>0 DEF SaverState
  <2> QED  BY <1>9, <2>1, SaverOnType DEF SaveStep, TypeOK
<1>10. ASSUME NEW w \in Worker, SaveCompleted(w) PROVE TypeOK'
  <2>1. saver[w].completed \in Nat
    BY <1>0 DEF SaverState
  <2> QED  BY <1>0, <1>10, <2>1, SaverOnType DEF SaveCompleted, TypeOK
<1>f. ASSUME NEW w \in Worker, SaveFails(w) PROVE TypeOK'
  BY <1>0, <1>f, SaverOnType DEF SaveFails, TypeOK
<1>11. ASSUME NEW w \in Worker, Claim(w) PROVE TypeOK'
  BY <1>11, BoundsAssumption DEF Claim, Left, TypeOK, X
<1>12. ASSUME NEW w \in Worker, NEW x \in X, Acknowledge(w, x) PROVE TypeOK'
  BY <1>12 DEF Acknowledge, TypeOK
<1>13. ASSUME NEW w \in Worker, Rewind(w) PROVE TypeOK'
  BY <1>13, CountsType DEF Rewind, Disturbs, TypeOK
<1>14. ASSUME NEW w \in Worker, Crash(w) PROVE TypeOK'
  BY <1>0, <1>14, BootOnType, SaverOnType DEF Crash, TypeOK
<1>15. CASE Reset
  BY <1>15, CountsType DEF Reset, Disturbs, KeyDBEmpties, TypeOK
<1>16. CASE Reboot
  BY <1>0, <1>16, CountsType DEF Reboot, Disturbs, KeyDBEmpties, TypeOK
<1>17. CASE UNCHANGED vars
  BY <1>17 DEF vars, TypeOK
<1> QED
  BY <1>1, <1>2, <1>3, <1>4, <1>5, <1>6, <1>7, <1>8, <1>9, <1>10, <1>f, <1>11,
     <1>12, <1>13, <1>14, <1>15, <1>16, <1>17 DEF Next, WorkerStep

-----------------------------------------------------------------------------
(* Nothing skipped *)

\* What was covered stays covered: X are only added to `claimed'.
LEMMA CoveredStays ==
  ASSUME TypeOK, [Next]_vars, NEW n \in Nat, Covered(n)
  PROVE  Covered(n)'
<1>1. claimed \subseteq claimed'
  BY DEF Next, WorkerStep, Start, GetCompleted, GetSavedStep, GetSavedCompleted,
         RestoreStep, RestoreCompleted, SaveBegins, SaveReads, SaveStep,
         SaveCompleted, SaveFails, Claim, Acknowledge, Rewind, Crash, Reset, Reboot,
         KeyDBEmpties, vars, history
<1> QED  BY <1>1 DEF Covered

\* Where the values that a step leaves in the workers and in SQLite come from.
BootCopied ==
  \A w \in Worker :
    /\ boot'[w].savedStep \in {0, boot[w].savedStep, savedStep}
    /\ boot'[w].savedCompleted \in {0, boot[w].savedCompleted, savedCompleted}

SaverCopied ==
  \A w \in Worker :
    /\ saver'[w].step \in {0, saver[w].step, step}
    /\ saver'[w].completed \in {0, saver[w].completed, completed}

SavedCopied ==
  /\ savedStep' = savedStep \/ \E w \in Worker : savedStep' = saver[w].step
  /\ \/ savedCompleted' = savedCompleted
     \/ \E w \in Worker : savedCompleted' = saver[w].completed

Copied == BootCopied /\ SaverCopied /\ SavedCopied

LEMMA BootOnCopies ==
  ASSUME TypeOK, NEW w \in Worker, NEW b, BootOn(w, b),
         b.savedStep \in {0, boot[w].savedStep, savedStep},
         b.savedCompleted \in {0, boot[w].savedCompleted, savedCompleted}
  PROVE  BootCopied
<1>1. boot'[w] = b /\ \A v \in Worker \ {w} : boot'[v] = boot[v]
  BY DEF TypeOK, BootOn
<1> QED  BY <1>1 DEF BootCopied

LEMMA SaverOnCopies ==
  ASSUME TypeOK, NEW w \in Worker, NEW s, SaverOn(w, s),
         s.step \in {0, saver[w].step, step},
         s.completed \in {0, saver[w].completed, completed}
  PROVE  SaverCopied
<1>1. saver'[w] = s /\ \A v \in Worker \ {w} : saver'[v] = saver[v]
  BY DEF TypeOK, SaverOn
<1> QED  BY <1>1 DEF SaverCopied

LEMMA NextCopies == ASSUME TypeOK, [Next]_vars PROVE Copied
<1> USE DEF keydbVars, savedVars, history
<1>0. \A w \in Worker : boot[w] \in BootState /\ saver[w] \in SaverState
  BY DEF TypeOK
<1>a. ASSUME UNCHANGED boot PROVE BootCopied
  BY <1>a DEF BootCopied
<1>b. ASSUME UNCHANGED saver PROVE SaverCopied
  BY <1>b DEF SaverCopied
<1>c. ASSUME UNCHANGED savedVars PROVE SavedCopied
  BY <1>c DEF SavedCopied
<1>1. ASSUME NEW w \in Worker, Start(w) PROVE Copied
  <2> DEFINE b == [Down EXCEPT !.pc = "getCompleted", !.step = step]
  <2>1. b.savedStep = 0 /\ b.savedCompleted = 0
    BY DEF Down
  <2>2. BootOn(w, b) /\ UNCHANGED <<saver, savedVars>>
    BY <1>1 DEF Start
  <2> HIDE DEF b
  <2> QED  BY <1>b, <1>c, <2>1, <2>2, BootOnCopies DEF Copied
<1>2. ASSUME NEW w \in Worker, GetCompleted(w) PROVE Copied
  <2> DEFINE b == [boot[w] EXCEPT !.pc = "getSavedStep", !.completed = completed]
  <2>1. b.savedStep = boot[w].savedStep /\ b.savedCompleted = boot[w].savedCompleted
    BY <1>0 DEF BootState
  <2>2. BootOn(w, b) /\ UNCHANGED <<saver, savedVars>>
    BY <1>2 DEF GetCompleted
  <2> HIDE DEF b
  <2> QED  BY <1>b, <1>c, <2>1, <2>2, BootOnCopies DEF Copied
<1>3. ASSUME NEW w \in Worker, GetSavedStep(w) PROVE Copied
  <2> DEFINE b == [boot[w] EXCEPT !.pc = "getSavedCompleted", !.savedStep = savedStep]
  <2>1. b.savedStep = savedStep /\ b.savedCompleted = boot[w].savedCompleted
    BY <1>0 DEF BootState
  <2>2. BootOn(w, b) /\ UNCHANGED <<saver, savedVars>>
    BY <1>3 DEF GetSavedStep
  <2> HIDE DEF b
  <2> QED  BY <1>b, <1>c, <2>1, <2>2, BootOnCopies DEF Copied
<1>4. ASSUME NEW w \in Worker, GetSavedCompleted(w) PROVE Copied
  <2> DEFINE b == [boot[w] EXCEPT !.pc = "setStep", !.savedCompleted = savedCompleted]
  <2>1. b.savedStep = boot[w].savedStep /\ b.savedCompleted = savedCompleted
    BY <1>0 DEF BootState
  <2>2. BootOn(w, b) /\ UNCHANGED <<saver, savedVars>>
    BY <1>4 DEF GetSavedCompleted
  <2> HIDE DEF b
  <2> QED  BY <1>b, <1>c, <2>1, <2>2, BootOnCopies DEF Copied
<1>5. ASSUME NEW w \in Worker, RestoreStep(w) PROVE Copied
  <2> DEFINE b == [boot[w] EXCEPT !.pc = "setCompleted"]
  <2>1. b.savedStep = boot[w].savedStep /\ b.savedCompleted = boot[w].savedCompleted
    BY <1>0 DEF BootState
  <2>2. BootOn(w, b) /\ UNCHANGED <<saver, savedVars>>
    BY <1>5 DEF RestoreStep
  <2> HIDE DEF b
  <2> QED  BY <1>b, <1>c, <2>1, <2>2, BootOnCopies DEF Copied
<1>6. ASSUME NEW w \in Worker, RestoreCompleted(w) PROVE Copied
  <2>1. Up.savedStep = 0 /\ Up.savedCompleted = 0
    BY DEF Up, Down
  <2>2. BootOn(w, Up) /\ UNCHANGED <<saver, savedVars>>
    BY <1>6 DEF RestoreCompleted
  <2> QED  BY <1>b, <1>c, <2>1, <2>2, BootOnCopies DEF Copied
<1>7. ASSUME NEW w \in Worker, SaveBegins(w) PROVE Copied
  <2> DEFINE s == [Asleep EXCEPT !.pc = "getCompleted", !.step = step]
  <2>1. s.step = step /\ s.completed = 0
    BY DEF Asleep
  <2>2. SaverOn(w, s) /\ UNCHANGED <<boot, savedVars>>
    BY <1>7 DEF SaveBegins
  <2> HIDE DEF s
  <2> QED  BY <1>a, <1>c, <2>1, <2>2, SaverOnCopies DEF Copied
<1>8. ASSUME NEW w \in Worker, SaveReads(w) PROVE Copied
  <2> DEFINE s == [saver[w] EXCEPT !.pc = "saveStep", !.completed = completed]
  <2>1. s.step = saver[w].step /\ s.completed = completed
    BY <1>0 DEF SaverState
  <2>2. SaverOn(w, s) /\ UNCHANGED <<boot, savedVars>>
    BY <1>8 DEF SaveReads
  <2> HIDE DEF s
  <2> QED  BY <1>a, <1>c, <2>1, <2>2, SaverOnCopies DEF Copied
<1>9. ASSUME NEW w \in Worker, SaveStep(w) PROVE Copied
  <2> DEFINE s == [saver[w] EXCEPT !.pc = "saveCompleted"]
  <2>1. s.step = saver[w].step /\ s.completed = saver[w].completed
    BY <1>0 DEF SaverState
  <2>2. /\ SaverOn(w, s) /\ UNCHANGED <<boot, savedCompleted>>
        /\ savedStep' = saver[w].step
    BY <1>9 DEF SaveStep
  <2> HIDE DEF s
  <2>3. SavedCopied
    BY <2>2 DEF SavedCopied
  <2> QED  BY <1>a, <2>1, <2>2, <2>3, SaverOnCopies DEF Copied
<1>10. ASSUME NEW w \in Worker, SaveCompleted(w) PROVE Copied
  <2>1. Asleep.step = 0 /\ Asleep.completed = 0
    BY DEF Asleep
  <2>2. /\ SaverOn(w, Asleep) /\ UNCHANGED <<boot, savedStep>>
        /\ savedCompleted' = saver[w].completed
    BY <1>10 DEF SaveCompleted
  <2>3. SavedCopied
    BY <2>2 DEF SavedCopied
  <2> QED  BY <1>a, <2>1, <2>2, <2>3, SaverOnCopies DEF Copied
<1>f. ASSUME NEW w \in Worker, SaveFails(w) PROVE Copied
  <2>1. Asleep.step = 0 /\ Asleep.completed = 0
    BY DEF Asleep
  <2>2. SaverOn(w, Asleep) /\ UNCHANGED <<boot, savedVars>>
    BY <1>f DEF SaveFails
  <2> QED  BY <1>a, <1>c, <2>1, <2>2, SaverOnCopies DEF Copied
<1>11. ASSUME NEW w \in Worker,
              Claim(w) \/ (\E x \in X : Acknowledge(w, x)) \/ Rewind(w)
       PROVE  Copied
  <2>1. UNCHANGED <<boot, saver, savedVars>>
    BY <1>11 DEF Claim, Acknowledge, Rewind
  <2> QED  BY <1>a, <1>b, <1>c, <2>1 DEF Copied
<1>12. ASSUME NEW w \in Worker, Crash(w) PROVE Copied
  <2>1. /\ Down.savedStep = 0 /\ Down.savedCompleted = 0
        /\ Asleep.step = 0 /\ Asleep.completed = 0
    BY DEF Down, Asleep
  <2>2. BootOn(w, Down) /\ SaverOn(w, Asleep) /\ UNCHANGED savedVars
    BY <1>12 DEF Crash
  <2>3. BootCopied
    BY <2>1, <2>2, BootOnCopies
  <2>4. SaverCopied
    BY <2>1, <2>2, SaverOnCopies
  <2> QED  BY <1>c, <2>2, <2>3, <2>4 DEF Copied
<1>13. CASE Reset \/ UNCHANGED vars
  BY <1>a, <1>b, <1>c, <1>13 DEF Copied, Reset, KeyDBEmpties, vars
<1>14. CASE Reboot
  <2>1. /\ Down.savedStep = 0 /\ Down.savedCompleted = 0
        /\ Asleep.step = 0 /\ Asleep.completed = 0
    BY DEF Down, Asleep
  <2>2. /\ \A w \in Worker : boot'[w] = Down /\ saver'[w] = Asleep
        /\ UNCHANGED savedVars
    BY <1>14 DEF Reboot, KeyDBEmpties
  <2> QED  BY <1>c, <2>1, <2>2 DEF Copied, BootCopied, SaverCopied
<1> QED
  BY <1>1, <1>2, <1>3, <1>4, <1>5, <1>6, <1>7, <1>8, <1>9, <1>10, <1>f, <1>11,
     <1>12, <1>13, <1>14 DEF Next, WorkerStep

\* Where the step itself comes from.
LEMMA NextStep ==
  ASSUME TypeOK, [Next]_vars
  PROVE  \/ step' \in {0, step}
         \/ step' = step + 1 /\ claimed' = claimed \cup {step}
         \/ \E w \in Worker : step' = boot[w].savedStep
<1> USE DEF keydbVars
<1>1. ASSUME NEW w \in Worker, RestoreStep(w)
      PROVE  step' = step \/ step' = boot[w].savedStep
  BY <1>1 DEF RestoreStep, Restored
<1>2. ASSUME NEW w \in Worker, WorkerStep(w), ~RestoreStep(w)
      PROVE  \/ step' \in {0, step}
             \/ step' = step + 1 /\ claimed' = claimed \cup {step}
  BY <1>2 DEF WorkerStep, Start, GetCompleted, GetSavedStep, GetSavedCompleted,
              RestoreCompleted, SaveBegins, SaveReads, SaveStep, SaveCompleted,
              SaveFails, Claim, Acknowledge, Rewind, Crash
<1>3. CASE Reset \/ Reboot \/ UNCHANGED vars
  BY <1>3 DEF Reset, Reboot, KeyDBEmpties, vars
<1> QED  BY <1>1, <1>2, <1>3 DEF Next

LEMMA NextCovered ==
  ASSUME TypeOK, TypeOK', NothingSkipped, CopiesCovered, [Next]_vars
  PROVE  NothingSkipped' /\ CopiesCovered'
<1> DEFINE CoveredNext(n) == \A x \in X : x < n => x \in claimed'
<1>1. /\ step \in Nat /\ savedStep \in Nat
      /\ \A w \in Worker : boot[w].savedStep \in Nat /\ saver[w].step \in Nat
  BY DEF TypeOK, BootState, SaverState
<1>2. /\ CoveredNext(0) /\ CoveredNext(step) /\ CoveredNext(savedStep)
      /\ \A w \in Worker :
           CoveredNext(boot[w].savedStep) /\ CoveredNext(saver[w].step)
  <2>1. CoveredNext(0)
    BY DEF X
  <2> QED  BY <1>1, <2>1, CoveredStays DEF NothingSkipped, CopiesCovered, Covered
<1>3. CoveredNext(step')
  <2>1. CASE step' = step + 1 /\ claimed' = claimed \cup {step}
    <3>1. \A x \in X : x < step + 1 => x < step \/ x = step
      BY <1>1 DEF X
    <3> QED  BY <1>2, <2>1, <3>1
  <2> QED  BY <1>2, <2>1, NextStep
<1>4. /\ CoveredNext(savedStep')
      /\ \A w \in Worker :
           CoveredNext(boot'[w].savedStep) /\ CoveredNext(saver'[w].step)
  <2> HIDE DEF CoveredNext
  <2> QED  BY <1>2, NextCopies DEF Copied, SavedCopied, BootCopied, SaverCopied
<1> QED  BY <1>3, <1>4 DEF NothingSkipped, CopiesCovered, Covered

-----------------------------------------------------------------------------
(* No invented progress *)

LEMMA NextAcks ==
  ASSUME TypeOK, [Next]_vars
  PROVE  \/ completed' \in {0, completed} /\ acks' = acks
         \/ completed' = completed + 1 /\ acks' = acks + 1
         \/ acks' = acks /\ \E w \in Worker : completed' = boot[w].savedCompleted
<1> USE DEF keydbVars, history
<1>1. ASSUME NEW w \in Worker, RestoreCompleted(w)
      PROVE  /\ acks' = acks
             /\ completed' = completed \/ completed' = boot[w].savedCompleted
  BY <1>1 DEF RestoreCompleted, CountSet
<1>2. ASSUME NEW w \in Worker, WorkerStep(w), ~RestoreCompleted(w)
      PROVE  \/ completed' = completed /\ acks' = acks
             \/ completed' = completed + 1 /\ acks' = acks + 1
  BY <1>2 DEF WorkerStep, Start, GetCompleted, GetSavedStep, GetSavedCompleted,
              RestoreStep, SaveBegins, SaveReads, SaveStep, SaveCompleted,
              SaveFails, Claim, Acknowledge, Rewind, Crash
<1>3. CASE Reset \/ Reboot \/ UNCHANGED vars
  BY <1>3 DEF Reset, Reboot, KeyDBEmpties, vars
<1> QED  BY <1>1, <1>2, <1>3 DEF Next

LEMMA NextNotAhead ==
  ASSUME TypeOK, CountNotAhead, CopiesNotAhead, [Next]_vars
  PROVE  CountNotAhead' /\ CopiesNotAhead'
<1>1. /\ completed \in Nat /\ savedCompleted \in Nat /\ acks \in Nat
      /\ \A w \in Worker :
           boot[w].savedCompleted \in Nat /\ saver[w].completed \in Nat
  BY DEF TypeOK, BootState, SaverState
<1>2. /\ 0 <= acks' /\ completed <= acks' /\ savedCompleted <= acks'
      /\ \A w \in Worker :
           boot[w].savedCompleted <= acks' /\ saver[w].completed <= acks'
  BY <1>1, NextAcks DEF CountNotAhead, CopiesNotAhead
<1>3. completed' <= acks'
  BY <1>1, <1>2, NextAcks DEF CountNotAhead
<1>4. /\ savedCompleted' <= acks'
      /\ \A w \in Worker :
           boot'[w].savedCompleted <= acks' /\ saver'[w].completed <= acks'
  BY <1>2, NextCopies DEF Copied, SavedCopied, BootCopied, SaverCopied
<1> QED  BY <1>3, <1>4 DEF CountNotAhead, CopiesNotAhead

-----------------------------------------------------------------------------
(* Served from the saved position *)

LEMMA DisturbedBefore ==
  ASSUME TypeOK, [Next]_vars
  PROVE  /\ Together' => Together /\ ~Reset
         /\ Undisturbed' => Undisturbed /\ \A w \in Worker : ~Rewind(w)
<1>1. ASSUME NEW k \in {"start", "save", "reset", "reboot", "rewind"}, Counts(k)
      PROVE  /\ used'[k] = used[k] + 1
             /\ \A j \in {"reset", "rewind"} : j # k => used'[j] = used[j]
  BY <1>1 DEF Counts, TypeOK
<1>2. used["reset"] \in Nat /\ used["rewind"] \in Nat
  BY DEF TypeOK
<1>3. \/ UNCHANGED used
      \/ \E k \in {"start", "save", "reset", "reboot", "rewind"} : Counts(k)
  BY DEF Next, WorkerStep, Start, GetCompleted, GetSavedStep, GetSavedCompleted,
         RestoreStep, RestoreCompleted, SaveBegins, SaveReads, SaveStep,
         SaveCompleted, SaveFails, Claim, Acknowledge, Rewind, Crash, Reset, Reboot,
         Disturbs, vars
<1>4. (Together' => Together) /\ (Undisturbed' => Undisturbed)
  BY <1>1, <1>2, <1>3 DEF Together, Undisturbed
<1>5. (Together' => ~Counts("reset")) /\ (Undisturbed' => ~Counts("rewind"))
  BY <1>1, <1>2, <1>4 DEF Together, Undisturbed
<1> QED  BY <1>4, <1>5 DEF Reset, Rewind, Disturbs

\* The parts of StepRestored that speak of one worker.
BootRestored(w) ==
  /\ Past(w) \/ (~Booting(w, "down") /\ boot[w].step > 0) => step >= floor
  /\ Read(w) => boot[w].savedStep >= floor

SaverRestored(w) ==
  ~Saving(w, "asleep") => saver[w].step >= floor /\ Booting(w, "up")

LEMMA RestoredParts ==
  StepRestored <=> /\ savedStep >= floor /\ (step = 0 \/ step >= floor)
                   /\ \A w \in Worker : BootRestored(w) /\ SaverRestored(w)
BY DEF StepRestored, BootRestored, SaverRestored

\* A starting worker takes a step that leaves KeyDB and the saver alone.
LEMMA BootStepRestored ==
  ASSUME TypeOK, StepRestored, NEW w \in Worker, NEW b \in BootState, BootOn(w, b),
         UNCHANGED <<step, savedStep, saver, floor>>, ~Booting(w, "up"),
         b.pc \in {"setCompleted", "up"} \/ b.step > 0 => step >= floor,
         b.pc \in {"getSavedCompleted", "setStep"} => b.savedStep >= floor
  PROVE  StepRestored'
<1>1. boot'[w] = b /\ \A v \in Worker \ {w} : boot'[v] = boot[v]
  BY DEF TypeOK, BootOn
<1>2. ASSUME NEW v \in Worker, v # w PROVE BootRestored(v)' /\ SaverRestored(v)'
  BY <1>1, <1>2, RestoredParts
     DEF BootRestored, SaverRestored, Past, Read, Booting, Saving
<1>3. BootRestored(w)' /\ SaverRestored(w)'
  BY <1>1, RestoredParts DEF BootRestored, SaverRestored, Past, Read, Booting, Saving
<1>4. savedStep' >= floor' /\ (step' = 0 \/ step' >= floor')
  BY RestoredParts
<1> QED
  BY <1>2, <1>3, <1>4 DEF StepRestored, BootRestored, SaverRestored

LEMMA SaverStepRestored ==
  ASSUME TypeOK, StepRestored, NEW w \in Worker, NEW s \in SaverState, SaverOn(w, s),
         UNCHANGED <<step, boot, floor>>, savedStep' >= floor,
         s.pc # "asleep" => s.step >= floor /\ Booting(w, "up")
  PROVE  StepRestored'
<1>1. saver'[w] = s /\ \A v \in Worker \ {w} : saver'[v] = saver[v]
  BY DEF TypeOK, SaverOn
<1>2. ASSUME NEW v \in Worker PROVE BootRestored(v)' /\ SaverRestored(v)'
  <2>1. BootRestored(v)'
    BY RestoredParts DEF BootRestored, Past, Read, Booting
  <2>2. SaverRestored(v)'
    BY <1>1, RestoredParts DEF SaverRestored, Saving, Booting
  <2> QED  BY <2>1, <2>2
<1>3. step' = 0 \/ step' >= floor'
  BY RestoredParts
<1> QED
  BY <1>2, <1>3 DEF StepRestored, BootRestored, SaverRestored

\* The step stays at or above the floor once it is there, whoever writes it.
LEMMA StepStaysRestored ==
  ASSUME StepRestored, UNCHANGED <<savedStep, boot, saver, floor>>,
         step' = step \/ step' >= floor
  PROVE  StepRestored'
BY DEF StepRestored, Past, Read, Booting, Saving

LEMMA NextRestored ==
  ASSUME TypeOK, [Next]_vars, Undisturbed', StepRestored
  PROVE  StepRestored'
<1> USE DEF keydbVars, savedVars, history
<1>0. /\ Down \in BootState /\ Up \in BootState /\ Asleep \in SaverState
      /\ \A w \in Worker : boot[w] \in BootState /\ saver[w] \in SaverState
      /\ step \in Nat /\ completed \in Nat /\ savedStep \in Nat
      /\ savedCompleted \in Nat /\ floor \in Nat
      /\ \A w \in Worker : BootRestored(w) /\ SaverRestored(w)
      /\ savedStep >= floor /\ (step = 0 \/ step >= floor)
  BY RestoredParts DEF TypeOK, Down, Up, Asleep, BootState, SaverState
<1>1. ASSUME NEW w \in Worker, Start(w) PROVE StepRestored'
  <2> DEFINE b == [Down EXCEPT !.pc = "getCompleted", !.step = step]
  <2>1. b \in BootState /\ b.pc = "getCompleted" /\ b.step = step
    BY <1>0 DEF Down, BootState
  <2>2. BootOn(w, b) /\ UNCHANGED <<step, savedStep, saver, floor>> /\ ~Booting(w, "up")
    BY <1>1 DEF Start, Booting
  <2> HIDE DEF b
  <2> QED  BY <1>0, <2>1, <2>2, BootStepRestored
<1>2. ASSUME NEW w \in Worker, GetCompleted(w) PROVE StepRestored'
  <2> DEFINE b == [boot[w] EXCEPT !.pc = "getSavedStep", !.completed = completed]
  <2>1. b \in BootState /\ b.pc = "getSavedStep" /\ b.step = boot[w].step
    BY <1>0 DEF BootState
  <2>2. /\ BootOn(w, b) /\ UNCHANGED <<step, savedStep, saver, floor>>
        /\ ~Booting(w, "up") /\ ~Booting(w, "down")
    BY <1>2 DEF GetCompleted, Booting
  <2>3. boot[w].step > 0 => step >= floor
    BY <1>0, <2>2 DEF BootRestored
  <2> HIDE DEF b
  <2> QED  BY <2>1, <2>2, <2>3, BootStepRestored
<1>3. ASSUME NEW w \in Worker, GetSavedStep(w) PROVE StepRestored'
  <2> DEFINE b == [boot[w] EXCEPT !.pc = "getSavedCompleted", !.savedStep = savedStep]
  <2>1. /\ b \in BootState /\ b.pc = "getSavedCompleted" /\ b.step = boot[w].step
        /\ b.savedStep = savedStep
    BY <1>0 DEF BootState
  <2>2. /\ BootOn(w, b) /\ UNCHANGED <<step, savedStep, saver, floor>>
        /\ ~Booting(w, "up") /\ ~Booting(w, "down")
    BY <1>3 DEF GetSavedStep, Booting
  <2>3. boot[w].step > 0 => step >= floor
    BY <1>0, <2>2 DEF BootRestored
  <2> HIDE DEF b
  <2> QED  BY <1>0, <2>1, <2>2, <2>3, BootStepRestored
<1>4. ASSUME NEW w \in Worker, GetSavedCompleted(w) PROVE StepRestored'
  <2> DEFINE b == [boot[w] EXCEPT !.pc = "setStep", !.savedCompleted = savedCompleted]
  <2>1. /\ b \in BootState /\ b.pc = "setStep" /\ b.step = boot[w].step
        /\ b.savedStep = boot[w].savedStep
    BY <1>0 DEF BootState
  <2>2. /\ BootOn(w, b) /\ UNCHANGED <<step, savedStep, saver, floor>>
        /\ ~Booting(w, "up") /\ ~Booting(w, "down") /\ Read(w)
    BY <1>4 DEF GetSavedCompleted, Booting, Read
  <2>3. (boot[w].step > 0 => step >= floor) /\ boot[w].savedStep >= floor
    BY <1>0, <2>2 DEF BootRestored
  <2> HIDE DEF b
  <2> QED  BY <2>1, <2>2, <2>3, BootStepRestored
<1>5. ASSUME NEW w \in Worker, RestoreStep(w) PROVE StepRestored'
  <2>1. /\ Booting(w, "setStep") /\ ~Booting(w, "down") /\ ~Booting(w, "up") /\ Read(w)
        /\ boot[w].step \in Nat /\ boot[w].savedStep \in Nat
    BY <1>0, <1>5 DEF RestoreStep, Booting, Read, BootState
  <2>2. (boot[w].step > 0 => step >= floor) /\ boot[w].savedStep >= floor
    BY <1>0, <2>1 DEF BootRestored
  <2>3. step' \in Nat /\ step' >= floor
    BY <1>0, <1>5, <2>1, <2>2 DEF RestoreStep, WasReset, Restored
  <2> DEFINE b == [boot[w] EXCEPT !.pc = "setCompleted"]
  <2>4. b.pc = "setCompleted"
    BY <1>0 DEF BootState
  <2>5. BootOn(w, b) /\ UNCHANGED <<savedStep, saver, floor>>
    BY <1>5 DEF RestoreStep
  <2> HIDE DEF b
  <2>6. boot'[w] = b /\ \A v \in Worker \ {w} : boot'[v] = boot[v]
    BY <2>5 DEF TypeOK, BootOn
  <2>7. ASSUME NEW v \in Worker PROVE BootRestored(v)' /\ SaverRestored(v)'
    <3>1. Read(v)' => v # w /\ Read(v) /\ boot'[v] = boot[v]
      BY <2>4, <2>6 DEF Read
    <3>2. BootRestored(v)'
      BY <1>0, <2>3, <2>5, <3>1 DEF BootRestored
    <3>3. SaverRestored(v)'
      <4>1. ~Saving(w, "asleep")' => FALSE
        BY <1>0, <2>1, <2>5 DEF SaverRestored, Saving
      <4> QED  BY <1>0, <2>5, <2>6, <4>1 DEF SaverRestored, Saving, Booting
    <3> QED  BY <3>2, <3>3
  <2> QED
    BY <1>0, <2>3, <2>5, <2>7 DEF StepRestored, BootRestored, SaverRestored
<1>6. ASSUME NEW w \in Worker, RestoreCompleted(w) PROVE StepRestored'
  <2>1. /\ BootOn(w, Up) /\ UNCHANGED <<step, savedStep, saver, floor>>
        /\ ~Booting(w, "up") /\ Past(w)
    BY <1>6 DEF RestoreCompleted, Booting, Past
  <2>2. step >= floor
    BY <1>0, <2>1 DEF BootRestored
  <2>3. Up.pc = "up"
    BY DEF Up, Down
  <2> QED  BY <1>0, <2>1, <2>2, <2>3, BootStepRestored
<1>7. ASSUME NEW w \in Worker, SaveBegins(w) PROVE StepRestored'
  <2> DEFINE s == [Asleep EXCEPT !.pc = "getCompleted", !.step = step]
  <2>1. s \in SaverState /\ s.step = step
    BY <1>0 DEF Asleep, SaverState
  <2>2. SaverOn(w, s) /\ UNCHANGED <<step, savedStep, boot, floor>> /\ Booting(w, "up")
    BY <1>7 DEF SaveBegins
  <2>3. step >= floor
    BY <1>0, <2>2 DEF BootRestored, Past, Booting
  <2> HIDE DEF s
  <2> QED  BY <1>0, <2>1, <2>2, <2>3, SaverStepRestored
<1>8. ASSUME NEW w \in Worker, SaveReads(w) PROVE StepRestored'
  <2> DEFINE s == [saver[w] EXCEPT !.pc = "saveStep", !.completed = completed]
  <2>1. s \in SaverState /\ s.step = saver[w].step
    BY <1>0 DEF SaverState
  <2>2. SaverOn(w, s) /\ UNCHANGED <<step, savedStep, boot, floor>> /\ ~Saving(w, "asleep")
    BY <1>8 DEF SaveReads, Saving
  <2>3. saver[w].step >= floor /\ Booting(w, "up")
    BY <1>0, <2>2 DEF SaverRestored
  <2> HIDE DEF s
  <2> QED  BY <1>0, <2>1, <2>2, <2>3, SaverStepRestored
<1>9. ASSUME NEW w \in Worker, SaveStep(w) PROVE StepRestored'
  <2> DEFINE s == [saver[w] EXCEPT !.pc = "saveCompleted"]
  <2>1. s \in SaverState /\ s.step = saver[w].step
    BY <1>0 DEF SaverState
  <2>2. /\ SaverOn(w, s) /\ UNCHANGED <<step, boot, floor>> /\ ~Saving(w, "asleep")
        /\ savedStep' = saver[w].step
    BY <1>9 DEF SaveStep, Saving
  <2>3. saver[w].step >= floor /\ Booting(w, "up")
    BY <1>0, <2>2 DEF SaverRestored
  <2> HIDE DEF s
  <2> QED  BY <1>0, <2>1, <2>2, <2>3, SaverStepRestored
<1>10. ASSUME NEW w \in Worker, SaveCompleted(w) \/ SaveFails(w) PROVE StepRestored'
  <2>1. SaverOn(w, Asleep) /\ UNCHANGED <<step, savedStep, boot, floor>>
    BY <1>10 DEF SaveCompleted, SaveFails
  <2>2. Asleep.pc = "asleep"
    BY DEF Asleep
  <2> QED  BY <1>0, <2>1, <2>2, SaverStepRestored
<1>11. ASSUME NEW w \in Worker, Claim(w) PROVE StepRestored'
  <2>1. step >= floor
    BY <1>0, <1>11 DEF Claim, BootRestored, Past, Booting
  <2> QED  BY <1>0, <1>11, <2>1, StepStaysRestored DEF Claim
<1>12. ASSUME NEW w \in Worker, NEW x \in X, Acknowledge(w, x) PROVE StepRestored'
  BY <1>12, StepStaysRestored DEF Acknowledge
<1>13. ASSUME NEW w \in Worker, Crash(w) PROVE StepRestored'
  <2>1. /\ boot'[w] = Down /\ \A v \in Worker \ {w} : boot'[v] = boot[v]
        /\ saver'[w] = Asleep /\ \A v \in Worker \ {w} : saver'[v] = saver[v]
        /\ UNCHANGED <<step, savedStep, floor>>
    BY <1>13 DEF Crash, TypeOK, BootOn, SaverOn
  <2>2. Down.pc = "down" /\ Asleep.pc = "asleep"
    BY DEF Down, Asleep
  <2>3. ASSUME NEW v \in Worker PROVE BootRestored(v)' /\ SaverRestored(v)'
    BY <1>0, <2>1, <2>2
       DEF BootRestored, SaverRestored, Past, Read, Booting, Saving
  <2> QED  BY <1>0, <2>1, <2>3 DEF StepRestored, BootRestored, SaverRestored
<1>14. CASE Reboot
  <2>1. /\ \A v \in Worker : boot'[v] = Down /\ saver'[v] = Asleep
        /\ step' = 0 /\ savedStep' = savedStep /\ floor' = savedStep
    BY <1>14 DEF Reboot, KeyDBEmpties
  <2>2. Down.pc = "down" /\ Asleep.pc = "asleep"
    BY DEF Down, Asleep
  <2> QED  BY <1>0, <2>1, <2>2 DEF StepRestored, Past, Read, Booting, Saving
<1>15. CASE UNCHANGED vars
  BY <1>15 DEF vars, StepRestored, Past, Read, Booting, Saving
<1> QED
  BY <1>1, <1>2, <1>3, <1>4, <1>5, <1>6, <1>7, <1>8, <1>9, <1>10, <1>11, <1>12,
     <1>13, <1>14, <1>15, DisturbedBefore DEF Undisturbed, Next, WorkerStep

-----------------------------------------------------------------------------
(* Counted on from the saved count *)

\* The parts of CountRestored that speak of one worker.
BootCounted(w) ==
  /\ Booting(w, "up") \/ boot[w].completed > 0 => completed >= countFloor
  /\ boot[w].pc \in {"setStep", "setCompleted"} => boot[w].savedCompleted >= countFloor

SaverCounted(w) ==
  /\ saver[w].pc \in {"saveStep", "saveCompleted"} => saver[w].completed >= countFloor
  /\ ~Saving(w, "asleep") => Booting(w, "up")

LEMMA CountedParts ==
  CountRestored <=>
    /\ savedCompleted >= countFloor /\ (completed = 0 \/ completed >= countFloor)
    /\ \A w \in Worker : BootCounted(w) /\ SaverCounted(w)
BY DEF CountRestored, BootCounted, SaverCounted

\* A starting worker takes a step; it may be the one that restores the count.
LEMMA BootStepCounted ==
  ASSUME TypeOK, CountRestored, NEW w \in Worker, NEW b, BootOn(w, b),
         UNCHANGED <<savedCompleted, saver, countFloor>>, ~Booting(w, "up"),
         completed' = completed \/ completed' >= countFloor,
         b.pc = "up" \/ b.completed > 0 => completed' >= countFloor,
         b.pc \in {"setStep", "setCompleted"} => b.savedCompleted >= countFloor
  PROVE  CountRestored'
<1>1. boot'[w] = b /\ \A v \in Worker \ {w} : boot'[v] = boot[v]
  BY DEF TypeOK, BootOn
<1>2. ASSUME NEW v \in Worker, v # w PROVE BootCounted(v)' /\ SaverCounted(v)'
  BY <1>1, <1>2, CountedParts DEF BootCounted, SaverCounted, Booting, Saving
<1>3. BootCounted(w)' /\ SaverCounted(w)'
  <2>1. saver[w].pc = "asleep"
    BY CountedParts DEF SaverCounted, Saving
  <2> QED  BY <1>1, <2>1 DEF BootCounted, SaverCounted, Booting, Saving
<1>4. savedCompleted' >= countFloor' /\ (completed' = 0 \/ completed' >= countFloor')
  BY CountedParts
<1> QED  BY <1>2, <1>3, <1>4 DEF CountRestored, BootCounted, SaverCounted

\* A step of the persist loop of a worker that serves.
LEMMA SaverStepCounted ==
  ASSUME TypeOK, CountRestored, NEW w \in Worker, NEW s, SaverOn(w, s),
         UNCHANGED <<completed, boot, countFloor>>, savedCompleted' >= countFloor,
         s.pc # "asleep" => Booting(w, "up"),
         s.pc \in {"saveStep", "saveCompleted"} => s.completed >= countFloor
  PROVE  CountRestored'
<1>1. saver'[w] = s /\ \A v \in Worker \ {w} : saver'[v] = saver[v]
  BY DEF TypeOK, SaverOn
<1>2. ASSUME NEW v \in Worker PROVE BootCounted(v)' /\ SaverCounted(v)'
  <2>1. BootCounted(v)'
    BY CountedParts DEF BootCounted, Booting
  <2>2. SaverCounted(v)'
    BY <1>1, CountedParts DEF SaverCounted, Saving, Booting
  <2> QED  BY <2>1, <2>2
<1>3. completed' = 0 \/ completed' >= countFloor'
  BY CountedParts
<1> QED  BY <1>2, <1>3 DEF CountRestored, BootCounted, SaverCounted

\* The count stays at or above the floor once it is there, whoever writes it.
LEMMA CountStays ==
  ASSUME CountRestored, UNCHANGED <<savedCompleted, boot, saver, countFloor>>,
         completed' = completed \/ completed' >= countFloor
  PROVE  CountRestored'
BY DEF CountRestored, Booting, Saving

LEMMA NextCounted ==
  ASSUME TypeOK, [Next]_vars, Together', CountRestored
  PROVE  CountRestored'
<1> USE DEF keydbVars, savedVars, history
<1>0. /\ \A w \in Worker : boot[w] \in BootState /\ saver[w] \in SaverState
      /\ completed \in Nat /\ savedCompleted \in Nat /\ countFloor \in Nat
      /\ \A w \in Worker : BootCounted(w) /\ SaverCounted(w)
      /\ savedCompleted >= countFloor /\ (completed = 0 \/ completed >= countFloor)
  BY CountedParts DEF TypeOK
<1>d. /\ Down.pc = "down" /\ Down.completed = 0 /\ Up.pc = "up" /\ Up.completed = 0
      /\ Asleep.pc = "asleep"
  BY DEF Down, Up, Asleep
<1>1. ASSUME NEW w \in Worker, Start(w) PROVE CountRestored'
  <2> DEFINE b == [Down EXCEPT !.pc = "getCompleted", !.step = step]
  <2>1. b.pc = "getCompleted" /\ b.completed = 0
    BY DEF Down
  <2>2. /\ BootOn(w, b) /\ UNCHANGED <<completed, savedCompleted, saver, countFloor>>
        /\ ~Booting(w, "up")
    BY <1>1 DEF Start, Booting
  <2> HIDE DEF b
  <2> QED  BY <2>1, <2>2, BootStepCounted
<1>2. ASSUME NEW w \in Worker, GetCompleted(w) PROVE CountRestored'
  <2> DEFINE b == [boot[w] EXCEPT !.pc = "getSavedStep", !.completed = completed]
  <2>1. b.pc = "getSavedStep" /\ b.completed = completed
    BY <1>0 DEF BootState
  <2>2. /\ BootOn(w, b) /\ UNCHANGED <<completed, savedCompleted, saver, countFloor>>
        /\ ~Booting(w, "up")
    BY <1>2 DEF GetCompleted, Booting
  <2> HIDE DEF b
  <2> QED  BY <1>0, <2>1, <2>2, BootStepCounted
<1>3. ASSUME NEW w \in Worker, GetSavedStep(w) PROVE CountRestored'
  <2> DEFINE b == [boot[w] EXCEPT !.pc = "getSavedCompleted", !.savedStep = savedStep]
  <2>1. b.pc = "getSavedCompleted" /\ b.completed = boot[w].completed
    BY <1>0 DEF BootState
  <2>2. /\ BootOn(w, b) /\ UNCHANGED <<completed, savedCompleted, saver, countFloor>>
        /\ ~Booting(w, "up")
    BY <1>3 DEF GetSavedStep, Booting
  <2>3. b.completed > 0 => completed' >= countFloor
    BY <1>0, <2>1, <2>2 DEF BootCounted
  <2> HIDE DEF b
  <2> QED  BY <2>1, <2>2, <2>3, BootStepCounted
<1>4. ASSUME NEW w \in Worker, GetSavedCompleted(w) PROVE CountRestored'
  <2> DEFINE b == [boot[w] EXCEPT !.pc = "setStep", !.savedCompleted = savedCompleted]
  <2>1. /\ b.pc = "setStep" /\ b.completed = boot[w].completed
        /\ b.savedCompleted = savedCompleted
    BY <1>0 DEF BootState
  <2>2. /\ BootOn(w, b) /\ UNCHANGED <<completed, savedCompleted, saver, countFloor>>
        /\ ~Booting(w, "up")
    BY <1>4 DEF GetSavedCompleted, Booting
  <2>3. b.completed > 0 => completed' >= countFloor
    BY <1>0, <2>1, <2>2 DEF BootCounted
  <2> HIDE DEF b
  <2> QED  BY <1>0, <2>1, <2>2, <2>3, BootStepCounted
<1>5. ASSUME NEW w \in Worker, RestoreStep(w) PROVE CountRestored'
  <2> DEFINE b == [boot[w] EXCEPT !.pc = "setCompleted"]
  <2>1. /\ b.pc = "setCompleted" /\ b.completed = boot[w].completed
        /\ b.savedCompleted = boot[w].savedCompleted
    BY <1>0 DEF BootState
  <2>2. /\ BootOn(w, b) /\ UNCHANGED <<completed, savedCompleted, saver, countFloor>>
        /\ ~Booting(w, "up") /\ boot[w].pc = "setStep"
    BY <1>5 DEF RestoreStep, Booting
  <2>3. /\ b.completed > 0 => completed' >= countFloor
        /\ b.savedCompleted >= countFloor
    BY <1>0, <2>1, <2>2 DEF BootCounted
  <2> HIDE DEF b
  <2> QED  BY <2>1, <2>2, <2>3, BootStepCounted
<1>6. ASSUME NEW w \in Worker, RestoreCompleted(w) PROVE CountRestored'
  <2>1. /\ BootOn(w, Up) /\ UNCHANGED <<savedCompleted, saver, countFloor>>
        /\ ~Booting(w, "up") /\ boot[w].pc = "setCompleted"
    BY <1>6 DEF RestoreCompleted, Booting
  <2>2. /\ boot[w].completed \in Nat /\ boot[w].savedCompleted \in Nat
        /\ boot[w].savedCompleted >= countFloor
        /\ boot[w].completed > 0 => completed >= countFloor
    BY <1>0, <2>1 DEF BootCounted, BootState
  <2>3. completed' >= countFloor
    BY <1>0, <1>6, <2>2 DEF RestoreCompleted, WasReset, CountSet
  <2> QED  BY <1>d, <2>1, <2>3, BootStepCounted
<1>7. ASSUME NEW w \in Worker, SaveBegins(w) PROVE CountRestored'
  <2> DEFINE s == [Asleep EXCEPT !.pc = "getCompleted", !.step = step]
  <2>1. s.pc = "getCompleted"
    BY DEF Asleep
  <2>2. /\ SaverOn(w, s) /\ UNCHANGED <<completed, savedCompleted, boot, countFloor>>
        /\ Booting(w, "up")
    BY <1>7 DEF SaveBegins
  <2> HIDE DEF s
  <2> QED  BY <1>0, <2>1, <2>2, SaverStepCounted
<1>8. ASSUME NEW w \in Worker, SaveReads(w) PROVE CountRestored'
  <2> DEFINE s == [saver[w] EXCEPT !.pc = "saveStep", !.completed = completed]
  <2>1. s.completed = completed
    BY <1>0 DEF SaverState
  <2>2. /\ SaverOn(w, s) /\ UNCHANGED <<completed, savedCompleted, boot, countFloor>>
        /\ ~Saving(w, "asleep")
    BY <1>8 DEF SaveReads, Saving
  <2>3. Booting(w, "up") /\ completed >= countFloor
    BY <1>0, <2>2 DEF SaverCounted, BootCounted
  <2> HIDE DEF s
  <2> QED  BY <1>0, <2>1, <2>2, <2>3, SaverStepCounted
<1>9. ASSUME NEW w \in Worker, SaveStep(w) PROVE CountRestored'
  <2> DEFINE s == [saver[w] EXCEPT !.pc = "saveCompleted"]
  <2>1. s.completed = saver[w].completed
    BY <1>0 DEF SaverState
  <2>2. /\ SaverOn(w, s) /\ UNCHANGED <<completed, savedCompleted, boot, countFloor>>
        /\ ~Saving(w, "asleep") /\ saver[w].pc = "saveStep"
    BY <1>9 DEF SaveStep, Saving
  <2>3. Booting(w, "up") /\ saver[w].completed >= countFloor
    BY <1>0, <2>2 DEF SaverCounted
  <2> HIDE DEF s
  <2> QED  BY <1>0, <2>1, <2>2, <2>3, SaverStepCounted
<1>10. ASSUME NEW w \in Worker, SaveCompleted(w) PROVE CountRestored'
  <2>1. /\ SaverOn(w, Asleep) /\ UNCHANGED <<completed, boot, countFloor>>
        /\ savedCompleted' = saver[w].completed /\ saver[w].pc = "saveCompleted"
    BY <1>10 DEF SaveCompleted, Saving
  <2>2. savedCompleted' >= countFloor
    BY <1>0, <2>1 DEF SaverCounted
  <2> QED  BY <1>d, <2>1, <2>2, SaverStepCounted
<1>11. ASSUME NEW w \in Worker, SaveFails(w) PROVE CountRestored'
  <2>1. /\ SaverOn(w, Asleep)
        /\ UNCHANGED <<completed, savedCompleted, boot, countFloor>>
    BY <1>11 DEF SaveFails
  <2> QED  BY <1>0, <1>d, <2>1, SaverStepCounted
<1>12. ASSUME NEW w \in Worker, Claim(w) \/ Rewind(w) PROVE CountRestored'
  <2>1. UNCHANGED <<completed, savedCompleted, boot, saver, countFloor>>
    BY <1>12 DEF Claim, Rewind
  <2> QED  BY <2>1, CountStays
<1>13. ASSUME NEW w \in Worker, NEW x \in X, Acknowledge(w, x) PROVE CountRestored'
  <2>1. /\ UNCHANGED <<savedCompleted, boot, saver, countFloor>> /\ Booting(w, "up")
        /\ completed' \in {completed, completed + 1}
    BY <1>13 DEF Acknowledge
  <2>2. completed >= countFloor
    BY <1>0, <2>1 DEF BootCounted
  <2>3. completed' >= countFloor
    BY <1>0, <2>1, <2>2
  <2> QED  BY <2>1, <2>3, CountStays
<1>14. ASSUME NEW w \in Worker, Crash(w) PROVE CountRestored'
  <2>1. /\ boot'[w] = Down /\ \A v \in Worker \ {w} : boot'[v] = boot[v]
        /\ saver'[w] = Asleep /\ \A v \in Worker \ {w} : saver'[v] = saver[v]
        /\ UNCHANGED <<completed, savedCompleted, countFloor>>
    BY <1>14 DEF Crash, TypeOK, BootOn, SaverOn
  <2>2. ASSUME NEW v \in Worker PROVE BootCounted(v)' /\ SaverCounted(v)'
    BY <1>0, <1>d, <2>1 DEF BootCounted, SaverCounted, Booting, Saving
  <2> QED  BY <1>0, <2>1, <2>2 DEF CountRestored, BootCounted, SaverCounted
<1>15. CASE Reboot
  <2>1. /\ \A v \in Worker : boot'[v] = Down /\ saver'[v] = Asleep
        /\ completed' = 0 /\ savedCompleted' = savedCompleted
        /\ countFloor' = savedCompleted
    BY <1>15 DEF Reboot, KeyDBEmpties
  <2> QED  BY <1>0, <1>d, <2>1 DEF CountRestored, Booting, Saving
<1>16. CASE UNCHANGED vars
  BY <1>16, CountStays DEF vars
<1> QED
  BY <1>1, <1>2, <1>3, <1>4, <1>5, <1>6, <1>7, <1>8, <1>9, <1>10, <1>11, <1>12,
     <1>13, <1>14, <1>15, <1>16, DisturbedBefore DEF Next, WorkerStep

-----------------------------------------------------------------------------
\* The types, the properties and what they rest on hold always.
THEOREM RecoverySafety == Spec => []Inv
<1>1. Inv /\ [Next]_vars => Inv'
  BY NextType, NextCovered, NextNotAhead, NextRestored, NextCounted, DisturbedBefore
     DEF Inv
<1> QED  BY InitInv, <1>1, PTL DEF Spec

\* However KeyDB and the workers restart, and however saves and restorations
\* overlap, the step is never restored beyond an X that was never claimed.
THEOREM RecoverySkipsNothing == Spec => []NothingSkipped
<1>1. Inv => NothingSkipped
  BY DEF Inv
<1> QED  BY RecoverySafety, <1>1, PTL

\* Nor does the count ever exceed what was acknowledged.
THEOREM RecoveryInventsNothing == Spec => []CountNotAhead
<1>1. Inv => CountNotAhead
  BY DEF Inv
<1> QED  BY RecoverySafety, <1>1, PTL

\* And after a restart of everything no worker serves from below the position, or the
\* count, that was saved.
THEOREM RecoveryIsEnough == Spec => []ServesFromSaved
<1>1. Inv => ServesFromSaved
  BY DEF Inv, ServesFromSaved, StepRestored, CountRestored, Past, Booting
<1> QED  BY RecoverySafety, <1>1, PTL

\* Both stores, and what the workers read of them, keep their types.
THEOREM RecoveryTypes == Spec => []TypeOK
<1>1. Inv => TypeOK
  BY DEF Inv
<1> QED  BY RecoverySafety, <1>1, PTL

=============================================================================
