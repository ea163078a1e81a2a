------------------------------- MODULE Recovery -------------------------------
(***************************************************************************)
(* What survives a restart of KeyDB or of the server: the periodic save of *)
(* partx:step and completed:count into SQLite (app/background/tasks.py,    *)
(* persist_keydb_state) and their restoration when a worker starts         *)
(* (app/main.py, _restore_keydb_state).                                    *)
(*                                                                         *)
(* KeyDB keeps nothing over a restart.  Each worker of the server restores *)
(* on its own and serves as soon as it has, so that one may be handing out *)
(* X while another is between its reads and its writes.  The pool is here  *)
(* reduced to what recovery is about: the X claimed from the step and not  *)
(* acknowledged yet are `out' (LeasePool has the rest), and the lower      *)
(* bound, which is not saved, is 0.                                        *)
(***************************************************************************)
EXTENDS Integers

CONSTANTS
  Worker,      \* the processes of the server
  MaxX,        \* MAX_X
  MaxStarts,   \* bound: starts of a worker
  MaxSaves,    \* bound: rounds of the persist loop
  Disturbance, \* which of these happen: KeyDB restarts under a running server
               \* ("reset"), KeyDB and the server restart together ("reboot"),
               \* an administrator sets the step to 0 ("rewind")
  MaxDisturbances  \* bound: how often, all together

X == 0 .. MaxX

ASSUME BoundsAssumption ==
  /\ MaxX \in Nat
  /\ MaxStarts \in Nat /\ MaxSaves \in Nat /\ MaxDisturbances \in Nat
  /\ Disturbance \subseteq {"reset", "reboot", "rewind"}

VARIABLES
  step, completed, out,         \* KeyDB: partx:step, completed:count, the pool
  savedStep, savedCompleted,    \* SQLite: partx_step_saved, completed_count_saved
  boot,                         \* what each worker has read while it starts
  saver,                        \* what the persist loop of each worker has read
  used,                         \* how often each bounded event has happened
  claimed, done, acks,          \* history: the X ever claimed and ever acknowledged,
  floor, countFloor             \* the number of acknowledgements, the step and the
                                \* count that were saved when KeyDB last restarted

keydbVars == <<step, completed, out>>
savedVars == <<savedStep, savedCompleted>>
history == <<claimed, done, acks, floor, countFloor>>
vars == <<keydbVars, savedVars, boot, saver, used, history>>

Down == [pc |-> "down", step |-> 0, completed |-> 0, savedStep |-> 0,
         savedCompleted |-> 0]
Up == [Down EXCEPT !.pc = "up"]
Asleep == [pc |-> "asleep", step |-> 0, completed |-> 0]

Booting(w, pc) == boot[w].pc = pc
Saving(w, pc) == saver[w].pc = pc

BootOn(w, b) == boot' = [boot EXCEPT ![w] = b]
SaverOn(w, s) == saver' = [saver EXCEPT ![w] = s]

\* One more event of this kind.
Counts(kind) == used' = [used EXCEPT ![kind] = @ + 1]

Disturbs(kind) ==
  /\ kind \in Disturbance
  /\ used["reset"] + used["reboot"] + used["rewind"] < MaxDisturbances
  /\ Counts(kind)

Init ==
  /\ step = 0 /\ completed = 0 /\ out = {}
  /\ savedStep = 0 /\ savedCompleted = 0
  /\ boot = [w \in Worker |-> Down]
  /\ saver = [w \in Worker |-> Asleep]
  /\ used = [k \in {"start", "save", "reset", "reboot", "rewind"} |-> 0]
  /\ claimed = {} /\ done = {} /\ acks = 0 /\ floor = 0 /\ countFloor = 0

-----------------------------------------------------------------------------
(* _restore_keydb_state: four reads, two conditional writes.  The definition *)
(* before one that is used is a variant with a bug.                          *)

Start(w) ==
  /\ Booting(w, "down") /\ used["start"] < MaxStarts /\ Counts("start")
  /\ BootOn(w, [Down EXCEPT !.pc = "getCompleted", !.step = step])
  /\ UNCHANGED <<keydbVars, savedVars, saver, history>>

GetCompleted(w) ==
  /\ Booting(w, "getCompleted")
  /\ BootOn(w, [boot[w] EXCEPT !.pc = "getSavedStep", !.completed = completed])
  /\ UNCHANGED <<keydbVars, savedVars, saver, used, history>>

GetSavedStep(w) ==
  /\ Booting(w, "getSavedStep")
  /\ BootOn(w, [boot[w] EXCEPT !.pc = "getSavedCompleted", !.savedStep = savedStep])
  /\ UNCHANGED <<keydbVars, savedVars, saver, used, history>>

GetSavedCompleted(w) ==
  /\ Booting(w, "getSavedCompleted")
  /\ BootOn(w, [boot[w] EXCEPT !.pc = "setStep", !.savedCompleted = savedCompleted])
  /\ UNCHANGED <<keydbVars, savedVars, saver, used, history>>

\* Does a value read from KeyDB, against the one saved, call for a restoration?
WasResetBoth(b, kept, saved) == b.step = 0 /\ b.completed = 0 /\ b.savedCompleted > 0
WasReset(b, kept, saved) == kept = 0 /\ saved > 0

RestoredNext(saved) == saved + 1
Restored(saved) == saved

RestoreStep(w) ==
  /\ Booting(w, "setStep")
  /\ step' = IF WasReset(boot[w], boot[w].step, boot[w].savedStep)
             THEN Restored(boot[w].savedStep) ELSE step
  /\ BootOn(w, [boot[w] EXCEPT !.pc = "setCompleted"])
  /\ UNCHANGED <<completed, out, savedVars, saver, used, history>>

CountAdded(saved) == completed + saved
CountSet(saved) == saved

RestoreCompleted(w) ==
  /\ Booting(w, "setCompleted")
  /\ completed' = IF WasReset(boot[w], boot[w].completed, boot[w].savedCompleted)
                  THEN CountSet(boot[w].savedCompleted) ELSE completed
  /\ BootOn(w, Up)
  /\ UNCHANGED <<step, out, savedVars, saver, used, history>>

-----------------------------------------------------------------------------
(* persist_keydb_state: two reads, two transactions.  The leader test before *)
(* them is left out: more than one worker may pass it (see Leader).          *)

SaveBegins(w) ==
  /\ Booting(w, "up") /\ Saving(w, "asleep")
  /\ used["save"] < MaxSaves /\ Counts("save")
  /\ SaverOn(w, [Asleep EXCEPT !.pc = "getCompleted", !.step = step])
  /\ UNCHANGED <<keydbVars, savedVars, boot, history>>

SaveReads(w) ==
  /\ Saving(w, "getCompleted")
  /\ SaverOn(w, [saver[w] EXCEPT !.pc = "saveStep", !.completed = completed])
  /\ UNCHANGED <<keydbVars, savedVars, boot, used, history>>

SaveStep(w) ==
  /\ Saving(w, "saveStep")
  /\ savedStep' = saver[w].step
  /\ SaverOn(w, [saver[w] EXCEPT !.pc = "saveCompleted"])
  /\ UNCHANGED <<keydbVars, savedCompleted, boot, used, history>>

SaveCompleted(w) ==
  /\ Saving(w, "saveCompleted")
  /\ savedCompleted' = saver[w].completed
  /\ SaverOn(w, Asleep)
  /\ UNCHANGED <<keydbVars, savedStep, boot, used, history>>

\* An await of the round raises; the loop logs it and sleeps again.
SaveFails(w) ==
  /\ ~Saving(w, "asleep")
  /\ SaverOn(w, Asleep)
  /\ UNCHANGED <<keydbVars, savedVars, boot, used, history>>

-----------------------------------------------------------------------------
(* The pool, in short, and who disturbs it *)

LeftOffByOne == step <= MaxX + 1
Left == step <= MaxX

\* A worker that has started claims an X and leases it to a trainer.
Claim(w) ==
  /\ Booting(w, "up") /\ Left
  /\ step' = step + 1
  /\ out' = out \cup {step}
  /\ claimed' = claimed \cup {step}
  /\ UNCHANGED <<completed, savedVars, boot, saver, used, done, acks, floor, countFloor>>

\* A trainer acknowledges an X that it was given.
Acknowledge(w, x) ==
  /\ Booting(w, "up") /\ x \in claimed
  /\ IF x \in out
     THEN /\ out' = out \ {x}
          /\ completed' = completed + 1
          /\ done' = done \cup {x}
          /\ acks' = acks + 1
     ELSE UNCHANGED <<out, completed, done, acks>>
  /\ UNCHANGED <<step, savedVars, boot, saver, used, claimed, floor, countFloor>>

\* POST /api/admin/settings with the step 0.
Rewind(w) ==
  /\ Booting(w, "up") /\ Disturbs("rewind")
  /\ step' = 0
  /\ UNCHANGED <<completed, out, savedVars, boot, saver, history>>

\* A worker dies.
Crash(w) ==
  /\ ~Booting(w, "down") /\ used["start"] < MaxStarts
  /\ BootOn(w, Down) /\ SaverOn(w, Asleep)
  /\ UNCHANGED <<keydbVars, savedVars, used, history>>

\* KeyDB starts empty.
KeyDBEmpties ==
  /\ step' = 0 /\ completed' = 0 /\ out' = {}
  /\ floor' = savedStep /\ countFloor' = savedCompleted
  /\ UNCHANGED <<savedVars, claimed, done, acks>>

Reset ==
  /\ Disturbs("reset")
  /\ KeyDBEmpties
  /\ UNCHANGED <<boot, saver>>

Reboot ==
  /\ Disturbs("reboot") /\ used["start"] < MaxStarts
  /\ KeyDBEmpties
  /\ boot' = [w \in Worker |-> Down]
  /\ saver' = [w \in Worker |-> Asleep]

-----------------------------------------------------------------------------
WorkerStep(w) ==
  \/ Start(w)
  \/ GetCompleted(w)
  \/ GetSavedStep(w)
  \/ GetSavedCompleted(w)
  \/ RestoreStep(w)
  \/ RestoreCompleted(w)
  \/ SaveBegins(w)
  \/ SaveReads(w)
  \/ SaveStep(w)
  \/ SaveCompleted(w)
  \/ SaveFails(w)
  \/ Claim(w)
  \/ \E x \in X : Acknowledge(w, x)
  \/ Rewind(w)
  \/ Crash(w)

Next == Reset \/ Reboot \/ \E w \in Worker : WorkerStep(w)

Spec == Init /\ [][Next]_vars

-----------------------------------------------------------------------------
(* Properties *)

BootState ==
  [pc : {"down", "getCompleted", "getSavedStep", "getSavedCompleted", "setStep",
         "setCompleted", "up"},
   step : Nat, completed : Nat, savedStep : Nat, savedCompleted : Nat]

SaverState ==
  [pc : {"asleep", "getCompleted", "saveStep", "saveCompleted"},
   step : Nat, completed : Nat]

\* Type correctness of both stores and of what the workers have read.
TypeOK ==
  /\ step \in Nat /\ completed \in Nat /\ out \subseteq X
  /\ savedStep \in Nat /\ savedCompleted \in Nat
  /\ boot \in [Worker -> BootState]
  /\ saver \in [Worker -> SaverState]
  /\ used \in [{"start", "save", "reset", "reboot", "rewind"} -> Nat]
  /\ claimed \subseteq X /\ done \subseteq X /\ acks \in Nat
  /\ floor \in Nat /\ countFloor \in Nat

\* Every X below n has been claimed at some time.
Covered(n) == \A x \in X : x < n => x \in claimed

\* Recovery skips nothing: whatever was saved, lost and restored, by however
\* many workers at once, the step never stands above an X that was never claimed.
NothingSkipped == Covered(step)

\* Recovery invents no progress: completed:count never exceeds the number of
\* acknowledgements there have been.
CountNotAhead == completed <= acks

\* KeyDB is never restarted without the server; nor does anybody edit the step.
Together == used["reset"] = 0
Undisturbed == Together /\ used["rewind"] = 0

\* After KeyDB and the server were restarted nothing that had been saved is lost,
\* whatever the workers then restore and save, and in whatever order: those that serve
\* count on from the saved count or from above, and hand out X from the saved position
\* or from above, unless the step is edited.  No more is done again, and no more left
\* out of the count, than what one save interval covers.
ServesFromSaved ==
  \A w \in Worker : Booting(w, "up") =>
    /\ Undisturbed => step >= floor
    /\ Together => completed >= countFloor

-----------------------------------------------------------------------------
(* What these properties rest on: every copy of a value, in SQLite or in a   *)
(* worker, was right once, and what it is compared with only grows; and no   *)
(* worker saves a step before the saved one is restored.                     *)

CopiesCovered ==
  /\ Covered(savedStep)
  /\ \A w \in Worker : Covered(boot[w].savedStep) /\ Covered(saver[w].step)

CopiesNotAhead ==
  /\ savedCompleted <= acks
  /\ \A w \in Worker : boot[w].savedCompleted <= acks /\ saver[w].completed <= acks

\* The step was restored, in the sense of the places a starting worker goes through.
Read(w) == boot[w].pc \in {"getSavedCompleted", "setStep"}
Past(w) == boot[w].pc \in {"setCompleted", "up"}

StepRestored ==
  /\ savedStep >= floor /\ (step = 0 \/ step >= floor)
  /\ \A w \in Worker :
       /\ Past(w) \/ (~Booting(w, "down") /\ boot[w].step > 0) => step >= floor
       /\ Read(w) => boot[w].savedStep >= floor
       /\ ~Saving(w, "asleep") => saver[w].step >= floor
       /\ ~Saving(w, "asleep") => Booting(w, "up")

\* The same of the count, which a worker restores last.
CountRestored ==
  /\ savedCompleted >= countFloor /\ (completed = 0 \/ completed >= countFloor)
  /\ \A w \in Worker :
       /\ Booting(w, "up") \/ boot[w].completed > 0 => completed >= countFloor
       /\ boot[w].pc \in {"setStep", "setCompleted"} =>
            boot[w].savedCompleted >= countFloor
       /\ saver[w].pc \in {"saveStep", "saveCompleted"} =>
            saver[w].completed >= countFloor
       /\ ~Saving(w, "asleep") => Booting(w, "up")

Inv ==
  /\ TypeOK
  /\ NothingSkipped /\ CopiesCovered
  /\ CountNotAhead /\ CopiesNotAhead
  /\ Undisturbed => StepRestored
  /\ Together => CountRestored

=============================================================================
