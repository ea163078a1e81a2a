------------------------------- MODULE PoolAdmin -------------------------------
(***************************************************************************)
(* The pool while administrators use the Settings page: LeasePool together *)
(* with GET and POST /api/admin/settings (app/dashboard/admin_router.py)   *)
(* and the page that calls them (frontend/src/pages/admin/Settings.jsx).   *)
(*                                                                         *)
(* The page keeps the step and the lower bound it was loaded with, and     *)
(* "Save Settings" posts both back whatever field was edited.  The handler *)
(* writes them one after the other, in the order of the posted object: the *)
(* step, the lower bound, and at the end ensure_step_above_start.          *)
(***************************************************************************)
EXTENDS LeasePool

CONSTANTS
  Admin,       \* the open Settings pages
  StepEdits,   \* values an administrator may type for "Current Step"
  StartEdits,  \* values typed for "Min X (Start)", in the space or not, or no number
  MaxLoads,    \* bound: times a page is loaded
  MaxSaves     \* bound: saves

ASSUME AdminAssumption ==
  /\ StepEdits \subseteq Nat
  /\ MaxLoads \in Nat /\ MaxSaves \in Nat

VARIABLES
  page,   \* each page: what it is waiting for and the values it shows
  loads,  \* loads so far, at most MaxLoads
  saves,  \* saves so far, at most MaxSaves
  \* ---- history, not part of the program
  cut     \* the step may be below the bound: the behaviour began so or a save ended
          \* without its ensure_step_above_start, and no call of that came since

adminVars == <<page, loads, saves, cut>>
allVars == <<vars, adminVars>>

Page == [pc : {"closed", "loading", "open", "saveStart", "saveEnsure"},
         step : Nat, start : X \cup StartEdits]

PageAt(a, pc) == page[a].pc = pc

PageGoto(a, pc) == page' = [page EXCEPT ![a].pc = pc]

AdminInit ==
  /\ Init
  /\ page = [a \in Admin |-> [pc |-> "closed", step |-> 0, start |-> 0]]
  /\ loads = 0 /\ saves = 0
  /\ cut = (step < start)

-----------------------------------------------------------------------------
(* GET /api/admin/settings: two reads, the step first.                      *)

LoadStep(a) ==
  /\ PageAt(a, "closed") \/ PageAt(a, "open")
  /\ loads < MaxLoads
  /\ page' = [page EXCEPT ![a] = [@ EXCEPT !.pc = "loading", !.step = step]]
  /\ loads' = loads + 1
  /\ UNCHANGED <<vars, saves, cut>>

LoadStart(a) ==
  /\ PageAt(a, "loading")
  /\ page' = [page EXCEPT ![a].pc = "open", ![a].start = start]
  /\ UNCHANGED <<vars, loads, saves, cut>>

-----------------------------------------------------------------------------
(* POST /api/admin/settings with step s and lower bound t: what the page     *)
(* shows, or what was typed over it.  An s above MAX_X is answered with 400  *)
(* before anything is written; a t that is no X after the step was written.  *)

SaveStep(a, s, t) ==
  /\ PageAt(a, "open") /\ saves < MaxSaves
  /\ s \in {page[a].step} \cup StepEdits /\ s <= MaxX
  /\ t \in {page[a].start} \cup StartEdits
  /\ step' = s
  /\ page' = [page EXCEPT ![a] = [pc |-> "saveStart", step |-> s, start |-> t]]
  /\ saves' = saves + 1
  /\ UNCHANGED <<start, ready, inflight, overdue, lease, leaseSeq, completed,
                 requeued, req, calls, failures, grants, told, historyVars, loads,
                 cut>>

SaveStart(a) ==
  /\ PageAt(a, "saveStart") /\ page[a].start \in X
  /\ start' = page[a].start
  /\ PageGoto(a, "saveEnsure")
  /\ UNCHANGED <<step, ready, inflight, overdue, lease, leaseSeq, completed,
                 requeued, req, calls, failures, grants, told, historyVars, loads,
                 saves, cut>>

\* A lower bound out of range is answered with 400, an empty one with 500: the step
\* stays written, nothing else is, and ensure_step_above_start does not run.
SaveRejected(a) ==
  /\ PageAt(a, "saveStart") /\ page[a].start \notin X
  /\ PageGoto(a, "open")
  /\ cut' = TRUE
  /\ UNCHANGED <<vars, loads, saves>>

\* ensure_step_above_start at the end of the save (as in LeasePool, the definition
\* before the one that is used is a variant with a bug)
PulledUpNever(s, t) == s
PulledUp(s, t) == IF s < t THEN t ELSE s

SaveEnsure(a) ==
  /\ PageAt(a, "saveEnsure")
  /\ step' = PulledUp(step, start)
  /\ PageGoto(a, "open")
  /\ cut' = FALSE
  /\ UNCHANGED <<start, ready, inflight, overdue, lease, leaseSeq, completed,
                 requeued, req, calls, failures, grants, told, historyVars, loads,
                 saves>>

\* An await of the save raises, or its worker dies: the page shows the error.
SaveFails(a) ==
  /\ PageAt(a, "saveStart") \/ PageAt(a, "saveEnsure")
  /\ failures < MaxFailures
  /\ failures' = failures + 1
  /\ PageGoto(a, "open")
  /\ cut' = TRUE
  /\ UNCHANGED <<poolVars, req, calls, grants, told, historyVars, loads, saves>>

-----------------------------------------------------------------------------
AdminStep(a) ==
  \/ LoadStep(a)
  \/ LoadStart(a)
  \/ \E s \in {page[a].step} \cup StepEdits, t \in {page[a].start} \cup StartEdits :
       SaveStep(a, s, t)
  \/ SaveStart(a)
  \/ SaveRejected(a)
  \/ SaveEnsure(a)
  \/ SaveFails(a)

\* A request has called ensure_step_above_start.
Ensured == \E r \in Handler : At(r, "ensure") /\ At(r, "claim")'

AdminNext ==
  \/ /\ Next
     /\ cut' = IF Ensured THEN FALSE ELSE cut
     /\ UNCHANGED <<page, loads, saves>>
  \/ \E a \in Admin : AdminStep(a)

AdminSpec == AdminInit /\ [][AdminNext]_allVars

-----------------------------------------------------------------------------
(* Properties.  StaleGrantRefused, PunctualAckAccepted and CountCovers of       *)
(* LeasePool hold here too, though an X may be handed out any number of times. *)

\* Type correctness of the pages, and of the pool under them.
AdminTypeOK ==
  /\ TypeOK
  /\ page \in [Admin -> Page]
  /\ loads \in Nat /\ saves \in Nat /\ cut \in BOOLEAN

\* While no save is under way the step is not below the lower bound, in whatever
\* order saves and requests interleave, unless a save was cut short (a refused lower
\* bound, a failure) and nothing has called ensure_step_above_start since.
StepNotBelowStart ==
  ~cut /\ (\A a \in Admin : page[a].pc \notin {"saveStart", "saveEnsure"})
    => step >= start

-----------------------------------------------------------------------------
(* What the leases rest on here *)

\* A lease that was accepted is not accepted again: ids are never reused.
NotAgain == \A g \in credited : ~Accepted(g)

AdminInv == AdminTypeOK /\ Leases /\ NotAgain

=============================================================================
