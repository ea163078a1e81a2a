# Verification of the GPU pool server

The server hands out the numbers X of a search space, 0 .. 2^32-1, to GPU
trainers, under leases, and counts what they finish.  It runs as several Uvicorn
workers that share one KeyDB (the hot state) and one SQLite file (everything
else).  This directory holds TLA+ models of the parts whose correctness rests on
the order in which things happen, TLC configurations that check them on small
instances, and proofs checked by TLAPS that hold for any number of trainers,
requests, X, workers and connections.

Line numbers below and in `PROJECT.json` refer to the files under `src/`.

## 1. The system

| Component | State | Operations | Interacts through |
|---|---|---|---|
| Pool of X (`app/workers/partx_generator.py`, `app/cache/keydb.py`, the end of `get_number` and `mark_done` in `app/workers/trainer_router.py`) | KeyDB: `partx:step`, `partx:start`, `pool:ready`, `pool:inflight` (score = expiry), `pool:lease:{x}` (machine, lease id; TTL 3 x lease), `pool:lease_seq`, `completed:count`, `pool:stats:requeued` | claim, supply, allocate, acknowledge (with and without leases), requeue | KeyDB only; each command, Lua script or MULTI is atomic, a handler is several of them |
| Settings page and its two endpoints (`Settings.jsx`, `admin_router.py` 191-237) | the page's copy of step and lower bound | load, save | writes `partx:step` and `partx:start` |
| Gate in front of the pool (`trainer_router.py` 97-204, 260-294) | per process: verified machines, test mode for 5 s, last write per machine; SQLite: machines, seeds | register, verify, choose pool / test / command | SQLite, process caches |
| Test stand (`admin_router.py` 247-275, `sqlite.py` 378-426) | `test_items`, setting `test_mode` | start, stop, hand out, mark done, mark found | SQLite |
| Commands to machines (`admin_router.py` 123-171, `keydb.py` 328-335) | `cmd:{machine}` | SET with expiry, GETDEL on the next `get_number` | KeyDB |
| Leader election and loops (`keydb.py` 341-371, `background/tasks.py`) | `pool:leader`, TTL 30 s | become, renew; persist, requeue, report | KeyDB, SQLite |
| Persistence and recovery (`tasks.py` 24-42, `main.py` 36-51) | two settings in SQLite | save every 300 s, restore at start-up | both stores |
| SQLite connection pool (`sqlite.py` 112-199) | queue of 16 connections, count in use, event, shutdown flag | get, return, close | asyncio of one process |
| Start-up (`main.py` 54-90) | users, API keys | schema, first administrator | SQLite, all workers at once |
| Liveness of machines, statistics (`keydb.py` 105-131, 377-394) | `alive:{machine}`, a 3 s cache | touch, list, read seven values | KeyDB |
| Users, keys, sessions; export; Telegram; middleware; configuration; other pages; scripts | none that a protocol runs over | | |

What makes it hard: every handler awaits after each command, so two requests, the
requeue loop, an administrator and the expiry of keys interleave between any two
commands; a trainer's answer may be lost and its acknowledgement come late, twice
or never; a request may die half way; an administrator's page holds values that
are hours old.

What makes each part correct:

- pool: no X in two places, no X dropped, each X counted once and only for the
  machine that holds its current lease, a punctual trainer is never refused, an
  expired lease comes back, "done" means done;
- Settings: after a save the step is not below the bound, no X below the bound is
  claimed, an edit is not undone;
- leases: one live lease per X, honoured once and only while it is live, whatever an
  administrator sets (a step set back hands X out again, which ends the leases they had);
- gate: a machine has no X of the pool before it found the seeds of one setting (if it was
  ever asked for them), the caches of a worker let in only machines that the database has verified (or deleted
  ones), a machine that keeps asking is let in again after its deletion, a command
  does not wait for ever; test stand: the mode is never on without items, an
  item handed out is done or somebody has it to report, a test ends;
- election: one leader at a time; recovery: no X is skipped, the count is never ahead, and
  after a restart of everything nothing is handed out from below the saved step (what was
  handed out since the last save is handed out again); connection pool: no connection lost, shared or closed under a task,
  the shutdown waits for those in use and ends; start-up: an administrator with a key,
  though every worker sets out to create it.

`PROJECT.json` lists the components with what is modelled, and the hazards, each
at its line, with the properties that would catch it.

## 2. Plan

The order is that of importance; all of it is done.

1. `LeasePool`: the pool (abstract: `WorkQueue`), with its proofs.
2. `LeasePoolRefinement`: the pool implements the queue.
3. `PoolAdmin`: the pool composed with the Settings page, with its proofs.
4. Theorems: type correctness, every safety property of the pool, the refinement.
5. `Recovery`: the persist loop, restarts of KeyDB and of workers, the restoration
   by several workers, claims; with its proofs.
6. `Leader`: SET NX, GET, EXPIRE and the life of the key; with its proofs.
7. `TrainerGate`: get_number, mark_done and set_found before they reach the pool: process
   caches, registration, verification, commands, and the test stand with them, because
   the gate reads its mode and the same requests serve its items; with its proofs.
8. `Lifespan`: start-up, get_db and close_db_pool of each worker; with its proofs.
9. Theorems for 7 and 8.
10. `WorkQueue` for trainers without leases too, and the refinement proved for them.
11. `LeaseLedger`: what the leases promise by themselves, kept under the Settings page
    where the queue is not; with the proof.
12. Theorems that no item of a test is lost (`ItemsHeld`), that restarts keep the count
    (`ServesFromSaved`), what workers that were held up can do (`StrandedByStalls`), and
    that a shutdown does not oversleep (`NoIdleWait`).

What could still be proved: `ModeHasItems` for several administrators does not hold
(below), and what the liveness properties need is out of the prover's reach.  Statistics
and the liveness keys of machines have no property: nothing is decided on them.

The runs are kept to a dozen: a run of a new module takes the place of one that shows a
lesser disagreement.

## 3. Modules

| Module | What it is |
|---|---|
| `LeasePool` | the pool: variables, actions, properties, the parts of its inductive invariant |
| `MCLeasePool` | the pool with its refinement, and the symmetry of trainers and of requests, for TLC |
| `LeasePool_proofs` | its theorems |
| `WorkQueue` | what the pool promises: an item is new, queued, out with at most one worker, then finished by it, or withdrawn by a call that names it and no lease |
| `LeasePoolRefinement`, `LeasePoolRefinement_proofs` | the refinement mapping, the theorem |
| `PoolAdmin`, `MCPoolAdmin`, `PoolAdmin_proofs` | the pool with Settings pages, its symmetry, its theorems |
| `LeaseLedger` | what the leases promise, whatever becomes of the X: issued in order, live, honoured once |
| `LeaseLedgerRefinement`, `LeaseLedgerRefinement_proofs` | the mapping from the pool, and from the pool with Settings pages; its theorems |
| `Recovery`, `MCRecovery`, `Recovery_proofs` | save and restoration of step and completed count |
| `Leader`, `MCLeader`, `Leader_proofs` | the leader key and the loops that use it |
| `TrainerGate`, `MCTrainerGate`, `TrainerGate_proofs` | what a trainer's request passes before the pool, the test stand, what administrators do to both |
| `Lifespan`, `MCLifespan`, `Lifespan_proofs` | each worker's start-up, connections and shutdown |

### LeasePool and the code

A request is a record `req[r]` with the place it has reached; each action is one
round trip to KeyDB and what the handler does with the answer.

| Action | Code |
|---|---|
| `GetNumber` | `next_batch` up to `get_ready_count` and the test `available < count` |
| `EnsureStep` | `ensure_step_above_start` |
| `ClaimRange` | `claim_range`, and the test `start <= MAX_X` on its result |
| `SupplyReady` | `supply_ready(range(start, min(start + need, MAX_X + 1)))` |
| `CapStep` | `set_step(MAX_X + 1)` |
| `Allocate` | `_LUA_ALLOCATE`, and the answer `work` |
| `Poll` | `get_inflight_count` and the answer `wait` or `done` |
| `MarkDone` | `_LUA_ACK` on any leases that one machine has been given, one per X |
| `LegacyMarkDone`, `LegacyTally` | `lease_ack_legacy`, from any machine, on any X, whoever holds them: the MULTI, then INCRBY |
| `Requeue` | one `_LUA_REQUEUE` |
| `LeaseFallsDue`, `LeaseKeyExpires` | the score passes; KeyDB evicts the lease key |
| `Fail` | an await raises or the worker dies: what the request held is gone |

Abstractions.  Clocks are kept as far as the scripts can tell: an X of
`pool:inflight` is overdue or not, a lease key exists or not; since the key lives
three times as long as the score, it goes only after the score has passed (the
server's clock and KeyDB's are taken to agree to within two lease times).  Which
of several overdue X one requeue call takes first depends on their scores, so any
choice is allowed.  `grants` keeps everything trainers were ever told, so an
acknowledgement may be sent at any time, any number of times, or not at all.
Requeue may happen at any time; the leader test before it is left out, which only
allows more.  `credited`, `legacyDone`, `legacyCount`, `uncounted` and `lost` are history
variables.  Registration, test mode, verification and pending commands come before
the first action of `get_number` and touch no key of the pool.  Acknowledgements of the
numbers they hand out do: such a number comes with no lease (`trainer_router.py` 185, 194),
so its `mark_done` takes the path without leases (243-244) and removes whatever lease some
machine has on the same X of the pool.  `LegacyMarkDone` is that call as much as the one of
a trainer of the old protocol, and any machine may make it and any other.

Definitions named like another one with a suffix (`ClaimedShort`,
`AcceptedGrantsNoKey`, ...) are variants with a plausible bug.  Nothing uses them;
`PROJECT.json` lists which property each of them breaks when it is put in.

### PoolAdmin and the code

`LoadStep` and `LoadStart` are the two reads of `GET /api/admin/settings`, in its
order.  `SaveStep`, `SaveStart`, `SaveEnsure` are the three writes of
`POST /api/admin/settings`, in the order in which the page posts the fields (the
order of the object it was loaded with); what is posted is what the page shows or
what was typed over it.  A step above MAX_X is answered 400 before anything is
written, so such a save is no step of the model.  A lower bound out of range (400), or
none at all (500), is met only after the step was written: `SaveRejected` ends the save
there, with the new step in place and no `ensure_step_above_start`.  `SaveFails` covers
an error of any await after the first write, SQLite's included.  `cut` is history: a save
ended one of these two ways, and nothing has called `ensure_step_above_start` since.  The
other settings are not modelled.

### LeasePoolRefinement and the code

X is `out` while it is in flight, its holder is the machine in its lease key;
`queued` in `pool:ready`; `finished` once a lease on it was accepted; `withdrawn` once a
`mark_done` without leases took it out of flight; else `new`.  Such a call names X, not
leases, so it takes an X whoever it is out with, which the abstract queue has to allow.
What it adds to `completed:count` (all the X it
names) is kept in `legacyCount` and is no part of `finished`, which grows only with what
the holder of an X finishes.
An X claimed but not supplied is still new, and so is one whose request died: the
abstract queue does not promise that everything is published.

### LeaseLedgerRefinement and the code

Under the Settings page the pool is no work queue: after the step was set back X that are
out, or done, are published again.  What remains is a promise about leases.  One is `live`
while `_LUA_ACK` would accept it (`Accepted`), `honoured` once it did.  `Allocate` issues
(and ends the lease of an X that was still out), `MarkDone` honours, `Requeue`,
`LegacyMarkDone` and `LeaseKeyExpires` end; everything else, the page's writes included,
is a stutter.

### Recovery and the code

`Start` to `RestoreCompleted` are `_restore_keydb_state`, one action per await: two
reads of KeyDB, two of SQLite, two conditional writes.  `SaveBegins` to
`SaveCompleted` are one round of `persist_keydb_state`: two reads, two transactions
(`set_setting` commits each); `SaveFails` is its `except`.  The leader test before
the round is left out, which allows more; `Leader` shows what it gives.  A worker
serves (`Claim`, `Acknowledge`) from the moment its own restoration is done.  The pool
is reduced to the set `out` of what was claimed and not acknowledged, so that it does
not repeat `LeasePool`: ready or in flight makes no difference to recovery, and an
acknowledgement counts an X only while it is out.  `Reset` empties KeyDB under running
workers, `Reboot` restarts everything, `Crash` one worker.  `partx:start` is not
saved and stays at 0.  `floor` and `countFloor` keep what SQLite had of the step and of the
count when KeyDB was emptied last, for `ServesFromSaved`.

### Leader and the code

`TrySet`, `TryGet` are `try_become_leader`; `RenewGet`, `Extend` are
`renew_leadership`, whose result no loop looks at; `Finish` ends the work.  `RoundFails`
is a call to KeyDB that raises; `fails` counts those of a worker's requeue loop until one
of its rounds comes to its work or finds that another worker leads (`GetsThrough`).  Time is
counted in ticks as far as the election depends on it: the life of the key, and the
clock of the requeue loop, which sleeps for its interval and whose rounds take at most
`RoundTime`.  The other two loops ask at any time and take any time.  `Stall` is the
one event that breaks those times: the key goes although its worker lives.  A worker
started in the place of a dead one has another pid, hence another name in the key.

### TrainerGate and the code

A trainer's request is a record `req[r]` with the worker that serves it and the place
it has reached; one action is one transaction of SQLite or one command to KeyDB, with
what the handler does until its next await.

| Action | Code |
|---|---|
| `GetNumber`, `MarkDone`, `SetFound` | the request arrives at some worker; `_auto_register` looks at `_machine_last_db_write` |
| `Stamp` | `upsert_machine` and the time in the cache |
| `ReadMode`, `CheckMode` | `_is_test_mode_cached` when its copy is older than 5 s |
| `TakeCommand` | `get_pending_command`, at its place on the fast and on the slow path |
| `TakeItems` | `get_test_next` |
| `CheckVerified`, `ReadSeeds`, `InitRows`, `GiveSeeds`, `Verify`, `Admit` | the verification, transaction by transaction, up to the entry in `_verified_cache` |
| `NextBatch` | the pool is asked (reduced to what waits and what is out) |
| `Ack`, `ReadBook`, `Book` | `mark_done`: the leases, then the mode, then the row of the test |
| `MarkSeed`, `CountSeeds` | `set_found`: the seed's row, then the count of those left |
| `DeleteMachine`, `Evict` | the rows, then the caches of the worker that served the deletion |
| `SendCommand`, `SetCommand` | one command, or one after the other to those listed |
| `EditSeeds` | the setting `test_seeds` |
| `StartTest`, `ModeOn`; `StopTest`, `ClearItems` | the two transactions of each, in the order of the code |
| `RequestFails`, `AdminFails`, `Restart` | a request ends half way; a worker is replaced by a new process |
| `ModeCacheExpires`, `FreshExpires`, `CommandExpires`, `Requeue` | what is kept for a time: the mode 5 s, the write of a machine 300 s, a command an hour, a lease |

What trainers hold is `todo`: `GiveSeeds` adds to it, and `Deliver` what `TakeItems` and
`NextBatch` have committed; a request that fails between the two, or whose worker is
replaced, has handed out numbers that nobody holds.  A `mark_done` takes its number out,
and if that request fails, or its worker is replaced, the trainer has the number to report
again.  `InHand` adds to `todo` what requests in progress report (`Reported`): those a
trainer may also send a second time while the first is under way.  A trainer may report
any X without a lease, and any key in `set_found`, whether or not it was given the number.

Left out by abstraction: the table `found_keys` and the marks of keys found in a test
(nothing reads them back), the words of an answer that carries no number, `alive` keys,
the count of completed numbers and the ids of leases (`LeasePool` has both); `mark_done`
carries one X.  Several X in one call would be that many actions in a row, which the
model allows, interleaved.  `ever`, `found`, `skipped`, `deleted`, `behind` and `strays`
are history.

What the properties except, they except because it happens.

- `CacheVerified` excepts machines that were deleted: a machine deleted on one worker
  stays in the caches of the others.
- `ServedFoundSeeds` excepts machines that were let through at a time when they had no
  rows of `machine_verify` (`skipped`), because none were made yet, because they were
  deleted with the machine, or because no seed was set: one whose first request is
  `set_found` has none left to find (`TrainerGate_unseeded`).  For every other machine
  `found` keeps what it was seen to find.
- `ModeHasItems` is about one administrator: when a start and a stop of two of them
  overlap the mode can stay on without items.
- `ItemsHeld` and `TestEnds` except the items of `strays`: those whose answer was lost
  after `get_test_next` had committed them as active (nothing takes them back), and those
  reported to a worker whose cached mode is older than their hand-out, or before a start
  that was under way then has set the mode (`behind` keeps which): such a report is taken
  for one of the pool.

### Lifespan and the code

| Action | Code |
|---|---|
| `Launch`, `ListUsers`, `CreateUser`, `CreateUserFails`, `CreateKey` | `lifespan` up to `yield`; the unique user name makes the second `create_user` raise, the start fail and the process be started again |
| `TakeAtOnce`, `Wait`, `TakeLater`, `GiveUp` | `_pool.get` under `wait_for` in `get_db` |
| `GiveBack` | the `finally` of `get_db` on a pool that is open, or closing |
| `Discard`, `Discarded` | the same on a pool that is gone: the task closes the connection itself |
| `Stop` | `close_db_pool` up to the wait for `_all_returned` |
| `AllReturned`, `StillInUse`, `CloseNext`, `Closed`, `Gone` | the rest of it |
| `Crash` | the process dies |

A free connection is taken without yielding to the loop (`wait_for` of Python 3.12
awaits the coroutine in the same task, and `Queue.get` of a queue that is not empty
does not suspend), and the lock around the counter is never contended, so taking and
giving back are single actions.  Background tasks are cancelled before the pool closes;
the tasks of the model may be either kind.  What a task does with its connection is left
out, and so is the rollback that a cancelled task does not make.  The connections that
start-up itself uses are not counted: no task runs yet.  `early`, `overdue` and
`orphaned` are history.

## 4. Runs

| Run | Question | Result |
|---|---|---|
| `LeasePool_race` | two requests interleaved, acknowledgements in any order, expiry, one death: is every X in one place, counted under one lease at most, and that its current one? does the pool implement `WorkQueue`, with calls without leases for any X? | holds |
| `LeasePool_single` | one request at a time, acknowledgements with leases, without them, or none: is every lease id accounted for, does the count cover what was retired, is `done` answered only at the end, does every lease end? | holds |
| `PoolAdmin_edits` | two Settings pages, a lower bound that may be refused, a save or request that may die: does a save that runs to its end leave the step at the bound or above, does the pool keep the `LeaseLedger`, does the count cover what was retired? | holds |
| `Recovery_copies` | two workers save and restore while one serves, KeyDB or everything restarts, the step is edited: is nothing skipped, is the count never ahead, is nothing handed out from below the saved position, nothing counted from below the saved count? | holds |
| `Leader_election` | rounds fail, workers die, are held up twice: does one worker lead until it dies when none is held up, does each stall leave one stray leader at most, do requeue rounds go on, do the workers agree again? | holds |
| `TrainerGate_verify` | requests of one machine overlap while it reports keys, is deleted, the seeds are changed: does it get an X of the pool only after it found its seeds or was let through without rows, do the caches agree with the database, but for deleted machines? | holds |
| `TrainerGate_tests` | two workers, a test and its stop, one failure of a request, an administrator or a worker: is the mode never on without items, is no item left behind but those of lost answers and early reports, does a test end, but for those? | holds |
| `TrainerGate_live` | two workers whose caches disagree, a deletion, a command: is a machine that keeps asking let in again and again, does each command leave? | holds |
| `Lifespan_workers` | two workers start, stop and die, three tasks want two connections: is no connection lost or closed under a task, does shutdown wait, and only when it must, and end, does the first administrator come to be? | holds |
| `LeasePool_early_done` | is `done` answered only at the end when two requests overlap? | no |
| `PoolAdmin_stale_save` | is no X counted twice when a page is saved unedited? | no |
| `TrainerGate_unseeded` | has every machine found its seeds before it gets an X of the pool? | no |

The runs answered with no are disagreements between the code and what its documents say; each
is explained under `findings` of `PROJECT.json` with the sentence it contradicts.

The models also show these, for which no run is kept:

- a request that dies between `claim_range` and `supply_ready` loses its X
  (`src/frontend/src/pages/admin/Connect.jsx`:116: "No X is ever lost."); `NoXMissing` excepts
  just those;
- a `mark_done` without leases adds every X it names to `completed:count`, in flight or
  not, so that its repeats inflate the count (`README.md`:45 calls a repeated `mark_done`
  of an acknowledged X "безопасный no-op", a safe no-op); `CountCovers` says that the count
  does not fall behind, and no more;
- the acknowledgement of a number of a test or of a verification drops the lease that
  another machine has on the same X of the pool, and counts it;
- after a step set back X are handed out under new leases, and the holder of the earlier
  one is refused however punctual it is; `PunctualAckAccepted` is about the newest lease;
- a `mark_done` that comes after its X was queued again is answered `already_done`;
- `set_step(MAX_X + 1)` can undo an edit that an administrator made since the claim
  before it;
- a request that checked the lower bound before it was raised claims X below it;
- a second worker that restores late writes the step back over claims made meanwhile,
  and an administrator's step of 0 is taken for an empty KeyDB by the next worker that
  starts;
- X that were out when KeyDB restarted empty are unknown to it, so their
  acknowledgements are refused, and those above the saved step are handed out again;
- a worker held up between `try_become_leader` and `renew_leadership` for the life of
  the key is told by the renewal that it does not lead and works on beside the new
  leader;
- a number of a test reported to a worker that has the mode cached from before the test,
  or while the start has still to set the mode, is taken for one of the pool: its item
  stays active and the test does not end;
- an item whose answer is lost after `get_test_next` committed it is active, nobody holds
  it, and the test does not end before it is stopped;
- a save whose lower bound is refused has changed the step all the same;
- two administrators, one starting and one stopping a test, can leave the mode on with
  no items.

Bounds.  In `LeasePool_race` two machines and two request slots give every pairing of the
same or different actors; three calls let two requests overlap and a third follow them.
MaxX = 2 with CountLimit = 2 includes a claim below the end, one across it and one beyond
it, and a batch of two; RequeueBatch = 1 makes one requeue call leave something behind.
Trainers may acknowledge with leases without limit; calls without leases count among the
three.  One failure is enough to lose what one request holds.  `LeasePool_single` gives up
the second request slot, without which `done` is answered at the end only, for a fourth
call, and begins at FirstX = 1, so that the first claim is pulled up to the bound.
`PoolAdmin_edits` has one request slot and two pages: its questions are about pages against
each other and against trainers; the leases among requests are the business of
`LeasePool_race`.  A page may post the bounds 1 and 2, of which 2 is refused because MaxX is
1.  The runs of a disagreement are as small as the disagreement allows.

`Recovery_copies` has what a late write needs: two workers, one of which starts again, two
saves, and one restart of KeyDB, of everything, or one edit.  `ServesFromSaved` is about
restarts of everything; KeyDB restarting alone under live workers (`Reset`) is in the run
but not in that property, because it fails there: a live worker claims from 0, and the next
round saves that over what was saved.  `Leader_election` gives the key the least life that
its assumption admits when one round may fail (the server has 30 s for an interval of
5 s), and lets workers be held up twice, so that two may lead without the key at once.
`MaxFails` bounds the rounds of a worker's requeue loop that fail in a row before its call
of EXPIRE; any number of them may fail in a behaviour, and the slow loops may fail as often
as they like.

`TrainerGate_verify` has one worker and two requests, because a machine's race with itself
needs no second cache, and two seeds, so that it can be half way; the settings overlap in
one seed.  Its VIEW leaves out `todo`, which nothing reads in a run without `mark_done` and
without fairness, so no behaviour is lost.  The failures are left to `TrainerGate_tests` and
to the theorems.  `TrainerGate_tests` has two workers with caches of their own, one of them
perhaps from before the test, and one failure of any kind: of a request (its answer or its
report is lost), of an administrator's request between its two transactions, or of a worker.
With PoolX = {} the pool hands nothing out, so that no number of a test is in flight
there; what an acknowledgement does to the pool is in `LeasePool`.  The two invariants of
this run were also model-checked with a second start, which replaces a test that is under
way, and with a failure of each kind, which is out of the reach of its liveness property.
`TrainerGate_live` has two workers, one of which keeps a deleted machine in its caches.
`Lifespan_workers` has one task more than a pool has connections, so that one waits when
the shutdown begins; one shutdown and one death, of either worker, at any point.

Deadlock is checked everywhere: no configuration turns it off.

Fairness.  `FairSpec` assumes that a request in progress goes on (asyncio runs
ready coroutines), that the requeue loop runs (`while True` with a sleep; some
worker is leader) and that time passes.  It assumes nothing of trainers and not
that lease keys are ever evicted.  In `Leader`, `FairSpec` assumes that every loop of
a live worker goes on and that time passes; nobody is assumed to die or to live.
In `TrainerGate` a request in progress goes on and a cache entry expires; of trainers it
is assumed, strongly, because the slots for requests are few, that they ask again and
again and report each number they hold, as done and as a key found; `TestEnds` and
`LetIn` are promises to such trainers only.  In `Lifespan` start-up and shutdown go on, a dead worker is started again
(uvicorn's parent process does), and waits end at their time limits; no task is assumed
ever to give its connection back.

## 5. Proofs

All theorems hold for any sets of machines and request slots, any MaxX, batch and
bounds, under `ConstantsAssumption` (the numbers are naturals, `None` is neither a
machine nor a lease) and, for `PoolAdmin`, `AdminAssumption` (a step that is typed is a
natural number; nothing is assumed of a lower bound).  `LeaderAssumption` compares the times of `Leader`; `GateAssumption` and
`LifespanAssumption` say what the constants of `TrainerGate` and `Lifespan` are (a pool
has a connection, the tasks of a process are finitely many).

The inductive invariant of `LeasePool` has three layers, proved one after the
other and each used by the next.

1. `Leases`.  `StaleGrantRefused` by itself is not inductive: that a stored lease
   is not an old one follows from its being the newest grant of its X
   (`StoredLeaseIsNewest`), which a new lease keeps because its id is larger than
   any given (`GrantIds`: ids come from `pool:lease_seq`).  `PunctualLeaseStored`
   is the relation between the two expiries, and gives `PunctualAckAccepted`.
2. `Places`.  An X is in one place because a claim gives out what no one has:
   `FreshAboveStep` says that nothing at or above the step is anywhere, and the
   step only grows.  The one write that could lower it, `set_step(MAX_X + 1)`, is
   harmless because of `CapOnlyWhenExhausted`, which therefore is part of the
   invariant.  An acknowledgement moves an X that is in flight
   (`StoredLeaseIsNewest` again), so it cannot retire one that waits.
3. `Counts`.  The counters are sums over disjoint sets, so the arithmetic of
   cardinalities (`CardUnion`) and layer 2 give `NoDoubleCredit` and `LeaseAccounting`.

`CountCovers` stands beside them (`Covered`, `NextCovered`): what leaves `pool:inflight`
through an acknowledgement with leases is added in the same step, and what leaves it without
one is no more than what the request names and has yet to add (`Owed`, a set, so that a sum
over the requests is a cardinality) or took with it when it died (`uncounted`).  It needs the
types only, and so holds under the Settings page too.

`Implements` maps each step to a step of `WorkQueue` or to a stutter, from the same
invariant.  An acknowledgement without leases, from whatever machine and for whatever X, is
a `Withdraw` of the X that were in flight, and the later INCRBY a stutter, because
`completed` and `legacyCount` grow by the same number; the rest of what the call names is
queued, new or done already, and the step leaves it alone.

With Settings pages layer 2 is lost: the step can go back.  `PoolAdmin_proofs`
shows what is left: layer 1, that an accepted lease is not accepted again
(`NotAgain`), and `Covered`.  On the same layer rests that the pool implements
`LeaseLedger`, alone (`PoolKeepsLedger`) and under any edits (`AdminKeepsLedger`): a lease
given out is newer than every other of its X, so it ends the live one and no other lease
can come alive; and since nothing but `Allocate` writes a lease key, what is not live
stays so.

`StepNotBelowStart` is inductive with the types (`AdminBoundKept`), for any edits and any
failures: an edit of either is followed by its own `SaveEnsure`, or sets `cut`, which only a
call of `ensure_step_above_start` clears, and that puts the step where it belongs.

`DoneWhenAlone` is about servers with one request at a time: only then does
`DoneMeansExhausted` hold.  Its invariant, `EmptyMeansExhausted`, says that the request
in progress, having claimed nothing and popped nothing, met the end of the space.

`Recovery`: every copy of a value, in SQLite or in a worker, was right once
(`CopiesCovered`, `CopiesNotAhead`), and what it is compared with only grows, so no
order of saves, restorations and restarts can make it wrong; `NextCopies` says where
each copy comes from.  It holds for any number of workers and with any edits, and so
does not depend on the leader.

`Leader`: `SoleLeader` rests on `KeyOutlivesWait`, a relation between the life left to
the key, the time the requeue loop of its worker may still take to extend it (`Wait`)
and the rounds in a row that may yet fail (`Slack`).  `LeaderAssumption` says by how much the
life of the key must exceed the interval: with the defaults (30 s, 5 s) three rounds
in a row may fail if none takes longer than 2 s.
`StrandedByStalls` is in the invariant (`Inv`) too: who leads without the key was its
holder when a `Stall` took it away, for by `KeyOutlivesWait` the key goes in no other way
while its worker lives; a death, or an EXPIRE that lands on the key of a successor, makes
nobody lead.  `LeadsUntilDeath` follows from the same two parts, stalls included.

`ServesFromSaved` needs one thing more (`StepRestored`, `CountRestored`): nobody saves
before it is up, nobody is up before the step and the count are restored, and so no save
made from an empty KeyDB can overwrite what was saved.  An edit of the step breaks the
first of the two and not the second, since no page writes the count; so the count is
promised under edits as well.

`TrainerGate`: a machine passes the gate by one of four witnesses (its row is verified,
a cache admitted it, a request of it is past the check, it holds an X), and each may be
older than the others.  `GateInv` therefore says of all of them that the machine found the
seeds of one setting or was let through without rows (`PassedFound`), of a machine with
rows that they include those of some setting, and of its solved rows that they were found
(`RowsInv`), and of each request in progress what it has read (`RequestsGate`).  Nothing is
asked of the trainer: a machine that reports keys unasked either has rows, and then passes
only when none is left, or has none, and is among `skipped`.  `found`, `skipped` and `ever`
only grow, so what was read stays true, also when the rows go with the machine.  `CacheInv`
adds that the caches of a worker hold only machines that had a row (`fresh`,
`RequestKnows`), from which
`CacheVerified` follows.  `ModeItems` assumes one administrator; its invariant `ModeInv`
adds where the start or stop in progress stands.

`ItemsHeld` (`NoItemLost`) follows from `ItemInv`: each active item is among `strays` or
safe (`ItemSafe`).  Either no test runs and none is being started (`Calm`), or somebody sees
to the item (`SeenTo`): it is in `todo`, or an answer on its way carries it, or a report of
it is under way that will book it.  A report will, unless it is early, because a worker
from whose cache the trainer need not wait any longer does not take a running test for
over; `ItemSafe` says that too, in terms of `behind`, and that an item was handed out before
the end of every start in progress, which a report must wait for.  An early report and an
answer that is lost make their item a stray in the same step.  A report that fails returns
its number to `todo`, and a stop ends in calm before it deletes the items.  The theorem needs
no bound on administrators, workers or requests, and reports may be sent twice.

`Lifespan`: `ConnsConserved` is the invariant `Placed` (a connection is in one place, one
task's at most) and `DrainedFirst` needs besides that `_in_flight` is the number of tasks
that hold a connection (`Counted`, by cardinalities) and that once the event is set in a
shutdown, those that had a connection when it began have none (`Drains`).  Both hold for any number of tasks and
connections.  `NoIdleWait` is inductive with the types: the shutdown goes to wait only when it
finds connections in use, and the task that lowers `_in_flight` to 0 sets the event in the
same step.
`Administered` follows from where each worker stands in its start-up.

Only model-checked: the liveness properties `LeaseEnds`, `RequeueGoesOn`,
`LeadersAgreeAgain`, `LetIn`, `CommandsLeave`, `TestEnds`, `ComesUp` and `ShutdownEnds`
(TLAPS has no rule here for fairness and ENABLED).

## 6. Not modelled

- Users, API keys, sessions (`app/auth`): each request reads one row and decides; no
  state is carried from one step to another, and hashing is outside a model's reach.
- Statistics and liveness of machines: counters and keys that expire, read for pages.
  `command-all` addresses the machines that are alive; `TrainerGate` lets it address any.
- The export of found keys, Telegram: reads, and an outgoing call whose result is dropped.
- Middleware, configuration, pages other than Settings, scripts: no state of their own.

They are marked `not_modelled` in `PROJECT.json`.
