------------------------------ MODULE TrainerGate ------------------------------
(***************************************************************************)
(* What a trainer's request passes through before it reaches the pool of X *)
(* (app/workers/trainer_router.py), with the tables behind it              *)
(* (app/db/sqlite.py) and the administrator's side (app/dashboard/         *)
(* admin_router.py): registration, verification by seeds, the test stand,  *)
(* commands to machines, deletion of a machine.                            *)
(*                                                                         *)
(* Several worker processes serve the requests.  They share SQLite and     *)
(* KeyDB; each has caches of its own: the machines it knows to be          *)
(* verified, those it has registered lately, the mode of the test stand.   *)
(* A transaction, or a command to KeyDB, is one action, and whatever the   *)
(* handler does until its next await goes with it.  The pool is reduced to *)
(* which X wait and which are out with whom: LeasePool has the rest.       *)
(***************************************************************************)
EXTENDS Integers, FiniteSets

CONSTANTS
  Machine,      \* the trainers, by X-Machine-Id
  Worker,       \* the processes of the server
  Handler,      \* the requests that can be in progress at once
  Admin,        \* the administrators' requests that can be in progress at once
  X,            \* the numbers, whatever they are handed out as
  PoolX,        \* those that the pool holds
  Seeds,        \* the settings of test_seeds that administrators choose from
  Command,      \* "stop", "pause", "restart"
  CountLimit,   \* the most numbers one get_number asks for
  None,         \* nil
  Ops,          \* the requests that trainers make: "get", "done", "found"
  \* bounds: how often each of these may happen
  MaxDelete,    \* a machine is deleted
  MaxSeeds,     \* test_seeds is set
  MaxStart,     \* a test is started
  MaxStop,      \* a test is stopped
  MaxCommand,   \* a command is sent
  MaxFail       \* a request fails half way, or a worker process is replaced

Kind == {"delete", "seeds", "start", "stop", "command", "fail"}

ASSUME GateAssumption ==
  /\ None \notin Machine \cup Worker \cup X \cup Command
  /\ Worker \cap Admin = {}
  /\ PoolX \subseteq X
  /\ Seeds \subseteq SUBSET X /\ Seeds # {}
  /\ CountLimit \in Nat \ {0}
  /\ Ops \subseteq {"get", "done", "found"}
  /\ {MaxDelete, MaxSeeds, MaxStart, MaxStop, MaxCommand, MaxFail}
       \subseteq Nat

VARIABLES
  \* ---- SQLite
  registered,  \* machines: the rows
  verified,    \* machines: those with verified = 1
  open,        \* machine_verify: the <<machine, seed>> with found = 0
  solved,      \* machine_verify: those with found = 1
  seeds,       \* settings: test_seeds
  mode,        \* settings: test_mode
  item,        \* test_items: the status of each X, "none" if it has no row
  \* ---- KeyDB
  cmd,         \* cmd:{machine}
  queued,      \* the X that the pool can hand out
  out,         \* who holds the lease on each X
  \* ---- each worker process
  admitted,    \* _verified_cache
  fresh,       \* _machine_last_db_write: those written less than 300 s ago
  modeCache,   \* _test_mode_cache, "none" when it is older than 5 s
  \* ---- requests in progress, and what trainers have to report on
  req, adm,
  todo,        \* the numbers each machine has yet to report, and whether with a lease
  used,        \* how often each kind of event has happened
  \* ---- history, not part of the program
  ever,        \* the values test_seeds has had
  found,       \* the <<machine, seed>> whose row was ever marked found
  skipped,     \* machines let through at a time when they had no rows
  deleted,     \* machines deleted at some time
  behind,      \* what each X was taken before the end of: the starts of a test, and
               \* the time for which workers have the mode cached
  strays       \* items of this test whose answer was lost, or that were reported
               \* before the end of what they were taken before the end of

gateVars == <<registered, verified, open, solved, seeds>>
testVars == <<mode, item, behind, strays>>
poolVars == <<queued, out>>
cacheVars == <<admitted, fresh, modeCache>>
histVars == <<ever, found, skipped, deleted>>
vars == <<gateVars, testVars, cmd, poolVars, cacheVars, req, adm, todo, used,
          histVars>>

-----------------------------------------------------------------------------
(* Requests.  A definition written just before the one that is used is a      *)
(* variant with a plausible bug, which nothing uses.                          *)

Op == {"get", "done", "found"}

Pc == {"idle", "stamp", "readmode", "fastcmd", "slowcmd", "mode", "items",
       "check", "seeds", "rows", "unfound", "verify", "admit", "batch", "answer",
       "ack", "readbook", "book", "mark", "count"}

\* What a trainer holds: a number, with a lease if it comes from the pool.
Held == [m : Machine, x : X, leased : BOOLEAN]

Idle == [pc |-> "idle", op |-> "get", m |-> None, w |-> None, x |-> None,
         leased |-> FALSE, n |-> 0, nums |-> {}]

Request ==
  {Idle} \cup
    {q \in [pc : Pc \ {"idle"}, op : Op, m : Machine, w : Worker, x : X \cup {None},
            leased : BOOLEAN, n : 0 .. CountLimit, nums : SUBSET X] :
       q.op = "get" \/ q.x \in X}

\* The numbers that these requests report on; what trainers have in hand, they have
\* yet to report, or report now.
Reported(R) == {[m |-> req[r].m, x |-> req[r].x, leased |-> req[r].leased] :
                  r \in {s \in R : req[s].op = "done"}}
InHand == todo \cup Reported(Handler)

\* Numbers of the test stand in answers that have yet to reach the trainer
Sent(R) == UNION {req[r].nums : r \in {s \in R : req[s].pc = "answer" /\ ~req[s].leased}}

AdmIdle == [pc |-> "idle", w |-> None, to |-> {}, c |-> None]

AdmState ==
  {AdmIdle} \cup [pc : {"evict", "modeon", "clear", "send"}, w : Worker,
                  to : SUBSET Machine, c : Command \cup {None}]

At(r, pc) == req[r].pc = pc
Goto(r, pc) == req' = [req EXCEPT ![r].pc = pc]
Answer(r) == req' = [req EXCEPT ![r] = Idle]

\* The numbers T are on their way to the trainer, if there are any.
HandOut(r, T, leased) ==
  IF T = {} THEN Answer(r)
  ELSE req' = [req EXCEPT ![r].pc = "answer", ![r].nums = T, ![r].leased = leased]

Uses(kind, max) == used[kind] < max /\ used' = [used EXCEPT ![kind] = @ + 1]

Rows(m) == {x \in X : <<m, x>> \in open \cup solved}
UnfoundAll(m) == Rows(m)
Unfound(m) == {x \in X : <<m, x>> \in open}

\* LIMIT n
Some(S, n) == {T \in SUBSET S : IF Cardinality(S) < n THEN T = S
                                                      ELSE Cardinality(T) = n}

Init ==
  /\ registered = {} /\ verified = {} /\ open = {} /\ solved = {}
  /\ seeds \in Seeds
  /\ mode = "off" /\ item = [x \in X |-> "none"]
  /\ cmd = [m \in Machine |-> None]
  /\ queued = PoolX /\ out = [x \in X |-> None]
  /\ admitted = [w \in Worker |-> {}] /\ fresh = [w \in Worker |-> {}]
  /\ modeCache = [w \in Worker |-> "none"]
  /\ req = [r \in Handler |-> Idle] /\ adm = [a \in Admin |-> AdmIdle]
  /\ todo = {} /\ used = [k \in Kind |-> 0]
  /\ ever = {seeds} /\ found = {} /\ skipped = {} /\ deleted = {}
  /\ behind = [x \in X |-> {}] /\ strays = {}

-----------------------------------------------------------------------------
(* A request arrives, and _auto_register *)

\* Where the handler goes once the machine is registered: get_number looks at
\* the caches of its worker before it awaits anything.
Entry(op, m, w, n) ==
  CASE op = "done" -> "ack"
    [] op = "found" -> "check"
    [] op = "get" /\ n = 0 -> "idle"
    [] op = "get" /\ n > 0 ->
         IF m \notin admitted[w] \/ modeCache[w] = "on" THEN "slowcmd"
         ELSE IF modeCache[w] = "off" THEN "fastcmd" ELSE "readmode"

\* _auto_register: upsert_machine, unless this worker did so lately.
Call(r, op, m, w, x, leased, n) ==
  LET known == m \in fresh[w]
      pc == IF known THEN Entry(op, m, w, n) ELSE "stamp"
  IN /\ op \in Ops /\ At(r, "idle") /\ pc # "idle"
     /\ registered' = IF known THEN registered ELSE registered \cup {m}
     /\ req' = [req EXCEPT ![r] = [pc |-> pc, op |-> op, m |-> m, w |-> w, x |-> x,
                                   leased |-> leased, n |-> n, nums |-> {}]]
     /\ UNCHANGED <<verified, open, solved, seeds, mode, item, behind, cmd, poolVars,
                    cacheVars, adm, used, histVars>>

\* A trainer asks for numbers, or, with count = 0, only reports that it is there.
GetNumber(r, m, w, n) ==
  Call(r, "get", m, w, None, FALSE, n) /\ UNCHANGED <<todo, strays>>

\* It sends back the leases it was given with the number: none for a number of the
\* test stand or of the verification, and without a lease any number will do.  It may
\* repeat a report that is in progress.
Hasty(w, g) ==
  /\ g \in InHand /\ ~g.leased
  /\ item[g.x] = "active" /\ behind[g.x] \cap ({w} \cup Admin) # {}

MarkDone(r, w, g) ==
  /\ g.leased => g \in InHand
  /\ Call(r, "done", g.m, w, g.x, g.leased, 0)
  /\ todo' = todo \ {g}
  /\ strays' = strays \cup {x \in {g.x} : Hasty(w, g)}

\* It has found a key: of a number it was given, or of any other.
SetFound(r, w, m, x) ==
  Call(r, "found", m, w, x, FALSE, 0) /\ UNCHANGED <<todo, strays>>

\* The upsert is committed; the worker notes the time.
Stamp(r) ==
  LET q == req[r]
      pc == Entry(q.op, q.m, q.w, q.n)
  IN /\ At(r, "stamp")
     /\ fresh' = [fresh EXCEPT ![q.w] = @ \cup {q.m}]
     /\ IF pc = "idle" THEN Answer(r) ELSE Goto(r, pc)
     /\ UNCHANGED <<gateVars, testVars, cmd, poolVars, admitted, modeCache, adm, todo,
                    used, histVars>>

\* _is_test_mode_cached with nothing fresh in the cache: is_test_mode
ModeRead(w) ==
  /\ modeCache' = [modeCache EXCEPT ![w] = mode]
  /\ behind' = [x \in X |-> behind[x] \ {w}]

-----------------------------------------------------------------------------
(* get_number *)

\* A machine of the cache: is the test stand on?
ReadMode(r) ==
  /\ At(r, "readmode")
  /\ ModeRead(req[r].w)
  /\ Goto(r, IF mode = "on" THEN "slowcmd" ELSE "fastcmd")
  /\ UNCHANGED <<gateVars, mode, item, strays, cmd, poolVars, admitted, fresh, adm, todo,
                 used, histVars>>

\* get_pending_command: GETDEL.  A command is the whole answer.
TakeCommandKeeps(r) ==
  LET m == req[r].m IN
  /\ At(r, "fastcmd") \/ At(r, "slowcmd")
  /\ \/ cmd[m] # None /\ Answer(r)
     \/ cmd[m] = None /\ Goto(r, IF At(r, "fastcmd") THEN "batch" ELSE "mode")
  /\ UNCHANGED <<gateVars, testVars, cmd, poolVars, cacheVars, adm, todo, used, histVars>>
TakeCommand(r) ==
  LET m == req[r].m IN
  /\ At(r, "fastcmd") \/ At(r, "slowcmd")
  /\ cmd' = [cmd EXCEPT ![m] = None]
  /\ \/ cmd[m] # None /\ Answer(r)
     \/ cmd[m] = None /\ Goto(r, IF At(r, "fastcmd") THEN "batch" ELSE "mode")
  /\ UNCHANGED <<gateVars, testVars, poolVars, cacheVars, adm, todo, used, histVars>>

\* is_test_mode, from SQLite
CheckMode(r) ==
  /\ At(r, "mode")
  /\ Goto(r, IF mode = "on" THEN "items" ELSE "check")
  /\ UNCHANGED <<gateVars, testVars, cmd, poolVars, cacheVars, adm, todo, used, histVars>>

Cached == {w \in Worker : modeCache[w] # "none"}
Starting == {a \in Admin : adm[a].pc = "modeon"}

\* get_test_next, and its commit.  When nothing is pending the answer is "stop" or "wait".
TakeItems(r) ==
  /\ At(r, "items")
  /\ \E T \in Some({x \in X : item[x] = "pending"}, req[r].n) :
       /\ item' = [x \in X |-> IF x \in T THEN "active" ELSE item[x]]
       /\ behind' = [x \in X |-> IF x \in T THEN Cached \cup Starting
                                            ELSE behind[x]]
       /\ HandOut(r, T, FALSE)
  /\ UNCHANGED <<gateVars, mode, strays, cmd, poolVars, cacheVars, adm, todo, used,
                 histVars>>

\* The answer reaches the trainer.
Deliver(r) ==
  LET q == req[r] IN
  /\ At(r, "answer")
  /\ todo' = todo \cup {[m |-> q.m, x |-> x, leased |-> q.leased] : x \in q.nums}
  /\ Answer(r)
  /\ UNCHANGED <<gateVars, testVars, cmd, poolVars, cacheVars, adm, used, histVars>>

\* is_machine_verified, in get_number and in set_found
CheckVerified(r) ==
  LET q == req[r] IN
  /\ At(r, "check")
  /\ \/ q.m \in verified /\ q.op = "get" /\ Goto(r, "admit")
     \/ q.m \in verified /\ q.op = "found" /\ Answer(r)
     \/ q.m \notin verified /\ Goto(r, IF q.op = "found" THEN "mark" ELSE "seeds")
  /\ UNCHANGED <<gateVars, testVars, cmd, poolVars, cacheVars, adm, todo, used, histVars>>

\* get_setting("test_seeds"): without seeds every machine is verified.
ReadSeeds(r) ==
  /\ At(r, "seeds")
  /\ req' = [req EXCEPT ![r].pc = IF seeds = {} THEN "verify" ELSE "rows",
                        ![r].nums = seeds]
  /\ UNCHANGED <<gateVars, testVars, cmd, poolVars, cacheVars, adm, todo, used, histVars>>

\* init_machine_verify: INSERT OR IGNORE.  The rows refer to the machine's row: if
\* that is gone, the request fails.
InitRows(r) ==
  LET m == req[r].m IN
  /\ At(r, "rows")
  /\ \/ /\ m \in registered
        /\ open' = open \cup ({<<m, x>> : x \in req[r].nums} \ solved)
        /\ Goto(r, "unfound")
     \/ m \notin registered /\ Answer(r) /\ UNCHANGED open
  /\ UNCHANGED <<registered, verified, solved, seeds, testVars, cmd, poolVars, cacheVars,
                 adm, todo, used, histVars>>

\* The machine, if it has no rows
NoRows(m) == {k \in {m} : Rows(k) = {}}

\* get_machine_unfound_seeds: they are the answer, "verify", if there are any.
GiveSeeds(r) ==
  LET m == req[r].m IN
  /\ At(r, "unfound")
  /\ todo' = todo \cup {[m |-> m, x |-> x, leased |-> FALSE] : x \in Unfound(m)}
  /\ \/ Unfound(m) # {} /\ Answer(r)
     \/ Unfound(m) = {} /\ Goto(r, "verify")
  /\ skipped' = skipped \cup NoRows(m)
  /\ UNCHANGED <<gateVars, testVars, cmd, poolVars, cacheVars, adm, used, ever, found,
                 deleted>>

\* set_machine_verified: an UPDATE, of no row if the machine was deleted
VerifyInserts(r) ==
  /\ At(r, "verify")
  /\ verified' = verified \cup {req[r].m}
  /\ Goto(r, "admit")
  /\ UNCHANGED <<registered, open, solved, seeds, testVars, cmd, poolVars, cacheVars, adm,
                 todo, used, histVars>>
Verify(r) ==
  /\ At(r, "verify")
  /\ verified' = verified \cup ({req[r].m} \cap registered)
  /\ Goto(r, "admit")
  /\ UNCHANGED <<registered, open, solved, seeds, testVars, cmd, poolVars, cacheVars, adm,
                 todo, used, histVars>>

\* _verified_cache.add; set_found answers, get_number goes on to the pool.
Admit(r) ==
  LET q == req[r] IN
  /\ At(r, "admit")
  /\ admitted' = [admitted EXCEPT ![q.w] = @ \cup {q.m}]
  /\ IF q.op = "found" THEN Answer(r) ELSE Goto(r, "batch")
  /\ UNCHANGED <<gateVars, testVars, cmd, poolVars, fresh, modeCache, adm, todo, used,
                 histVars>>

\* next_batch.  With nothing to hand out the answer is "wait" or "done".
NextBatch(r) ==
  LET q == req[r] IN
  /\ At(r, "batch")
  /\ \E T \in Some(queued, q.n) :
       /\ queued' = queued \ T
       /\ out' = [x \in X |-> IF x \in T THEN q.m ELSE out[x]]
       /\ HandOut(r, T, TRUE)
  /\ UNCHANGED <<gateVars, testVars, cmd, cacheVars, adm, todo, used, histVars>>

-----------------------------------------------------------------------------
(* mark_done *)

\* lease_ack, which wants the lease, or lease_ack_legacy, which drops whatever lease
\* the X has; then the test stand's bookkeeping, if this worker thinks it is on.
Ack(r) ==
  LET q == req[r] IN
  /\ At(r, "ack")
  /\ \/ /\ q.leased /\ out[q.x] # q.m
        /\ Answer(r)
        /\ UNCHANGED poolVars
     \/ /\ q.leased => out[q.x] = q.m
        /\ out' = [out EXCEPT ![q.x] = None]
        /\ CASE modeCache[q.w] = "none" -> Goto(r, "readbook")
             [] modeCache[q.w] = "on" -> Goto(r, "book")
             [] modeCache[q.w] = "off" -> Answer(r)
        /\ UNCHANGED queued
  /\ UNCHANGED <<gateVars, testVars, cmd, cacheVars, adm, todo, used, histVars>>

ReadBook(r) ==
  /\ At(r, "readbook")
  /\ ModeRead(req[r].w)
  /\ IF mode = "on" THEN Goto(r, "book") ELSE Answer(r)
  /\ UNCHANGED <<gateVars, mode, item, strays, cmd, poolVars, admitted, fresh, adm, todo,
                 used, histVars>>

\* mark_test_done: whoever holds the item, whatever its status
BookedPending(s) == IF s = "pending" THEN "done" ELSE s
Booked(s) == IF s = "none" THEN "none" ELSE "done"

Book(r) ==
  LET x == req[r].x IN
  /\ At(r, "book")
  /\ item' = [item EXCEPT ![x] = Booked(@)]
  /\ Answer(r)
  /\ UNCHANGED <<gateVars, mode, behind, strays, cmd, poolVars, cacheVars, adm, todo,
                 used, histVars>>

-----------------------------------------------------------------------------
(* set_found, from is_machine_verified on *)

\* mark_machine_seed_found
MarkSeed(r) ==
  LET row == <<req[r].m, req[r].x>> IN
  /\ At(r, "mark")
  /\ open' = open \ {row}
  /\ solved' = solved \cup ({row} \cap open)
  /\ found' = found \cup ({row} \cap open)
  /\ Goto(r, "count")
  /\ UNCHANGED <<registered, verified, seeds, testVars, cmd, poolVars, cacheVars, adm,
                 todo, used, ever, skipped, deleted>>

\* check_all_seeds_found: no row is left with found = 0.
AllSeedsFoundAny(m) == Rows(m) = {} \/ \E x \in X : <<m, x>> \in solved
AllSeedsFound(m) == Unfound(m) = {}

CountSeedsInCache(r) ==
  /\ At(r, "count")
  /\ IF AllSeedsFound(req[r].m) THEN Goto(r, "admit") ELSE Answer(r)
  /\ skipped' = skipped \cup NoRows(req[r].m)
  /\ UNCHANGED <<gateVars, testVars, cmd, poolVars, cacheVars, adm, todo, used, ever,
                 found, deleted>>
CountSeeds(r) ==
  /\ At(r, "count")
  /\ IF AllSeedsFound(req[r].m) THEN Goto(r, "verify") ELSE Answer(r)
  /\ skipped' = skipped \cup NoRows(req[r].m)
  /\ UNCHANGED <<gateVars, testVars, cmd, poolVars, cacheVars, adm, todo, used, ever,
                 found, deleted>>

-----------------------------------------------------------------------------
(* Administrators *)

\* DELETE /machines/{id}: the rows go in one transaction ...
DeleteMachine(a, w, m) ==
  /\ adm[a] = AdmIdle /\ m \in registered /\ Uses("delete", MaxDelete)
  /\ registered' = registered \ {m}
  /\ verified' = verified \ {m}
  /\ open' = {row \in open : row[1] # m}
  /\ solved' = {row \in solved : row[1] # m}
  /\ deleted' = deleted \cup {m}
  /\ adm' = [adm EXCEPT ![a] = [pc |-> "evict", w |-> w, to |-> {m}, c |-> None]]
  /\ UNCHANGED <<seeds, testVars, cmd, poolVars, cacheVars, req, todo, ever, found,
                 skipped>>

\* ... then evict_machine_cache clears the caches of the worker that serves the
\* administrator.
Evict(a) ==
  LET q == adm[a] IN
  /\ q.pc = "evict"
  /\ admitted' = [admitted EXCEPT ![q.w] = @ \ q.to]
  /\ fresh' = [fresh EXCEPT ![q.w] = @ \ q.to]
  /\ adm' = [adm EXCEPT ![a] = AdmIdle]
  /\ UNCHANGED <<gateVars, testVars, cmd, poolVars, modeCache, req, todo, used, histVars>>

\* POST /machines/{id}/command looks the machine up; command-all lists the machines
\* and picks those that are online or have a tag.  Then each gets its key.
SendCommand(a, w, T, c) ==
  /\ adm[a] = AdmIdle /\ T # {} /\ T \subseteq registered /\ Uses("command", MaxCommand)
  /\ adm' = [adm EXCEPT ![a] = [pc |-> "send", w |-> w, to |-> T, c |-> c]]
  /\ UNCHANGED <<gateVars, testVars, cmd, poolVars, cacheVars, req, todo, histVars>>

SetCommand(a) ==
  LET q == adm[a] IN
  /\ q.pc = "send"
  /\ \E m \in q.to :
       /\ cmd' = [cmd EXCEPT ![m] = q.c]
       /\ adm' = [adm EXCEPT ![a] = IF q.to = {m} THEN AdmIdle
                                    ELSE [q EXCEPT !.to = @ \ {m}]]
  /\ UNCHANGED <<gateVars, testVars, poolVars, cacheVars, req, todo, used, histVars>>

\* POST /settings with test_seeds
EditSeeds(S) ==
  /\ Uses("seeds", MaxSeeds)
  /\ seeds' = S /\ ever' = ever \cup {S}
  /\ UNCHANGED <<registered, verified, open, solved, testVars, cmd, poolVars, cacheVars,
                 req, adm, todo, found, skipped, deleted>>

\* POST /test/start: insert_test_items replaces all rows, then the mode is set.
StartTest(a, w, S) ==
  /\ adm[a] = AdmIdle /\ S # {} /\ Uses("start", MaxStart)
  /\ item' = [x \in X |-> IF x \in S THEN "pending" ELSE "none"] /\ strays' = {}
  /\ adm' = [adm EXCEPT ![a] = [pc |-> "modeon", w |-> w, to |-> {}, c |-> None]]
  /\ UNCHANGED <<gateVars, mode, behind, cmd, poolVars, cacheVars, req, todo, histVars>>

ModeOn(a) ==
  /\ adm[a].pc = "modeon"
  /\ mode' = "on"
  /\ behind' = [x \in X |-> IF a \in behind[x] THEN (behind[x] \ {a}) \cup Cached
                                               ELSE behind[x]]
  /\ adm' = [adm EXCEPT ![a] = AdmIdle]
  /\ UNCHANGED <<gateVars, item, strays, cmd, poolVars, cacheVars, req, todo, used,
                 histVars>>

\* POST /test/stop: the mode, then the items.
StopTestItemsFirst(a, w) ==
  /\ adm[a] = AdmIdle /\ Uses("stop", MaxStop)
  /\ item' = [x \in X |-> "none"]
  /\ adm' = [adm EXCEPT ![a] = [pc |-> "clear", w |-> w, to |-> {}, c |-> None]]
  /\ UNCHANGED <<gateVars, mode, behind, strays, cmd, poolVars, cacheVars, req, todo,
                 histVars>>
StopTest(a, w) ==
  /\ adm[a] = AdmIdle /\ Uses("stop", MaxStop)
  /\ mode' = "off"
  /\ adm' = [adm EXCEPT ![a] = [pc |-> "clear", w |-> w, to |-> {}, c |-> None]]
  /\ UNCHANGED <<gateVars, item, behind, strays, cmd, poolVars, cacheVars, req, todo,
                 histVars>>

ClearItems(a) ==
  /\ adm[a].pc = "clear"
  /\ item' = [x \in X |-> "none"]
  /\ adm' = [adm EXCEPT ![a] = AdmIdle]
  /\ UNCHANGED <<gateVars, mode, behind, strays, cmd, poolVars, cacheVars, req, todo,
                 used, histVars>>

-----------------------------------------------------------------------------
(* Failures and the clock *)

\* An await raises, or the client is gone: what was committed stays.  A trainer that
\* gets no answer to a report has yet to report.
RequestFails(r) ==
  /\ ~At(r, "idle") /\ Uses("fail", MaxFail)
  /\ Answer(r)
  /\ todo' = todo \cup Reported({r}) /\ strays' = strays \cup Sent({r})
  /\ UNCHANGED <<gateVars, mode, item, behind, cmd, poolVars, cacheVars, adm, histVars>>

AdminFails(a) ==
  /\ adm[a] # AdmIdle /\ Uses("fail", MaxFail)
  /\ behind' = [x \in X |-> behind[x] \ {a}]
  /\ adm' = [adm EXCEPT ![a] = AdmIdle]
  /\ UNCHANGED <<gateVars, mode, item, strays, cmd, poolVars, cacheVars, req, todo,
                 histVars>>

\* A worker dies and another takes its place, with empty caches.
Restart(w) ==
  /\ Uses("fail", MaxFail)
  /\ admitted' = [admitted EXCEPT ![w] = {}]
  /\ fresh' = [fresh EXCEPT ![w] = {}]
  /\ modeCache' = [modeCache EXCEPT ![w] = "none"]
  /\ behind' = [x \in X |-> behind[x] \ ({w} \cup {a \in Admin : adm[a].w = w})]
  /\ req' = [r \in Handler |-> IF req[r].w = w THEN Idle ELSE req[r]]
  /\ todo' = todo \cup Reported({r \in Handler : req[r].w = w})
  /\ strays' = strays \cup Sent({r \in Handler : req[r].w = w})
  /\ adm' = [a \in Admin |-> IF adm[a].w = w THEN AdmIdle ELSE adm[a]]
  /\ UNCHANGED <<gateVars, mode, item, cmd, poolVars, histVars>>

ModeCacheExpires(w) ==
  /\ modeCache[w] # "none"
  /\ modeCache' = [modeCache EXCEPT ![w] = "none"]
  /\ behind' = [x \in X |-> behind[x] \ {w}]
  /\ UNCHANGED <<gateVars, mode, item, strays, cmd, poolVars, admitted, fresh, req, adm,
                 todo, used, histVars>>

\* _DB_WRITE_INTERVAL has passed.
FreshExpires(w, m) ==
  /\ m \in fresh[w]
  /\ fresh' = [fresh EXCEPT ![w] = @ \ {m}]
  /\ UNCHANGED <<gateVars, testVars, cmd, poolVars, admitted, modeCache, req, adm, todo,
                 used, histVars>>

\* cmd:{machine} lives for an hour.
CommandExpires(m) ==
  /\ cmd[m] # None
  /\ cmd' = [cmd EXCEPT ![m] = None]
  /\ UNCHANGED <<gateVars, testVars, poolVars, cacheVars, req, adm, todo, used, histVars>>

\* A lease falls due, and the X goes back to the queue.
Requeue(x) ==
  /\ out[x] # None
  /\ out' = [out EXCEPT ![x] = None]
  /\ queued' = queued \cup {x}
  /\ UNCHANGED <<gateVars, testVars, cmd, cacheVars, req, adm, todo, used, histVars>>

-----------------------------------------------------------------------------
RequestStep(r) ==
  \/ Stamp(r) \/ ReadMode(r) \/ TakeCommand(r) \/ CheckMode(r) \/ TakeItems(r)
  \/ Deliver(r)
  \/ CheckVerified(r) \/ ReadSeeds(r) \/ InitRows(r) \/ GiveSeeds(r) \/ Verify(r)
  \/ Admit(r) \/ NextBatch(r) \/ Ack(r) \/ ReadBook(r) \/ Book(r)
  \/ MarkSeed(r) \/ CountSeeds(r)

AdminStep(a) == Evict(a) \/ SetCommand(a) \/ ModeOn(a) \/ ClearItems(a)

Asks(m) ==
  \E r \in Handler, w \in Worker, n \in 1 .. CountLimit : GetNumber(r, m, w, n)
Holds(m, x) == {g \in InHand : g.m = m /\ g.x = x}
Reports(m, x) ==
  \E r \in Handler, w \in Worker, g \in Holds(m, x) : MarkDone(r, w, g)
Finds(m, x) ==
  Holds(m, x) # {} /\ \E r \in Handler, w \in Worker : SetFound(r, w, m, x)

TrainerCalls ==
  \/ \E m \in Machine : Asks(m)
  \/ \E r \in Handler, w \in Worker, m \in Machine : GetNumber(r, m, w, 0)
  \/ \E r \in Handler, w \in Worker, g \in Held : MarkDone(r, w, g)
  \/ \E r \in Handler, w \in Worker, m \in Machine, x \in X : SetFound(r, w, m, x)

AdminCalls ==
  \E a \in Admin, w \in Worker :
    \/ \E m \in Machine : DeleteMachine(a, w, m)
    \/ \E T \in SUBSET Machine, c \in Command : SendCommand(a, w, T, c)
    \/ \E S \in SUBSET X : StartTest(a, w, S)
    \/ StopTest(a, w)

Environment ==
  \/ \E S \in Seeds : EditSeeds(S)
  \/ \E r \in Handler : RequestFails(r)
  \/ \E a \in Admin : AdminFails(a)
  \/ \E w \in Worker : Restart(w) \/ ModeCacheExpires(w)
  \/ \E w \in Worker, m \in Machine : FreshExpires(w, m)
  \/ \E m \in Machine : CommandExpires(m)
  \/ \E x \in X : Requeue(x)

Next ==
  \/ \E r \in Handler : RequestStep(r)
  \/ \E a \in Admin : AdminStep(a)
  \/ TrainerCalls \/ AdminCalls \/ Environment

Spec == Init /\ [][Next]_vars

\* What has begun goes on, and what is kept for a time expires.
ServerFairness ==
  /\ \A r \in Handler : WF_vars(RequestStep(r))
  /\ \A a \in Admin : WF_vars(AdminStep(a))
  /\ \A w \in Worker : WF_vars(ModeCacheExpires(w))
  /\ \A w \in Worker, m \in Machine : WF_vars(FreshExpires(w, m))

\* A trainer asks again and again, reports the keys it finds and what it has done.
TrainerFairness ==
  /\ \A m \in Machine : SF_vars(Asks(m))
  /\ \A m \in Machine, x \in X : SF_vars(Reports(m, x)) /\ SF_vars(Finds(m, x))

FairSpec == Spec /\ ServerFairness /\ TrainerFairness

-----------------------------------------------------------------------------
(* Properties *)

\* Every variable keeps its type; in particular a request that goes on to the seeds
\* or the pool has a machine, and no lease is held by anything but a machine.
GateTypeOK ==
  /\ registered \subseteq Machine /\ verified \subseteq registered
  /\ open \subseteq Machine \X X /\ solved \subseteq Machine \X X
  /\ open \cap solved = {}
  /\ seeds \in Seeds /\ mode \in {"on", "off"}
  /\ item \in [X -> {"none", "pending", "active", "done"}]
  /\ cmd \in [Machine -> Command \cup {None}]
  /\ queued \subseteq X /\ out \in [X -> Machine \cup {None}]
  /\ admitted \in [Worker -> SUBSET Machine] /\ fresh \in [Worker -> SUBSET Machine]
  /\ modeCache \in [Worker -> {"none", "on", "off"}]
  /\ req \in [Handler -> Request] /\ adm \in [Admin -> AdmState]
  /\ todo \subseteq Held /\ used \in [Kind -> Nat]
  /\ ever \subseteq Seeds /\ seeds \in ever
  /\ found \subseteq Machine \X X
  /\ skipped \subseteq Machine /\ deleted \subseteq Machine
  /\ behind \in [X -> SUBSET (Worker \cup Admin)] /\ strays \subseteq X

\* The machine has found, some time, all the seeds of one setting there has been.
FoundSeeds(m) == \E S \in ever : \A x \in S : <<m, x>> \in found

\* Settings page: "New machines must find all these X values before receiving real
\* ranges."  What holds: once a machine has rows of machine_verify it is let through
\* only when it has found them all.  However its requests overlap, fail and are
\* repeated, whatever it reports unasked, and whatever administrators do to the
\* setting or to its row, a machine has an X of the pool only if it has found the seeds
\* of one setting, or was let through at a time when it had no rows.
ServedFoundSeeds ==
  \A x \in X : out[x] # None => out[x] \in skipped \/ FoundSeeds(out[x])

\* The same, of every machine.
EveryServedFoundSeeds == \A x \in X : out[x] # None => FoundSeeds(out[x])

\* A worker lets a machine pass by its cache only if the database has it verified,
\* unless the machine was deleted: no order in which requests read, write and fill the
\* cache leaves another machine in it that is not verified.
CacheVerified ==
  \A w \in Worker : admitted[w] \subseteq verified \cup deleted

\* With one administrator at a time, the mode is never on without items: whatever
\* transaction of start or stop fails, no trainer is kept waiting for a test that
\* does not exist.
ModeHasItems == mode = "on" => \E x \in X : item[x] # "none"

\* While a test runs, whoever was given one of its numbers still has it to report, or
\* reports it now, or is about to be given it: an item is done, or somebody will see to
\* it.  No overlap of reports, stops and starts, and no failure of a report, leaves an
\* item behind that nobody would ever be asked for again.  Two things do, and are
\* excepted: an answer lost after the commit of get_test_next, and a report that
\* reaches a worker whose cached mode, or the start of the test, is older than the
\* item's hand-out.
ItemsHeld ==
  mode = "on" =>
    \A x \in X : item[x] = "active" =>
      x \in strays \cup Sent(Handler) \/ \E g \in InHand : g.x = x /\ ~g.leased

\* A machine that goes on asking and reports what it finds comes to the pool again
\* and again, also after it was deleted.
LetIn ==
  \A m \in Machine :
    []<><<\E r \in Handler : req[r].m = m /\ NextBatch(r)>>_vars

\* A command waits only until its machine asks: it is delivered, or expires.
CommandsLeave == \A m \in Machine : cmd[m] # None ~> cmd[m] = None

\* A test comes to its end, or is stopped, if trainers finish and report what they are
\* given, but for the items whose answer was lost or whose report came too soon.
TestEnds ==
  []<>(mode = "off" \/ \A x \in X : item[x] \in {"none", "done"} \/ x \in strays)

=============================================================================
