------------------------------- MODULE Lifespan -------------------------------
(***************************************************************************)
(* The life of the worker processes (lifespan in app/main.py) with the     *)
(* pool of SQLite connections that each has to itself (app/db/sqlite.py):  *)
(* the first administrator and its API key, which every worker that finds  *)
(* no administrator sets out to create; get_db; close_db_pool.             *)
(*                                                                         *)
(* Inside a process tasks alternate at awaits.  A connection that is free  *)
(* is taken without one, and the lock around _in_flight is never           *)
(* contended, so taking and giving back are single actions.  A pool starts *)
(* with its process: _pool, _shutting_down follow from where lifespan is.  *)
(* Recovery has the step of the start that restores KeyDB.                 *)
(***************************************************************************)
EXTENDS Integers, FiniteSets

CONSTANTS
  Worker,     \* the processes of the server
  Task,       \* the requests and background tasks that a process can have at once
  Conn,       \* the connections of a pool: _POOL_SIZE of them
  None,       \* no connection
  \* bounds: how often each of these may happen
  MaxStop,    \* a worker is told to stop
  MaxCrash    \* a worker dies

ASSUME LifespanAssumption ==
  /\ IsFiniteSet(Task) /\ Conn # {} /\ None \notin Conn
  /\ MaxStop \in Nat /\ MaxCrash \in Nat

VARIABLES
  admin,      \* users: is there a row of username and role admin?
  key,        \* api_keys: is there one of the administrator?
  life,       \* where lifespan is
  free,       \* _pool: the connections in the queue
  closing,    \* the connection that close_db_pool is closing
  closed,     \* those that have been closed
  inFlight,   \* _in_flight
  returned,   \* _all_returned
  use,        \* where each task is in get_db, and with which connection
  stops, crashes,
  \* history, not part of the program
  early,      \* the tasks that have had a connection since before the shutdown
  overdue,    \* the workers whose shutdown did not wait for all to return
  orphaned    \* a worker died between the creation of the administrator and the key

poolVars == <<free, closing, closed, inFlight, returned, use, early, overdue>>
dbVars == <<admin, key>>
vars == <<dbVars, life, poolVars, stops, crashes, orphaned>>

-----------------------------------------------------------------------------
Life == {"down",                     \* no process, or only what lifespan left of it
         "list", "create", "key",    \* starting
         "serve",
         "wait", "drain", "close"}   \* in close_db_pool

Free == [pc |-> "out", conn |-> None]
UseState ==
  {Free, [pc |-> "wait", conn |-> None]} \cup [pc : {"hold", "discard"}, conn : Conn]

Holds(w, t) == use[w][t].pc \in {"hold", "discard"}
Holders(w) == {t \in Task : Holds(w, t)}

Goes(w, pc) == life' = [life EXCEPT ![w] = pc]
Becomes(w, t, pc, c) == use' = [use EXCEPT ![w][t] = [pc |-> pc, conn |-> c]]

Init ==
  /\ admin = FALSE /\ key = FALSE
  /\ life = [w \in Worker |-> "down"]
  /\ free = [w \in Worker |-> {}] /\ closed = [w \in Worker |-> Conn]
  /\ closing = [w \in Worker |-> None]
  /\ inFlight = [w \in Worker |-> 0] /\ returned = [w \in Worker |-> FALSE]
  /\ use = [w \in Worker |-> [t \in Task |-> Free]]
  /\ stops = 0 /\ crashes = 0
  /\ early = [w \in Worker |-> {}] /\ overdue = {} /\ orphaned = FALSE

-----------------------------------------------------------------------------
(* Starting.  A definition written just before the one that is used is a      *)
(* variant with a plausible bug, which nothing uses.                          *)

\* A process and its globals: a pool of the given connections that nobody uses.
Process(w, conns) ==
  /\ free' = [free EXCEPT ![w] = conns]
  /\ closed' = [closed EXCEPT ![w] = Conn \ conns]
  /\ closing' = [closing EXCEPT ![w] = None]
  /\ inFlight' = [inFlight EXCEPT ![w] = 0]
  /\ returned' = [returned EXCEPT ![w] = FALSE]
  /\ use' = [use EXCEPT ![w] = [t \in Task |-> Free]]
  /\ early' = [early EXCEPT ![w] = {}] /\ overdue' = overdue \ {w}

\* uvicorn starts a worker in place of one that is gone; init_db makes the schema and
\* opens the connections, init_keydb and _restore_keydb_state follow.
Launch(w) ==
  /\ life[w] = "down"
  /\ Process(w, Conn)
  /\ Goes(w, "list")
  /\ UNCHANGED <<dbVars, stops, crashes, orphaned>>

\* list_users: with an administrator there is nothing to create.
ListUsers(w) ==
  /\ life[w] = "list"
  /\ Goes(w, IF admin THEN "serve" ELSE "create")
  /\ UNCHANGED <<dbVars, poolVars, stops, crashes, orphaned>>

\* create_user.  The username is unique: when another worker was faster the INSERT
\* raises, lifespan fails and the process ends.
CreateUserServes(w) ==
  /\ life[w] = "create" /\ ~admin
  /\ admin' = TRUE
  /\ Goes(w, "serve")
  /\ UNCHANGED <<key, poolVars, stops, crashes, orphaned>>
CreateUser(w) ==
  /\ life[w] = "create" /\ ~admin
  /\ admin' = TRUE
  /\ Goes(w, "key")
  /\ UNCHANGED <<key, poolVars, stops, crashes, orphaned>>

CreateUserRetries(w) ==
  /\ life[w] = "create" /\ admin
  /\ Goes(w, "create")
  /\ UNCHANGED <<dbVars, poolVars, stops, crashes, orphaned>>
CreateUserFails(w) ==
  /\ life[w] = "create" /\ admin
  /\ Process(w, {})
  /\ Goes(w, "down")
  /\ UNCHANGED <<dbVars, stops, crashes, orphaned>>

\* create_api_key, in a transaction of its own.  Then lifespan starts the background
\* tasks and the worker serves.
CreateKey(w) ==
  /\ life[w] = "key"
  /\ key' = TRUE
  /\ Goes(w, "serve")
  /\ UNCHANGED <<admin, poolVars, stops, crashes, orphaned>>

\* The process dies, wherever it is.
Crash(w) ==
  /\ life[w] # "down" /\ crashes < MaxCrash
  /\ crashes' = crashes + 1
  /\ orphaned' = (orphaned \/ life[w] = "key")
  /\ Process(w, {})
  /\ Goes(w, "down")
  /\ UNCHANGED <<dbVars, stops>>

-----------------------------------------------------------------------------
(* get_db *)

\* It refuses when there is no pool or it is closing; it finds a connection free ...
TakeAtOnce(w, t) ==
  /\ life[w] = "serve" /\ use[w][t] = Free
  /\ \E c \in free[w] :
       /\ free' = [free EXCEPT ![w] = @ \ {c}]
       /\ Becomes(w, t, "hold", c)
  /\ inFlight' = [inFlight EXCEPT ![w] = @ + 1]
  /\ UNCHANGED <<dbVars, life, closing, closed, returned, stops, crashes, early, overdue,
                 orphaned>>

\* ... or waits for one,
Wait(w, t) ==
  /\ life[w] = "serve" /\ use[w][t] = Free /\ free[w] = {}
  /\ Becomes(w, t, "wait", None)
  /\ UNCHANGED <<dbVars, life, free, closing, closed, inFlight, returned, stops, crashes,
                 early, overdue, orphaned>>

\* takes it, even if the pool has begun to close meanwhile,
TakeLater(w, t) ==
  /\ use[w][t].pc = "wait"
  /\ \E c \in free[w] :
       /\ free' = [free EXCEPT ![w] = @ \ {c}]
       /\ Becomes(w, t, "hold", c)
  /\ inFlight' = [inFlight EXCEPT ![w] = @ + 1]
  /\ UNCHANGED <<dbVars, life, closing, closed, returned, stops, crashes, early, overdue,
                 orphaned>>

\* or gives up after 30 s.
GiveUpLands(w, t) ==
  /\ use[w][t].pc = "wait"
  /\ inFlight' = [inFlight EXCEPT ![w] = @ - 1]
  /\ Becomes(w, t, "out", None)
  /\ UNCHANGED <<dbVars, life, free, closing, closed, returned, stops, crashes, early,
                 overdue, orphaned>>
GiveUp(w, t) ==
  /\ use[w][t].pc = "wait"
  /\ Becomes(w, t, "out", None)
  /\ UNCHANGED <<dbVars, life, free, closing, closed, inFlight, returned, stops, crashes,
                 early, overdue, orphaned>>

\* One less in flight: the last one that returns during a shutdown sets the event.
Shutting(w) == life[w] \in {"wait", "drain", "close", "down"}
LandsAny(w, t) ==
  /\ inFlight' = [inFlight EXCEPT ![w] = @ - 1]
  /\ returned' = [returned EXCEPT ![w] = @ \/ Shutting(w)]
  /\ Becomes(w, t, "out", None)
  /\ early' = [early EXCEPT ![w] = @ \ {t}]
LandsBeforeCounting(w, t) ==
  /\ inFlight' = [inFlight EXCEPT ![w] = @ - 1]
  /\ returned' = [returned EXCEPT ![w] = @ \/ (inFlight[w] <= 0 /\ Shutting(w))]
  /\ Becomes(w, t, "out", None)
  /\ early' = [early EXCEPT ![w] = @ \ {t}]
Lands(w, t) ==
  /\ inFlight' = [inFlight EXCEPT ![w] = @ - 1]
  /\ returned' = [returned EXCEPT ![w] = @ \/ (inFlight[w] - 1 <= 0 /\ Shutting(w))]
  /\ Becomes(w, t, "out", None)
  /\ early' = [early EXCEPT ![w] = @ \ {t}]

\* The finally of get_db: the connection goes back into the queue, which has room for
\* all of them.
GiveBackAlways(w, t) ==
  /\ use[w][t].pc = "hold"
  /\ free' = [free EXCEPT ![w] = @ \cup {use[w][t].conn}]
  /\ Lands(w, t)
  /\ UNCHANGED <<dbVars, life, closing, closed, stops, crashes, overdue, orphaned>>
GiveBack(w, t) ==
  /\ use[w][t].pc = "hold" /\ life[w] # "down"
  /\ free' = [free EXCEPT ![w] = @ \cup {use[w][t].conn}]
  /\ Lands(w, t)
  /\ UNCHANGED <<dbVars, life, closing, closed, stops, crashes, overdue, orphaned>>

\* With _pool = None the put raises, and the connection is closed instead.
Discard(w, t) ==
  /\ use[w][t].pc = "hold" /\ life[w] = "down"
  /\ Becomes(w, t, "discard", use[w][t].conn)
  /\ UNCHANGED <<dbVars, life, free, closing, closed, inFlight, returned, stops, crashes,
                 early, overdue, orphaned>>

Discarded(w, t) ==
  /\ use[w][t].pc = "discard"
  /\ closed' = [closed EXCEPT ![w] = @ \cup {use[w][t].conn}]
  /\ Lands(w, t)
  /\ UNCHANGED <<dbVars, life, free, closing, stops, crashes, overdue, orphaned>>

-----------------------------------------------------------------------------
(* The end of lifespan: close_db_pool.  uvicorn lets requests end before, and the *)
(* background tasks have been cancelled; whoever is still there, the pool copes.   *)

Stop(w) ==
  /\ life[w] = "serve" /\ stops < MaxStop
  /\ stops' = stops + 1
  /\ returned' = [returned EXCEPT ![w] = @ /\ inFlight[w] = 0]
  /\ Goes(w, IF inFlight[w] > 0 THEN "wait" ELSE "drain")
  /\ early' = [early EXCEPT ![w] = Holders(w)]
  /\ UNCHANGED <<dbVars, free, closing, closed, inFlight, use, crashes, overdue, orphaned>>

AllReturned(w) ==
  /\ life[w] = "wait" /\ returned[w]
  /\ Goes(w, "drain")
  /\ UNCHANGED <<dbVars, poolVars, stops, crashes, orphaned>>

\* 10 s have passed.
StillInUseWaits(w) ==
  /\ life[w] = "wait" /\ inFlight[w] = 0
  /\ Goes(w, "drain")
  /\ overdue' = overdue \cup {w}
  /\ UNCHANGED <<dbVars, free, closing, closed, inFlight, returned, use, early, stops,
                 crashes, orphaned>>
StillInUse(w) ==
  /\ life[w] = "wait"
  /\ Goes(w, "drain")
  /\ overdue' = overdue \cup {w}
  /\ UNCHANGED <<dbVars, free, closing, closed, inFlight, returned, use, early, stops,
                 crashes, orphaned>>

\* While the queue is not empty one connection at a time is taken and closed.
CloseNext(w) ==
  /\ life[w] = "drain"
  /\ \E c \in free[w] :
       /\ free' = [free EXCEPT ![w] = @ \ {c}]
       /\ closing' = [closing EXCEPT ![w] = c]
  /\ Goes(w, "close")
  /\ UNCHANGED <<dbVars, closed, inFlight, returned, use, stops, crashes, early, overdue,
                 orphaned>>

Closed(w) ==
  /\ life[w] = "close"
  /\ closed' = [closed EXCEPT ![w] = @ \cup {closing[w]}]
  /\ closing' = [closing EXCEPT ![w] = None]
  /\ Goes(w, "drain")
  /\ UNCHANGED <<dbVars, free, inFlight, returned, use, stops, crashes, early, overdue,
                 orphaned>>

\* _pool = None
Gone(w) ==
  /\ life[w] = "drain" /\ free[w] = {}
  /\ Goes(w, "down")
  /\ UNCHANGED <<dbVars, poolVars, stops, crashes, orphaned>>

-----------------------------------------------------------------------------
StartStep(w) ==
  Launch(w) \/ ListUsers(w) \/ CreateUser(w) \/ CreateUserFails(w) \/ CreateKey(w)

EndStep(w) ==
  AllReturned(w) \/ StillInUse(w) \/ CloseNext(w) \/ Closed(w) \/ Gone(w)

WaitEnds(w, t) == TakeLater(w, t) \/ GiveUp(w, t)

TaskStep(w, t) ==
  \/ TakeAtOnce(w, t) \/ Wait(w, t) \/ WaitEnds(w, t)
  \/ GiveBack(w, t) \/ Discard(w, t) \/ Discarded(w, t)

Next ==
  \E w \in Worker :
    \/ StartStep(w) \/ Stop(w) \/ EndStep(w) \/ Crash(w)
    \/ \E t \in Task : TaskStep(w, t)

Spec == Init /\ [][Next]_vars

\* uvicorn keeps its workers alive, what lifespan has begun goes on, and waits end at
\* their time limits.  Nothing says when a task is done with its connection.
Fairness ==
  \A w \in Worker :
    /\ WF_vars(StartStep(w)) /\ WF_vars(EndStep(w))
    /\ \A t \in Task : WF_vars(WaitEnds(w, t))

FairSpec == Spec /\ Fairness

-----------------------------------------------------------------------------
(* Properties *)

\* Every variable keeps its type, and a task or the shutdown that is busy with a
\* connection has one.
LifespanTypeOK ==
  /\ admin \in BOOLEAN /\ key \in BOOLEAN /\ orphaned \in BOOLEAN
  /\ life \in [Worker -> Life]
  /\ free \in [Worker -> SUBSET Conn] /\ closed \in [Worker -> SUBSET Conn]
  /\ closing \in [Worker -> Conn \cup {None}]
  /\ \A w \in Worker : life[w] = "close" <=> closing[w] # None
  /\ inFlight \in [Worker -> Nat] /\ returned \in [Worker -> BOOLEAN]
  /\ use \in [Worker -> [Task -> UseState]]
  /\ early \in [Worker -> SUBSET Task] /\ overdue \subseteq Worker
  /\ stops \in Nat /\ crashes \in Nat

\* Where a connection is: in the queue, with one task, with the shutdown, or closed.
ConnOwned(w, c) ==
  \/ /\ c \in free[w] \ closed[w] /\ closing[w] # c
     /\ \A t \in Task : use[w][t].conn # c
  \/ /\ c \notin free[w] \cup closed[w] /\ closing[w] # c
     /\ \E t \in Task : /\ use[w][t].conn = c
                        /\ \A s \in Task \ {t} : use[w][s].conn # c
  \/ /\ c \notin free[w] \cup closed[w] /\ closing[w] = c
     /\ \A t \in Task : use[w][t].conn # c
  \/ /\ c \in closed[w] \ free[w] /\ closing[w] # c
     /\ \A t \in Task : use[w][t].conn # c

\* No connection is lost, shared by two tasks, or closed under the hands of one, and
\* none is put into the queue of a pool that is gone: whatever requests, time limits
\* and the shutdown do in which order.
ConnsConserved ==
  \A w \in Worker :
    /\ \A c \in Conn : ConnOwned(w, c)
    /\ life[w] = "down" => free[w] = {}

\* Shutdown waits for the connections in use: unless its 10 s pass, it closes none
\* before each task that had one when it began has given it back.
DrainedFirst ==
  \A w \in Worker \ overdue :
    life[w] \in {"drain", "close", "down"} => early[w] = {}

\* A shutdown that waits has something to wait for: whatever tasks take, give back and
\* give up while it is getting there, it does not sleep through the return of the last
\* connection, and its 10 s pass only while one is in use.
NoIdleWait ==
  \A w \in Worker : life[w] = "wait" => returned[w] \/ inFlight[w] > 0

\* README: without an administrator, one is created with an API key.  A worker serves
\* only with an administrator, and that has a key, or the worker that creates it is
\* about to; unless a worker died in between.
Administered ==
  /\ (\E w \in Worker : life[w] = "serve") => admin
  /\ admin => key \/ orphaned \/ \E w \in Worker : life[w] = "key"

\* A worker that is gone serves again: the race for the first administrator makes a
\* start fail, but not for ever.
ComesUp == \A w \in Worker : life[w] = "down" ~> life[w] = "serve"

\* A shutdown ends, whoever keeps a connection.
ShutdownEnds == \A w \in Worker : life[w] = "wait" ~> life[w] = "down"

=============================================================================
