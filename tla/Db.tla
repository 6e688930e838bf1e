---------------------------------- MODULE Db ----------------------------------
(***************************************************************************)
(* The database handle of src/lib/db.ts: init() makes a pool and returns   *)
(* query() and end(); query() wraps pool.query in a promise of its own and *)
(* hangs a one-shot 'error' listener on the pool.  pg-pool, the server and *)
(* the network are the environment, modelled from how db.ts uses them.     *)
(*                                                                         *)
(* A connection is named by the query it was opened for, a temporary pool  *)
(* by the query that makes it.  Statements carry no text: what matters is  *)
(* how each ended.  The waiting list of a pool is the set of the queries   *)
(* waiting on it: pg-pool serves them in order, here any of them is next.  *)
(***************************************************************************)
EXTENDS Naturals, FiniteSets

CONSTANTS
  Query,        \* calls of query()
  Main,         \* the pool made by init()
  NoPool,       \* null
  NoConn,       \* no connection
  MaxClients    \* config.max

ASSUME DbAssumption ==
  /\ IsFiniteSet(Query)
  /\ Main \notin Query /\ NoPool \notin Query \cup {Main}
  /\ NoConn \notin Query
  /\ MaxClients \in Nat \ {0}

VARIABLES
  pool,       \* the variable `pool` captured by query() and end()
  ended,      \* the pools on which pool.end() was called
  used,       \* the pool each query was given
  stmt,       \* where each query's statement is inside pg-pool
  on,         \* the connection that carries, or carried, each query
  conn,       \* the state of each connection
  listening,  \* queries whose 'error' listener is still on their pool
  timer,      \* queries with a scheduled setTimeout rejection
  handled,    \* queries whose then/catch callback has run
  result,     \* how the promise of each query was settled
  crashed     \* an 'error' event found no listener: uncaught exception

poolVars == <<pool, ended>>
wireVars == <<used, stmt, on, conn>>
promiseVars == <<listening, timer, handled, result>>
dbVars == <<poolVars, wireVars, promiseVars, crashed>>

Pools == Query \cup {Main}
Pending == {"waiting", "connecting", "running"}
Failed == {"dbError", "connError", "noConn", "refused"}
Done == {"ok"} \cup Failed
Open == {"connecting", "busy", "idle"}

(* One type invariant for the module. *)
TypeOK ==
  /\ pool \in {Main, NoPool}
  /\ ended \in SUBSET Pools
  /\ used \in [Query -> Pools]
  /\ stmt \in [Query -> {"none"} \cup Pending \cup Done]
  /\ on \in [Query -> Query \cup {NoConn}]
  /\ conn \in [Query -> Open \cup {"none", "closing", "failing", "closed"}]
  /\ listening \in SUBSET Query /\ timer \in SUBSET Query
  /\ handled \in SUBSET Query
  /\ result \in [Query -> {"none", "data", "dbError", "ownError", "stray"}]
  /\ crashed \in BOOLEAN

Init ==
  /\ pool = Main /\ ended = {}
  /\ used = [q \in Query |-> Main]
  /\ stmt = [q \in Query |-> "none"]
  /\ on = [q \in Query |-> NoConn]
  /\ conn = [q \in Query |-> "none"]
  /\ listening = {} /\ timer = {} /\ handled = {}
  /\ result = [q \in Query |-> "none"]
  /\ crashed = FALSE

(* The clients of pool p that count against config.max, and the free ones. *)
Clients(p) == {c \in Query : used[c] = p /\ conn[c] \in Open}
Idle(p) == {c \in Query : used[c] = p /\ conn[c] = "idle"}
Waiting(p) == {q \in Query : used[q] = p /\ stmt[q] = "waiting" /\ on[q] = NoConn}

(* A settled pool.query promise whose callback has not run yet.  Promise   *)
(* callbacks run before the next timer or socket event.                    *)
MicrotaskPending == \E q \in Query : stmt[q] \in Done /\ q \notin handled

-------------------------------------------------------------------------------
(* pg-pool's _pulseQueue after pool p changed to (k, s): serve one waiting *)
(* query with an idle client or a new one, if the pool is not ending.      *)

CanServe(p, k) ==
  /\ p \notin ended
  /\ Waiting(p) # {}
  /\ \/ \E c \in Query : used[c] = p /\ k[c] = "idle"
     \/ Cardinality({c \in Query : used[c] = p /\ k[c] \in Open}) < MaxClients

Serve(p, k, s, q) ==
  \/ \E c \in Query :
       /\ used[c] = p /\ k[c] = "idle"
       /\ conn' = [k EXCEPT ![c] = "busy"]
       /\ stmt' = [s EXCEPT ![q] = "running"]
       /\ on' = [on EXCEPT ![q] = c]
  \/ /\ ~ \E c \in Query : used[c] = p /\ k[c] = "idle"
     /\ conn' = [k EXCEPT ![q] = "connecting"]
     /\ on' = [on EXCEPT ![q] = q]
     /\ stmt' = s

Pulse(p, k, s) ==
  IF CanServe(p, k)
  THEN \E q \in Waiting(p) : Serve(p, k, s, q)
  ELSE conn' = k /\ stmt' = s /\ UNCHANGED on

(* Mutant: a client is kept although its pool is ending. *)
ReleaseAlwaysIdle(c, s) == Pulse(used[c], [conn EXCEPT ![c] = "idle"], s)

(* client.release() without an error: the client is removed when the pool  *)
(* is ending, otherwise goes idle and the queue is pulsed.                 *)
Release(c, s) ==
  IF used[c] \in ended
  THEN conn' = [conn EXCEPT ![c] = "closing"] /\ stmt' = s /\ UNCHANGED on
  ELSE Pulse(used[c], [conn EXCEPT ![c] = "idle"], s)

-------------------------------------------------------------------------------
(* query(): the pool is chosen when it is called - the captured one, or a  *)
(* temporary one after end() - the listener goes on it and pool.query asks *)
(* it for a client: an idle one, a new one, or a place in the queue.       *)

(* Mutant: no temporary pool, the captured handle is used as it is. *)
PickPoolUnchecked(q) == pool

PickPool(q) == IF pool = NoPool THEN q ELSE pool

StartOn(q, p) ==
  \/ \E c \in Idle(p) :
       /\ p \notin ended
       /\ stmt' = [stmt EXCEPT ![q] = "running"]
       /\ on' = [on EXCEPT ![q] = c]
       /\ conn' = [conn EXCEPT ![c] = "busy"]
  \/ /\ p \notin ended /\ Idle(p) = {} /\ Cardinality(Clients(p)) < MaxClients
     /\ stmt' = [stmt EXCEPT ![q] = "connecting"]
     /\ on' = [on EXCEPT ![q] = q]
     /\ conn' = [conn EXCEPT ![q] = "connecting"]
  \/ /\ p \in ended \/ (Idle(p) = {} /\ Cardinality(Clients(p)) >= MaxClients)
     /\ stmt' = [stmt EXCEPT ![q] = IF p \in ended THEN "refused" ELSE "waiting"]
     /\ UNCHANGED <<on, conn>>

CallQuery(q) ==
  /\ stmt[q] = "none"
  /\ used' = [used EXCEPT ![q] = PickPool(q)]
  /\ listening' = listening \cup {q}
  /\ StartOn(q, PickPool(q))
  /\ UNCHANGED <<poolVars, timer, handled, result, crashed>>

(* Mutant: end() does not reset the handle. *)
CallEndKeepsHandle ==
  /\ pool \notin ended
  /\ ended' = ended \cup {pool}
  /\ conn' = [c \in Query |-> IF c \in Idle(pool) THEN "closing" ELSE conn[c]]
  /\ UNCHANGED <<pool, used, stmt, on, promiseVars, crashed>>

(* end(): the handle is dropped before the pool is ended, so that no later *)
(* query() finds an ended pool; pool.end() removes the idle clients, and   *)
(* the others as they are released.  It resolves at once: the span that    *)
(* awaits pool.end() is not awaited.  A second end() finds null.           *)
CallEnd ==
  /\ pool # NoPool
  /\ pool' = NoPool
  /\ ended' = ended \cup {pool}
  /\ conn' = [c \in Query |-> IF c \in Idle(pool) THEN "closing" ELSE conn[c]]
  /\ UNCHANGED <<used, stmt, on, promiseVars, crashed>>

-------------------------------------------------------------------------------
(* The environment: connections, statements, timers of pg-pool.            *)

(* The client connected: its query starts on it, unless it gave up.        *)
ConnectOk(c) ==
  /\ conn[c] = "connecting"
  /\ IF stmt[c] \in {"connecting", "waiting"}
     THEN /\ conn' = [conn EXCEPT ![c] = "busy"]
          /\ stmt' = [stmt EXCEPT ![c] = "running"]
          /\ on' = [on EXCEPT ![c] = c]
     ELSE Release(c, stmt)
  /\ UNCHANGED <<used, poolVars, promiseVars, crashed>>

(* It did not: refused, or connectionTimeoutMillis went by.                *)
ConnectFail(c) ==
  /\ conn[c] = "connecting"
  /\ Pulse(used[c], [conn EXCEPT ![c] = "closed"],
           IF stmt[c] \in {"connecting", "waiting"}
           THEN [stmt EXCEPT ![c] = "noConn"] ELSE stmt)
  /\ UNCHANGED <<used, poolVars, promiseVars, crashed>>

(* Mutant: no connectionTimeoutMillis, a queued query waits for ever. *)
GiveUpNever(q) == stmt[q] = "waiting" /\ FALSE /\ UNCHANGED dbVars

(* connectionTimeoutMillis of a queued query, also when it has been given  *)
(* a client that is still connecting.                                      *)
GiveUp(q) ==
  /\ stmt[q] = "waiting"
  /\ stmt' = [stmt EXCEPT ![q] = "noConn"]
  /\ UNCHANGED <<used, on, conn, poolVars, promiseVars, crashed>>

StatementOk(q) ==
  /\ stmt[q] = "running"
  /\ Release(on[q], [stmt EXCEPT ![q] = "ok"])
  /\ UNCHANGED <<used, poolVars, promiseVars, crashed>>

(* Mutant: a client whose statement failed goes back to the idle ones. *)
StatementFailsKeepsClient(q, how) ==
  /\ stmt[q] = "running"
  /\ Release(on[q], [stmt EXCEPT ![q] = how])
  /\ UNCHANGED <<used, poolVars, promiseVars, crashed>>

(* An ErrorResponse of the server, or a failure of the connection (broken  *)
(* stream, RESULT_SIZE_EXCEEDED, query_timeout): release(err) removes the  *)
(* client whichever it was.                                                *)
StatementFails(q, how) ==
  /\ stmt[q] = "running"
  /\ stmt' = [stmt EXCEPT ![q] = how]
  /\ conn' = [conn EXCEPT ![on[q]] = "closing"]
  /\ UNCHANGED <<used, on, poolVars, promiseVars, crashed>>

StatementError(q) == StatementFails(q, "dbError") \/ StatementFails(q, "connError")

(* Mutant: idleTimeoutMillis is 0.                                         *)
IdleTimeoutNever(c) == conn[c] = "idle" /\ FALSE /\ UNCHANGED dbVars

(* idleTimeoutMillis: an idle client is removed. *)
IdleTimeout(c) ==
  /\ conn[c] = "idle"
  /\ conn' = [conn EXCEPT ![c] = "closing"]
  /\ UNCHANGED <<used, stmt, on, poolVars, promiseVars, crashed>>

(* The socket of a removed client is closed, and the queue pulsed.         *)
ConnClosed(c) ==
  /\ conn[c] \in {"closing", "failing"}
  /\ Pulse(used[c], [conn EXCEPT ![c] = "closed"], stmt)
  /\ UNCHANGED <<used, poolVars, promiseVars, crashed>>

-------------------------------------------------------------------------------
(* poolerQueryHandleError's callbacks.                                     *)

(* A client that no query holds fails: pg-pool removes it and the pool     *)
(* emits 'error', once for each client.  Every once-listener of the pool   *)
(* runs and is removed; it rejects its query later, from a setTimeout, if  *)
(* it is not settled by then.  With no listener the error is uncaught.     *)
Listeners(p) == {q \in listening : used[q] = p}

(* Mutant: the listener rejects at once, without the setTimeout. *)
RejectNow(Q) ==
  /\ result' = [q \in Query |-> IF q \in Q /\ result[q] = "none"
                                 THEN "stray" ELSE result[q]]
  /\ UNCHANGED timer

RejectLater(Q) ==
  /\ timer' = timer \cup {q \in Q : result[q] = "none"}
  /\ UNCHANGED result

ConnError(c) ==
  /\ conn[c] \in {"idle", "closing"}
  /\ MicrotaskPending =>
       \E q \in Query : stmt[q] \in Done /\ q \notin handled /\ on[q] = c
  /\ conn' = [conn EXCEPT ![c] = IF conn[c] = "idle" THEN "closed" ELSE "failing"]
  /\ crashed' = (Listeners(used[c]) = {})
  /\ listening' = listening \ Listeners(used[c])
  /\ RejectLater(Listeners(used[c]))
  /\ UNCHANGED <<poolVars, used, stmt, on, handled>>

(* The setTimeout callback of the listener. *)
RejectStray(q) ==
  /\ q \in timer
  /\ timer' = timer \ {q}
  /\ result' = [result EXCEPT ![q] = IF @ = "none" THEN "stray" ELSE @]
  /\ UNCHANGED <<poolVars, wireVars, listening, handled, crashed>>

(* Mutant: the state of the driver is passed on as it is.                  *)
OutcomeRaw(q) == stmt[q]

(* Mutant: the failure to get a client is swallowed.                       *)
OutcomeSwallowed(q) ==
  CASE stmt[q] = "ok" -> "data"
    [] stmt[q] = "dbError" -> "dbError"
    [] stmt[q] = "noConn" -> "none"
    [] OTHER -> "ownError"

(* then/catch of pool.query, and the rest of query(): the promise keeps    *)
(* the first outcome; a DatabaseError is told apart from other errors; a   *)
(* temporary pool is ended, its client being idle, when the query returned *)
(* rows.  The finally block binds end() and does not call it.              *)
Outcome(q) ==
  CASE stmt[q] = "ok" -> "data"
    [] stmt[q] = "dbError" -> "dbError"
    [] OTHER -> "ownError"

EndsTemporary(q) == used[q] = q /\ result[q] = "none" /\ stmt[q] = "ok"

Settle(q) ==
  /\ stmt[q] \in Done /\ q \notin handled
  /\ handled' = handled \cup {q}
  /\ result' = [result EXCEPT ![q] = IF @ = "none" THEN Outcome(q) ELSE @]
  /\ ended' = IF EndsTemporary(q) THEN ended \cup {q} ELSE ended
  /\ conn' = [c \in Query |-> IF EndsTemporary(q) /\ c \in Idle(q)
                              THEN "closing" ELSE conn[c]]
  /\ UNCHANGED <<pool, used, stmt, on, listening, timer, crashed>>

-------------------------------------------------------------------------------
(* What pg-pool, the server and the event loop may do next: promise        *)
(* callbacks first, except that an error already on its way in the stream  *)
(* of the connection that just settled a query may come before them.       *)

PoolStep ==
  \/ \E c \in Query : ConnectOk(c) \/ ConnectFail(c) \/ ConnClosed(c)
  \/ \E q \in Query : StatementOk(q) \/ StatementError(q) \/ GiveUp(q)
  \/ \E q \in Query : RejectStray(q)

Environment ==
  \/ \E q \in Query : Settle(q)
  \/ \E c \in Query : ConnError(c)
  \/ ~MicrotaskPending /\ PoolStep
  \/ ~MicrotaskPending /\ \E c \in Query : IdleTimeout(c)

Caller == ~MicrotaskPending /\ ((\E q \in Query : CallQuery(q)) \/ CallEnd)

Next == ~crashed /\ (Environment \/ Caller)

(* Every timer of pg-pool fires: connectionTimeoutMillis bounds connecting *)
(* and waiting, query_timeout bounds a statement (both in the server's     *)
(* DEFAULT_POOL_CONFIG); promise and timer callbacks run; a socket that is *)
(* being closed closes.  Nobody has to call query() or end().              *)
Quiet == ~crashed /\ ~MicrotaskPending

Fairness ==
  /\ \A c \in Query : WF_dbVars(Quiet /\ (ConnectOk(c) \/ ConnectFail(c)))
  /\ \A c \in Query : WF_dbVars(Quiet /\ (ConnClosed(c)))
  /\ \A q \in Query : WF_dbVars(Quiet /\ (StatementOk(q) \/ StatementError(q)))
  /\ \A q \in Query : WF_dbVars(Quiet /\ (GiveUp(q)))
  /\ \A q \in Query : WF_dbVars(Quiet /\ (RejectStray(q)))
  /\ \A q \in Query : WF_dbVars(~crashed /\ Settle(q))

Spec == Init /\ [][Next]_dbVars
FairSpec == Spec /\ Fairness

-------------------------------------------------------------------------------
(* Properties                                                              *)

(* No interleaving of query() and end() hands a query a pool that pg-pool  *)
(* refuses because it was ended (the race of db.ts:104-109).               *)
NotRefused == \A q \in Query : stmt[q] # "refused"

(* A connection on which a statement failed carries no further statement,  *)
(* so a BEGIN left open by a failed batch cannot swallow the next one.     *)
FailedConnRetired ==
  \A q, r \in Query :
    stmt[q] \in {"dbError", "connError"} =>
      /\ conn[on[q]] \in {"closing", "failing", "closed"}
      /\ ~(stmt[r] = "running" /\ on[r] = on[q])

(* An error the pool emits becomes the answer of a query only while the    *)
(* statement of that query is unanswered: handled errors "take over other  *)
(* stream errors" (db.ts:39-40); and an answer once given stays.           *)
OwnOutcomeFirst ==
  [][\A q \in Query : result'[q] # result[q] =>
        /\ result[q] = "none"
        /\ result'[q] = "stray" => stmt[q] \in Pending
        /\ result'[q] # "stray" => result'[q] = Outcome(q)]_dbVars

(* Every query() returns, whatever became of its pool and its connection.  *)
EveryQueryReturns ==
  \A q \in Query : stmt[q] # "none" ~> (result[q] # "none" \/ crashed)

(* Once end() was called the clients of the pool are all closed in the end,*)
(* those that were busy or connecting at that moment included.             *)
EndedPoolDrains ==
  Main \in ended ~>
    (crashed \/ \A c \in Query : used[c] = Main => conn[c] \in {"none", "closed"})

(* What comments of db.ts say and the code does not do.                    *)

(* db.ts:234-235: on an error that is not a DatabaseError "we kill the     *)
(* connection To attempt a clean reconnect on next try".                   *)
FailureKillsConnection ==
  \A q \in Query :
    result[q] \in {"ownError", "stray"} /\ on[q] # NoConn => conn[on[q]] \notin Open

(* db.ts:108-109: a query after end() makes a temporary pool and it is     *)
(* closed right after.                                                     *)
TemporaryPoolEnded ==
  \A q \in Query : used[q] = q /\ result[q] # "none" => q \in ended

(* db.ts:24-25: every query has an error handler on the pool, so that      *)
(* connection errors do not bubble up and kill the server.                 *)
NoUncaughtError == ~crashed
===============================================================================
