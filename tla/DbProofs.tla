------------------------------- MODULE DbProofs -------------------------------
(***************************************************************************)
(* Proofs about Db, for any number of queries and any config.max.          *)
(***************************************************************************)
EXTENDS Db, TLAPS

(* The strengthening: an ended pool is out of reach of the queries to      *)
(* come, a listener or a timer belongs to a query that was called, and a   *)
(* query whose callback ran has its answer.                                *)
HandleOpen == pool = Main => Main \notin ended
FreshTemporary == \A q \in Query : stmt[q] = "none" => q \notin ended
ListenersCalled == \A q \in Query : q \in listening \cup timer => stmt[q] # "none"
RunningOnConn == \A q \in Query : stmt[q] = "running" => on[q] \in Query
HandledAnswered == \A q \in Query : q \in handled => result[q] # "none"

DbInv ==
  /\ TypeOK /\ NotRefused
  /\ HandleOpen /\ FreshTemporary /\ ListenersCalled /\ RunningOnConn
  /\ HandledAnswered

States == {"none"} \cup Pending \cup Done
ConnStates == Open \cup {"none", "closing", "failing", "closed"}

(* stmt' and on' come from s and on by starting waiting queries only.      *)
StartsWaiting(s) ==
  /\ stmt' \in [Query -> States]
  /\ conn' \in [Query -> ConnStates]
  /\ on' \in [Query -> Query \cup {NoConn}]
  /\ \A q \in Query :
       \/ stmt'[q] = s[q] /\ (on'[q] = on[q] \/ on'[q] \in Query)
       \/ stmt[q] = "waiting" /\ stmt'[q] = "running" /\ on'[q] \in Query

-------------------------------------------------------------------------------
(* What serving the queue may change: the states of connections and of     *)
(* the waiting queries, within their types; no query becomes uncalled or   *)
(* refused, and none that was settled changes.                             *)
LEMMA PulseStep ==
  ASSUME TypeOK, NEW p,
         NEW k \in [Query -> ConnStates],
         NEW s \in [Query -> States],
         Pulse(p, k, s)
  PROVE  StartsWaiting(s)
<1>1. CASE ~CanServe(p, k)
  BY <1>1 DEF Pulse, TypeOK, StartsWaiting, States, ConnStates
<1>2. CASE CanServe(p, k)
  <2>1. PICK q \in Waiting(p) : Serve(p, k, s, q)
    BY <1>2 DEF Pulse
  <2>2. q \in Query /\ stmt[q] = "waiting"
    BY DEF Waiting
  <2>3. QED
    BY <2>1, <2>2 DEF Serve, TypeOK, Open, Pending, StartsWaiting, States, ConnStates
<1>3. QED
  BY <1>1, <1>2

(* A released client: the same, whether it is removed or kept.             *)
LEMMA ReleaseStep ==
  ASSUME TypeOK, NEW c \in Query,
         NEW s \in [Query -> States],
         Release(c, s)
  PROVE  StartsWaiting(s)
<1>1. CASE used[c] \in ended
  BY <1>1 DEF Release, TypeOK, StartsWaiting, States, ConnStates
<1>2. CASE used[c] \notin ended
  <2>1. [conn EXCEPT ![c] = "idle"] \in [Query -> ConnStates]
    BY DEF TypeOK, Open, ConnStates
  <2>2. Pulse(used[c], [conn EXCEPT ![c] = "idle"], s)
    BY <1>2 DEF Release
  <2>3. QED
    BY <2>1, <2>2, PulseStep
<1>3. QED
  BY <1>1, <1>2

-------------------------------------------------------------------------------
(* A step of the environment inside pg-pool touches none of the variables  *)
(* of the promises and of the handle, and never makes a query uncalled or  *)
(* refused: all that the invariant needs of it.                            *)
WireStep ==
  /\ UNCHANGED <<used, poolVars, promiseVars, crashed>>
  /\ stmt' \in [Query -> States]
  /\ conn' \in [Query -> ConnStates]
  /\ on' \in [Query -> Query \cup {NoConn}]
  /\ \A q \in Query : /\ stmt[q] = "none" <=> stmt'[q] = "none"
                      /\ stmt'[q] = "refused" => stmt[q] = "refused"
                      /\ stmt'[q] = "running" => on'[q] \in Query

(* A step that serves the queue after s is a step of the wire, when s is.  *)
LEMMA StartsWaitingWire ==
  ASSUME TypeOK, RunningOnConn, NEW s \in [Query -> States], StartsWaiting(s),
         UNCHANGED <<used, poolVars, promiseVars, crashed>>,
         \A q \in Query : /\ stmt[q] = "none" <=> s[q] = "none"
                          /\ s[q] = "refused" => stmt[q] = "refused"
                          /\ s[q] = "running" => on[q] \in Query
  PROVE  WireStep
BY DEF StartsWaiting, WireStep

(* A client that connects runs its query, or is released.                  *)
LEMMA ConnectOkWire ==
  ASSUME TypeOK, RunningOnConn, NEW c \in Query, ConnectOk(c) PROVE WireStep
<1>1. CASE stmt[c] \in {"connecting", "waiting"}
  BY <1>1 DEF ConnectOk, WireStep, TypeOK, Open, Pending, States, ConnStates, RunningOnConn
<1>2. CASE stmt[c] \notin {"connecting", "waiting"}
  <2>1. Release(c, stmt) /\ UNCHANGED <<used, poolVars, promiseVars, crashed>>
    BY <1>2 DEF ConnectOk
  <2>2. stmt \in [Query -> States]
    BY DEF TypeOK, States
  <2>3. QED
    BY <2>1, <2>2, ReleaseStep, StartsWaitingWire DEF RunningOnConn
<1>3. QED
  BY <1>1, <1>2

(* A client that could not connect frees its place for a waiting query.    *)
LEMMA ConnectFailWire ==
  ASSUME TypeOK, RunningOnConn, NEW c \in Query, ConnectFail(c) PROVE WireStep
<1> DEFINE k == [conn EXCEPT ![c] = "closed"]
           s == IF stmt[c] \in {"connecting", "waiting"}
                THEN [stmt EXCEPT ![c] = "noConn"] ELSE stmt
<1>1. k \in [Query -> ConnStates]
  BY DEF TypeOK, ConnStates
<1>2. /\ s \in [Query -> States]
      /\ \A q \in Query : /\ stmt[q] = "none" <=> s[q] = "none"
                          /\ s[q] = "refused" => stmt[q] = "refused"
                          /\ s[q] = "running" => on[q] \in Query
  BY DEF TypeOK, Done, Failed, States, RunningOnConn
<1>3. Pulse(used[c], k, s) /\ UNCHANGED <<used, poolVars, promiseVars, crashed>>
  BY DEF ConnectFail
<1> HIDE DEF k, s
<1>4. QED
  BY <1>1, <1>2, <1>3, PulseStep, StartsWaitingWire

(* So does a connection that is closed.                                    *)
LEMMA ConnClosedWire ==
  ASSUME TypeOK, RunningOnConn, NEW c \in Query, ConnClosed(c) PROVE WireStep
<1> DEFINE k == [conn EXCEPT ![c] = "closed"]
<1>1. k \in [Query -> ConnStates] /\ stmt \in [Query -> States]
  BY DEF TypeOK, ConnStates, States
<1>2. Pulse(used[c], k, stmt) /\ UNCHANGED <<used, poolVars, promiseVars, crashed>>
  BY DEF ConnClosed
<1> HIDE DEF k
<1>3. StartsWaiting(stmt)
  BY <1>1, <1>2, PulseStep
<1>4. QED
  BY <1>1, <1>2, <1>3, StartsWaitingWire DEF RunningOnConn

(* An answered statement releases its client.                              *)
LEMMA StatementOkWire ==
  ASSUME TypeOK, RunningOnConn, NEW q \in Query, StatementOk(q) PROVE WireStep
<1> DEFINE s == [stmt EXCEPT ![q] = "ok"]
<1>1. on[q] \in Query
  BY DEF StatementOk, RunningOnConn
<1>2. /\ s \in [Query -> States]
      /\ \A r \in Query : /\ stmt[r] = "none" <=> s[r] = "none"
                          /\ s[r] = "refused" => stmt[r] = "refused"
                          /\ s[r] = "running" => on[r] \in Query
  BY DEF StatementOk, TypeOK, Done, States, RunningOnConn
<1>3. Release(on[q], s) /\ UNCHANGED <<used, poolVars, promiseVars, crashed>>
  BY DEF StatementOk
<1> HIDE DEF s
<1>4. QED
  BY <1>1, <1>2, <1>3, ReleaseStep, StartsWaitingWire

(* A failed statement retires it.                                          *)
LEMMA StatementErrorWire ==
  ASSUME TypeOK, RunningOnConn, NEW q \in Query, StatementError(q) PROVE WireStep
BY DEF StatementError, StatementFails, WireStep, TypeOK, Done, Failed, States,
       ConnStates, RunningOnConn

-------------------------------------------------------------------------------
(* The steps of the program.                                               *)

(* The invariant speaks of nothing else that the wire changes.             *)
LEMMA WireInv == ASSUME DbInv, WireStep PROVE DbInv'
BY DEF DbInv, WireStep, TypeOK, NotRefused, HandleOpen, FreshTemporary,
       ListenersCalled, RunningOnConn, HandledAnswered, States, ConnStates,
       poolVars, promiseVars

(* The pool query() picks is never an ended one: the captured pool is      *)
(* dropped before it is ended, a temporary one is ended by its own query.  *)
LEMMA CallQueryInv == ASSUME DbInv, NEW q \in Query, CallQuery(q) PROVE DbInv'
<1> DEFINE p == PickPool(q)
<1>1. p \in Pools /\ p \notin ended
  BY DEF CallQuery, PickPool, DbInv, TypeOK, HandleOpen, FreshTemporary, Pools
<1>2. StartOn(q, p) /\ stmt[q] = "none"
  BY DEF CallQuery
<1> HIDE DEF p
<1>3. Idle(p) \subseteq Query
  BY DEF Idle
<1>4. /\ stmt' \in [Query -> States] /\ conn' \in [Query -> ConnStates]
      /\ on' \in [Query -> Query \cup {NoConn}]
      /\ stmt'[q] \in Pending
      /\ stmt'[q] = "running" => on'[q] \in Query
      /\ \A r \in Query \ {q} : stmt'[r] = stmt[r] /\ on'[r] = on[r]
  BY <1>1, <1>2, <1>3 DEF StartOn, DbInv, TypeOK, States, ConnStates, Open, Pending
<1>5. TypeOK'
  BY <1>1, <1>4 DEF CallQuery, p, DbInv, TypeOK, States, ConnStates, poolVars
<1>6. (NotRefused /\ RunningOnConn)'
  BY <1>4 DEF DbInv, NotRefused, RunningOnConn, Pending
<1>7. (HandleOpen /\ FreshTemporary /\ ListenersCalled /\ HandledAnswered)'
  BY <1>4 DEF CallQuery, DbInv, HandleOpen, FreshTemporary, ListenersCalled,
              HandledAnswered, Pending, poolVars
<1>8. QED
  BY <1>5, <1>6, <1>7 DEF DbInv

(* end() drops the handle in the step that ends the pool.                  *)
LEMMA CallEndInv == ASSUME DbInv, CallEnd PROVE DbInv'
<1>1. pool = Main /\ pool' = NoPool /\ ended' = ended \cup {Main}
  BY DEF CallEnd, DbInv, TypeOK
<1>2. TypeOK'
  BY <1>1 DEF CallEnd, DbInv, TypeOK, Pools, promiseVars
<1>3. FreshTemporary' /\ HandleOpen'
  BY <1>1, DbAssumption DEF CallEnd, DbInv, FreshTemporary, HandleOpen
<1>4. (NotRefused /\ RunningOnConn /\ ListenersCalled /\ HandledAnswered)'
  BY DEF CallEnd, DbInv, NotRefused, RunningOnConn, ListenersCalled,
         HandledAnswered, promiseVars
<1>5. QED
  BY <1>2, <1>3, <1>4 DEF DbInv

(* A temporary pool is ended by its own query only, which was called.      *)
LEMMA SettleInv == ASSUME DbInv, NEW q \in Query, Settle(q) PROVE DbInv'
<1>1. stmt[q] \in Done /\ Outcome(q) \in {"data", "dbError", "ownError"}
  BY DEF Settle, Outcome
<1>2. TypeOK'
  BY <1>1 DEF Settle, DbInv, TypeOK, Pools
<1>3. FreshTemporary' /\ HandleOpen'
  BY <1>1, DbAssumption DEF Settle, DbInv, FreshTemporary, HandleOpen, Done, Failed
<1>4. HandledAnswered'
  BY <1>1 DEF Settle, DbInv, TypeOK, HandledAnswered
<1>5. (NotRefused /\ RunningOnConn /\ ListenersCalled)'
  BY DEF Settle, DbInv, NotRefused, RunningOnConn, ListenersCalled
<1>6. QED
  BY <1>2, <1>3, <1>4, <1>5 DEF DbInv

(* The error event moves listeners to timers; both are of called queries.  *)
LEMMA ConnErrorInv == ASSUME DbInv, NEW c \in Query, ConnError(c) PROVE DbInv'
<1>1. TypeOK'
  BY DEF ConnError, RejectLater, Listeners, DbInv, TypeOK, poolVars, Open
<1>2. (NotRefused /\ HandleOpen /\ FreshTemporary /\ RunningOnConn)'
  BY DEF ConnError, DbInv, NotRefused, HandleOpen, FreshTemporary, RunningOnConn, poolVars
<1>3. (ListenersCalled /\ HandledAnswered)'
  BY DEF ConnError, RejectLater, Listeners, DbInv, ListenersCalled, HandledAnswered
<1>4. QED
  BY <1>1, <1>2, <1>3 DEF DbInv

(* A listener that rejects late changes the promise alone.                 *)
LEMMA RejectStrayInv == ASSUME DbInv, NEW q \in Query, RejectStray(q) PROVE DbInv'
BY DEF RejectStray, DbInv, TypeOK, NotRefused, HandleOpen, FreshTemporary,
       ListenersCalled, RunningOnConn, HandledAnswered, poolVars, wireVars

(* connectionTimeoutMillis is a step of the wire.                          *)
LEMMA GiveUpInv == ASSUME DbInv, NEW q \in Query, GiveUp(q) PROVE DbInv'
<1>1. WireStep
  BY DEF GiveUp, DbInv, TypeOK, WireStep, States, ConnStates, Done, Failed, RunningOnConn
<1>2. QED
  BY <1>1, WireInv

(* So is idleTimeoutMillis.                                                *)
LEMMA IdleTimeoutInv == ASSUME DbInv, NEW c \in Query, IdleTimeout(c) PROVE DbInv'
<1>1. WireStep
  BY DEF IdleTimeout, DbInv, TypeOK, WireStep, States, ConnStates, RunningOnConn
<1>2. QED
  BY <1>1, WireInv

(* Every step of the pool and of the network keeps the invariant, whoever  *)
(* the caller is.                                                          *)
LEMMA EnvironmentInv == ASSUME DbInv, Environment PROVE DbInv'
<1>1. ASSUME NEW q \in Query, Settle(q) PROVE DbInv'
  BY <1>1, SettleInv
<1>2. ASSUME NEW c \in Query, ConnError(c) PROVE DbInv'
  BY <1>2, ConnErrorInv
<1>3. ASSUME NEW c \in Query, ConnectOk(c) \/ ConnectFail(c) \/ ConnClosed(c) PROVE DbInv'
  BY <1>3, ConnectOkWire, ConnectFailWire, ConnClosedWire, WireInv DEF DbInv
<1>4. ASSUME NEW q \in Query, StatementOk(q) \/ StatementError(q) PROVE DbInv'
  BY <1>4, StatementOkWire, StatementErrorWire, WireInv DEF DbInv
<1>5. ASSUME NEW q \in Query, GiveUp(q) \/ RejectStray(q) \/ IdleTimeout(q) PROVE DbInv'
  BY <1>5, GiveUpInv, RejectStrayInv, IdleTimeoutInv
<1>6. QED
  BY <1>1, <1>2, <1>3, <1>4, <1>5 DEF Environment, PoolStep

(* A stuttering step keeps the invariant.                                  *)
LEMMA StutterInv == ASSUME DbInv, UNCHANGED dbVars PROVE DbInv'
BY DEF DbInv, TypeOK, NotRefused, HandleOpen, FreshTemporary, ListenersCalled,
       RunningOnConn, HandledAnswered, dbVars, poolVars, wireVars, promiseVars

(* init() establishes the invariant.                                       *)
LEMMA InitInv == Init => DbInv
BY DbAssumption DEF Init, DbInv, TypeOK, NotRefused, HandleOpen, FreshTemporary,
   ListenersCalled, RunningOnConn, HandledAnswered, Pools

(* The inductive invariant holds of every execution of the handle.         *)
THEOREM DbInvariant == Spec => []DbInv
<1>1. DbInv /\ [Next]_dbVars => DbInv'
  BY EnvironmentInv, CallQueryInv, CallEndInv, StutterInv DEF Next, Caller
<1>2. QED
  BY <1>1, InitInv, PTL DEF Spec

(* The state of the handle and of its queries keeps its type.              *)
THEOREM DbTyped == Spec => []TypeOK
<1>1. DbInv => TypeOK
  BY DEF DbInv
<1>2. QED
  BY <1>1, DbInvariant, PTL

(* However query() and end() interleave, no query is given an ended pool.  *)
THEOREM NeverRefused == Spec => []NotRefused
<1>1. DbInv => NotRefused
  BY DEF DbInv
<1>2. QED
  BY <1>1, DbInvariant, PTL

-------------------------------------------------------------------------------
(* A timer that fires finds no answered statement: its callback came first *)
(* and settled the promise.                                                *)
LEMMA StrayOnlyPending ==
  ASSUME DbInv, ~MicrotaskPending, NEW q \in timer, result[q] = "none"
  PROVE  stmt[q] \in Pending
<1>1. q \in Query
  BY DEF DbInv, TypeOK
<1>2. stmt[q] \notin Done
  BY <1>1 DEF MicrotaskPending, DbInv, HandledAnswered
<1>3. stmt[q] # "none"
  BY <1>1 DEF DbInv, ListenersCalled
<1>4. QED
  BY <1>1, <1>2, <1>3 DEF DbInv, TypeOK

(* Only two callbacks settle a query's promise.                            *)
LEMMA WhoSettles ==
  ASSUME DbInv, [Next]_dbVars, NEW q \in Query, result'[q] # result[q]
  PROVE  \/ \E r \in Query : Settle(r)
         \/ ~MicrotaskPending /\ \E r \in Query : RejectStray(r)
<1>1. ASSUME NEW c \in Query, ConnError(c) PROVE FALSE
  BY <1>1 DEF ConnError, RejectLater
<1>2. ASSUME NEW c \in Query, ConnectOk(c) \/ ConnectFail(c) \/ ConnClosed(c) PROVE FALSE
  BY <1>2 DEF ConnectOk, ConnectFail, ConnClosed, promiseVars
<1>3. ASSUME NEW r \in Query, StatementOk(r) \/ StatementError(r) \/ GiveUp(r) \/ IdleTimeout(r)
      PROVE FALSE
  BY <1>3 DEF StatementOk, StatementError, StatementFails, GiveUp, IdleTimeout, promiseVars
<1>4. ASSUME CallEnd \/ \E r \in Query : CallQuery(r) PROVE FALSE
  BY <1>4 DEF CallEnd, CallQuery, promiseVars
<1>5. CASE UNCHANGED dbVars
  BY <1>5 DEF dbVars, promiseVars
<1>6. QED
  BY <1>1, <1>2, <1>3, <1>4, <1>5 DEF Next, Environment, PoolStep, Caller

(* The setTimeout of the listener does its work: an error emitted by the   *)
(* pool never takes the place of the statement's own answer.               *)
THEOREM OwnOutcomeComesFirst == Spec => OwnOutcomeFirst
<1> DEFINE A == \A q \in Query : result'[q] # result[q] =>
                  /\ result[q] = "none"
                  /\ result'[q] = "stray" => stmt[q] \in Pending
                  /\ result'[q] # "stray" => result'[q] = Outcome(q)
<1>1. DbInv /\ [Next]_dbVars => [A]_dbVars
  <2> SUFFICES ASSUME DbInv, [Next]_dbVars, NEW q \in Query, result'[q] # result[q]
               PROVE  /\ result[q] = "none"
                      /\ result'[q] = "stray" => stmt[q] \in Pending
                      /\ result'[q] # "stray" => result'[q] = Outcome(q)
    OBVIOUS
  <2>1. CASE \E r \in Query : Settle(r)
    <3>1. PICK r \in Query : Settle(r)
      BY <2>1
    <3>2. /\ r = q /\ result[q] = "none" /\ result'[q] = Outcome(q)
      BY <3>1 DEF Settle, DbInv, TypeOK
    <3>3. Outcome(q) # "stray"
      BY DEF Outcome
    <3>4. QED
      BY <3>2, <3>3
  <2>2. CASE ~MicrotaskPending /\ \E r \in Query : RejectStray(r)
    <3>1. PICK r \in Query : RejectStray(r)
      BY <2>2
    <3>2. r = q /\ q \in timer /\ result[q] = "none" /\ result'[q] = "stray"
      BY <3>1 DEF RejectStray, DbInv, TypeOK
    <3>3. QED
      BY <2>2, <3>2, StrayOnlyPending
  <2>3. QED
    BY <2>1, <2>2, WhoSettles
<1>2. QED
  BY <1>1, DbInvariant, PTL DEF Spec, OwnOutcomeFirst

-------------------------------------------------------------------------------
(* Which connection carries which statement, and what becomes of one whose *)
(* statement failed.                                                       *)
Gone == {"closing", "failing", "closed"}

(* The strengthening, of the states st of the statements, the connections  *)
(* o that carry them and the states k of the connections: a query without  *)
(* a connection opened none, an uncalled one has none, a running statement *)
(* has a busy connection to itself, and a failed one has retired its own.  *)
Unopened(o, k) == \A q \in Query : o[q] = NoConn => k[q] = "none"
Uncalled(st, o) == \A q \in Query : st[q] = "none" => o[q] = NoConn
RunsAlone(st, o, k) ==
  \A q \in Query : st[q] = "running" =>
    /\ o[q] \in Query /\ k[o[q]] = "busy"
    /\ \A r \in Query : st[r] = "running" /\ o[r] = o[q] => r = q
FailedGone(st, o, k) ==
  \A q \in Query : st[q] \in {"dbError", "connError"} =>
    o[q] \in Query /\ k[o[q]] \in Gone

Carriers(st, o, k) ==
  Unopened(o, k) /\ Uncalled(st, o) /\ RunsAlone(st, o, k) /\ FailedGone(st, o, k)

CarriedInv == Carriers(stmt, on, conn)

-------------------------------------------------------------------------------
(* Serving the queue gives a waiting query an idle connection or opens its *)
(* own: neither is one that carries or carried a statement still told.     *)
LEMMA PulseCarries ==
  ASSUME TypeOK, NEW p,
         NEW k \in [Query -> ConnStates],
         NEW s \in [Query -> States],
         \A q \in Waiting(p) : s[q] = "waiting",
         Carriers(s, on, k), Pulse(p, k, s)
  PROVE  CarriedInv'
<1>1. CASE ~CanServe(p, k)
  BY <1>1 DEF Pulse, CarriedInv, Carriers, Unopened, Uncalled, RunsAlone, FailedGone
<1>2. CASE CanServe(p, k)
  <2>1. PICK q \in Waiting(p) : Serve(p, k, s, q)
    BY <1>2 DEF Pulse
  <2>2. q \in Query /\ on[q] = NoConn /\ s[q] = "waiting" /\ k[q] = "none"
    BY DEF Waiting, Carriers, Unopened
  <2>3. NoConn \notin Query /\ on \in [Query -> Query \cup {NoConn}]
    BY DbAssumption DEF TypeOK
  <2>4. ASSUME NEW c \in Query, k[c] = "idle",
               conn' = [k EXCEPT ![c] = "busy"],
               stmt' = [s EXCEPT ![q] = "running"],
               on' = [on EXCEPT ![q] = c]
        PROVE  CarriedInv'
    <3>1. c # q /\ on[c] # NoConn
      BY <2>2, <2>4 DEF Carriers, Unopened
    <3>2. Unopened(on', conn') /\ Uncalled(stmt', on')
      BY <2>2, <2>3, <2>4, <3>1 DEF Carriers, Unopened, Uncalled
    <3>3. RunsAlone(stmt', on', conn')
      BY <2>2, <2>3, <2>4, <3>1 DEF Carriers, RunsAlone
    <3>4. FailedGone(stmt', on', conn')
      BY <2>2, <2>3, <2>4, <3>1 DEF Carriers, FailedGone, Gone
    <3>5. QED
      BY <3>2, <3>3, <3>4 DEF CarriedInv, Carriers
  <2>5. ASSUME conn' = [k EXCEPT ![q] = "connecting"],
               on' = [on EXCEPT ![q] = q], stmt' = s
        PROVE  CarriedInv'
    <3>1. Unopened(on', conn') /\ Uncalled(stmt', on')
      BY <2>2, <2>3, <2>5 DEF Carriers, Unopened, Uncalled
    <3>2. RunsAlone(stmt', on', conn')
      BY <2>2, <2>3, <2>5 DEF Carriers, RunsAlone
    <3>3. FailedGone(stmt', on', conn')
      BY <2>2, <2>3, <2>5 DEF Carriers, FailedGone, Gone
    <3>4. QED
      BY <3>1, <3>2, <3>3 DEF CarriedInv, Carriers
  <2>6. QED
    BY <2>1, <2>4, <2>5 DEF Serve
<1>3. QED
  BY <1>1, <1>2

(* A released client no longer carries a statement: it may close or idle.  *)
LEMMA ReleaseCarries ==
  ASSUME TypeOK, NEW c \in Query,
         NEW s \in [Query -> States],
         \A q \in Waiting(used[c]) : s[q] = "waiting",
         Carriers(s, on, [conn EXCEPT ![c] = "closing"]),
         Carriers(s, on, [conn EXCEPT ![c] = "idle"]),
         Release(c, s)
  PROVE  CarriedInv'
<1>1. CASE used[c] \in ended
  <2>1. conn' = [conn EXCEPT ![c] = "closing"] /\ stmt' = s /\ on' = on
    BY <1>1 DEF Release
  <2>2. QED
    BY <2>1 DEF CarriedInv, Carriers, Unopened, Uncalled, RunsAlone, FailedGone
<1>2. CASE used[c] \notin ended
  <2>1. [conn EXCEPT ![c] = "idle"] \in [Query -> ConnStates]
    BY DEF TypeOK, Open, ConnStates
  <2>2. Pulse(used[c], [conn EXCEPT ![c] = "idle"], s)
    BY <1>2 DEF Release
  <2>3. QED
    BY <2>1, <2>2, PulseCarries
<1>3. QED
  BY <1>1, <1>2

(* A connection that was opened, carries no running statement and failed   *)
(* none may change its state to any other.                                 *)
LEMMA FreeConn ==
  ASSUME TypeOK, NEW c \in Query, NEW to \in ConnStates,
         NEW st \in [Query -> States],
         Carriers(st, on, conn), conn[c] # "none", conn[c] # "busy",
         conn[c] \in Gone => to \in Gone
  PROVE  Carriers(st, on, [conn EXCEPT ![c] = to])
<1> DEFINE k == [conn EXCEPT ![c] = to]
<1>1. on[c] # NoConn
  BY DEF Carriers, Unopened
<1>2. conn \in [Query -> ConnStates]
  BY DEF TypeOK, ConnStates, Open
<1>3. Unopened(on, k)
  BY <1>1, <1>2 DEF Carriers, Unopened
<1>4. RunsAlone(st, on, k)
  BY <1>2 DEF Carriers, RunsAlone
<1>5. FailedGone(st, on, k)
  BY <1>2 DEF Carriers, FailedGone
<1>6. QED
  BY <1>3, <1>4, <1>5 DEF Carriers

-------------------------------------------------------------------------------
(* The steps of the pool and of the network.                               *)

(* A client that connects carries its query, or nothing.                   *)
LEMMA ConnectOkCarries ==
  ASSUME DbInv, CarriedInv, NEW c \in Query, ConnectOk(c) PROVE CarriedInv'
<1>1. /\ TypeOK /\ conn[c] = "connecting" /\ stmt \in [Query -> States]
      /\ NoConn \notin Query
  BY DbAssumption DEF ConnectOk, DbInv, TypeOK, States
<1>2. CASE stmt[c] \in {"connecting", "waiting"}
  <2>1. /\ conn' = [conn EXCEPT ![c] = "busy"]
        /\ stmt' = [stmt EXCEPT ![c] = "running"]
        /\ on' = [on EXCEPT ![c] = c]
    BY <1>2 DEF ConnectOk
  <2>2. Unopened(on', conn') /\ Uncalled(stmt', on')
    BY <1>1, <1>2, <2>1 DEF TypeOK, CarriedInv, Carriers, Unopened, Uncalled
  <2>3. RunsAlone(stmt', on', conn')
    BY <1>1, <2>1 DEF TypeOK, CarriedInv, Carriers, RunsAlone
  <2>4. FailedGone(stmt', on', conn')
    BY <1>1, <2>1 DEF TypeOK, CarriedInv, Carriers, FailedGone, Gone
  <2>5. QED
    BY <2>2, <2>3, <2>4 DEF CarriedInv, Carriers
<1>3. CASE stmt[c] \notin {"connecting", "waiting"}
  <2>1. Release(c, stmt) /\ \A q \in Waiting(used[c]) : stmt[q] = "waiting"
    BY <1>3 DEF ConnectOk, Waiting
  <2>2. "closing" \in ConnStates /\ "idle" \in ConnStates /\ "connecting" \notin Gone
    BY DEF ConnStates, Open, Gone
  <2>3. /\ Carriers(stmt, on, [conn EXCEPT ![c] = "closing"])
        /\ Carriers(stmt, on, [conn EXCEPT ![c] = "idle"])
    BY <1>1, <2>2, FreeConn DEF CarriedInv
  <2>4. QED
    BY <1>1, <2>1, <2>3, ReleaseCarries
<1>4. QED
  BY <1>2, <1>3

(* One that does not is closed; its query, which had it, is not waiting    *)
(* for another.                                                            *)
LEMMA ConnectFailCarries ==
  ASSUME DbInv, CarriedInv, NEW c \in Query, ConnectFail(c) PROVE CarriedInv'
<1> DEFINE k == [conn EXCEPT ![c] = "closed"]
           s == IF stmt[c] \in {"connecting", "waiting"}
                THEN [stmt EXCEPT ![c] = "noConn"] ELSE stmt
<1>1. TypeOK /\ conn[c] = "connecting" /\ Pulse(used[c], k, s)
  BY DEF ConnectFail, DbInv
<1>2. s \in [Query -> States] /\ stmt \in [Query -> States]
  BY <1>1 DEF TypeOK, States, Done, Failed
<1>3. k \in [Query -> ConnStates]
  BY <1>1 DEF TypeOK, ConnStates
<1>4. on[c] # NoConn
  BY <1>1 DEF CarriedInv, Carriers, Unopened
<1>5. \A q \in Waiting(used[c]) : s[q] = "waiting"
  BY <1>2, <1>4 DEF Waiting
<1>6. Carriers(s, on, conn)
  BY <1>2 DEF CarriedInv, Carriers, Unopened, Uncalled, RunsAlone, FailedGone
<1>7. "closed" \in ConnStates /\ "closed" \in Gone /\ "connecting" \notin Gone
  BY DEF ConnStates, Gone
<1> HIDE DEF s
<1>8. Carriers(s, on, k)
  BY <1>1, <1>2, <1>6, <1>7, FreeConn
<1> HIDE DEF k
<1>9. QED
  BY <1>1, <1>2, <1>3, <1>5, <1>8, PulseCarries

(* A removed client stays removed.                                         *)
LEMMA ConnClosedCarries ==
  ASSUME DbInv, CarriedInv, NEW c \in Query, ConnClosed(c) PROVE CarriedInv'
<1> DEFINE k == [conn EXCEPT ![c] = "closed"]
<1>1. TypeOK /\ conn[c] \in {"closing", "failing"} /\ Pulse(used[c], k, stmt)
  BY DEF ConnClosed, DbInv
<1>2. stmt \in [Query -> States] /\ k \in [Query -> ConnStates]
  BY <1>1 DEF TypeOK, States, ConnStates
<1>3. \A q \in Waiting(used[c]) : stmt[q] = "waiting"
  BY DEF Waiting
<1>4. "closed" \in ConnStates /\ "closed" \in Gone
  BY DEF ConnStates, Gone
<1>5. Carriers(stmt, on, k)
  BY <1>1, <1>2, <1>4, FreeConn DEF CarriedInv
<1> HIDE DEF k
<1>6. QED
  BY <1>1, <1>2, <1>3, <1>5, PulseCarries

(* A statement that ended frees its connection, whatever is made of it.    *)
LEMMA EndedCarries ==
  ASSUME DbInv, CarriedInv, NEW q \in Query, stmt[q] = "running",
         NEW how \in Done, NEW to \in ConnStates \ {"none"},
         how \in {"dbError", "connError"} => to \in Gone
  PROVE  Carriers([stmt EXCEPT ![q] = how], on, [conn EXCEPT ![on[q]] = to])
<1> DEFINE s == [stmt EXCEPT ![q] = how]
           k == [conn EXCEPT ![on[q]] = to]
<1>1. /\ stmt \in [Query -> States] /\ conn \in [Query -> ConnStates]
      /\ on \in [Query -> Query \cup {NoConn}]
      /\ on[q] \in Query /\ conn[on[q]] = "busy"
      /\ how # "none" /\ how # "running"
  BY DEF DbInv, TypeOK, States, ConnStates, CarriedInv, Carriers, RunsAlone, Done, Failed
<1>2. Unopened(on, k) /\ Uncalled(s, on)
  BY <1>1 DEF CarriedInv, Carriers, Unopened, Uncalled
<1>3. RunsAlone(s, on, k)
  BY <1>1 DEF CarriedInv, Carriers, RunsAlone
<1>4. FailedGone(s, on, k)
  BY <1>1 DEF CarriedInv, Carriers, FailedGone, Gone
<1>5. QED
  BY <1>2, <1>3, <1>4 DEF Carriers

(* An answered statement gives its connection back.                        *)
LEMMA StatementOkCarries ==
  ASSUME DbInv, CarriedInv, NEW q \in Query, StatementOk(q) PROVE CarriedInv'
<1> DEFINE s == [stmt EXCEPT ![q] = "ok"]
<1>1. TypeOK /\ stmt[q] = "running" /\ on[q] \in Query /\ Release(on[q], s)
  BY DEF StatementOk, DbInv, RunningOnConn
<1>2. s \in [Query -> States]
  BY <1>1 DEF TypeOK, States, Done
<1>3. \A r \in Waiting(used[on[q]]) : s[r] = "waiting"
  BY <1>1 DEF Waiting, TypeOK
<1>4. /\ "ok" \in Done /\ "ok" \notin {"dbError", "connError"}
      /\ "closing" \in ConnStates \ {"none"} /\ "idle" \in ConnStates \ {"none"}
  BY DEF Done, ConnStates, Open
<1>5. Carriers(s, on, [conn EXCEPT ![on[q]] = "closing"])
  BY <1>1, <1>4, EndedCarries
<1>6. Carriers(s, on, [conn EXCEPT ![on[q]] = "idle"])
  BY <1>1, <1>4, EndedCarries
<1> HIDE DEF s
<1>7. QED
  BY <1>1, <1>2, <1>3, <1>5, <1>6, ReleaseCarries

(* A failed one retires it.                                                *)
LEMMA StatementErrorCarries ==
  ASSUME DbInv, CarriedInv, NEW q \in Query, StatementError(q) PROVE CarriedInv'
<1>1. PICK how \in {"dbError", "connError"} : StatementFails(q, how)
  BY DEF StatementError
<1>2. /\ stmt[q] = "running" /\ UNCHANGED on
      /\ stmt' = [stmt EXCEPT ![q] = how]
      /\ conn' = [conn EXCEPT ![on[q]] = "closing"]
  BY <1>1 DEF StatementFails
<1>3. how \in Done /\ "closing" \in ConnStates \ {"none"} /\ "closing" \in Gone
  BY DEF Done, Failed, ConnStates, Gone
<1>4. Carriers([stmt EXCEPT ![q] = how], on, [conn EXCEPT ![on[q]] = "closing"])
  BY <1>2, <1>3, EndedCarries
<1>5. QED
  BY <1>2, <1>4 DEF CarriedInv, Carriers, Unopened, Uncalled, RunsAlone, FailedGone

(* A query that gives up was not running and does not fail on a connection.*)
LEMMA GiveUpCarries ==
  ASSUME DbInv, CarriedInv, NEW q \in Query, GiveUp(q) PROVE CarriedInv'
BY DEF GiveUp, DbInv, TypeOK, CarriedInv, Carriers, Unopened, Uncalled, RunsAlone, FailedGone

(* An idle client, removed or failing on its own, carries nothing.         *)
LEMMA IdleCarries ==
  ASSUME DbInv, CarriedInv, NEW c \in Query, IdleTimeout(c) \/ ConnError(c) PROVE CarriedInv'
<1>1. PICK to \in Gone : /\ conn[c] \in {"idle", "closing"}
                         /\ conn' = [conn EXCEPT ![c] = to]
                         /\ UNCHANGED <<stmt, on>>
  BY DEF IdleTimeout, ConnError, Gone
<1>2. TypeOK /\ stmt \in [Query -> States] /\ to \in ConnStates
  BY DEF DbInv, TypeOK, States, ConnStates, Gone
<1>3. Carriers(stmt, on, [conn EXCEPT ![c] = to])
  BY <1>1, <1>2, FreeConn DEF CarriedInv
<1>4. QED
  BY <1>1, <1>3 DEF CarriedInv, Carriers, Unopened, Uncalled, RunsAlone, FailedGone

(* Removing idle clients when a pool is ended changes no other connection. *)
LEMMA EndingCarries ==
  ASSUME DbInv, CarriedInv, NEW S \in SUBSET Query,
         \A c \in S : conn[c] = "idle",
         conn' = [c \in Query |-> IF c \in S THEN "closing" ELSE conn[c]],
         UNCHANGED <<stmt, on>>
  PROVE  CarriedInv'
<1>1. on \in [Query -> Query \cup {NoConn}]
  BY DEF DbInv, TypeOK
<1>2. Unopened(on', conn') /\ Uncalled(stmt', on')
  BY DEF CarriedInv, Carriers, Unopened, Uncalled
<1>3. RunsAlone(stmt', on', conn')
  BY DEF CarriedInv, Carriers, RunsAlone
<1>4. FailedGone(stmt', on', conn')
  BY DEF CarriedInv, Carriers, FailedGone, Gone
<1>5. QED
  BY <1>2, <1>3, <1>4 DEF CarriedInv, Carriers

(* end() removes idle clients.                                             *)
LEMMA CallEndCarries == ASSUME DbInv, CarriedInv, CallEnd PROVE CarriedInv'
<1>1. Idle(pool) \in SUBSET Query /\ \A c \in Idle(pool) : conn[c] = "idle"
  BY DEF Idle
<1>2. QED
  BY <1>1, EndingCarries DEF CallEnd

(* So does a callback that ends its temporary pool.                        *)
LEMMA SettleCarries ==
  ASSUME DbInv, CarriedInv, NEW q \in Query, Settle(q) PROVE CarriedInv'
<1> DEFINE S == IF EndsTemporary(q) THEN Idle(q) ELSE {}
<1>1. S \in SUBSET Query /\ \A c \in S : conn[c] = "idle"
  BY DEF Idle
<1>2. conn' = [c \in Query |-> IF c \in S THEN "closing" ELSE conn[c]]
  BY DEF Settle
<1>3. UNCHANGED <<stmt, on>>
  BY DEF Settle
<1> HIDE DEF S
<1>4. QED
  BY <1>1, <1>2, <1>3, EndingCarries

(* A query that is called takes an idle connection, opens its own, which   *)
(* it never had, or waits.                                                 *)
LEMMA CallQueryCarries ==
  ASSUME DbInv, CarriedInv, NEW q \in Query, CallQuery(q) PROVE CarriedInv'
<1> DEFINE p == PickPool(q)
<1>1. StartOn(q, p) /\ stmt[q] = "none"
  BY DEF CallQuery
<1> HIDE DEF p
<1>2. /\ on[q] = NoConn /\ conn[q] = "none" /\ NoConn \notin Query
      /\ stmt \in [Query -> States] /\ conn \in [Query -> ConnStates]
      /\ on \in [Query -> Query \cup {NoConn}]
  BY <1>1, DbAssumption DEF CarriedInv, Carriers, Unopened, Uncalled, DbInv, TypeOK,
                            States, ConnStates
<1>3. ASSUME NEW c \in Idle(p), stmt' = [stmt EXCEPT ![q] = "running"],
             on' = [on EXCEPT ![q] = c], conn' = [conn EXCEPT ![c] = "busy"]
      PROVE  CarriedInv'
  <2>1. c \in Query /\ conn[c] = "idle" /\ c # q /\ on[c] # NoConn
    BY <1>2 DEF Idle, CarriedInv, Carriers, Unopened
  <2>2. Unopened(on', conn') /\ Uncalled(stmt', on')
    BY <1>2, <1>3, <2>1 DEF CarriedInv, Carriers, Unopened, Uncalled
  <2>3. RunsAlone(stmt', on', conn')
    BY <1>2, <1>3, <2>1 DEF CarriedInv, Carriers, RunsAlone
  <2>4. FailedGone(stmt', on', conn')
    BY <1>2, <1>3, <2>1 DEF CarriedInv, Carriers, FailedGone, Gone
  <2>5. QED
    BY <2>2, <2>3, <2>4 DEF CarriedInv, Carriers
<1>4. ASSUME stmt' = [stmt EXCEPT ![q] = "connecting"],
             on' = [on EXCEPT ![q] = q], conn' = [conn EXCEPT ![q] = "connecting"]
      PROVE  CarriedInv'
  <2>1. Unopened(on', conn') /\ Uncalled(stmt', on')
    BY <1>2, <1>4 DEF CarriedInv, Carriers, Unopened, Uncalled
  <2>2. RunsAlone(stmt', on', conn')
    BY <1>2, <1>4 DEF CarriedInv, Carriers, RunsAlone
  <2>3. FailedGone(stmt', on', conn')
    BY <1>2, <1>4 DEF CarriedInv, Carriers, FailedGone, Gone
  <2>4. QED
    BY <2>1, <2>2, <2>3 DEF CarriedInv, Carriers
<1>5. ASSUME NEW st \in {"refused", "waiting"}, stmt' = [stmt EXCEPT ![q] = st],
             UNCHANGED <<on, conn>>
      PROVE  CarriedInv'
  BY <1>2, <1>5 DEF CarriedInv, Carriers, Unopened, Uncalled, RunsAlone, FailedGone
<1>6. QED
  BY <1>1, <1>3, <1>4, <1>5 DEF StartOn

-------------------------------------------------------------------------------
(* Every step keeps the carriers, a stutter too.                           *)
LEMMA NextCarries == ASSUME DbInv, CarriedInv, [Next]_dbVars PROVE CarriedInv'
<1>1. ASSUME NEW c \in Query, ConnectOk(c) \/ ConnectFail(c) \/ ConnClosed(c)
      PROVE  CarriedInv'
  BY <1>1, ConnectOkCarries, ConnectFailCarries, ConnClosedCarries
<1>2. ASSUME NEW q \in Query, StatementOk(q) \/ StatementError(q) \/ GiveUp(q)
      PROVE  CarriedInv'
  BY <1>2, StatementOkCarries, StatementErrorCarries, GiveUpCarries
<1>3. ASSUME NEW c \in Query, IdleTimeout(c) \/ ConnError(c) PROVE CarriedInv'
  BY <1>3, IdleCarries
<1>4. ASSUME NEW q \in Query, Settle(q) \/ CallQuery(q) PROVE CarriedInv'
  BY <1>4, SettleCarries, CallQueryCarries
<1>5. ASSUME (\E q \in Query : RejectStray(q)) \/ UNCHANGED dbVars PROVE CarriedInv'
  <2>1. UNCHANGED <<stmt, on, conn>>
    BY <1>5 DEF RejectStray, dbVars, wireVars
  <2>2. QED
    BY <2>1 DEF CarriedInv, Carriers, Unopened, Uncalled, RunsAlone, FailedGone
<1>6. QED
  BY <1>1, <1>2, <1>3, <1>4, <1>5, CallEndCarries DEF Next, Environment, PoolStep, Caller

(* At first nothing is carried.                                            *)
LEMMA InitCarries == Init => CarriedInv
BY DEF Init, CarriedInv, Carriers, Unopened, Uncalled, RunsAlone, FailedGone

(* A connection on which a statement failed is on its way out and carries  *)
(* no other: a transaction that a failed batch left open is never met by a *)
(* later statement, since pg-pool's query(), at db.ts:51, retires it.      *)
THEOREM FailedConnIsRetired == Spec => []FailedConnRetired
<1>1. DbInv /\ CarriedInv /\ [Next]_dbVars => CarriedInv'
  BY NextCarries
<1>2. CarriedInv => FailedConnRetired
  BY DEF CarriedInv, Carriers, RunsAlone, FailedGone, FailedConnRetired, Gone
<1>3. QED
  BY <1>1, <1>2, InitCarries, DbInvariant, PTL DEF Spec
===============================================================================
