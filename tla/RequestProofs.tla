---------------------------- MODULE RequestProofs -----------------------------
(***************************************************************************)
(* Proofs about Request: for any number of statements and any config.max,  *)
(* a handler that stops at its first error survives every connection       *)
(* error, and gets no answer but that of its own statements.               *)
(***************************************************************************)
EXTENDS Request, DbProofs, FiniteSetTheorems

Outstanding(q) == stmt[q] # "none" /\ result[q] = "none"

MainOnly == \A q \in Query : used[q] = Main
HandleKept == h = "running" => pool = Main
NoneWaits == \A q \in Query : stmt[q] # "waiting"

(* One statement at a time, none after a failed one, none when answered.   *)
Sequential ==
  \A q \in Query : Outstanding(q) =>
    /\ h = "running"
    /\ \A r \in Query : Outstanding(r) => r = q
    /\ \A r \in Query : result[r] \in {"none", "data"}

Verdicts ==
  \A q \in Query : result[q] # "none" =>
    stmt[q] \in Done /\ q \in handled /\ result[q] = Outcome(q)

(* A listener is lost only to an error that comes with, or after, the      *)
(* answer of its statement; so is a timer set only then.                   *)
PendingListens == \A q \in Query : stmt[q] \in Pending => q \in listening
TimersLate == \A q \in Query : q \in timer => stmt[q] \in Done

(* The one live connection is where its statement says.                    *)
Carried ==
  /\ \A q \in Query : stmt[q] = "connecting" <=> conn[q] = "connecting"
  /\ \A q \in Query : stmt[q] = "running" => conn[on[q]] = "busy"
  /\ \A c \in Query : conn[c] = "busy" => \E q \in Query : stmt[q] = "running" /\ on[q] = c

(* An error can come from an idle or a closing connection: someone listens.*)
Heard == \A c \in Query : conn[c] \in {"idle", "closing"} => listening # {}

(* While the handler runs, a connection is retired only by a failure.      *)
Retired ==
  h = "running" =>
    \A c \in Query : conn[c] \in {"closing", "failing"} => \E q \in Query : stmt[q] \in Failed

RequestInv ==
  /\ DbInv /\ h \in {"running", "responded"} /\ ~crashed
  /\ MainOnly /\ HandleKept /\ NoneWaits
  /\ Sequential /\ Verdicts
  /\ PendingListens /\ TimersLate
  /\ Carried /\ OneConnection /\ Heard /\ Retired

-------------------------------------------------------------------------------
(* Facts of a state that satisfies the invariant.                          *)

(* Nothing waits, so a pulse of the queue serves nobody.                   *)
LEMMA PulseIdle ==
  ASSUME RequestInv, NEW p, NEW k, NEW s, Pulse(p, k, s)
  PROVE  conn' = k /\ stmt' = s /\ on' = on
<1>1. Waiting(p) = {}
  BY DEF Waiting, RequestInv, NoneWaits
<1>2. QED
  BY <1>1 DEF Pulse, CanServe

(* A statement in flight is the only one, and holds the live connection.   *)
LEMMA PendingFacts ==
  ASSUME RequestInv, NEW q \in Query, stmt[q] \in Pending
  PROVE  /\ Outstanding(q) /\ h = "running"
         /\ q \in listening
         /\ pool = Main /\ Main \notin ended
         /\ \A c \in Query : Live(c) => conn[c] \in {"connecting", "busy"}
<1>1. stmt[q] \notin Done /\ stmt[q] # "none"
  BY DEF Pending, Done, Failed
<1>2. Outstanding(q)
  BY <1>1 DEF RequestInv, Verdicts, Outstanding
<1>3. h = "running" /\ q \in listening
  BY <1>2 DEF RequestInv, Sequential, PendingListens
<1>4. pool = Main /\ Main \notin ended
  BY <1>3 DEF RequestInv, HandleKept, DbInv, HandleOpen
<1>5. stmt[q] \in {"connecting", "running"}
  BY DEF RequestInv, NoneWaits, Pending
<1>6. \E d \in Query : conn[d] \in {"connecting", "busy"}
  BY <1>5 DEF RequestInv, Carried, DbInv, RunningOnConn
<1>7. \A c \in Query : Live(c) => conn[c] \in {"connecting", "busy"}
  BY <1>6 DEF RequestInv, OneConnection, Live
<1>8. QED
  BY <1>2, <1>3, <1>4, <1>7

(* No error of a connection reaches the pool while a statement is in       *)
(* flight: its own connection is busy, and no other is live.               *)
LEMMA ErrorAfterAnswer ==
  ASSUME RequestInv, NEW c \in Query, ConnError(c), NEW q \in Query
  PROVE  stmt[q] \notin Pending
<1>1. Live(c) /\ conn[c] \notin {"connecting", "busy"}
  BY DEF ConnError, Live
<1>2. QED
  BY <1>1, PendingFacts

(* Between two statements the connection is idle, or gone.                 *)
LEMMA ReadyFacts ==
  ASSUME RequestInv, HandlerReady, \A r \in Issued : Succeeded(r), NEW c \in Query
  PROVE  /\ stmt[c] \in {"none", "ok"} /\ ~Outstanding(c)
         /\ conn[c] \in {"none", "closed", "idle"}
<1>1. \A r \in Query : stmt[r] \in {"none", "ok"}
  <2> SUFFICES ASSUME NEW r \in Query, stmt[r] # "none" PROVE stmt[r] = "ok"
    OBVIOUS
  <2>1. result[r] = "data"
    BY DEF Issued, Succeeded
  <2>2. Outcome(r) = "data"
    BY <2>1 DEF RequestInv, Verdicts
  <2>3. QED
    BY <2>2 DEF Outcome
<1>2. ~Outstanding(c)
  BY DEF HandlerReady, Issued, Answered, Outstanding
<1>3. conn[c] \notin {"connecting", "busy"}
  BY <1>1 DEF RequestInv, Carried
<1>4. conn[c] \notin {"closing", "failing"}
  BY <1>1 DEF RequestInv, Retired, HandlerReady, Failed
<1>5. QED
  BY <1>1, <1>2, <1>3, <1>4 DEF RequestInv, DbInv, TypeOK, Open

-------------------------------------------------------------------------------
(* The handler's steps.                                                    *)

(* A new statement finds its connection idle or gone, and takes its place. *)
LEMMA NextStatementInv ==
  ASSUME RequestInv, ~crashed, NEW q \in Query, NextStatement(q)
  PROVE  RequestInv'
<1>1. /\ HandlerReady /\ \A r \in Issued : Succeeded(r)
      /\ CallQuery(q) /\ h' = h /\ h = "running"
  BY DEF NextStatement, HandlerReady
<1>2. pool = Main /\ PickPool(q) = Main /\ Main \notin ended
  BY <1>1, DbAssumption DEF PickPool, RequestInv, HandleKept, DbInv, HandleOpen
<1>3. /\ used' = [used EXCEPT ![q] = Main] /\ listening' = listening \cup {q}
      /\ StartOn(q, Main) /\ stmt[q] = "none"
      /\ UNCHANGED <<poolVars, timer, handled, result, crashed>>
  BY <1>1, <1>2 DEF CallQuery
<1>4. \A c \in Query : /\ stmt[c] \in {"none", "ok"} /\ ~Outstanding(c)
                       /\ conn[c] \in {"none", "closed", "idle"}
  BY <1>1, ReadyFacts
<1>5. Idle(Main) = {} => Clients(Main) = {}
  BY <1>4 DEF Idle, Clients, Open
<1>7. \/ \E c \in Idle(Main) : /\ stmt' = [stmt EXCEPT ![q] = "running"]
                               /\ on' = [on EXCEPT ![q] = c]
                               /\ conn' = [conn EXCEPT ![c] = "busy"]
      \/ /\ \A c \in Query : conn[c] # "idle"
         /\ stmt' = [stmt EXCEPT ![q] = "connecting"]
         /\ on' = [on EXCEPT ![q] = q]
         /\ conn' = [conn EXCEPT ![q] = "connecting"]
  <2>1. Idle(Main) = {} => \A c \in Query : conn[c] # "idle"
    BY DEF Idle, RequestInv, MainOnly
  <2>2. Cardinality(Clients(Main)) >= MaxClients => Idle(Main) # {}
    <3>1. Idle(Main) # {} \/ Cardinality(Clients(Main)) = Cardinality({})
      BY <1>5
    <3>2. Cardinality({}) = 0 /\ MaxClients \in Nat \ {0}
      BY FS_EmptySet, DbAssumption
    <3>3. QED
      BY <3>1, <3>2
  <2>3. QED
    BY <1>2, <1>3, <2>1, <2>2 DEF StartOn
<1>8. DbInv'
  BY <1>1, CallQueryInv DEF RequestInv
<1>9. TypeOK
  BY DEF RequestInv, DbInv
<1>10. (MainOnly /\ HandleKept /\ ~crashed)' /\ h' \in {"running", "responded"}
  BY <1>1, <1>2, <1>3, <1>9 DEF RequestInv, MainOnly, HandleKept, TypeOK, poolVars
<1>11. (Sequential /\ Verdicts)'
  <2>1. result[q] = "none"
    BY <1>3, <1>9 DEF RequestInv, Verdicts, TypeOK, Done, Failed
  <2>2. \A r \in Query : stmt'[r] # stmt[r] => r = q
    BY <1>7, <1>9 DEF TypeOK
  <2>3. \A r \in Query : result[r] \in {"none", "data"}
    BY <1>1, <1>4 DEF RequestInv, Verdicts, Outcome, Outstanding, Done, Failed
  <2>4. Sequential'
    BY <1>1, <1>3, <1>4, <2>1, <2>2, <2>3 DEF Sequential, Outstanding
  <2>5. Verdicts'
    BY <1>3, <2>1, <2>2 DEF Verdicts, RequestInv, Outcome
  <2>6. QED
    BY <2>4, <2>5
<1>12. (NoneWaits /\ PendingListens /\ TimersLate)'
  <2>1. q \notin timer
    BY <1>3 DEF RequestInv, TimersLate, Done, Failed
  <2>2. QED
    BY <1>3, <1>7, <1>9, <2>1
       DEF RequestInv, NoneWaits, PendingListens, TimersLate, TypeOK
<1>13. Carried'
  <2>1. CASE \E c \in Idle(Main) : /\ stmt' = [stmt EXCEPT ![q] = "running"]
                                   /\ on' = [on EXCEPT ![q] = c]
                                   /\ conn' = [conn EXCEPT ![c] = "busy"]
    BY <2>1, <1>3, <1>4, <1>9 DEF Carried, TypeOK, Idle
  <2>2. CASE /\ stmt' = [stmt EXCEPT ![q] = "connecting"]
             /\ on' = [on EXCEPT ![q] = q]
             /\ conn' = [conn EXCEPT ![q] = "connecting"]
    BY <2>2, <1>3, <1>4, <1>9 DEF Carried, TypeOK
  <2>3. QED
    BY <1>7, <2>1, <2>2
<1>14. (OneConnection /\ Heard /\ Retired)'
  BY <1>3, <1>4, <1>7, <1>9
     DEF RequestInv, OneConnection, Live, Heard, Retired, TypeOK, Idle, Open
<1>15. QED
  BY <1>8, <1>10, <1>11, <1>12, <1>13, <1>14 DEF RequestInv

(* The ways out: end() retires the idle connection, the others leave it.   *)
LEMMA LeaveInv ==
  ASSUME RequestInv, EndAndRespond \/ RespondErrorWithoutEnd \/ Throw
  PROVE  RequestInv'
<1>1. HandlerReady /\ h' = "responded" /\ (CallEnd \/ UNCHANGED dbVars)
  BY DEF EndAndRespond, RespondErrorWithoutEnd, Throw
<1>2. \A q \in Query : ~Outstanding(q)
  BY <1>1 DEF HandlerReady, Issued, Answered, Outstanding
<1>3. DbInv'
  BY <1>1, CallEndInv, StutterInv DEF RequestInv
<1>4. /\ UNCHANGED <<used, stmt, on, promiseVars, crashed>>
      /\ \A c \in Query : \/ conn'[c] = conn[c]
                          \/ conn[c] = "idle" /\ conn'[c] = "closing"
  BY <1>1 DEF CallEnd, dbVars, wireVars, Idle, RequestInv, DbInv, TypeOK
<1>5. (MainOnly /\ HandleKept /\ NoneWaits /\ ~crashed)' /\ h' \in {"running", "responded"}
  BY <1>1, <1>4 DEF RequestInv, MainOnly, HandleKept, NoneWaits
<1>6. (Sequential /\ Verdicts)'
  BY <1>2, <1>4 DEF RequestInv, Sequential, Verdicts, Outstanding, Outcome, promiseVars
<1>7. (PendingListens /\ TimersLate)'
  BY <1>4 DEF RequestInv, PendingListens, TimersLate, promiseVars
<1>8. Carried'
  BY <1>4 DEF RequestInv, Carried, DbInv, RunningOnConn
<1>9. (OneConnection /\ Heard /\ Retired)'
  BY <1>1, <1>4 DEF RequestInv, OneConnection, Live, Heard, Retired, promiseVars
<1>10. QED
  BY <1>3, <1>5, <1>6, <1>7, <1>8, <1>9 DEF RequestInv

-------------------------------------------------------------------------------
(* The steps of the pool and the network.                                  *)

(* A step that only moves the one statement in flight: what is left to     *)
(* show is how it and the connection moved together.                       *)
LEMMA FlightInv ==
  ASSUME RequestInv, DbInv', NEW q \in Query, stmt[q] \in Pending,
         UNCHANGED <<used, poolVars, promiseVars, crashed, skips, h>>,
         \A r \in Query : r # q => stmt'[r] = stmt[r],
         stmt'[q] \in Pending \cup Done, stmt'[q] # "waiting",
         Carried', OneConnection', Retired'
  PROVE  RequestInv'
<1>1. (MainOnly /\ HandleKept /\ NoneWaits /\ ~crashed)' /\ h' \in {"running", "responded"}
  BY DEF RequestInv, MainOnly, HandleKept, NoneWaits, poolVars
<1>2. Outstanding(q) /\ q \in listening /\ listening' = listening /\ result' = result
  BY PendingFacts DEF promiseVars
<1>3. Sequential'
  BY <1>2 DEF RequestInv, Sequential, Outstanding, Pending, Done, Failed
<1>4. (Verdicts /\ TimersLate /\ PendingListens)'
  <2>1. q \notin timer /\ result[q] = "none"
    BY <1>2 DEF RequestInv, TimersLate, Outstanding, Pending, Done, Failed
  <2>2. QED
    BY <1>2, <2>1 DEF RequestInv, Verdicts, TimersLate, PendingListens, Outcome, promiseVars
<1>5. Heard'
  BY <1>2 DEF Heard
<1>6. QED
  BY <1>1, <1>3, <1>4, <1>5 DEF RequestInv

(* The one connection is ready: its statement runs.                        *)
LEMMA ConnectOkInv ==
  ASSUME RequestInv, NEW c \in Query, ConnectOk(c), UNCHANGED <<skips, h>> PROVE RequestInv'
<1>1. conn[c] = "connecting" /\ stmt[c] = "connecting"
  BY DEF ConnectOk, RequestInv, Carried
<1>2. /\ conn' = [conn EXCEPT ![c] = "busy"]
      /\ stmt' = [stmt EXCEPT ![c] = "running"]
      /\ on' = [on EXCEPT ![c] = c]
      /\ UNCHANGED <<used, poolVars, promiseVars, crashed>>
  BY <1>1 DEF ConnectOk
<1>3. DbInv'
  BY ConnectOkWire, WireInv DEF RequestInv, DbInv
<1>4. TypeOK /\ RunningOnConn
  BY DEF RequestInv, DbInv
<1>5. Carried'
  BY <1>1, <1>2, <1>4 DEF RequestInv, Carried, TypeOK, RunningOnConn
<1>6. OneConnection' /\ Retired'
  BY <1>1, <1>2, <1>4 DEF RequestInv, OneConnection, Live, Retired, TypeOK, Failed
<1>7. QED
  BY <1>1, <1>2, <1>3, <1>4, <1>5, <1>6, FlightInv DEF TypeOK, Pending

(* It could not be opened: the statement is answered, no connection is     *)
(* left.                                                                   *)
LEMMA ConnectFailInv ==
  ASSUME RequestInv, NEW c \in Query, ConnectFail(c), UNCHANGED <<skips, h>> PROVE RequestInv'
<1>1. conn[c] = "connecting" /\ stmt[c] = "connecting"
  BY DEF ConnectFail, RequestInv, Carried
<1>2. Pulse(used[c], [conn EXCEPT ![c] = "closed"], [stmt EXCEPT ![c] = "noConn"])
  BY <1>1 DEF ConnectFail
<1>3. /\ conn' = [conn EXCEPT ![c] = "closed"]
      /\ stmt' = [stmt EXCEPT ![c] = "noConn"]
      /\ UNCHANGED <<on, used, poolVars, promiseVars, crashed>>
  BY <1>2, PulseIdle DEF ConnectFail
<1>4. DbInv'
  BY ConnectFailWire, WireInv DEF RequestInv, DbInv
<1>5. TypeOK /\ RunningOnConn
  BY DEF RequestInv, DbInv
<1>6. Carried'
  BY <1>1, <1>3, <1>5 DEF RequestInv, Carried, TypeOK, RunningOnConn
<1>7. OneConnection' /\ Retired'
  BY <1>1, <1>3, <1>5 DEF RequestInv, OneConnection, Live, Retired, TypeOK, Failed
<1>8. QED
  BY <1>1, <1>3, <1>4, <1>5, <1>6, <1>7, FlightInv DEF TypeOK, Pending, Done, Failed

(* The answer of the statement comes: its connection is idle, or retired.  *)
LEMMA AnswerInv ==
  ASSUME RequestInv, DbInv', NEW q \in Query, stmt[q] = "running",
         NEW t \in Done, NEW u \in {"idle", "closing"}, u = "closing" => t \in Failed,
         stmt' = [stmt EXCEPT ![q] = t], conn' = [conn EXCEPT ![on[q]] = u],
         UNCHANGED <<on, used, poolVars, promiseVars, crashed, skips, h>>
  PROVE  RequestInv'
<1>1. TypeOK /\ on[q] \in Query /\ conn[on[q]] = "busy"
  BY DEF RequestInv, DbInv, RunningOnConn, Carried
<1>2. \A r \in Query : stmt[r] \in Pending => r = q
  BY PendingFacts DEF RequestInv, Sequential, Pending
<1>3. Carried'
  <2>1. \A r \in Query : stmt'[r] # "running" /\ stmt'[r] # "connecting"
    BY <1>1, <1>2 DEF TypeOK, Pending, Done, Failed
  <2>2. \A c \in Query : conn[c] = "connecting" => FALSE
    BY <1>2 DEF RequestInv, Carried, Pending
  <2>3. \A c \in Query : conn[c] = "busy" => c = on[q]
    BY <1>1 DEF RequestInv, OneConnection, Live
  <2>4. QED
    BY <1>1, <2>1, <2>2, <2>3 DEF Carried, TypeOK
<1>4. OneConnection'
  BY <1>1 DEF RequestInv, OneConnection, Live, TypeOK
<1>5. Retired'
  BY <1>1 DEF RequestInv, Retired, TypeOK, Failed
<1>6. QED
  BY <1>1, <1>3, <1>4, <1>5, FlightInv DEF TypeOK, Pending, Done, Failed

(* A statement that succeeded leaves its connection idle, or closing.      *)
LEMMA StatementOkInv ==
  ASSUME RequestInv, NEW q \in Query, StatementOk(q), UNCHANGED <<skips, h>> PROVE RequestInv'
<1>1. stmt[q] = "running" /\ Release(on[q], [stmt EXCEPT ![q] = "ok"])
  BY DEF StatementOk
<1>2. on[q] \in Query /\ used[on[q]] = Main /\ Main \notin ended
  BY <1>1, PendingFacts DEF RequestInv, DbInv, RunningOnConn, MainOnly, Pending
<1>3. Pulse(Main, [conn EXCEPT ![on[q]] = "idle"], [stmt EXCEPT ![q] = "ok"])
  BY <1>1, <1>2 DEF Release
<1>4. /\ conn' = [conn EXCEPT ![on[q]] = "idle"]
      /\ stmt' = [stmt EXCEPT ![q] = "ok"]
      /\ UNCHANGED <<on, used, poolVars, promiseVars, crashed>>
  BY <1>3, PulseIdle DEF StatementOk
<1>5. DbInv'
  BY StatementOkWire, WireInv DEF RequestInv, DbInv
<1>6. QED
  BY <1>1, <1>4, <1>5, AnswerInv DEF Done

(* One that failed leaves it retired.                                      *)
LEMMA StatementErrorInv ==
  ASSUME RequestInv, NEW q \in Query, StatementError(q), UNCHANGED <<skips, h>> PROVE RequestInv'
<1>1. PICK t \in {"dbError", "connError"} : StatementFails(q, t)
  BY DEF StatementError
<1>2. /\ stmt[q] = "running" /\ stmt' = [stmt EXCEPT ![q] = t]
      /\ conn' = [conn EXCEPT ![on[q]] = "closing"]
      /\ UNCHANGED <<on, used, poolVars, promiseVars, crashed>>
  BY <1>1 DEF StatementFails
<1>3. t \in Failed /\ t \in Done
  BY DEF Failed, Done
<1>4. DbInv'
  BY StatementErrorWire, WireInv DEF RequestInv, DbInv
<1>5. QED
  BY <1>2, <1>3, <1>4, AnswerInv

(* A retired connection goes away: nothing else changes.                   *)
LEMMA RetireInv ==
  ASSUME RequestInv, DbInv', NEW c \in Query, NEW u \in {"closing", "closed"},
         conn[c] \in {"idle", "closing", "failing"},
         u = "closing" => conn[c] = "idle" /\ h = "responded",
         conn' = [conn EXCEPT ![c] = u],
         UNCHANGED <<used, stmt, on, poolVars, promiseVars, crashed, skips, h>>
  PROVE  RequestInv'
<1>1. (MainOnly /\ HandleKept /\ NoneWaits /\ ~crashed)' /\ h' \in {"running", "responded"}
  BY DEF RequestInv, MainOnly, HandleKept, NoneWaits, poolVars
<1>2. (Sequential /\ Verdicts /\ PendingListens /\ TimersLate)'
  BY DEF RequestInv, Sequential, Verdicts, PendingListens, TimersLate, Outstanding,
         Outcome, promiseVars
<1>3. TypeOK /\ RunningOnConn
  BY DEF RequestInv, DbInv
<1>4. Carried'
  BY <1>3 DEF RequestInv, Carried, TypeOK, RunningOnConn
<1>5. (OneConnection /\ Heard /\ Retired)'
  BY <1>3 DEF RequestInv, OneConnection, Live, Heard, Retired, TypeOK, promiseVars
<1>6. QED
  BY <1>1, <1>2, <1>4, <1>5 DEF RequestInv

(* The socket of a retired connection closes; nobody waits for its place.  *)
LEMMA ConnClosedInv ==
  ASSUME RequestInv, NEW c \in Query, ConnClosed(c), UNCHANGED <<skips, h>> PROVE RequestInv'
<1>1. Pulse(used[c], [conn EXCEPT ![c] = "closed"], stmt)
  BY DEF ConnClosed
<1>2. conn' = [conn EXCEPT ![c] = "closed"] /\ UNCHANGED <<stmt, on>>
  BY <1>1, PulseIdle
<1>3. DbInv'
  BY ConnClosedWire, WireInv DEF RequestInv, DbInv
<1>4. QED
  BY <1>2, <1>3, RetireInv DEF ConnClosed

(* The timeout of an idle connection waits for the handler to be done.     *)
LEMMA IdleTimeoutReqInv ==
  ASSUME RequestInv, NEW c \in Query, IdleTimeout(c), UNCHANGED <<skips, h>>,
         ~MicrotaskPending, ~HandlerReady
  PROVE  RequestInv'
<1>1. h = "responded"
  <2> SUFFICES ASSUME h = "running" PROVE FALSE
    BY DEF RequestInv
  <2>1. PICK q \in Query : Outstanding(q)
    BY DEF HandlerReady, Issued, Answered, Outstanding
  <2>2. stmt[q] \notin Done
    BY <2>1 DEF MicrotaskPending, Outstanding, RequestInv, DbInv, HandledAnswered
  <2>3. stmt[q] \in Pending
    BY <2>1, <2>2 DEF Outstanding, RequestInv, DbInv, TypeOK
  <2>4. QED
    BY <2>3, PendingFacts DEF IdleTimeout, Live
<1>2. DbInv'
  BY IdleTimeoutInv DEF RequestInv
<1>3. QED
  BY <1>1, <1>2, RetireInv DEF IdleTimeout

(* The pool's error event finds the listeners of the statements made so    *)
(* far; all of them are answered, so it takes no verdict.                  *)
LEMMA ConnErrorReqInv ==
  ASSUME RequestInv, NEW c \in Query, ConnError(c), UNCHANGED <<skips, h>> PROVE RequestInv'
<1>1. \A q \in Query : stmt[q] \notin Pending
  BY ErrorAfterAnswer
<1>2. TypeOK /\ RunningOnConn /\ ListenersCalled
  BY DEF RequestInv, DbInv
<1>3. Listeners(used[c]) = listening /\ listening # {} /\ conn[c] \in {"idle", "closing"}
  BY <1>2 DEF ConnError, Listeners, RequestInv, MainOnly, Heard, TypeOK
<1>4. /\ ~crashed' /\ listening' = {}
      /\ timer' = timer \cup {q \in listening : result[q] = "none"}
      /\ UNCHANGED <<result, poolVars, used, stmt, on, handled>>
      /\ conn' = [conn EXCEPT ![c] = IF conn[c] = "idle" THEN "closed" ELSE "failing"]
  BY <1>3 DEF ConnError, RejectLater
<1>5. DbInv'
  BY ConnErrorInv DEF RequestInv
<1>6. (MainOnly /\ HandleKept /\ NoneWaits /\ ~crashed)' /\ h' \in {"running", "responded"}
  BY <1>4 DEF RequestInv, MainOnly, HandleKept, NoneWaits, poolVars
<1>7. (Sequential /\ Verdicts)'
  BY <1>4 DEF RequestInv, Sequential, Verdicts, Outstanding, Outcome
<1>8. (PendingListens /\ TimersLate)'
  BY <1>1, <1>2, <1>4 DEF RequestInv, PendingListens, TimersLate, ListenersCalled, TypeOK
<1>9. Carried'
  BY <1>2, <1>3, <1>4 DEF RequestInv, Carried, TypeOK, RunningOnConn
<1>10. (OneConnection /\ Heard /\ Retired)'
  BY <1>2, <1>3, <1>4 DEF RequestInv, OneConnection, Live, Heard, Retired, TypeOK
<1>11. QED
  BY <1>5, <1>6, <1>7, <1>8, <1>9, <1>10 DEF RequestInv

(* The timer of a listener finds its query answered.                       *)
LEMMA RejectStrayReqInv ==
  ASSUME RequestInv, NEW q \in Query, RejectStray(q), UNCHANGED <<skips, h>>, ~MicrotaskPending
  PROVE  RequestInv'
<1>1. q \in timer /\ stmt[q] \in Done
  BY DEF RejectStray, RequestInv, TimersLate
<1>2. result[q] # "none"
  BY <1>1 DEF MicrotaskPending, RequestInv, DbInv, HandledAnswered
<1>3. /\ timer' = timer \ {q} /\ result' = result
      /\ UNCHANGED <<poolVars, wireVars, listening, handled, crashed>>
  BY <1>2 DEF RejectStray, RequestInv, DbInv, TypeOK
<1>4. DbInv'
  BY RejectStrayInv DEF RequestInv
<1>5. (MainOnly /\ HandleKept /\ NoneWaits /\ ~crashed)' /\ h' \in {"running", "responded"}
  BY <1>3 DEF RequestInv, MainOnly, HandleKept, NoneWaits, poolVars, wireVars
<1>6. (Sequential /\ Verdicts /\ PendingListens /\ TimersLate)'
  BY <1>3 DEF RequestInv, Sequential, Verdicts, PendingListens, TimersLate, Outstanding,
              Outcome, wireVars
<1>7. (Carried /\ OneConnection /\ Heard /\ Retired)'
  BY <1>3 DEF RequestInv, Carried, OneConnection, Live, Heard, Retired, wireVars
<1>8. QED
  BY <1>4, <1>5, <1>6, <1>7 DEF RequestInv

(* The callback of the answered statement gives its own verdict.           *)
LEMMA SettleReqInv ==
  ASSUME RequestInv, NEW q \in Query, Settle(q), UNCHANGED <<skips, h>> PROVE RequestInv'
<1>1. stmt[q] \in Done /\ q \notin handled /\ used[q] # q /\ result[q] = "none"
  BY DbAssumption DEF Settle, RequestInv, MainOnly, Verdicts
<1>2. TypeOK
  BY DEF RequestInv, DbInv
<1>3. /\ handled' = handled \cup {q} /\ result' = [result EXCEPT ![q] = Outcome(q)]
      /\ ended' = ended /\ conn' = conn
      /\ UNCHANGED <<pool, used, stmt, on, listening, timer, crashed>>
  BY <1>1, <1>2 DEF Settle, EndsTemporary, TypeOK
<1>4. DbInv'
  BY SettleInv DEF RequestInv
<1>5. (MainOnly /\ HandleKept /\ NoneWaits /\ ~crashed)' /\ h' \in {"running", "responded"}
  BY <1>3 DEF RequestInv, MainOnly, HandleKept, NoneWaits
<1>6. Outcome(q) # "none" /\ Outstanding(q)
  BY <1>1 DEF Outcome, Outstanding, Done, Failed
<1>7. \A r \in Query : ~Outstanding(r)'
  BY <1>2, <1>3, <1>6 DEF RequestInv, Sequential, Outstanding, TypeOK
<1>8. Sequential'
  BY <1>7 DEF Sequential
<1>9. (Verdicts /\ PendingListens /\ TimersLate)'
  BY <1>1, <1>2, <1>3 DEF RequestInv, Verdicts, PendingListens, TimersLate, Outcome, TypeOK
<1>10. (Carried /\ OneConnection /\ Heard /\ Retired)'
  BY <1>3 DEF RequestInv, Carried, OneConnection, Live, Heard, Retired
<1>11. QED
  BY <1>4, <1>5, <1>8, <1>9, <1>10 DEF RequestInv

(* Whatever happens around the handler keeps the invariant.                *)
LEMMA OutsideInv == ASSUME RequestInv, Outside PROVE RequestInv'
<1>1. UNCHANGED <<skips, h>> /\ (MicrotaskPending \/ ~HandlerReady) /\ Environment
  BY DEF Outside
<1>2. ASSUME NEW q \in Query, Settle(q) PROVE RequestInv'
  BY <1>1, <1>2, SettleReqInv
<1>3. ASSUME NEW c \in Query, ConnError(c) PROVE RequestInv'
  BY <1>1, <1>3, ConnErrorReqInv
<1>4. ASSUME NEW c \in Query, ConnectOk(c) \/ ConnectFail(c) \/ ConnClosed(c)
      PROVE RequestInv'
  BY <1>1, <1>4, ConnectOkInv, ConnectFailInv, ConnClosedInv
<1>5. ASSUME NEW q \in Query, StatementOk(q) \/ StatementError(q) \/ GiveUp(q)
      PROVE RequestInv'
  <2>1. ~GiveUp(q)
    BY DEF GiveUp, RequestInv, NoneWaits
  <2>2. QED
    BY <1>1, <1>5, <2>1, StatementOkInv, StatementErrorInv
<1>6. ASSUME NEW q \in Query, RejectStray(q), ~MicrotaskPending PROVE RequestInv'
  BY <1>1, <1>6, RejectStrayReqInv
<1>7. ASSUME NEW c \in Query, IdleTimeout(c), ~MicrotaskPending PROVE RequestInv'
  BY <1>1, <1>7, IdleTimeoutReqInv
<1>8. QED
  BY <1>1, <1>2, <1>3, <1>4, <1>5, <1>6, <1>7 DEF Environment, PoolStep

(* A stuttering step keeps the invariant.                                  *)
LEMMA RequestStutterInv == ASSUME RequestInv, UNCHANGED requestVars PROVE RequestInv'
<1>1. DbInv'
  BY StutterInv DEF RequestInv, requestVars
<1>2. QED
  BY <1>1 DEF RequestInv, MainOnly, HandleKept, NoneWaits, Sequential, Verdicts,
     PendingListens, TimersLate, Carried, OneConnection, Live, Heard, Retired,
     Outstanding, Outcome, requestVars, dbVars, poolVars, wireVars, promiseVars

(* A request starts with a fresh pool.                                     *)
LEMMA RequestInitInv == RequestInit => RequestInv
<1>1. RequestInit => DbInv
  BY InitInv DEF RequestInit
<1>2. QED
  BY <1>1, DbAssumption DEF RequestInit, Init, RequestInv, MainOnly, HandleKept, NoneWaits,
     Sequential, Verdicts, PendingListens, TimersLate, Carried, OneConnection, Live,
     Heard, Retired, Outstanding, Pending

(* The inductive invariant holds of every request.                         *)
THEOREM RequestInvariant == RequestSpec => []RequestInv
<1>1. RequestInv /\ [RequestNext]_requestVars => RequestInv'
  BY NextStatementInv, LeaveInv, OutsideInv, RequestStutterInv
     DEF RequestNext, Handler
<1>2. QED
  BY <1>1, RequestInitInv, PTL DEF RequestSpec

(* The state of a request keeps its type.                                  *)
THEOREM RequestTyped == RequestSpec => []RequestTypeOK
<1> DEFINE Fixed == skips \in SUBSET {"error", "throw"}
<1>1. RequestInit => Fixed
  BY DEF RequestInit
<1>2. Fixed /\ [RequestNext]_requestVars => Fixed'
  BY DEF RequestNext, Handler, Outside, requestVars
<1>3. RequestInv /\ Fixed => RequestTypeOK
  BY DEF RequestInv, RequestTypeOK, DbInv
<1>4. QED
  BY <1>1, <1>2, <1>3, RequestInvariant, PTL DEF RequestSpec

(* No error of a connection is ever uncaught while, or after, a request is *)
(* served, however many statements it makes.                               *)
THEOREM ServerAlwaysSurvives == RequestSpec => []ServerSurvives
<1>1. RequestInv => ServerSurvives
  BY DEF RequestInv, ServerSurvives
<1>2. QED
  BY <1>1, RequestInvariant, PTL

(* The handler sees the outcome of its own statements and nothing else.    *)
THEOREM VerdictsAreOwn == RequestSpec => []OwnVerdict
<1>1. RequestInv => OwnVerdict
  BY DEF RequestInv, OwnVerdict, Verdicts
<1>2. QED
  BY <1>1, RequestInvariant, PTL

(* A request never holds two server connections.                           *)
THEOREM AtMostOneConnection == RequestSpec => []OneConnection
<1>1. RequestInv => OneConnection
  BY DEF RequestInv
<1>2. QED
  BY <1>1, RequestInvariant, PTL

-------------------------------------------------------------------------------
(* An answer releases the connection.                                      *)

AnyFailed == \E q \in Query : stmt[q] \in Failed
Left == h = "responded" /\ "throw" \notin skips
NoneOpen == \A c \in Query : conn[c] \notin Open

(* The strengthening: from the failure of a statement on, and from the     *)
(* answer on, no client is open.                                           *)
Released == AnyFailed \/ Left => NoneOpen

(* With no client open only a new statement can open one.                  *)
LEMMA QuietStep ==
  ASSUME RequestInv, NoneOpen, RequestNext \/ UNCHANGED requestVars,
         \A q \in Query : ~NextStatement(q)
  PROVE  NoneOpen'
<1>1. /\ TypeOK /\ \A c \in Query : conn[c] \notin {"connecting", "busy", "idle"}
      /\ \A c \in Query : used[c] = Main /\ c # Main
  BY DbAssumption DEF RequestInv, DbInv, NoneOpen, Open, MainOnly
<1>2. \A q \in Query : stmt[q] # "running"
  BY <1>1 DEF RequestInv, Carried, DbInv, RunningOnConn
<1>3. ASSUME NEW q \in Query, Settle(q) \/ RejectStray(q) \/ ConnError(q)
      PROVE NoneOpen'
  BY <1>1, <1>3 DEF Settle, EndsTemporary, RejectStray, ConnError, wireVars, NoneOpen,
     Open, TypeOK
<1>4. ASSUME NEW c \in Query, ConnClosed(c) PROVE NoneOpen'
  <2>1. conn' = [conn EXCEPT ![c] = "closed"]
    BY <1>4, PulseIdle DEF ConnClosed
  <2>2. QED
    BY <1>1, <2>1 DEF NoneOpen, Open, TypeOK
<1>5. ASSUME NEW q \in Query,
             \/ ConnectOk(q) \/ ConnectFail(q) \/ IdleTimeout(q)
             \/ StatementOk(q) \/ StatementError(q) \/ GiveUp(q)
      PROVE FALSE
  BY <1>1, <1>2, <1>5 DEF ConnectOk, ConnectFail, IdleTimeout, StatementOk,
     StatementError, StatementFails, GiveUp, RequestInv, NoneWaits
<1>6. CASE Outside
  BY <1>3, <1>4, <1>5, <1>6 DEF Outside, Environment, PoolStep
<1>7. CASE CallEnd \/ UNCHANGED dbVars
  BY <1>1, <1>7 DEF CallEnd, Idle, NoneOpen, Open, dbVars, wireVars, TypeOK
<1>8. QED
  BY <1>6, <1>7 DEF RequestNext, Handler, EndAndRespond, RespondErrorWithoutEnd, Throw,
     requestVars

(* A statement is made on a pool that was not ended, when none has failed. *)
LEMMA NextStatementReleased ==
  ASSUME RequestInv, NEW q \in Query, NextStatement(q) PROVE Released'
<1>1. HandlerReady /\ (\A r \in Issued : Succeeded(r)) /\ CallQuery(q) /\ h' = "running"
  BY DEF NextStatement, HandlerReady
<1>2. \A r \in Query : stmt[r] \notin Failed
  BY <1>1, ReadyFacts DEF Failed
<1>3. PickPool(q) = Main /\ Main \notin ended
  BY <1>1, DbAssumption DEF PickPool, HandlerReady, RequestInv, HandleKept, DbInv, HandleOpen
<1>4. \A r \in Query : stmt'[r] = stmt[r] \/ stmt'[r] \in Pending
  BY <1>1, <1>3 DEF CallQuery, StartOn, RequestInv, DbInv, TypeOK, Pending
<1>5. ~AnyFailed'
  BY <1>2, <1>4 DEF AnyFailed, Failed, Pending
<1>6. QED
  BY <1>1, <1>5 DEF Released, Left

(* end() comes when no statement is in flight: what is open is idle, and   *)
(* is retired.                                                             *)
LEMMA EndReleases == ASSUME RequestInv, EndAndRespond PROVE NoneOpen'
<1>1. \A q \in Query : stmt[q] \notin Pending
  BY PendingFacts DEF EndAndRespond, HandlerReady, Issued, Answered, Outstanding, Pending
<1>2. \A c \in Query : conn[c] \notin {"connecting", "busy"}
  BY <1>1 DEF RequestInv, Carried, Pending
<1>3. /\ pool = Main /\ \A c \in Query : used[c] = Main
      /\ conn' = [c \in Query |-> IF c \in Idle(pool) THEN "closing" ELSE conn[c]]
  BY DEF EndAndRespond, CallEnd, HandlerReady, RequestInv, HandleKept, MainOnly
<1>4. QED
  BY <1>2, <1>3 DEF Idle, NoneOpen, Open

(* A statement that fails takes the only open client with it.              *)
LEMMA FailureReleases ==
  ASSUME RequestInv, NEW q \in Query, StatementError(q) \/ ConnectFail(q) PROVE NoneOpen'
<1>1. TypeOK /\ RunningOnConn
  BY DEF RequestInv, DbInv
<1>2. CASE StatementError(q)
  <2>1. stmt[q] = "running" /\ conn' = [conn EXCEPT ![on[q]] = "closing"]
    BY <1>2 DEF StatementError, StatementFails
  <2>2. on[q] \in Query /\ conn[on[q]] = "busy"
    BY <1>1, <2>1 DEF RunningOnConn, RequestInv, Carried
  <2>3. QED
    BY <1>1, <2>1, <2>2 DEF RequestInv, OneConnection, Live, NoneOpen, Open, TypeOK
<1>3. CASE ConnectFail(q)
  <2>1. conn[q] = "connecting" /\ conn' = [conn EXCEPT ![q] = "closed"]
    BY <1>3, PulseIdle DEF ConnectFail
  <2>2. QED
    BY <1>1, <2>1 DEF RequestInv, OneConnection, Live, NoneOpen, Open, TypeOK
<1>4. QED
  BY <1>2, <1>3

(* A step that is neither keeps every statement from failing.              *)
LEMMA WhoFails ==
  ASSUME RequestInv, RequestNext \/ UNCHANGED requestVars,
         \A q \in Query : ~NextStatement(q) /\ ~StatementError(q) /\ ~ConnectFail(q)
  PROVE  AnyFailed' => AnyFailed
<1>1. TypeOK
  BY DEF RequestInv, DbInv
<1>2. ASSUME NEW q \in Query,
             Settle(q) \/ RejectStray(q) \/ ConnError(q) \/ IdleTimeout(q) \/ CallEnd
      PROVE stmt' = stmt
  BY <1>2 DEF Settle, RejectStray, ConnError, IdleTimeout, CallEnd, wireVars
<1>3. ASSUME NEW c \in Query, ConnClosed(c) PROVE stmt' = stmt
  BY <1>3, PulseIdle DEF ConnClosed
<1>4. ASSUME NEW c \in Query, ConnectOk(c) PROVE stmt' = [stmt EXCEPT ![c] = "running"]
  BY <1>4 DEF ConnectOk, RequestInv, Carried
<1>5. ASSUME NEW q \in Query, StatementOk(q) PROVE stmt' = [stmt EXCEPT ![q] = "ok"]
  <2>1. stmt[q] = "running" /\ Release(on[q], [stmt EXCEPT ![q] = "ok"])
    BY <1>5 DEF StatementOk
  <2>2. QED
    BY <2>1, PulseIdle DEF Release
<1>6. \A q \in Query : ~GiveUp(q)
  BY DEF GiveUp, RequestInv, NoneWaits
<1>7. \A q \in Query : stmt'[q] = stmt[q] \/ stmt'[q] \in {"running", "ok"}
  BY <1>1, <1>2, <1>3, <1>4, <1>5, <1>6
     DEF RequestNext, Handler, EndAndRespond, RespondErrorWithoutEnd, Throw, Outside,
         Environment, PoolStep, requestVars, dbVars, wireVars, TypeOK
<1>8. QED
  BY <1>7 DEF AnyFailed, Failed

(* The answer to a failed statement, without end(): the client is gone.    *)
LEMMA ErrorAnswerFailed == ASSUME RequestInv, RespondErrorWithoutEnd PROVE AnyFailed
<1>1. PICK q \in Issued : ~Succeeded(q) /\ Answered(q)
  BY DEF RespondErrorWithoutEnd, HandlerReady
<1>2. stmt[q] \in Done /\ stmt[q] # "ok" /\ q \in Query
  BY <1>1 DEF RequestInv, Verdicts, Outcome, Issued, Succeeded, Answered
<1>3. QED
  BY <1>2 DEF AnyFailed, Done

(* An answered request that was not cut short by an exception holds no     *)
(* connection, then or later, whichever way out it took (db.ts:106-107:    *)
(* "the server needs this").                                               *)
THEOREM AnswersReleaseConnections == RequestSpec => []AnswerReleases
<1>1. RequestInit => Released
  BY DEF RequestInit, Init, Released, AnyFailed, Left, Failed
<1>2. RequestInv /\ Released /\ [RequestNext]_requestVars => Released'
  <2> SUFFICES ASSUME RequestInv, Released, RequestNext \/ UNCHANGED requestVars
               PROVE  Released'
    OBVIOUS
  <2>1. CASE \E q \in Query : NextStatement(q)
    BY <2>1, NextStatementReleased
  <2>2. CASE EndAndRespond
    BY <2>2, EndReleases DEF Released
  <2>3. CASE \E q \in Query : StatementError(q) \/ ConnectFail(q)
    BY <2>3, FailureReleases DEF Released
  <2>4. CASE /\ ~EndAndRespond
             /\ \A q \in Query : ~NextStatement(q) /\ ~StatementError(q) /\ ~ConnectFail(q)
    <3>1. AnyFailed' => AnyFailed
      BY <2>4, WhoFails
    <3>2. Left' => Left \/ AnyFailed
      BY <2>4, ErrorAnswerFailed
         DEF RequestNext, Handler, Throw, Outside, Left, requestVars
    <3>3. QED
      BY <2>4, <3>1, <3>2, QuietStep DEF Released
  <2>5. QED
    BY <2>1, <2>2, <2>3, <2>4
<1>3. Released => AnswerReleases
  BY DEF Released, Left, NoneOpen, AnswerReleases
<1>4. QED
  BY <1>1, <1>2, <1>3, RequestInvariant, PTL DEF RequestSpec
===============================================================================
