-------------------------------- MODULE Request --------------------------------
(***************************************************************************)
(* One HTTP request of the server (src/server/routes): the handler makes a *)
(* PostgresMeta on the tenant's connection string, runs one operation of   *)
(* the library, ends the pool and answers.  An operation is a sequence of  *)
(* statements, one at a time, that stops at the first error.               *)
(*                                                                         *)
(* Between the answer of one statement and the next call only promise      *)
(* callbacks run, so nothing of the network comes in between.              *)
(***************************************************************************)
EXTENDS Db

VARIABLES
  skips,  \* the ways out of this route's handler that do not call end()
  h       \* "running" until the answer is sent, then "responded"

requestVars == <<dbVars, skips, h>>

Issued == {q \in Query : stmt[q] # "none"}
Answered(q) == result[q] # "none"
Succeeded(q) == result[q] = "data"

(* The handler holds the thread: no statement of it is outstanding.        *)
HandlerReady == h = "running" /\ \A q \in Issued : Answered(q)

RequestTypeOK ==
  TypeOK /\ skips \in SUBSET {"error", "throw"} /\ h \in {"running", "responded"}

(* The routes differ in the ways out they have: a generator route answers  *)
(* the error of getGeneratorMetadata, a route whose operation throws is    *)
(* left by the exception.                                                  *)
RequestInit == Init /\ skips \in SUBSET {"error", "throw"} /\ h = "running"

-------------------------------------------------------------------------------
(* Mutant: the operation goes on after a failed statement.                 *)
NextStatementRegardless(q) ==
  /\ HandlerReady
  /\ CallQuery(q)
  /\ UNCHANGED h

(* Mutant: the statements are started together (Promise.all).              *)
NextStatementAtOnce(q) ==
  /\ h = "running" /\ \A r \in Issued : Answered(r) => Succeeded(r)
  /\ CallQuery(q)
  /\ UNCHANGED h

(* The next statement of the operation, when none has failed so far.       *)
NextStatement(q) ==
  /\ HandlerReady /\ \A r \in Issued : Succeeded(r)
  /\ CallQuery(q)
  /\ UNCHANGED h

(* Mutant: the answer is sent without end().                               *)
RespondOnly ==
  /\ HandlerReady /\ Issued # {}
  /\ (\E q \in Issued : ~Succeeded(q)) => "error" \notin skips
  /\ UNCHANGED dbVars
  /\ h' = "responded"

(* await pgMeta.end(), then the reply, on success as on error.             *)
EndAndRespond ==
  /\ HandlerReady /\ Issued # {}
  /\ (\E q \in Issued : ~Succeeded(q)) => "error" \notin skips
  /\ CallEnd
  /\ h' = "responded"

(* A generator route: the error of getGeneratorMetadata is answered, and   *)
(* only its success path ends the pool.  The client of the failed          *)
(* statement is gone, the pool is left to the garbage collector.           *)
RespondErrorWithoutEnd ==
  /\ HandlerReady /\ "error" \in skips
  /\ \E q \in Issued : ~Succeeded(q)
  /\ h' = "responded"
  /\ UNCHANGED dbVars

(* The library throws while it builds a statement (an unknown config op, a *)
(* name pg-format refuses): the app answers 500, end() is skipped.         *)
Throw ==
  /\ HandlerReady /\ "throw" \in skips
  /\ \A q \in Issued : Succeeded(q)
  /\ h' = "responded"
  /\ UNCHANGED dbVars

Handler ==
  /\ ~MicrotaskPending
  /\ \/ \E q \in Query : NextStatement(q)
     \/ EndAndRespond
     \/ RespondErrorWithoutEnd
     \/ Throw
  /\ UNCHANGED skips

(* Timers and the network wait for the handler, not for a statement that   *)
(* is running.                                                             *)
Outside ==
  /\ MicrotaskPending \/ ~HandlerReady
  /\ Environment
  /\ UNCHANGED <<skips, h>>

RequestNext == ~crashed /\ (Handler \/ Outside)

(* pg-pool's timers as in Db, and its idleTimeoutMillis; the handler goes  *)
(* on when it can, and answers after finitely many statements.             *)
RequestFairness ==
  /\ Fairness
  /\ \A c \in Query : WF_requestVars(Quiet /\ ~HandlerReady /\ IdleTimeout(c) /\ UNCHANGED <<skips, h>>)
  /\ WF_requestVars(Quiet /\ Handler)

RequestSpec == RequestInit /\ [][RequestNext]_requestVars
FairRequestSpec == RequestSpec /\ RequestFairness

-------------------------------------------------------------------------------
(* Properties                                                              *)

(* No error of a connection finds the pool without a listener, at any      *)
(* point of the request or after it (db.ts:24-25): one-shot listeners are  *)
(* enough for a handler that stops at its first error.                     *)
ServerSurvives == ~crashed

(* Every answer a handler gets is that of its own statement: an error of   *)
(* another connection of its pool never replaces it (db.ts:36-46).         *)
OwnVerdict ==
  \A q \in Query : result[q] \in {"none", IF stmt[q] \in Done THEN Outcome(q) ELSE "none"}

(* A request holds at most one server connection at a time, whatever       *)
(* config.max is.                                                          *)
Live(c) == conn[c] \notin {"none", "closed"}
OneConnection == \A c, d \in Query : Live(c) /\ Live(d) => c = d

(* A handler that no exception cuts short holds no connection when it      *)
(* answers, nor ever after: end() retires the idle one without waiting for *)
(* anything, and where the error answer skips end() the failed statement   *)
(* has taken its client with it.                                           *)
AnswerReleases ==
  h = "responded" /\ "throw" \notin skips => \A c \in Query : conn[c] \notin Open

(* Every request is answered, although nothing bounds a statement but the  *)
(* timeouts of the pool.                                                   *)
EveryRequestAnswered == <>(h = "responded")

(* The connection of an answered request is closed in the end, also on the *)
(* ways out that skip end().                                               *)
ConnectionsReleased ==
  h = "responded" ~> \A c \in Query : conn[c] \in {"none", "closed"}
===============================================================================
