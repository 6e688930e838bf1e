------------------------------ MODULE FormatPool ------------------------------
(***************************************************************************)
(* src/server/format-pool.ts: generated code is formatted on a pool of     *)
(* worker threads made on first use, behind an admission limit of its own, *)
(* with a timeout per call; the pool is destroyed when the server closes.  *)
(* The pool (piscina) is external: a call waits for one of its threads,    *)
(* and is rejected when its signal aborts or the pool is destroyed.        *)
(*                                                                         *)
(* A pool is named by the call that makes it.  Formatting inline           *)
(* (FORMAT_IN_WORKER false) keeps no state and is left out.                *)
(***************************************************************************)
EXTENDS Naturals, FiniteSets

CONSTANTS
  Call,               \* calls of format()
  NoPool,             \* null
  FORMAT_MAX_QUEUE,   \* calls running or waiting before load is shed
  FORMAT_POOL_SIZE    \* threads of a pool

ASSUME FormatAssumption ==
  /\ IsFiniteSet(Call) /\ NoPool \notin Call
  /\ FORMAT_MAX_QUEUE \in Nat
  /\ FORMAT_POOL_SIZE \in Nat \ {0}

VARIABLES
  pool,       \* the module variable `pool`
  destroyed,  \* the pools destroy() was called on
  inFlight,   \* the module variable `inFlight`
  call,       \* where each call is
  runsOn,     \* the pool each admitted call was handed to
  outcome     \* what each call is, or will be, answered

formatVars == <<pool, destroyed, inFlight, call, runsOn, outcome>>

OnPool == {"queued", "running"}
Outcomes == {"none", "text", "error", "aborted", "terminated", "timeout", "full"}

(* One type invariant for the module. *)
TypeOK ==
  /\ pool \in Call \cup {NoPool}
  /\ destroyed \in SUBSET Call
  /\ inFlight \in Nat
  /\ call \in [Call -> {"none", "settled", "done"} \cup OnPool]
  /\ runsOn \in [Call -> Call \cup {NoPool}]
  /\ outcome \in [Call -> Outcomes]

Init ==
  /\ pool = NoPool /\ destroyed = {} /\ inFlight = 0
  /\ call = [c \in Call |-> "none"]
  /\ runsOn = [c \in Call |-> NoPool]
  /\ outcome = [c \in Call |-> "none"]

(* The calls between their inFlight++ and their inFlight--.                *)
Admitted == {c \in Call : call[c] \in OnPool \cup {"settled"}}

Running(p) == {c \in Call : runsOn[c] = p /\ call[c] = "running"}

-------------------------------------------------------------------------------
(* format().                                                               *)

(* Mutant: the limit is checked inside the try, whose finally counts out.  *)
ShedCounted(c) ==
  /\ call[c] = "none" /\ inFlight >= FORMAT_MAX_QUEUE
  /\ call' = [call EXCEPT ![c] = "done"]
  /\ outcome' = [outcome EXCEPT ![c] = "full"]
  /\ inFlight' = inFlight - 1
  /\ UNCHANGED <<pool, destroyed, runsOn>>

(* The limit is reached: FormatQueueFullError at once.                     *)
Shed(c) ==
  /\ call[c] = "none" /\ inFlight >= FORMAT_MAX_QUEUE
  /\ call' = [call EXCEPT ![c] = "done"]
  /\ outcome' = [outcome EXCEPT ![c] = "full"]
  /\ UNCHANGED <<pool, destroyed, inFlight, runsOn>>

(* getPool(): the captured pool, or one made now, named by its first call. *)
GetPool(c) == IF pool = NoPool THEN c ELSE pool

(* Mutant: one call too many is admitted.                                  *)
AdmitOneMore(c) ==
  /\ call[c] = "none" /\ inFlight <= FORMAT_MAX_QUEUE
  /\ inFlight' = inFlight + 1
  /\ pool' = GetPool(c)
  /\ call' = [call EXCEPT ![c] = "queued"]
  /\ runsOn' = [runsOn EXCEPT ![c] = pool']
  /\ UNCHANGED <<destroyed, outcome>>

(* Counted, then handed to the pool, which is made if there is none.       *)
Admit(c) ==
  /\ call[c] = "none" /\ inFlight < FORMAT_MAX_QUEUE
  /\ inFlight' = inFlight + 1
  /\ pool' = GetPool(c)
  /\ call' = [call EXCEPT ![c] = "queued"]
  /\ runsOn' = [runsOn EXCEPT ![c] = pool']
  /\ UNCHANGED <<destroyed, outcome>>

(* An abort is told as a timeout.                                          *)
Answer(o) == IF o = "aborted" THEN "timeout" ELSE o

(* Mutant: only a call that did not throw is counted out.                  *)
ReturnCountsSuccess(c) ==
  /\ call[c] = "settled"
  /\ inFlight' = IF outcome[c] = "text" THEN inFlight - 1 ELSE inFlight
  /\ call' = [call EXCEPT ![c] = "done"]
  /\ outcome' = [outcome EXCEPT ![c] = Answer(@)]
  /\ UNCHANGED <<pool, destroyed, runsOn>>

(* The promise of pool.run() was settled; the finally block counts the     *)
(* call out, whatever happened to it.                                      *)
Return(c) ==
  /\ call[c] = "settled"
  /\ inFlight' = inFlight - 1
  /\ call' = [call EXCEPT ![c] = "done"]
  /\ outcome' = [outcome EXCEPT ![c] = Answer(@)]
  /\ UNCHANGED <<pool, destroyed, runsOn>>

(* Mutant: the variable is reset once destroy() has resolved.              *)
DestroyKeepsPool ==
  /\ pool \notin destroyed \cup {NoPool}
  /\ destroyed' = destroyed \cup {pool}
  /\ LET gone == {c \in Call : runsOn[c] = pool /\ call[c] \in OnPool} IN
       /\ call' = [c \in Call |-> IF c \in gone THEN "settled" ELSE call[c]]
       /\ outcome' = [c \in Call |-> IF c \in gone THEN "terminated" ELSE outcome[c]]
  /\ UNCHANGED <<pool, inFlight, runsOn>>

(* destroyFormatPool(): the variable is reset before the pool is destroyed,*)
(* so that a call made while it waits gets a pool of its own.  Every call  *)
(* that is on the pool is rejected.                                        *)
Destroy ==
  /\ pool # NoPool
  /\ pool' = NoPool
  /\ destroyed' = destroyed \cup {pool}
  /\ LET gone == {c \in Call : runsOn[c] = pool /\ call[c] \in OnPool} IN
       /\ call' = [c \in Call |-> IF c \in gone THEN "settled" ELSE call[c]]
       /\ outcome' = [c \in Call |-> IF c \in gone THEN "terminated" ELSE outcome[c]]
  /\ UNCHANGED <<inFlight, runsOn>>

-------------------------------------------------------------------------------
(* The pool's threads and the timeout signal.                              *)

Start(c) ==
  /\ call[c] = "queued" /\ Cardinality(Running(runsOn[c])) < FORMAT_POOL_SIZE
  /\ call' = [call EXCEPT ![c] = "running"]
  /\ UNCHANGED <<pool, destroyed, inFlight, runsOn, outcome>>

(* prettier.format returned the text, or threw, in the thread.             *)
Finish(c, o) ==
  /\ call[c] = "running"
  /\ call' = [call EXCEPT ![c] = "settled"]
  /\ outcome' = [outcome EXCEPT ![c] = o]
  /\ UNCHANGED <<pool, destroyed, inFlight, runsOn>>

(* Mutant: the signal reaches only the tasks that wait.                    *)
AbortQueued(c) ==
  /\ call[c] = "queued"
  /\ call' = [call EXCEPT ![c] = "settled"]
  /\ outcome' = [outcome EXCEPT ![c] = "aborted"]
  /\ UNCHANGED <<pool, destroyed, inFlight, runsOn>>

(* AbortSignal.timeout, counted from the call of run(): a queued task is   *)
(* dropped, the thread of a running one is terminated and replaced.        *)
Abort(c) ==
  /\ call[c] \in OnPool
  /\ call' = [call EXCEPT ![c] = "settled"]
  /\ outcome' = [outcome EXCEPT ![c] = "aborted"]
  /\ UNCHANGED <<pool, destroyed, inFlight, runsOn>>

Next ==
  \/ \E c \in Call : Shed(c) \/ Admit(c) \/ Start(c) \/ Abort(c) \/ Return(c)
  \/ \E c \in Call : Finish(c, "text") \/ Finish(c, "error")
  \/ Destroy

Spec == Init /\ [][Next]_formatVars

-------------------------------------------------------------------------------
(* Properties                                                              *)

(* inFlight counts the calls that are in flight, through every way a call  *)
(* can end: a count that leaks turns the server to 503 for good.           *)
InFlightExact == inFlight = Cardinality(Admitted)

(* No call is on a destroyed pool, where nothing would answer it.          *)
NoCallOnDestroyed ==
  \A c \in Call : runsOn[c] \in destroyed => call[c] \notin OnPool

(* The callers see the bounded admission of Admission: load is shed when,  *)
(* and only when, FORMAT_MAX_QUEUE calls are in flight.                    *)
Abstract == INSTANCE Admission WITH
  Caller <- Call, Bound <- FORMAT_MAX_QUEUE,
  fresh <- {c \in Call : call[c] = "none"}, held <- Admitted

Admits == Abstract!Spec
===============================================================================
