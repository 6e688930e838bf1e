------------------------------- MODULE Shutdown -------------------------------
(***************************************************************************)
(* src/server/server.ts, the process: a signal or an uncaught error closes *)
(* the server under a grace period, and the format pool after it.  Each    *)
(* call of FormatPool is made by one GET /generators/typescript, whose     *)
(* client may hang up; its handler runs on.                                *)
(*                                                                         *)
(* External: close-with-grace runs the closing function once, then ends    *)
(* the process, and ends it at once when the grace period is over or a     *)
(* second signal comes.  fastify's close() stops listening and resolves    *)
(* when no client is connected.  The admin server formats nothing.         *)
(***************************************************************************)
EXTENDS FormatPool

VARIABLES
  client,  \* the client of the request that makes each call
  phase    \* how far the closing function is

shutdownVars == <<formatVars, client, phase>>

Phases == {"up", "closing", "closed", "destroyed", "exited"}

(* One type invariant for the module.                                      *)
ShutdownTypeOK ==
  /\ TypeOK
  /\ client \in [Call -> {"away", "waiting", "gone", "answered"}]
  /\ phase \in Phases

ShutdownInit ==
  /\ Init
  /\ client = [c \in Call |-> "away"]
  /\ phase = "up"

Waiting == {c \in Call : client[c] = "waiting"}

(* The handler of a request, which nothing stops but the end of the        *)
(* process.                                                                *)
Handles(c) == client[c] \in {"waiting", "gone"}

-------------------------------------------------------------------------------
(* The requests.                                                           *)

Arrive(c) ==
  /\ phase = "up" /\ client[c] = "away"
  /\ client' = [client EXCEPT ![c] = "waiting"]
  /\ UNCHANGED <<formatVars, phase>>

HangUp(c) ==
  /\ phase # "exited" /\ client[c] = "waiting"
  /\ client' = [client EXCEPT ![c] = "gone"]
  /\ UNCHANGED <<formatVars, phase>>

(* The text, the 503 of a full queue or an error is sent once format()     *)
(* returned; a request whose catalog reading failed is answered before it. *)
Respond(c) ==
  /\ phase # "exited" /\ client[c] = "waiting" /\ call[c] \in {"none", "done"}
  /\ client' = [client EXCEPT ![c] = "answered"]
  /\ UNCHANGED <<formatVars, phase>>

(* A handler calls format().                                               *)
CallFormat(c) ==
  /\ phase # "exited" /\ Handles(c)
  /\ Admit(c) \/ Shed(c)
  /\ UNCHANGED <<client, phase>>

(* A thread takes a task, or has done it.                                  *)
Work(c) ==
  /\ phase # "exited"
  /\ Start(c) \/ Finish(c, "text") \/ Finish(c, "error")
  /\ UNCHANGED <<client, phase>>

(* The timeout of a call, or its finally block.                            *)
EndCall(c) ==
  /\ phase # "exited"
  /\ Abort(c) \/ Return(c)
  /\ UNCHANGED <<client, phase>>

-------------------------------------------------------------------------------
(* The closing function.                                                   *)

(* SIGTERM, SIGINT, an uncaught exception or an unhandled rejection.       *)
Signal ==
  /\ phase = "up" /\ phase' = "closing"
  /\ UNCHANGED <<formatVars, client>>

(* Mutant: app.close() is not awaited.                                     *)
CloseAtOnce ==
  /\ phase = "closing" /\ phase' = "closed"
  /\ UNCHANGED <<formatVars, client>>

(* app.close() and adminApp.close() have settled.                          *)
Close ==
  /\ phase = "closing" /\ Waiting = {} /\ phase' = "closed"
  /\ UNCHANGED <<formatVars, client>>

(* destroyFormatPool() is called.  The handler of a client that is gone    *)
(* may call format() after it: that makes a pool nobody destroys, and it   *)
(* ends with the process.                                                  *)
DestroyPool ==
  /\ phase = "closed" /\ phase' = "destroyed"
  /\ \/ Destroy
     \/ pool = NoPool /\ UNCHANGED formatVars
  /\ UNCHANGED client

(* The closing function returned.                                          *)
Exit ==
  /\ phase = "destroyed" /\ phase' = "exited"
  /\ UNCHANGED <<formatVars, client>>

(* SHUTDOWN_GRACE_PERIOD_MS are over, or a second signal came.             *)
ForceExit ==
  /\ phase \in {"closing", "closed", "destroyed"} /\ phase' = "exited"
  /\ UNCHANGED <<formatVars, client>>

ShutdownNext ==
  \/ \E c \in Call : Arrive(c) \/ HangUp(c) \/ Respond(c)
  \/ \E c \in Call : CallFormat(c) \/ Work(c) \/ EndCall(c)
  \/ Signal \/ Close \/ DestroyPool \/ Exit \/ ForceExit

(* The timeout of a call fires and its callbacks run while the process     *)
(* lives, and the grace timer fires.  No signal has to come, no client has *)
(* to wait and no thread has to finish.                                    *)
ShutdownFairness ==
  /\ \A c \in Call : WF_shutdownVars(EndCall(c))
  /\ WF_shutdownVars(ForceExit)

ShutdownSpec == ShutdownInit /\ [][ShutdownNext]_shutdownVars
FairShutdownSpec == ShutdownSpec /\ ShutdownFairness

-------------------------------------------------------------------------------
(* Properties                                                              *)

(* A shutdown never takes the pool from under a client that still waits:   *)
(* only the call of a client that hung up is rejected by destroy().        *)
ShutdownSparesCalls ==
  \A c \in Call : outcome[c] = "terminated" => client[c] = "gone"

(* Every call of format() returns, even when all the threads hang, unless  *)
(* the process ends first; and a process told to end does.                 *)
EveryFormatReturns ==
  /\ \A c \in Call : call[c] \in OnPool ~> call[c] = "done" \/ phase = "exited"
  /\ phase = "closing" ~> phase = "exited"
===============================================================================
