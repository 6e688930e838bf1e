---------------------------- MODULE ShutdownProofs ----------------------------
(***************************************************************************)
(* Proofs about Shutdown: the server process is an environment FormatPool  *)
(* allows for, so that all that FormatProofs shows holds in it, and its    *)
(* shutdown spares the calls clients wait for.                             *)
(***************************************************************************)
EXTENDS Shutdown, FormatProofs

(* Every step of the process is a step of the pool, or leaves it alone.    *)
LEMMA ProcessStep == [ShutdownNext]_shutdownVars => [Next]_formatVars
<1>1. ASSUME NEW c \in Call, CallFormat(c) \/ Work(c) \/ EndCall(c) PROVE Next
  BY <1>1 DEF CallFormat, Work, EndCall, Next
<1>2. ASSUME NEW c \in Call, Arrive(c) \/ HangUp(c) \/ Respond(c) PROVE UNCHANGED formatVars
  BY <1>2 DEF Arrive, HangUp, Respond
<1>3. ASSUME DestroyPool PROVE Next \/ UNCHANGED formatVars
  BY <1>3 DEF DestroyPool, Next
<1>4. ASSUME Signal \/ Close \/ Exit \/ ForceExit PROVE UNCHANGED formatVars
  BY <1>4 DEF Signal, Close, Exit, ForceExit
<1>5. UNCHANGED shutdownVars => UNCHANGED formatVars
  BY DEF shutdownVars
<1>6. QED
  BY <1>1, <1>2, <1>3, <1>4, <1>5 DEF ShutdownNext

(* The pool inside the server process behaves as the pool alone.           *)
THEOREM ProcessImplementsPool == ShutdownSpec => Spec
<1>1. ShutdownInit => Init
  BY DEF ShutdownInit
<1>2. QED
  BY <1>1, ProcessStep, PTL DEF ShutdownSpec, Spec

(* The callers see bounded admission through a shutdown, too.              *)
THEOREM ProcessAdmits == ShutdownSpec => Admits
BY ProcessImplementsPool, FormatAdmits, PTL

-------------------------------------------------------------------------------
(* Who can be on the pool when it is destroyed.                            *)

(* Once the servers are closed no client waits; a request that has not     *)
(* come has not called format(), and one that was answered has left it;    *)
(* only calls that were on the pool are rejected.                          *)
ShutdownInv ==
  /\ ShutdownTypeOK
  /\ phase \in {"closed", "destroyed"} => Waiting = {}
  /\ \A c \in Call : /\ client[c] = "away" => call[c] = "none"
                     /\ client[c] = "answered" => call[c] \in {"none", "done"}
                     /\ call[c] = "none" => outcome[c] = "none"
  /\ ShutdownSparesCalls

(* A request comes, hangs up or is answered.                               *)
LEMMA ClientKeeps ==
  ASSUME ShutdownInv, TypeOK', NEW c \in Call, Arrive(c) \/ HangUp(c) \/ Respond(c)
  PROVE  ShutdownInv'
<1>1. CASE Arrive(c)
  BY <1>1 DEF ShutdownInv, ShutdownTypeOK, Arrive, formatVars, Waiting, ShutdownSparesCalls, OnPool
<1>2. CASE HangUp(c)
  BY <1>2 DEF ShutdownInv, ShutdownTypeOK, HangUp, formatVars, Waiting, ShutdownSparesCalls, OnPool
<1>3. CASE Respond(c)
  BY <1>3 DEF ShutdownInv, ShutdownTypeOK, Respond, formatVars, Waiting, ShutdownSparesCalls, OnPool
<1>4. QED
  BY <1>1, <1>2, <1>3

(* A call is made by the handler of a client that waits or is gone.        *)
LEMMA CallKeeps ==
  ASSUME ShutdownInv, TypeOK', NEW c \in Call, CallFormat(c)
  PROVE  ShutdownInv'
<1>1. CASE Admit(c)
  BY <1>1 DEF ShutdownInv, ShutdownTypeOK, TypeOK, CallFormat, Handles, Admit, Waiting,
              ShutdownSparesCalls, OnPool
<1>2. CASE Shed(c)
  BY <1>2 DEF ShutdownInv, ShutdownTypeOK, TypeOK, CallFormat, Handles, Shed, Waiting,
              ShutdownSparesCalls, OnPool
<1>3. QED
  BY <1>1, <1>2 DEF CallFormat

(* The threads, the timeouts and the finally blocks reject no call for the *)
(* pool's end.                                                             *)
LEMMA WorkKeeps ==
  ASSUME ShutdownInv, TypeOK', NEW c \in Call, Work(c) \/ EndCall(c)
  PROVE  ShutdownInv'
<1>1. CASE Start(c) /\ UNCHANGED <<client, phase>>
  BY <1>1 DEF ShutdownInv, ShutdownTypeOK, TypeOK, Start, Waiting, ShutdownSparesCalls, OnPool
<1>2. ASSUME NEW o \in {"text", "error"}, Finish(c, o), UNCHANGED <<client, phase>>
      PROVE  ShutdownInv'
  BY <1>2 DEF ShutdownInv, ShutdownTypeOK, TypeOK, Finish, Waiting, ShutdownSparesCalls, OnPool
<1>3. CASE Abort(c) /\ UNCHANGED <<client, phase>>
  BY <1>3 DEF ShutdownInv, ShutdownTypeOK, TypeOK, Abort, Waiting, ShutdownSparesCalls, OnPool
<1>4. CASE Return(c) /\ UNCHANGED <<client, phase>>
  BY <1>4 DEF ShutdownInv, ShutdownTypeOK, TypeOK, Return, Answer, Waiting,
              ShutdownSparesCalls, OnPool
<1>5. QED
  BY <1>1, <1>2, <1>3, <1>4 DEF Work, EndCall

(* destroyFormatPool() runs when no client waits: the calls it rejects are *)
(* those of clients that are gone.                                         *)
LEMMA DestroyKeeps ==
  ASSUME ShutdownInv, TypeOK', DestroyPool
  PROVE  ShutdownInv'
<1>1. ASSUME NEW c \in Call, call[c] \in OnPool PROVE client[c] = "gone"
  BY <1>1 DEF ShutdownInv, ShutdownTypeOK, DestroyPool, Waiting, OnPool
<1>2. CASE Destroy
  BY <1>1, <1>2 DEF ShutdownInv, ShutdownTypeOK, TypeOK, DestroyPool, Destroy, Waiting,
                    Phases, ShutdownSparesCalls, OnPool
<1>3. CASE UNCHANGED formatVars
  BY <1>3 DEF ShutdownInv, ShutdownTypeOK, DestroyPool, formatVars, Waiting, Phases,
              ShutdownSparesCalls
<1>4. QED
  BY <1>2, <1>3 DEF DestroyPool

(* The other steps of the closing function only wait.                      *)
LEMMA PhaseKeeps ==
  ASSUME ShutdownInv, TypeOK', Signal \/ Close \/ Exit \/ ForceExit
  PROVE  ShutdownInv'
BY DEF ShutdownInv, ShutdownTypeOK, Signal, Close, Exit, ForceExit, formatVars, Waiting,
       Phases, ShutdownSparesCalls

(* The inductive invariant of the process.                                 *)
THEOREM ShutdownInvariant == ShutdownSpec => []ShutdownInv
<1>1. ShutdownInit => ShutdownInv
  BY FormatInit DEF ShutdownInit, Init, ShutdownInv, ShutdownTypeOK, FormatInv, Waiting, Phases,
                    ShutdownSparesCalls
<1>2. ASSUME ShutdownInv, TypeOK', [ShutdownNext]_shutdownVars
      PROVE  ShutdownInv'
  <2>1. CASE UNCHANGED shutdownVars
    BY <1>2, <2>1 DEF ShutdownInv, ShutdownTypeOK, shutdownVars, formatVars, Waiting, ShutdownSparesCalls
  <2>2. CASE ShutdownNext
    BY <1>2, <2>2, ClientKeeps, CallKeeps, WorkKeeps, DestroyKeeps, PhaseKeeps DEF ShutdownNext
  <2>3. QED
    BY <1>2, <2>1, <2>2
<1>3. QED
  BY <1>1, <1>2, ProcessImplementsPool, FormatTyped, PTL DEF ShutdownSpec

(* The state of the process keeps its type.                                *)
THEOREM ShutdownTyped == ShutdownSpec => []ShutdownTypeOK
<1>1. ShutdownInv => ShutdownTypeOK
  BY DEF ShutdownInv
<1>2. QED
  BY <1>1, ShutdownInvariant, PTL

(* A shutdown never takes the pool from under a client that still waits.   *)
THEOREM ShutdownSpares == ShutdownSpec => []ShutdownSparesCalls
<1>1. ShutdownInv => ShutdownSparesCalls
  BY DEF ShutdownInv
<1>2. QED
  BY <1>1, ShutdownInvariant, PTL
===============================================================================
