----------------------------- MODULE FormatProofs -----------------------------
(***************************************************************************)
(* Proofs about FormatPool, for any number of calls, any limit and any     *)
(* number of threads.                                                      *)
(***************************************************************************)
EXTENDS FormatPool, FiniteSetTheorems, TLAPS

(* The pool to be used next is not a destroyed one, and no pool is named   *)
(* by a call to come.                                                      *)
PoolUsable ==
  /\ pool \notin destroyed /\ NoPool \notin destroyed
  /\ \A c \in Call : call[c] = "none" => c \notin destroyed \cup {pool}

FormatInv == TypeOK /\ InFlightExact /\ NoCallOnDestroyed /\ PoolUsable

(* The admitted calls are finitely many.                                   *)
LEMMA AdmittedFinite == IsFiniteSet(Admitted)
BY FormatAssumption, FS_Subset DEF Admitted

-------------------------------------------------------------------------------
(* What each step does to the set of admitted calls.                       *)

(* Admission adds its call.                                                *)
LEMMA AdmitAdds ==
  ASSUME TypeOK, NEW c \in Call, Admit(c)
  PROVE  c \notin Admitted /\ Admitted' = Admitted \cup {c}
BY DEF Admit, GetPool, Admitted, TypeOK, OnPool

(* A return removes its call.                                              *)
LEMMA ReturnRemoves ==
  ASSUME TypeOK, NEW c \in Call, Return(c)
  PROVE  c \in Admitted /\ Admitted' = Admitted \ {c}
BY DEF Return, Admitted, TypeOK, OnPool

(* A call that is shed was never admitted.                                 *)
LEMMA ShedKeeps ==
  ASSUME TypeOK, NEW c \in Call, Shed(c)
  PROVE  Admitted' = Admitted
BY DEF Shed, Admitted, TypeOK, OnPool

(* A step of the threads, of the signal or of destroy().                   *)
InsideStep ==
  \/ \E c \in Call : Start(c) \/ Abort(c) \/ Finish(c, "text") \/ Finish(c, "error")
  \/ Destroy

(* The pool, its threads and its timeouts leave the admitted calls alone.  *)
LEMMA InsideKeeps ==
  ASSUME TypeOK, InsideStep
  PROVE  /\ Admitted' = Admitted /\ inFlight' = inFlight
         /\ \A c \in Call : call'[c] = "none" <=> call[c] = "none"
<1>1. ASSUME NEW c \in Call, Start(c)
      PROVE  /\ Admitted' = Admitted /\ inFlight' = inFlight
             /\ \A d \in Call : call'[d] = "none" <=> call[d] = "none"
  BY <1>1 DEF Start, Admitted, TypeOK, OnPool
<1>2. ASSUME NEW c \in Call, Abort(c)
      PROVE  /\ Admitted' = Admitted /\ inFlight' = inFlight
             /\ \A d \in Call : call'[d] = "none" <=> call[d] = "none"
  BY <1>2 DEF Abort, Admitted, TypeOK, OnPool
<1>3. ASSUME NEW c \in Call, NEW o, Finish(c, o)
      PROVE  /\ Admitted' = Admitted /\ inFlight' = inFlight
             /\ \A d \in Call : call'[d] = "none" <=> call[d] = "none"
  BY <1>3 DEF Finish, Admitted, TypeOK, OnPool
<1>4. ASSUME Destroy
      PROVE  /\ Admitted' = Admitted /\ inFlight' = inFlight
             /\ \A d \in Call : call'[d] = "none" <=> call[d] = "none"
  BY <1>4 DEF Destroy, Admitted, TypeOK, OnPool
<1>5. QED
  BY <1>1, <1>2, <1>3, <1>4 DEF InsideStep

-------------------------------------------------------------------------------
(* The invariant.                                                          *)

(* An admitted call is handed to a pool that was not destroyed.            *)
LEMMA AdmitInv == ASSUME FormatInv, NEW c \in Call, Admit(c) PROVE FormatInv'
<1>1. TypeOK'
  BY FormatAssumption DEF FormatInv, TypeOK, Admit, GetPool, OnPool
<1>2. InFlightExact'
  BY AdmitAdds, AdmittedFinite, FS_AddElement DEF FormatInv, InFlightExact, Admit, GetPool
<1>3. (NoCallOnDestroyed /\ PoolUsable)'
  BY FormatAssumption DEF FormatInv, TypeOK, NoCallOnDestroyed, PoolUsable, Admit, GetPool, OnPool
<1>4. QED
  BY <1>1, <1>2, <1>3 DEF FormatInv

(* A return counts out a call that was counted in.                         *)
LEMMA ReturnInv == ASSUME FormatInv, NEW c \in Call, Return(c) PROVE FormatInv'
<1>1. inFlight' = Cardinality(Admitted') /\ inFlight' \in Nat
  <2>1. Cardinality(Admitted \ {c}) = Cardinality(Admitted) - 1
    BY ReturnRemoves, AdmittedFinite, FS_RemoveElement DEF FormatInv
  <2>2. IsFiniteSet(Admitted \ {c})
    BY AdmittedFinite, FS_Subset
  <2>3. QED
    BY <2>1, <2>2, ReturnRemoves, FS_CardinalityType DEF FormatInv, InFlightExact, Return
<1>2. TypeOK'
  BY <1>1 DEF FormatInv, TypeOK, Return, Answer, Outcomes
<1>3. (NoCallOnDestroyed /\ PoolUsable)'
  BY DEF FormatInv, TypeOK, NoCallOnDestroyed, PoolUsable, Return, OnPool
<1>4. QED
  BY <1>1, <1>2, <1>3 DEF FormatInv, InFlightExact

(* A shed call changes neither the count nor the pool.                     *)
LEMMA ShedInv == ASSUME FormatInv, NEW c \in Call, Shed(c) PROVE FormatInv'
<1>1. TypeOK'
  BY DEF FormatInv, TypeOK, Shed, Outcomes
<1>2. InFlightExact'
  BY ShedKeeps DEF FormatInv, InFlightExact, Shed
<1>3. (NoCallOnDestroyed /\ PoolUsable)'
  BY DEF FormatInv, TypeOK, NoCallOnDestroyed, PoolUsable, Shed, OnPool
<1>4. QED
  BY <1>1, <1>2, <1>3 DEF FormatInv

(* The steps inside the pool keep the invariant; destroy() empties the     *)
(* pool.                                                                   *)
LEMMA InsideInv == ASSUME FormatInv, InsideStep PROVE FormatInv'
<1>1. InFlightExact'
  BY InsideKeeps DEF FormatInv, InFlightExact
<1>2. CASE Destroy
  <2>1. TypeOK'
    BY <1>2, FormatAssumption DEF FormatInv, TypeOK, Destroy, Outcomes
  <2>2. NoCallOnDestroyed'
    BY <1>2 DEF FormatInv, TypeOK, NoCallOnDestroyed, Destroy, OnPool
  <2>3. PoolUsable'
    BY <1>2, InsideKeeps, FormatAssumption DEF FormatInv, TypeOK, PoolUsable, Destroy
  <2>4. QED
    BY <1>1, <2>1, <2>2, <2>3 DEF FormatInv
<1>3. ASSUME NEW c \in Call,
             Start(c) \/ Abort(c) \/ Finish(c, "text") \/ Finish(c, "error")
      PROVE  FormatInv'
  <2>1. TypeOK'
    BY <1>3 DEF FormatInv, TypeOK, Start, Abort, Finish, OnPool, Outcomes
  <2>2. (NoCallOnDestroyed /\ PoolUsable)'
    BY <1>3 DEF FormatInv, TypeOK, NoCallOnDestroyed, PoolUsable, Start, Abort, Finish, OnPool
  <2>3. QED
    BY <1>1, <2>1, <2>2 DEF FormatInv
<1>4. QED
  BY <1>2, <1>3 DEF InsideStep

(* A stuttering step keeps the invariant.                                  *)
LEMMA FormatStutter == ASSUME FormatInv, UNCHANGED formatVars PROVE FormatInv'
BY DEF FormatInv, TypeOK, InFlightExact, Admitted, NoCallOnDestroyed, PoolUsable, formatVars

(* The invariant holds before the first call.                              *)
LEMMA FormatInit == Init => FormatInv
<1>1. ASSUME Init PROVE Admitted = {}
  BY <1>1 DEF Init, Admitted, OnPool
<1>2. QED
  BY <1>1, FS_EmptySet, FormatAssumption
     DEF Init, FormatInv, TypeOK, InFlightExact, NoCallOnDestroyed, PoolUsable, Outcomes, OnPool

(* Every step is one of format() or one inside the pool.                   *)
LEMMA NextSteps ==
  Next <=> (\E c \in Call : Shed(c) \/ Admit(c) \/ Return(c)) \/ InsideStep
BY DEF Next, InsideStep

(* The inductive invariant holds of every execution.                       *)
THEOREM FormatInvariant == Spec => []FormatInv
<1>1. FormatInv /\ [Next]_formatVars => FormatInv'
  BY AdmitInv, ReturnInv, ShedInv, InsideInv, FormatStutter, NextSteps
<1>2. QED
  BY <1>1, FormatInit, PTL DEF Spec

(* The state of the pool and of its calls keeps its type; above all the    *)
(* count never goes below zero.                                            *)
THEOREM FormatTyped == Spec => []TypeOK
<1>1. FormatInv => TypeOK
  BY DEF FormatInv
<1>2. QED
  BY <1>1, FormatInvariant, PTL

(* The count never drifts from the calls it counts.                        *)
THEOREM CountNeverDrifts == Spec => []InFlightExact
<1>1. FormatInv => InFlightExact
  BY DEF FormatInv
<1>2. QED
  BY <1>1, FormatInvariant, PTL

(* No call is left on a pool that was destroyed.                           *)
THEOREM DestroyedPoolsEmpty == Spec => []NoCallOnDestroyed
<1>1. FormatInv => NoCallOnDestroyed
  BY DEF FormatInv
<1>2. QED
  BY <1>1, FormatInvariant, PTL

-------------------------------------------------------------------------------
(* FormatPool implements Admission: the fresh callers are the calls not    *)
(* made, the permits the calls in flight.                                  *)

(* Admission's Cardinality is the one of FiniteSets.                       *)
LEMMA SameCardinality == ASSUME NEW S PROVE Abstract!Cardinality(S) = Cardinality(S)
BY DEF Abstract!Cardinality, Cardinality, Abstract!IsFiniteSet, IsFiniteSet

(* A call asks once: admitted or shed, it leaves the fresh ones.           *)
LEMMA FreshMoves ==
  ASSUME TypeOK, NEW c \in Call, Admit(c) \/ Shed(c)
  PROVE  /\ call[c] = "none"
         /\ {d \in Call : call'[d] = "none"} = {d \in Call : call[d] = "none"} \ {c}
BY DEF Admit, GetPool, Shed, TypeOK, OnPool

(* Every step of the pool is a step of bounded admission, or a stutter of  *)
(* it.                                                                     *)
LEMMA AbstractStep ==
  ASSUME FormatInv, Next
  PROVE  Abstract!Next \/ UNCHANGED Abstract!vars
<1>1. inFlight = Cardinality(Admitted)
  BY DEF FormatInv, InFlightExact
<1>2. ASSUME NEW c \in Call, Admit(c) PROVE Abstract!Enter(c)
  <2>1. TypeOK
    BY DEF FormatInv
  <2>2. /\ call[c] = "none"
        /\ {d \in Call : call'[d] = "none"} = {d \in Call : call[d] = "none"} \ {c}
    BY <1>2, <2>1, FreshMoves
  <2>3. Admitted' = Admitted \cup {c} /\ Cardinality(Admitted) < FORMAT_MAX_QUEUE
    BY <1>1, <1>2, <2>1, AdmitAdds DEF Admit, GetPool
  <2>4. QED
    BY <2>2, <2>3, SameCardinality DEF Abstract!Enter
<1>3. ASSUME NEW c \in Call, Shed(c) PROVE Abstract!Shed(c)
  <2>1. TypeOK
    BY DEF FormatInv
  <2>2. /\ call[c] = "none"
        /\ {d \in Call : call'[d] = "none"} = {d \in Call : call[d] = "none"} \ {c}
    BY <1>3, <2>1, FreshMoves
  <2>3. Admitted' = Admitted /\ Cardinality(Admitted) >= FORMAT_MAX_QUEUE
    BY <1>1, <1>3, <2>1, ShedKeeps DEF Shed
  <2>4. QED
    BY <2>2, <2>3, SameCardinality DEF Abstract!Shed
<1>4. ASSUME NEW c \in Call, Return(c) PROVE Abstract!Leave(c)
  <2>1. {d \in Call : call'[d] = "none"} = {d \in Call : call[d] = "none"}
    BY <1>4 DEF Return, FormatInv, TypeOK
  <2>2. QED
    BY <1>4, <2>1, ReturnRemoves DEF Abstract!Leave, FormatInv
<1>5. ASSUME InsideStep PROVE UNCHANGED Abstract!vars
  <2>1. {d \in Call : call'[d] = "none"} = {d \in Call : call[d] = "none"}
    BY <1>5, InsideKeeps DEF FormatInv
  <2>2. QED
    BY <1>5, <2>1, InsideKeeps DEF Abstract!vars, FormatInv
<1>6. QED
  BY <1>2, <1>3, <1>4, <1>5, NextSteps DEF Abstract!Next

(* The callers of format() see bounded admission, for every limit and      *)
(* every number of threads.                                                *)
THEOREM FormatAdmits == Spec => Admits
<1>1. Init => Abstract!Init
  BY DEF Init, Abstract!Init, Admitted, OnPool
<1>2. FormatInv /\ [Next]_formatVars => [Abstract!Next]_(Abstract!vars)
  <2>1. ASSUME UNCHANGED formatVars PROVE UNCHANGED Abstract!vars
    BY <2>1 DEF formatVars, Abstract!vars, Admitted
  <2>2. QED
    BY <2>1, AbstractStep
<1>3. QED
  BY <1>1, <1>2, FormatInvariant, PTL DEF Spec, Admits, Abstract!Spec
===============================================================================
