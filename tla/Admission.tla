------------------------------- MODULE Admission -------------------------------
(***************************************************************************)
(* What src/server/format-pool.ts promises its callers, whatever carries   *)
(* out the work: at most Bound of them hold a permit, one is turned away   *)
(* exactly when Bound others hold theirs, and a permit is given back once. *)
(***************************************************************************)
EXTENDS Naturals, FiniteSets

CONSTANTS Caller, Bound

VARIABLES
  fresh,   \* callers that have not asked yet
  held     \* callers that hold a permit

vars == <<fresh, held>>

Init == fresh = Caller /\ held = {}

Enter(c) ==
  /\ c \in fresh /\ Cardinality(held) < Bound
  /\ fresh' = fresh \ {c} /\ held' = held \cup {c}

Shed(c) ==
  /\ c \in fresh /\ Cardinality(held) >= Bound
  /\ fresh' = fresh \ {c} /\ UNCHANGED held

Leave(c) == c \in held /\ held' = held \ {c} /\ UNCHANGED fresh

Next == \E c \in Caller : Enter(c) \/ Shed(c) \/ Leave(c)

Spec == Init /\ [][Next]_vars
===============================================================================
