------------------------------- MODULE Operations -------------------------------
(***************************************************************************)
(* The operations of src/lib on the objects of one database, as a request  *)
(* meets them: one of them runs, the other sessions act.                   *)
(***************************************************************************)
EXTENDS Tables, StoredFunctions, Roles, Publications, Named, Privileges, Readers

Next ==
  \/ TableNext \/ FunctionNext \/ RoleNext \/ PublicationNext \/ NamedNext
  \/ PrivilegesNext \/ ReadersNext
  \/ Refuse \/ Elsewhere

Spec == Init /\ [][Next]_catalogVars

-------------------------------------------------------------------------------
(* Properties                                                              *)

(* A PATCH that nobody disturbs does all its body asks and nothing to any  *)
(* other object: the statements of every kind come in an order in which    *)
(* none undoes or misses what another one did.                             *)
UpdatesDone == TableDone /\ FunctionDone /\ RoleDone /\ NamedDone

(* Such a PATCH is aborted only for what its kind cannot do at once: a name*)
(* is taken, a value does not fit, an index is not there.                  *)
UpdatesAccepted ==
  TableAccepted /\ FunctionAccepted /\ RoleAccepted /\ NamedAccepted

(* An answer that carries rows carries those that were asked for, as they  *)
(* are: what a request reads, and what it granted or revoked.              *)
AnswersTrue == RowsAsked /\ PrivilegesShown

(* The statements of one PATCH all reach the same object, whatever others  *)
(* did to the names after they were read: a disturbed PATCH may change the *)
(* object that has the name now, never two objects.  (A publication that   *)
(* is made again is one that goes and one that comes.)                     *)
OneObject ==
  [][\A k \in Kinds \ {"publication"} :
       Updating(k) => Cardinality({i \in Oid : objs'[i] # objs[i]}) <= 1]_catalogVars
===============================================================================
