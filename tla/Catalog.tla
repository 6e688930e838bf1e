-------------------------------- MODULE Catalog --------------------------------
(***************************************************************************)
(* What the operations of src/lib on a database object have in common:     *)
(* the object is read by its id, one transaction of statements that name   *)
(* what was read is sent, and the result is read back.  Other sessions act *)
(* on the same objects in between.                                         *)
(*                                                                         *)
(* The catalog of Postgres is external: objects by their ids, each with    *)
(* its kind, the place its name is unique in (a schema, a table, or the    *)
(* database), its name and the attributes of its kind.  A statement gives  *)
(* the catalog it makes of one, or Aborted.                                *)
(***************************************************************************)
EXTENDS Naturals, Sequences, FiniteSets, SequencesExt

CONSTANTS
  Oid,        \* ids of objects
  Place,      \* schemas or tables in which names are unique
  Database,   \* the place of what is unique in the database
  Name,       \* names of objects
  Undefined,  \* a property that the request body does not have
  Null,       \* null
  Catalogs,   \* the catalogs a request may meet
  Bodies,     \* the bodies of PATCH, by kind
  NewBodies,  \* the bodies of POST, by kind
  Self,       \* the role of the connection
  MaxOthers   \* bound on the changes other sessions make

ASSUME CatalogAssumption ==
  /\ IsFiniteSet(Oid) /\ Oid # {} /\ Null \notin Oid /\ Undefined # Null
  /\ Database \notin Place /\ Undefined \notin Name \cup Place
  /\ MaxOthers \in Nat

VARIABLES
  objs,    \* the catalog
  req,     \* the request: kind, operation, id, body, where it is, what it read
  answer,  \* what it is answered
  row,     \* the id of the object whose row the answer carries, or the rows
           \* of what is only read
  others   \* how often other sessions changed the catalog

catalogVars == <<objs, req, answer, row, others>>

ByName == {"extension"}
Read == {"relation", "view", "matview", "foreign", "index"}
Kinds ==
  {"table", "function", "schema", "role", "policy", "trigger", "publication"} \cup ByName \cup Read

(* The kinds whose names are unique in the database.                       *)
DatabaseKinds == {"schema", "role", "publication"} \cup ByName

AttributesOf ==
  [table |-> {"rls", "forced", "replica", "pk", "comment"},
   function |-> {"definition", "strict"}, schema |-> {"owner"},
   role |-> {"can_login", "config"}, policy |-> {"definition", "check", "roles"},
   trigger |-> {"enabled_mode"}, publication |-> {"all", "tables", "ops", "owner", "viaroot"},
   extension |-> {"version", "schema"}, relation |-> {"acl", "cols"}, view |-> {"cols"},
   matview |-> {"cols"}, foreign |-> {"cols"}, index |-> {"indkey"}]

NoObject == [kind |-> "none"]

(* What an aborted transaction leaves: no catalog.                         *)
Aborted == <<>>

(* An object of any kind.                                                  *)
IsObject(x) ==
  \/ x = NoObject
  \/ x.kind \in Kinds /\ x = [kind |-> x.kind, ns |-> x.ns, name |-> x.name, at |-> x.at]

Made(o) == {i \in Oid : o[i].kind # "none"}

(* The objects that a statement finds under a reference.                   *)
Called(o, ref) ==
  {i \in Made(o) : o[i].kind = ref.kind /\ o[i].ns = ref.ns /\ o[i].name = ref.name}

The(S) == CHOOSE i \in S : TRUE
Ref(k, ns, n) == [kind |-> k, ns |-> ns, name |-> n]

(* Names are unique in their place.                                        *)
LegalCatalog(o) ==
  /\ \A i, j \in Made(o) : j \in Called(o, o[i]) => i = j
  /\ \A i \in Made(o) :
       /\ o[i].kind \in Kinds /\ o[i].name \in Name
       /\ o[i].kind \in DatabaseKinds => o[i].ns = Database
       /\ DOMAIN o[i].at = AttributesOf[o[i].kind]

(* The catalogs and the bodies a request may come with.                    *)
ASSUME CatalogsAssumption ==
  \A o \in Catalogs :
    o = [i \in Oid |-> o[i]] /\ (\A i \in Oid : IsObject(o[i])) /\ LegalCatalog(o)

ASSUME BodiesAssumption ==
  /\ \A k \in Kinds \ Read : \A p \in NewBodies[k] : p.name \in Name
  /\ \A k \in Kinds \ (Read \cup ByName) : \A p \in Bodies[k] : p.name \in Name \cup {Undefined}

Given(x, otherwise) == IF x = Undefined THEN otherwise ELSE x

(* One type invariant for the module and those that extend it: names are   *)
(* unique in their place, and a request that goes on knows its object.     *)
TypeOK ==
  /\ LegalCatalog(objs)
  /\ req.at \in {"idle", "apply", "read", "done"}
  /\ req.at \in {"apply", "read"} /\ req.op = "update" => req.old.kind = req.kind
  /\ answer \in {"none", "data", "missing", "aborted", "refused", "threw"}
  /\ req.at = "idle" \/ req.kind \notin Read => row \in Oid \cup {Null}
  /\ others \in 0..MaxOthers

Init ==
  /\ objs \in Catalogs
  /\ req = [at |-> "idle"]
  /\ answer = "none" /\ row = Null /\ others = 0

-------------------------------------------------------------------------------
(* Statements.                                                             *)

SetAttr(o, ref, f, v) ==
  IF o = Aborted \/ Called(o, ref) = {} THEN Aborted
  ELSE [o EXCEPT ![The(Called(o, ref))].at[f] = v]

(* A property of the body that is one attribute of the object.             *)
Given1(o, ref, f, v) == IF v = Undefined THEN o ELSE SetAttr(o, ref, f, v)

(* RENAME TO: the name must be free, its own name is not.                  *)
Rename(o, ref, n) ==
  IF o = Aborted \/ Called(o, ref) = {} \/ Called(o, [ref EXCEPT !.name = n]) # {} THEN Aborted
  ELSE [o EXCEPT ![The(Called(o, ref))].name = n]

(* SET SCHEMA: nothing happens when the object is there already.           *)
Move(o, ref, ns) ==
  CASE o = Aborted \/ (o # Aborted /\ Called(o, ref) = {}) -> Aborted
    [] o # Aborted /\ Called(o, ref) # {} /\ ns = ref.ns -> o
    [] OTHER ->
         IF Called(o, [ref EXCEPT !.ns = ns]) # {} THEN Aborted
         ELSE [o EXCEPT ![The(Called(o, ref))].ns = ns]

DropObject(o, ref) ==
  IF o = Aborted \/ Called(o, ref) = {} THEN Aborted
  ELSE [o EXCEPT ![The(Called(o, ref))] = NoObject]

(* CREATE: the object gets an id that is not in use (Oid bounds them).     *)
Add(o, ref, at) ==
  IF o = Aborted \/ Called(o, ref) # {} \/ Made(o) = Oid THEN Aborted
  ELSE [o EXCEPT ![The(Oid \ Made(o))] =
          [kind |-> ref.kind, ns |-> ref.ns, name |-> ref.name, at |-> at]]

-------------------------------------------------------------------------------
(* The steps of a request.                                                 *)

Answer(a, r) == /\ req' = [req EXCEPT !.at = "done"] /\ answer' = a /\ row' = r

(* Mutant: the object of the id is taken whatever its kind.                *)
RetrieveAnyKind(k, op, i, p) ==
  /\ req.at = "idle"
  /\ IF i \in Made(objs)
     THEN /\ req' = [kind |-> k, op |-> op, id |-> i, body |-> p, at |-> "apply", old |-> objs[i]]
          /\ UNCHANGED <<answer, row>>
     ELSE /\ req' = [kind |-> k, op |-> op, id |-> i, body |-> p, at |-> "done"]
          /\ answer' = "missing" /\ UNCHANGED row
  /\ UNCHANGED <<objs, others>>

(* retrieve({ id }), by which update and remove begin.                     *)
Retrieve(k, op, i, p) ==
  /\ req.at = "idle"
  /\ IF i \in Made(objs) /\ objs[i].kind = k
     THEN /\ req' = [kind |-> k, op |-> op, id |-> i, body |-> p, at |-> "apply", old |-> objs[i]]
          /\ UNCHANGED <<answer, row>>
     ELSE /\ req' = [kind |-> k, op |-> op, id |-> i, body |-> p, at |-> "done"]
          /\ answer' = "missing" /\ UNCHANGED row
  /\ UNCHANGED <<objs, others>>

(* create() reads nothing first.                                           *)
Post(k, p) ==
  /\ req.at = "idle"
  /\ req' = [kind |-> k, op |-> "create", body |-> p, at |-> "apply"]
  /\ UNCHANGED <<objs, answer, row, others>>

Applying(k, op) == req.at = "apply" /\ req.kind = k /\ req.op = op

(* The transaction commits o, or is aborted and rolled back.               *)
Commit(o) ==
  /\ IF o = Aborted THEN UNCHANGED objs /\ Answer("aborted", Null)
     ELSE /\ objs' = o
          /\ req' = [req EXCEPT !.at = "read"] /\ UNCHANGED <<answer, row>>
  /\ UNCHANGED others

(* remove() answers what it read before.                                   *)
Delete(k) ==
  /\ Applying(k, "remove")
  /\ LET o == DropObject(objs, req.old) IN
     IF o = Aborted THEN UNCHANGED objs /\ Answer("aborted", Null)
     ELSE objs' = o /\ Answer("data", req.id)
  /\ UNCHANGED others

(* Postgres does not allow the change: missing rights, rows or objects     *)
(* that depend on it.                                                      *)
Refuse ==
  /\ req.at = "apply"
  /\ Answer("refused", Null)
  /\ UNCHANGED <<objs, others>>

(* The object is read back, by id after update() ...                       *)
Reading(k, op) == req.at = "read" /\ req.kind = k /\ req.op = op

ReadById(k) ==
  /\ Reading(k, "update")
  /\ IF req.id \in Made(objs) /\ objs[req.id].kind = k
     THEN Answer("data", req.id) ELSE Answer("missing", Null)
  /\ UNCHANGED <<objs, others>>

(* ... and by name after create().                                         *)
ReadByName(ref) ==
  /\ LET found == Called(objs, ref) IN
     IF found = {} THEN Answer("missing", Null) ELSE Answer("data", The(found))
  /\ UNCHANGED <<objs, others>>

(* Other sessions rename, move and drop the objects, or swap two of them.  *)
Elsewhere ==
  /\ req.at \in {"apply", "read"} /\ others < MaxOthers
  /\ others' = others + 1
  /\ \/ \E i \in Made(objs) : objs' = DropObject(objs, objs[i])
     \/ \E i \in Made(objs), n \in Name :
          /\ Called(objs, [objs[i] EXCEPT !.name = n]) = {}
          /\ objs' = Rename(objs, objs[i], n)
     \/ \E i, j \in Made(objs) :
          /\ i # j /\ objs[i].kind = objs[j].kind
          /\ objs' = [objs EXCEPT
               ![i].ns = objs[j].ns, ![i].name = objs[j].name,
               ![j].ns = objs[i].ns, ![j].name = objs[i].name]
  /\ UNCHANGED <<req, answer, row>>

Updating(k) == Applying(k, "update") /\ req'.at = "read"

(* What an undisturbed update leaves alone: every other object.            *)
OthersKept(o, u, i) == \A j \in Oid \ {i} : u[j] = o[j]
===============================================================================
