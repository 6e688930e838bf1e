------------------------------ MODULE Publications ------------------------------
(***************************************************************************)
(* src/lib/PostgresMetaPublications.ts.  A publication has its tables or   *)
(* all of them, the operations it publishes, an owner, and an option that  *)
(* update() knows nothing of (publish_via_partition_root).                 *)
(***************************************************************************)
EXTENDS Catalog

CONSTANT
  Operation  \* what can be published: insert, update, ...

(* A publication of all tables lists none.                                 *)
ASSUME PublicationsAssumption ==
  \A o \in Catalogs : \A i \in Made(o) :
    o[i].kind = "publication" => o[i].at.all \in BOOLEAN /\ (o[i].at.all => o[i].at.tables = {})

(* What a body says of the operations, over what there was.                *)
Published(p, before) ==
  {x \in Operation : p.publish[x] = TRUE \/ (p.publish[x] = Undefined /\ x \in before)}

NewPublication(all, tables, ops) ==
  [all |-> all, tables |-> tables, ops |-> ops, owner |-> Self, viaroot |-> FALSE]

CreatePublication ==
  /\ Applying("publication", "create")
  /\ LET p == req.body
         all == p.tables \in {Undefined, Null}
     IN Commit(Add(objs, Ref("publication", Database, p.name),
                   NewPublication(all, IF all THEN {} ELSE p.tables, Published(p, {}))))

(* drop publication; create publication: it gets another id.               *)
Recreate(o, i, all) ==
  LET ref == Ref("publication", Database, o[i].name)
      new == The(Oid \ Made(o))
  IN IF Made(o) = Oid THEN Aborted ELSE
     [o EXCEPT ![i] = NoObject,
               ![new] = [kind |-> "publication", ns |-> Database, name |-> o[i].name,
                         at |-> NewPublication(all, {}, Operation)]]

(* Going between some tables and all of them takes a new publication.      *)
TablesSql(o, i, tables) ==
  CASE tables = Undefined \/ (tables = Null /\ o[i].at.all) -> o
    [] tables = Null /\ ~o[i].at.all -> Recreate(o, i, TRUE)
    [] OTHER ->
         SetAttr(IF o[i].at.all THEN Recreate(o, i, FALSE) ELSE o, o[i], "tables", tables)

PublicationNameSql(o, old, p) ==
  IF p.name = Undefined \/ p.name = old.name THEN o ELSE Rename(o, old, p.name)

(* Mutant: the operations and the owner are those of the publication as it *)
(* is after it was made again.                                             *)
PublicationSqlReread(o, i, p) ==
  LET old == o[i]
      o1 == TablesSql(o, i, p.tables)
      now == o1[The(Called(o1, old))]
      o2 == SetAttr(o1, old, "ops", Published(p, now.at.ops))
      o3 == SetAttr(o2, old, "owner", Given(p.owner, now.at.owner))
  IN PublicationNameSql(o3, old, p)

(* The DO block: old is the row as it was before anything was done.        *)
PublicationSql(o, i, p) ==
  LET old == o[i]
      o1 == SetAttr(TablesSql(o, i, p.tables), old, "ops", Published(p, old.at.ops))
      o2 == SetAttr(o1, old, "owner", Given(p.owner, old.at.owner))
  IN PublicationNameSql(o2, old, p)

RetrievePublication(op, i, p) == Retrieve("publication", op, i, p)

(* update() reads nothing first.                                           *)
PatchPublication(i, p) ==
  /\ req.at = "idle"
  /\ req' = [kind |-> "publication", op |-> "update", id |-> i, body |-> p, at |-> "apply",
             old |-> [kind |-> "publication"]]
  /\ UNCHANGED <<objs, answer, row, others>>

(* The row of the answer is selected by name in the same transaction, as   *)
(* the id may have changed.                                                *)
UpdatePublication ==
  /\ Applying("publication", "update")
  /\ LET there == req.id \in Made(objs) /\ objs[req.id].kind = "publication"
         o == IF there THEN PublicationSql(objs, req.id, req.body) ELSE Aborted
     IN IF o = Aborted THEN UNCHANGED objs /\ Answer("aborted", Null)
        ELSE /\ objs' = o
             /\ Answer("data", The(Called(o, Ref("publication", Database,
                                   Given(req.body.name, objs[req.id].name)))))
  /\ UNCHANGED others

(* DROP PUBLICATION IF EXISTS of the name that was read.                   *)
RemovePublication ==
  /\ Applying("publication", "remove")
  /\ objs' = IF Called(objs, req.old) = {} THEN objs ELSE DropObject(objs, req.old)
  /\ Answer("data", req.id)
  /\ UNCHANGED others

ReadPublication ==
  Reading("publication", "create")
    /\ ReadByName(Ref("publication", Database, req.body.name))

PublicationNext ==
  \/ \E i \in Oid, p \in Bodies["publication"] : PatchPublication(i, p)
  \/ \E i \in Oid : RetrievePublication("remove", i, Null)
  \/ \E p \in NewBodies["publication"] : Post("publication", p)
  \/ CreatePublication \/ UpdatePublication \/ RemovePublication \/ ReadPublication

-------------------------------------------------------------------------------
(* Properties                                                              *)

Patched == Applying("publication", "update") /\ answer' \in {"data", "missing"}

(* The publication that an update leaves, under the id of the answer, is   *)
(* what its body asks over what it was before, also when it had to be made *)
(* again and others acted meanwhile; no other publication changes.  Only   *)
(* publish_via_partition_root is lost.                                     *)
PublicationKept ==
  [][Patched =>
       LET t == objs[req.id]
           u == objs'[row']
           p == req.body
       IN /\ row' \in Made(objs') /\ u.name = Given(p.name, t.name)
          /\ u.at.owner = Given(p.owner, t.at.owner)
          /\ u.at.ops = Published(p, t.at.ops)
          /\ u.at.all = (p.tables = Null \/ (p.tables = Undefined /\ t.at.all))
          /\ u.at.tables = CASE p.tables = Undefined -> t.at.tables
                             [] p.tables = Null -> {}
                             [] OTHER -> p.tables
          /\ row' = req.id => u.at.viaroot = t.at.viaroot
          /\ \A j \in Oid \ {req.id, row'} : objs'[j] = objs[j]]_catalogVars
===============================================================================
