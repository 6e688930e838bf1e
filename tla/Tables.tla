--------------------------------- MODULE Tables ---------------------------------
(***************************************************************************)
(* src/lib/PostgresMetaTables.ts.  A table has row level security, a       *)
(* replica identity (DEFAULT, FULL or the index of its primary key), a     *)
(* primary key (a constraint and its columns) and a comment.               *)
(***************************************************************************)
EXTENDS Catalog

(* The identities and the keys of a body are told apart from what is not.  *)
ASSUME TableBodiesAssumption ==
  /\ Undefined \notin {"DEFAULT", "FULL", {}}
  /\ \A n \in Name, p \in Bodies["table"] : [con |-> n, cols |-> p.primary_keys] # Null

NewTable(p) == [rls |-> FALSE, forced |-> FALSE, replica |-> "DEFAULT", pk |-> Null,
                comment |-> IF p.comment = Undefined THEN Null ELSE p.comment]

CreateTable ==
  /\ Applying("table", "create")
  /\ LET p == req.body IN Commit(Add(objs, Ref("table", p.schema, p.name), NewTable(p)))

(* REPLICA IDENTITY, with an index of the table as it is at this point.    *)
ReplicaSql(o, old, p) ==
  CASE p.replica_identity = Undefined -> o
    [] p.replica_identity \in {"DEFAULT", "FULL"} -> SetAttr(o, old, "replica", p.replica_identity)
    [] OTHER ->
         IF o = Aborted \/ Called(o, old) = {} THEN Aborted
         ELSE LET pk == o[The(Called(o, old))].at.pk IN
              IF pk = Null \/ pk.con # p.replica_identity THEN Aborted
              ELSE SetAttr(o, old, "replica", p.replica_identity)

(* The name of the constraint is looked up by the id of the table, and     *)
(* dropped from the table that has the name.                               *)
DropPrimaryKey(o, i, old) ==
  IF o = Aborted \/ Called(o, old) = {} \/ i \notin Made(o) THEN Aborted
  ELSE LET seen == o[i].at.pk
           there == o[The(Called(o, old))].at.pk
       IN IF seen # Null /\ there # Null /\ seen.con = there.con
          THEN SetAttr(o, old, "pk", Null) ELSE Aborted

AddPrimaryKey(o, old, cols) ==
  IF o = Aborted \/ Called(o, old) = {} \/ o[The(Called(o, old))].at.pk # Null THEN Aborted
  ELSE SetAttr(o, old, "pk", [con |-> old.name, cols |-> cols])

PrimaryKeysSql(o, i, old, p) ==
  IF p.primary_keys = Undefined THEN o
  ELSE LET u == IF old.at.pk = Null THEN o ELSE DropPrimaryKey(o, i, old) IN
       IF p.primary_keys = {} THEN u ELSE AddPrimaryKey(u, old, p.primary_keys)

TableSchemaSql(o, old, p) == IF p.schema = Undefined THEN o ELSE Move(o, old, p.schema)

TableNameSql(o, old, p) ==
  IF p.name = Undefined \/ p.name = old.name THEN o
  ELSE Rename(o, [old EXCEPT !.ns = Given(p.schema, old.ns)], p.name)

TableAttributes(o, i, old, p) ==
  LET o1 == Given1(Given1(o, old, "rls", p.rls_enabled), old, "forced", p.rls_forced)
      o2 == PrimaryKeysSql(ReplicaSql(o1, old, p), i, old, p)
  IN Given1(o2, old, "comment", p.comment)

(* Mutant: the rename comes before the move.                               *)
TableSqlNameFirst(o, i, old, p) ==
  TableSchemaSql(TableNameSql(TableAttributes(o, i, old, p), old, p), old, p)

(* "nameSql must be last, right below schemaSql".                          *)
TableSql(o, i, old, p) ==
  TableNameSql(TableSchemaSql(TableAttributes(o, i, old, p), old, p), old, p)

RetrieveTable(op, i, p) == Retrieve("table", op, i, p)

RemoveTable == Delete("table")

UpdateTable ==
  /\ Applying("table", "update")
  /\ Commit(TableSql(objs, req.id, req.old, req.body))

ReadTable ==
  \/ ReadById("table")
  \/ Reading("table", "create") /\ ReadByName(Ref("table", req.body.schema, req.body.name))

TableNext ==
  \/ \E i \in Oid, p \in Bodies["table"] : RetrieveTable("update", i, p)
  \/ \E i \in Oid : RetrieveTable("remove", i, Null)
  \/ \E p \in NewBodies["table"] : Post("table", p)
  \/ CreateTable \/ UpdateTable \/ RemoveTable \/ ReadTable

-------------------------------------------------------------------------------
(* Properties                                                              *)

TableAsked(t, u, p) ==
  /\ u.kind = "table" /\ u.name = Given(p.name, t.name) /\ u.ns = Given(p.schema, t.ns)
  /\ u.at.rls = Given(p.rls_enabled, t.at.rls)
  /\ u.at.forced = Given(p.rls_forced, t.at.forced)
  /\ u.at.replica = Given(p.replica_identity, t.at.replica)
  /\ u.at.comment = Given(p.comment, t.at.comment)
  /\ CASE p.primary_keys = Undefined -> u.at.pk = t.at.pk
       [] p.primary_keys = {} -> u.at.pk = Null
       [] OTHER -> u.at.pk # Null /\ u.at.pk.cols = p.primary_keys

(* A PATCH of a table that nobody disturbs does all its body asks, to the  *)
(* table it names and to nothing else, whatever else it renames or moves.  *)
TableDone ==
  [][Updating("table") /\ others = 0 =>
       /\ TableAsked(objs[req.id], objs'[req.id], req.body)
       /\ OthersKept(objs, objs', req.id)]_catalogVars

(* What cannot be done at once: an index that does not exist before, and a *)
(* move that meets a table of the old name on its way.                     *)
TablePossible(o, i, p) ==
  LET t == o[i]
      ns == Given(p.schema, t.ns)
      free(n) == Called(o, Ref("table", ns, n)) \subseteq {i}
  IN /\ free(t.name) /\ free(Given(p.name, t.name))
     /\ p.replica_identity \notin {Undefined, "DEFAULT", "FULL"} =>
          t.at.pk # Null /\ t.at.pk.con = p.replica_identity

(* A PATCH of a table that nobody disturbs is aborted for those reasons    *)
(* only: its order of statements lets a table be moved and renamed, and    *)
(* its key be replaced, at once (Tables.ts:210-219).                       *)
TableAccepted ==
  answer = "aborted" /\ req.kind = "table" /\ req.op = "update" /\ others = 0 =>
    ~TablePossible(objs, req.id, req.body)
===============================================================================
