---------------------------------- MODULE Named ----------------------------------
(***************************************************************************)
(* src/lib/PostgresMetaSchemas.ts, PostgresMetaPolicies.ts,                *)
(* PostgresMetaTriggers.ts and PostgresMetaExtensions.ts: objects with     *)
(* attributes that are set one by one, and a name.  A policy or a trigger  *)
(* has its name in a table; an extension is addressed by its name.         *)
(***************************************************************************)
EXTENDS Catalog

CONSTANT Newest  \* the default version of an extension

InDatabase(k, n) == Ref(k, Database, n)

CreateSchema ==
  /\ Applying("schema", "create")
  /\ LET p == req.body IN Commit(Add(objs, InDatabase("schema", p.name), [owner |-> p.owner]))

CreatePolicy ==
  /\ Applying("policy", "create")
  /\ LET p == req.body IN
     Commit(Add(objs, Ref("policy", p.table, p.name),
                [definition |-> p.definition, check |-> p.check, roles |-> p.roles]))

CreateTrigger ==
  /\ Applying("trigger", "create")
  /\ LET p == req.body IN
     Commit(Add(objs, Ref("trigger", p.table, p.name), [enabled_mode |-> "ORIGIN"]))

CreateExtension ==
  /\ Applying("extension", "create")
  /\ LET p == req.body IN
     Commit(Add(objs, InDatabase("extension", p.name), [version |-> p.version, schema |-> p.schema]))

(* ALTER SCHEMA: the owner, then the name, which may be the one it has.    *)
SchemaSql(o, old, p) ==
  LET u == Given1(o, old, "owner", p.owner)
  IN IF p.name = Undefined THEN u ELSE Rename(u, old, p.name)

PolicyAttributes(o, old, p) ==
  Given1(Given1(Given1(o, old, "definition", p.definition), old, "check", p.check),
         old, "roles", p.roles)

(* "nameSql must be last".                                                 *)
PolicySql(o, old, p) ==
  LET u == PolicyAttributes(o, old, p)
  IN IF p.name = Undefined THEN u ELSE Rename(u, old, p.name)

(* "updateNameSql must be last".                                           *)
TriggerSql(o, old, p) ==
  LET u == Given1(o, old, "enabled_mode", p.enabled_mode)
  IN IF p.name \in {Undefined, old.name} THEN u ELSE Rename(u, old, p.name)

(* A version is gone to only with `update`, without one to the newest.     *)
ExtensionSql(o, ref, p) ==
  LET version == IF p.update = TRUE THEN Given(p.version, Newest) ELSE Undefined
  IN Given1(Given1(o, ref, "version", version), ref, "schema", p.schema)

UpdateSchema ==
  Applying("schema", "update") /\ Commit(SchemaSql(objs, req.old, req.body))

UpdatePolicy ==
  Applying("policy", "update") /\ Commit(PolicySql(objs, req.old, req.body))

UpdateTrigger ==
  Applying("trigger", "update") /\ Commit(TriggerSql(objs, req.old, req.body))

RetrieveSchema(op, i, p) == Retrieve("schema", op, i, p)
RetrievePolicy(op, i, p) == Retrieve("policy", op, i, p)
RetrieveTrigger(op, i, p) == Retrieve("trigger", op, i, p)

RemoveSchema == Delete("schema")
RemovePolicy == Delete("policy")
RemoveTrigger == Delete("trigger")
RemoveExtension == Delete("extension")

(* retrieve({ name }), before remove().                                    *)
RetrieveExtension(n) ==
  LET found == Called(objs, InDatabase("extension", n))
  IN IF found # {} THEN Retrieve("extension", "remove", The(found), Null)
     ELSE /\ req.at = "idle"
          /\ req' = [kind |-> "extension", op |-> "remove", at |-> "done"]
          /\ answer' = "missing" /\ UNCHANGED <<objs, row, others>>

(* The PATCH of an extension names it from the start.                      *)
PatchExtension(n, p) ==
  /\ req.at = "idle"
  /\ req' = [kind |-> "extension", op |-> "update", body |-> p, at |-> "apply",
             old |-> InDatabase("extension", n)]
  /\ UNCHANGED <<objs, answer, row, others>>

UpdateExtension ==
  /\ Applying("extension", "update")
  /\ Commit(ExtensionSql(objs, req.old, req.body))

ReadNamed ==
  \/ \E k \in {"schema", "policy", "trigger"} : ReadById(k)
  \/ \E k \in {"schema", "extension"} :
       Reading(k, "create") /\ ReadByName(InDatabase(k, req.body.name))
  \/ \E k \in {"policy", "trigger"} :
       Reading(k, "create") /\ ReadByName(Ref(k, req.body.table, req.body.name))
  \/ Reading("extension", "update") /\ ReadByName(req.old)

(* The routes POST, PATCH and DELETE of each kind.                         *)
SchemaNext ==
  \/ \E p \in NewBodies["schema"] : Post("schema", p)
  \/ \E i \in Oid, p \in Bodies["schema"] : RetrieveSchema("update", i, p)
  \/ \E i \in Oid : RetrieveSchema("remove", i, Null)
  \/ CreateSchema \/ UpdateSchema \/ RemoveSchema

PolicyNext ==
  \/ \E p \in NewBodies["policy"] : Post("policy", p)
  \/ \E i \in Oid, p \in Bodies["policy"] : RetrievePolicy("update", i, p)
  \/ \E i \in Oid : RetrievePolicy("remove", i, Null)
  \/ CreatePolicy \/ UpdatePolicy \/ RemovePolicy

TriggerNext ==
  \/ \E p \in NewBodies["trigger"] : Post("trigger", p)
  \/ \E i \in Oid, p \in Bodies["trigger"] : RetrieveTrigger("update", i, p)
  \/ \E i \in Oid : RetrieveTrigger("remove", i, Null)
  \/ CreateTrigger \/ UpdateTrigger \/ RemoveTrigger

ExtensionNext ==
  \/ \E p \in NewBodies["extension"] : Post("extension", p)
  \/ \E n \in Name, p \in Bodies["extension"] : PatchExtension(n, p)
  \/ \E n \in Name : RetrieveExtension(n)
  \/ CreateExtension \/ UpdateExtension \/ RemoveExtension

NamedNext == SchemaNext \/ PolicyNext \/ TriggerNext \/ ExtensionNext \/ ReadNamed

-------------------------------------------------------------------------------
(* Properties                                                              *)

(* The attributes a PATCH of each kind can set.                            *)
Settable ==
  [schema |-> {"owner"}, policy |-> {"definition", "check", "roles"},
   trigger |-> {"enabled_mode"}]

(* A PATCH of a schema, a policy or a trigger that nobody disturbs does    *)
(* what its body asks, to that object only.                                *)
NamedDone ==
  [][\A k \in {"schema", "policy", "trigger"} :
       Updating(k) /\ others = 0 =>
         LET x == objs[req.id]
             y == objs'[req.id]
         IN /\ y.name = Given(req.body.name, x.name) /\ y.ns = x.ns
            /\ \A f \in Settable[k] : y.at[f] = Given(req.body[f], x.at[f])
            /\ OthersKept(objs, objs', req.id)]_catalogVars

(* Such a PATCH is aborted only when the name is taken; a schema or a      *)
(* policy that keeps its name takes it itself (PostgresMetaSchemas.ts:98,  *)
(* PostgresMetaPolicies.ts:142), a trigger does not.                       *)
NamedAccepted ==
  answer = "aborted" /\ req.kind \in {"schema", "policy", "trigger"}
    /\ req.op = "update" /\ others = 0 =>
    LET taken == Called(objs, [objs[req.id] EXCEPT !.name = req.body.name])
    IN IF req.kind = "trigger" THEN taken \ {req.id} # {} ELSE taken # {}
===============================================================================
