---------------------------- MODULE StoredFunctions ----------------------------
(***************************************************************************)
(* src/lib/PostgresMetaFunctions.ts.  A name stands for the name with the  *)
(* identity arguments, which no operation changes.  A definition is an     *)
(* atom; strict stands for the options that CREATE OR REPLACE sets again   *)
(* to what generateCreateFunctionSql writes.                               *)
(***************************************************************************)
EXTENDS Catalog

Generated(definition) == [definition |-> definition, strict |-> FALSE]

CreateFunction ==
  /\ Applying("function", "create")
  /\ LET p == req.body IN
     Commit(Add(objs, Ref("function", p.schema, p.name), Generated(p.definition)))

(* CREATE OR REPLACE takes the function that has the name, or makes one.   *)
CreateOrReplace(o, old, definition) ==
  IF o = Aborted THEN Aborted
  ELSE IF Called(o, old) = {} THEN Add(o, old, Generated(definition))
  ELSE [o EXCEPT ![The(Called(o, old))].at = Generated(definition)]

(* Mutant: the function that has the name is taken for the one of the id.  *)
DefinitionSqlUnchecked(o, i, old, p) ==
  IF p.definition = Undefined THEN o ELSE CreateOrReplace(o, old, p.definition)

(* The block raises an exception when that was not the function of the id. *)
DefinitionSql(o, i, old, p) ==
  IF p.definition = Undefined THEN o
  ELSE LET u == CreateOrReplace(o, old, p.definition) IN
       IF u = Aborted \/ Called(u, old) # {i} THEN Aborted ELSE u

FunctionNameSql(o, old, p) ==
  IF p.name \in {Undefined, old.name} THEN o ELSE Rename(o, old, p.name)

(* Mutant: the function is moved under the name it had.                    *)
FunctionSchemaSqlOldName(o, old, p) ==
  IF p.schema \in {Undefined, old.ns} THEN o ELSE Move(o, old, p.schema)

FunctionSchemaSql(o, old, p) ==
  IF p.schema \in {Undefined, old.ns} THEN o
  ELSE Move(o, [old EXCEPT !.name = Given(p.name, old.name)], p.schema)

FunctionSql(o, i, old, p) ==
  FunctionSchemaSql(FunctionNameSql(DefinitionSql(o, i, old, p), old, p), old, p)

RetrieveFunction(op, i, p) == Retrieve("function", op, i, p)

RemoveFunction == Delete("function")

UpdateFunction ==
  /\ Applying("function", "update")
  /\ Commit(FunctionSql(objs, req.id, req.old, req.body))

ReadFunction ==
  \/ ReadById("function")
  \/ Reading("function", "create")
       /\ ReadByName(Ref("function", req.body.schema, req.body.name))

FunctionNext ==
  \/ \E i \in Oid, p \in Bodies["function"] : RetrieveFunction("update", i, p)
  \/ \E i \in Oid : RetrieveFunction("remove", i, Null)
  \/ \E p \in NewBodies["function"] : Post("function", p)
  \/ CreateFunction \/ UpdateFunction \/ RemoveFunction \/ ReadFunction

-------------------------------------------------------------------------------
(* Properties                                                              *)

(* A PATCH of a function that nobody disturbs does what its body asks, to  *)
(* that function only.  That a definition takes options like STRICT with   *)
(* it (PostgresMetaFunctions.ts:250) is allowed for.                       *)
FunctionDone ==
  [][Updating("function") /\ others = 0 =>
       LET f == objs[req.id]
           g == objs'[req.id]
           p == req.body
       IN /\ g.kind = "function" /\ g.name = Given(p.name, f.name) /\ g.ns = Given(p.schema, f.ns)
          /\ g.at = IF p.definition = Undefined THEN f.at ELSE Generated(p.definition)
          /\ OthersKept(objs, objs', req.id)]_catalogVars

(* Such a PATCH is aborted only when a name is taken, in the schema the    *)
(* function goes to or, on the way, in the one it comes from.              *)
FunctionAccepted ==
  answer = "aborted" /\ req.kind = "function" /\ req.op = "update" /\ others = 0 =>
    LET f == objs[req.id]
        n == Given(req.body.name, f.name)
    IN \E ns \in {f.ns, Given(req.body.schema, f.ns)} :
         ~(Called(objs, Ref("function", ns, n)) \subseteq {req.id})

(* Whatever became of the name since it was read, a new definition goes to *)
(* the function of the id: no other one is replaced, and none is made      *)
(* (PostgresMetaFunctions.ts:177-187).                                     *)
RedefinesOwn ==
  [][Updating("function") /\ req.body.definition # Undefined =>
       /\ objs'[req.id].at.definition = req.body.definition
       /\ OthersKept(objs, objs', req.id)]_catalogVars
===============================================================================
