---------------------------------- MODULE Roles ----------------------------------
(***************************************************************************)
(* src/lib/PostgresMetaRoles.ts.  can_login stands for the options of a    *)
(* role, which are all set alike in one ALTER ROLE; config is what ALTER   *)
(* ROLE ... SET gave it.  A value is a sequence of items; only some keys   *)
(* take more than one (GUC_LIST_INPUT).                                    *)
(***************************************************************************)
EXTENDS Catalog

CONSTANTS
  Key,      \* configuration parameters
  ListKey,  \* those that take a list
  NoKey     \* the empty path

ASSUME RolesAssumption == ListKey \subseteq Key /\ NoKey \notin Key

(* A body has a list of ops, whose values are lists; a role has a value    *)
(* for every parameter.                                                    *)
IsList(s) == s \in Seq(ToSet(s))

ASSUME RoleBodiesAssumption ==
  /\ \A p \in Bodies["role"] \cup NewBodies["role"] :
       IsList(p.config) /\ \A c \in ToSet(p.config) : c.path \in Key \cup {NoKey} /\ IsList(c.value)
  /\ \A o \in Catalogs : \A i \in Made(o) : o[i].kind = "role" => DOMAIN o[i].at.config = Key

(* literalConfigValue: each item is quoted on its own.  An empty value is  *)
(* null, which SET does not take.                                          *)
SetConfig(o, ref, k, v) ==
  IF o = Aborted \/ Called(o, ref) = {} \/ Len(v) = 0 \/ (Len(v) > 1 /\ k \notin ListKey)
  THEN Aborted
  ELSE LET i == The(Called(o, ref)) IN [o EXCEPT ![i].at.config[k] = v]

ResetConfig(o, ref, k) ==
  IF o = Aborted \/ Called(o, ref) = {} THEN Aborted
  ELSE LET i == The(Called(o, ref)) IN [o EXCEPT ![i].at.config[k] = <<>>]

(* In the config of a new role, an empty key or value is skipped.          *)
NewConfigSql(o, ref, c) ==
  IF c.path = NoKey \/ c.value = <<>> THEN o ELSE SetConfig(o, ref, c.path, c.value)

NewConfigSqls(o, ref, config) == FoldLeft(LAMBDA u, c : NewConfigSql(u, ref, c), o, config)

CreateRole ==
  /\ Applying("role", "create")
  /\ LET p == req.body
         ref == Ref("role", Database, p.name)
         made == Add(objs, ref, [can_login |-> p.can_login, config |-> [k \in Key |-> <<>>]])
     IN Commit(NewConfigSqls(made, ref, p.config))

(* The ops it knows; for the others, and for an empty path, update()       *)
(* throws before it sends anything.                                        *)
Known(c) == c.path # NoKey /\ c.op \in {"add", "replace", "remove"}

ConfigSql(o, ref, c) ==
  IF c.op = "remove" THEN ResetConfig(o, ref, c.path) ELSE SetConfig(o, ref, c.path, c.value)

ConfigSqls(o, ref, config) == FoldLeft(LAMBDA u, c : ConfigSql(u, ref, c), o, config)

(* ALTER ROLE is sent with the options that are given, or with none.       *)
AlterRole(o, ref, p) ==
  IF o = Aborted \/ Called(o, ref) = {} THEN Aborted ELSE Given1(o, ref, "can_login", p.can_login)

RoleNameSql(o, old, p) == IF p.name = Undefined THEN o ELSE Rename(o, old, p.name)

(* Mutant: only the first op of the config is sent.                        *)
RoleSqlOneOp(o, old, p) ==
  RoleNameSql(ConfigSqls(AlterRole(o, old, p), old,
                         IF p.config = <<>> THEN <<>> ELSE <<Head(p.config)>>), old, p)

(* "nameSql must be last".                                                 *)
RoleSql(o, old, p) ==
  RoleNameSql(ConfigSqls(AlterRole(o, old, p), old, p.config), old, p)

RetrieveRole(op, i, p) == Retrieve("role", op, i, p)

RemoveRole == Delete("role")

UpdateRole ==
  /\ Applying("role", "update") /\ \A c \in ToSet(req.body.config) : Known(c)
  /\ Commit(RoleSql(objs, req.old, req.body))

ThrowConfig ==
  /\ Applying("role", "update") /\ \E c \in ToSet(req.body.config) : ~Known(c)
  /\ Answer("threw", Null)
  /\ UNCHANGED <<objs, others>>

ReadRole ==
  \/ ReadById("role")
  \/ Reading("role", "create") /\ ReadByName(Ref("role", Database, req.body.name))

RoleNext ==
  \/ \E i \in Oid, p \in Bodies["role"] : RetrieveRole("update", i, p)
  \/ \E i \in Oid : RetrieveRole("remove", i, Null)
  \/ \E p \in NewBodies["role"] : Post("role", p)
  \/ CreateRole \/ UpdateRole \/ ThrowConfig \/ RemoveRole \/ ReadRole

-------------------------------------------------------------------------------
(* Properties                                                              *)

(* The value that a list of ops leaves under a key: that of the last one.  *)
LastValue(config, k, before) ==
  LET S == {j \in DOMAIN config : config[j].path = k}
  IN IF S = {} THEN before
     ELSE LET c == config[CHOOSE j \in S : \A l \in S : l <= j] IN
          IF c.op = "remove" THEN <<>> ELSE c.value

(* A PATCH of a role that nobody disturbs applies every op of its config,  *)
(* in order, with its options and its name, and to that role only.         *)
RoleDone ==
  [][Updating("role") /\ others = 0 =>
       LET r == objs[req.id]
           s == objs'[req.id]
           p == req.body
       IN /\ s.kind = "role" /\ s.name = Given(p.name, r.name)
          /\ s.at.can_login = Given(p.can_login, r.at.can_login)
          /\ \A k \in Key : s.at.config[k] = LastValue(p.config, k, r.at.config[k])
          /\ OthersKept(objs, objs', req.id)]_catalogVars

(* Such a PATCH is aborted only when the name is taken, by the role itself *)
(* included (PostgresMetaRoles.ts:191), or a value does not fit its key.   *)
RoleAccepted ==
  answer = "aborted" /\ req.kind = "role" /\ req.op = "update" /\ others = 0 =>
    \/ Called(objs, Ref("role", Database, req.body.name)) # {}
    \/ \E c \in ToSet(req.body.config) :
         /\ c.op # "remove"
         /\ Len(c.value) # 1 /\ ~(c.path \in ListKey /\ Len(c.value) > 1)
===============================================================================
