------------------------------ MODULE Privileges ------------------------------
(***************************************************************************)
(* src/lib/PostgresMetaTablePrivileges.ts, PostgresMetaColumnPrivileges.ts *)
(* and their queries.  A relation has an access control list, and so has   *)
(* each of its columns: entries [grantee, grantor, privilege, grantable].  *)
(* The connection's role owns the relations.                               *)
(***************************************************************************)
EXTENDS Catalog

CONSTANTS
  Role,      \* roles that exist
  Public,    \* the spellings of the word public
  Everyone   \* PUBLIC

ASSUME PrivilegesAssumption == Self \in Role /\ Everyone \notin Role /\ Public \cap Role = {}

ColumnPrivilege == {"SELECT", "INSERT", "UPDATE", "REFERENCES"}
TablePrivilege == ColumnPrivilege \cup {"DELETE", "TRUNCATE", "TRIGGER", "MAINTAIN"}

(* A body is of tables or of columns, which are addressed by <<relation,    *)
(* column>> and have fewer privileges.                                     *)
ASSUME PrivilegeBodiesAssumption ==
  \A p \in Bodies["relation"] :
    /\ p.items \in Seq(ToSet(p.items))
    /\ p.level = "column" => \A g \in ToSet(p.items) :
         g.id = <<g.id[1], g.id[2]>> /\ g.privilege \in ColumnPrivilege \cup {"ALL"}

(* The privileges that an item of a body names.                            *)
Wanted(level, g) ==
  IF g.privilege # "ALL" THEN {g.privilege}
  ELSE IF level = "table" THEN TablePrivilege ELSE ColumnPrivilege

(* grantee.toLowerCase() === 'public'                                      *)
Grantee(g) == IF g.grantee \in Public THEN Everyone ELSE g.grantee

Relations(o) == {i \in Made(o) : o[i].kind = "relation"}

-------------------------------------------------------------------------------
(* GRANT and REVOKE (external), in one list.                               *)

SameGrant(e, who, privileges) ==
  e.grantee = who /\ e.grantor = Self /\ e.privilege \in privileges

(* Mutant: WITH GRANT OPTION is left out.                                  *)
GrantInWithoutOption(acl, who, privileges, option) ==
  {e \in acl : ~SameGrant(e, who, privileges)} \cup
  {[grantee |-> who, grantor |-> Self, privilege |-> q,
    grantable |-> \E e \in acl : SameGrant(e, who, {q}) /\ e.grantable] : q \in privileges}

(* A grant that exists may gain the grant option, and does not lose it.    *)
GrantIn(acl, who, privileges, option) ==
  {e \in acl : ~SameGrant(e, who, privileges)} \cup
  {[grantee |-> who, grantor |-> Self, privilege |-> q,
    grantable |-> option \/ \E e \in acl : SameGrant(e, who, {q}) /\ e.grantable] : q \in privileges}

RevokeIn(acl, who, privileges) == {e \in acl : ~SameGrant(e, who, privileges)}

(* Others were granted by who, which REVOKE without CASCADE does not take. *)
Depended(acl, who, privileges) ==
  \E e, h \in acl :
    /\ SameGrant(h, who, privileges) /\ h.grantable
    /\ e.grantor = who /\ e.privilege = h.privilege

-------------------------------------------------------------------------------
(* The statements of one DO block.                                         *)

(* An id without a relation, or a role that does not exist, is an error.   *)
Addressed(o, i, g) == o # Aborted /\ i \in Relations(o) /\ Grantee(g) \in Role \cup {Everyone}

(* PUBLIC cannot have a grant option.                                      *)
GrantTable(o, g) ==
  IF ~Addressed(o, g.id, g) \/ (Grantee(g) = Everyone /\ g.grantable) THEN Aborted
  ELSE [o EXCEPT ![g.id].at.acl = GrantIn(@, Grantee(g), Wanted("table", g), g.grantable)]

(* A revoke on the table takes the privileges on its columns, too.         *)
RevokeTable(o, g) ==
  IF ~Addressed(o, g.id, g) \/ Depended(o[g.id].at.acl, Grantee(g), Wanted("table", g)) THEN Aborted
  ELSE [o EXCEPT
         ![g.id].at.acl = RevokeIn(@, Grantee(g), Wanted("table", g)),
         ![g.id].at.cols = [c \in DOMAIN @ |-> RevokeIn(@[c], Grantee(g), Wanted("table", g))]]

(* The column of a column_id; format() refuses the name of one that is not *)
(* there.                                                                  *)
ColumnAddressed(o, g) == Addressed(o, g.id[1], g) /\ g.id[2] \in DOMAIN o[g.id[1]].at.cols

GrantColumn(o, g) ==
  IF ~ColumnAddressed(o, g) \/ (Grantee(g) = Everyone /\ g.grantable) THEN Aborted
  ELSE [o EXCEPT ![g.id[1]].at.cols[g.id[2]] =
          GrantIn(@, Grantee(g), Wanted("column", g), g.grantable)]

RevokeColumn(o, g) ==
  IF ~ColumnAddressed(o, g)
     \/ Depended(o[g.id[1]].at.cols[g.id[2]], Grantee(g), Wanted("column", g)) THEN Aborted
  ELSE [o EXCEPT ![g.id[1]].at.cols[g.id[2]] = RevokeIn(@, Grantee(g), Wanted("column", g))]

GrantTables(o, items) == FoldLeft(GrantTable, o, items)
RevokeTables(o, items) == FoldLeft(RevokeTable, o, items)
GrantColumns(o, items) == FoldLeft(GrantColumn, o, items)
RevokeColumns(o, items) == FoldLeft(RevokeColumn, o, items)

-------------------------------------------------------------------------------
(* The rows of the answer.                                                 *)

(* new Set of the ids: an empty list filters nothing.                      *)
Modified(p) == {p.items[n].id : n \in DOMAIN p.items}

TableRows(o, ids) ==
  {[id |-> i, privileges |-> o[i].at.acl] : i \in {j \in Relations(o) : ids = {} \/ j \in ids}}

(* COLUMN_PRIVILEGES_SQL: those of the table are those of its columns; a   *)
(* column that nobody has a privilege on is not listed.                    *)
ColumnRow(o, i, c) ==
  [id |-> <<i, c>>,
   privileges |-> {e \in o[i].at.acl \cup o[i].at.cols[c] : e.privilege \in ColumnPrivilege}]

ColumnRows(o, ids) ==
  {r \in UNION {{ColumnRow(o, i, c) : c \in DOMAIN o[i].at.cols} : i \in Relations(o)} :
     r.privileges # {} /\ (ids = {} \/ r.id \in ids)}

-------------------------------------------------------------------------------
(* grant() and revoke().                                                   *)

Privileging(op, p) ==
  /\ req.at = "idle"
  /\ req' = [kind |-> "relation", op |-> op, body |-> p, at |-> "apply"]
  /\ UNCHANGED <<objs, answer, row, others>>

ApplyingTo(op, level) == Applying("relation", op) /\ req.body.level = level

GrantTablePrivileges ==
  ApplyingTo("grant", "table") /\ Commit(GrantTables(objs, req.body.items))

RevokeTablePrivileges ==
  ApplyingTo("revoke", "table") /\ Commit(RevokeTables(objs, req.body.items))

GrantColumnPrivileges ==
  ApplyingTo("grant", "column") /\ Commit(GrantColumns(objs, req.body.items))

RevokeColumnPrivileges ==
  ApplyingTo("revoke", "column") /\ Commit(RevokeColumns(objs, req.body.items))

ReadPrivileges ==
  /\ \E op \in {"grant", "revoke"} : Reading("relation", op)
  /\ Answer("data", IF req.body.level = "table" THEN TableRows(objs, Modified(req.body))
                    ELSE ColumnRows(objs, Modified(req.body)))
  /\ UNCHANGED <<objs, others>>

PrivilegesNext ==
  \/ \E op \in {"grant", "revoke"}, p \in Bodies["relation"] : Privileging(op, p)
  \/ GrantTablePrivileges \/ RevokeTablePrivileges
  \/ GrantColumnPrivileges \/ RevokeColumnPrivileges
  \/ ReadPrivileges

-------------------------------------------------------------------------------
(* Properties                                                              *)

OfTable(level, id) == IF level = "table" THEN id ELSE id[1]

(* The answer to a list of grants or revokes is of what they modified, and *)
(* shows them done: every privilege that was granted, with the option that *)
(* was asked for, to PUBLIC in whatever spelling; and none that was        *)
(* revoked, but those another role granted and those a column has from its *)
(* table.  Relations that another session dropped are not in it, and an    *)
(* empty list is answered with every relation (helpers.ts:24).             *)
PrivilegesShown ==
  req.at = "done" /\ req.op \in {"grant", "revoke"} /\ answer = "data" =>
    LET p == req.body IN
    /\ p.items # <<>> => {r.id : r \in row} \subseteq Modified(p)
    /\ \A n \in DOMAIN p.items :
         LET g == p.items[n]
             i == OfTable(p.level, g.id)
             shown == UNION {r.privileges : r \in {x \in row : x.id = g.id}}
             entries(q) == {e \in shown : e.grantee = Grantee(g) /\ e.privilege = q} IN
         i \in Relations(objs) =>
           \A q \in Wanted(p.level, g) :
             IF req.op = "grant" THEN \E e \in entries(q) : g.grantable => e.grantable
             ELSE \A e \in entries(q) :
                    e.grantor # Self \/ (p.level = "column" /\ e \in objs[i].at.acl)
===============================================================================
