-------------------------------- MODULE Readers --------------------------------
(***************************************************************************)
(* What is only read: src/lib/PostgresMetaViews.ts,                        *)
(* PostgresMetaMaterializedViews.ts, PostgresMetaForeignTables.ts and      *)
(* PostgresMetaIndexes.ts.  A relation has columns.  An index has its      *)
(* indkey, the numbers of its columns in the table; its own columns are    *)
(* numbered from 1.  The queries have no ORDER BY: which row comes first,  *)
(* and which rows make a page, is not determined.                          *)
(***************************************************************************)
EXTENDS Catalog

WithColumns == {"view", "matview", "foreign"}

OfKind(o, k) == {i \in Made(o) : o[i].kind = k}

(* The rows of one query: an id and the columns, or the definition, shown  *)
(* with it.                                                                *)
OwnRow(o, i) == [id |-> i, cols |-> o[i].at.cols]

(* Mutant: the columns are those of every relation.                        *)
RowsByIdAnyColumns(o, k, i) ==
  {[id |-> j, cols |-> UNION {o[h].at.cols : h \in OfKind(o, k)}] : j \in OfKind(o, k) \cap {i}}

(* Views and materialized views: the relation and the columns by the id.   *)
RowsById(o, k, i) == {OwnRow(o, j) : j \in OfKind(o, k) \cap {i}}

(* Foreign tables: only the columns are filtered by the id.                *)
ForeignRowsById(o, i) ==
  {[id |-> j, cols |-> IF j = i THEN o[j].at.cols ELSE {}] : j \in OfKind(o, "foreign")}

(* Schema and name.                                                        *)
RowsByName(o, ref) == {OwnRow(o, j) : j \in Called(o, ref)}

(* INDEXES_SQL joins the attributes of the index by the numbers of the     *)
(* table's, and the definition by the name of the index alone.             *)
Attributes(at) == {n \in 1..Cardinality(at.indkey) : n \in at.indkey}

IndexRows(o, i) ==
  {[id |-> i, definition |-> h] :
     h \in {x \in OfKind(o, "index") :
             /\ i \in OfKind(o, "index") /\ Attributes(o[i].at) # {}
             /\ o[i].name = o[x].name}}

-------------------------------------------------------------------------------
(* data[0], or "Cannot find".                                              *)

Get(k, by, x, rows) ==
  /\ req.at = "idle"
  /\ req' = [kind |-> k, op |-> "get", by |-> by, of |-> x, at |-> "done"]
  /\ \/ rows = {} /\ answer' = "missing" /\ UNCHANGED row
     \/ \E r \in rows : answer' = "data" /\ row' = r
  /\ UNCHANGED <<objs, others>>

GetView(i) == Get("view", "id", i, RowsById(objs, "view", i))
GetMaterializedView(i) == Get("matview", "id", i, RowsById(objs, "matview", i))
GetForeignTable(i) == Get("foreign", "id", i, ForeignRowsById(objs, i))
GetIndex(i) == Get("index", "id", i, IndexRows(objs, i))

(* retrieve({ name, schema }) of the library.                              *)
GetByName(k, ns, n) == Get(k, "name", Ref(k, ns, n), RowsByName(objs, Ref(k, ns, n)))

-------------------------------------------------------------------------------
(* Lists.  A limit of 0 is none.                                           *)

Pages(S, limit) ==
  IF limit = 0 THEN {S}
  ELSE {P \in SUBSET S : Cardinality(P) <= limit /\ (P # S => Cardinality(P) = limit)}

List(k, limit, rows) ==
  /\ req.at = "idle"
  /\ req' = [kind |-> k, op |-> "list", limit |-> limit, at |-> "done"]
  /\ answer' = "data" /\ row' \in rows
  /\ UNCHANGED <<objs, others>>

(* With include_columns: the columns of every relation, put to the rows.   *)
ListViews(limit) ==
  List("view", limit, {{OwnRow(objs, i) : i \in P} : P \in Pages(OfKind(objs, "view"), limit)})

ListForeignTables(limit) ==
  List("foreign", limit, {{OwnRow(objs, i) : i \in P} : P \in Pages(OfKind(objs, "foreign"), limit)})

(* The limit is put on the query of the columns as well.                   *)
ListMaterializedViews(limit) ==
  LET views == OfKind(objs, "matview")
      columns == UNION {{<<i, c>> : c \in objs[i].at.cols} :
                          i \in UNION {OfKind(objs, k) : k \in WithColumns}}
  IN List("matview", limit,
       {{[id |-> i, cols |-> {c \in objs[i].at.cols : <<i, c>> \in C}] : i \in P} :
          P \in Pages(views, limit), C \in Pages(columns, limit)})

ReadersNext ==
  \/ \E i \in Oid : GetView(i) \/ GetMaterializedView(i) \/ GetForeignTable(i) \/ GetIndex(i)
  \/ \E k \in WithColumns, ns \in Place, n \in Name : GetByName(k, ns, n)
  \/ \E limit \in 0..2 : ListViews(limit) \/ ListMaterializedViews(limit) \/ ListForeignTables(limit)

-------------------------------------------------------------------------------
(* Properties                                                              *)

GotById(k) == req.at = "done" /\ req.kind = k /\ req.op = "get" /\ req.by = "id"
GotByName(k) == req.at = "done" /\ req.kind = k /\ req.op = "get" /\ req.by = "name"

Shows(S) ==
  IF S = {} THEN answer = "missing" ELSE answer = "data" /\ \E i \in S : row = OwnRow(objs, i)

(* An index whose name an index of another schema has, too.                *)
Namesake(o, i) == \E j \in OfKind(o, "index") : j # i /\ o[j].name = o[i].name

(* A view or a materialized view is found by its id, and any relation by   *)
(* its name, if it is there; the row is its own and has its columns, and   *)
(* so has every row of a list, but for a page of materialized views, whose *)
(* columns are limited with it (PostgresMetaMaterializedViews.ts:101).  An *)
(* index is found if one of its columns has the number in the table that   *)
(* it has in the index, and shown by its own definition unless it has a    *)
(* namesake.  (A foreign table: ForeignTableFound.)                        *)
RowsAsked ==
  /\ \A k \in {"view", "matview"} : GotById(k) => Shows(OfKind(objs, k) \cap {req.of})
  /\ \A k \in WithColumns : GotByName(k) => Shows(Called(objs, req.of))
  /\ GotById("index") /\ req.of \in OfKind(objs, "index") =>
       IF Attributes(objs[req.of].at) = {} THEN answer = "missing"
       ELSE /\ answer = "data" /\ row.id = req.of
            /\ Namesake(objs, req.of) \/ row.definition = req.of
  /\ req.at = "done" /\ req.op = "list" /\ (req.kind # "matview" \/ req.limit = 0) =>
       \A r \in row : r = OwnRow(objs, r.id)

(* The foreign table of an id is found, or said not to be ("Cannot find a  *)
(* foreign table with ID", PostgresMetaForeignTables.ts:72).               *)
ForeignTableFound ==
  GotById("foreign") /\ answer = "data" => row.id = req.of
===============================================================================
