---------------------------- MODULE Relationships ----------------------------
(***************************************************************************)
(* src/lib/PostgresMetaRelationships.ts: the foreign keys of the tables,   *)
(* and those that views expose.  list() makes two queries: the foreign     *)
(* keys (TABLE_RELATIONSHIPS_SQL), then the key columns that each view's   *)
(* columns come from (VIEWS_KEY_DEPENDENCIES_SQL), which parses the views' *)
(* rewrite rules; what it parses out of them is the `origin` of a column.  *)
(***************************************************************************)
EXTENDS Introspection

Rel(d, id) == CHOOSE r \in d.rels : r.id = id
ViewsOf(d, f) == {r \in d.rels : r.kind \in {"view", "matview"} /\ Passes(f, r.schema)}

(* The filter that names the schema of a constraint as a regnamespace: it  *)
(* compares the name as Postgres quotes it.                                *)
PassesQuoted(d, f, k) == Passes(f, Quote(Rel(d, k.rel).schema))

(* The foreign keys of the schemas that pass.                              *)
ForeignKeys(d, f) == {k \in d.keys : k.kind = "f" /\ Passes(f, Rel(d, k.rel).schema)}

(* The columns of a relation that are in S, by attnum.                     *)
InColumnOrder(r, S) ==
  FoldLeft(LAMBDA names, c : IF c.name \in S THEN Append(names, c.name) ELSE names, <<>>, r.cols)

(* is_one_to_one: the referencing columns, in the foreign key's order, are *)
(* the columns of a primary or unique key, in the table's order.           *)
IsOneToOne(d, f, k) ==
  \E u \in d.keys :
    /\ u.kind \in {"p", "u"} /\ u.rel = k.rel /\ PassesQuoted(d, f, u)
    /\ InColumnOrder(Rel(d, k.rel), {u.cols[i] : i \in DOMAIN u.cols}) = k.cols

(* The first query.  Its lateral join aggregates no rows to null, here <<>>*)
(* for the schemas whose quoted names do not pass.                         *)
TableRelationships(d, f) ==
  {[name |-> k.name,
    schema |-> Rel(d, k.rel).schema, relation |-> Rel(d, k.rel).name,
    columns |-> IF PassesQuoted(d, f, k) THEN k.cols ELSE <<>>,
    one |-> IsOneToOne(d, f, k),
    rschema |-> Rel(d, k.ref).schema, rrelation |-> Rel(d, k.ref).name,
    rcolumns |-> IF PassesQuoted(d, f, k) THEN k.refcols ELSE <<>>] : k \in ForeignKeys(d, f)}

-------------------------------------------------------------------------------
(* The second query.                                                       *)

(* `recursion`: where a view's column comes from, through other views      *)
(* whose schema passes too.  A view column has one origin, views are not   *)
(* cyclic, and a chain has no more steps than there are relations.         *)
OriginsOf(d, f, c) ==
  LET viewColumns(o) == UNION {{x \in {v.cols[i] : i \in DOMAIN v.cols} : x.name = o[2]} :
                                 v \in {w \in ViewsOf(d, f) : w.id = o[1]}}
      next(S) == {x.origin : x \in UNION {viewColumns(o) : o \in S \ {<<>>}}}
      within[n \in 0 .. Cardinality(d.rels)] ==
        IF n = 0 THEN {c.origin} ELSE LET S == within[n - 1] IN S \cup next(S)
  IN within[Cardinality(d.rels)] \ {<<>>}

(* `repeated_references`: the columns of view v that come from column o.   *)
ViewColumns(d, f, v, o) ==
  {v.cols[i].name : i \in {j \in DOMAIN v.cols : o \in OriginsOf(d, f, v.cols[j])}}

(* pks_fks without the primary keys, which list() does not use: one row    *)
(* per column on either side of a foreign key.  The two sides of the UNION *)
(* are named "f" and "f_ref"; equal rows are one row.                      *)
KeyColumns(d, f) ==
  (UNION {{[name |-> k.name, type |-> "f", n |-> Len(k.cols), rel |-> k.rel,
           col |-> k.cols[i], ord |-> i] : i \in DOMAIN k.cols} :
         k \in {x \in d.keys : x.kind = "f"}})
  \cup
  (UNION {{[name |-> k.name, type |-> "f_ref", n |-> Len(k.refcols), rel |-> k.ref,
           col |-> k.refcols[i], ord |-> i] : i \in DOMAIN k.refcols} :
         k \in {x \in d.keys : x.kind = "f" /\ PassesQuoted(d, f, x)}})

(* HAVING: a group of rows counts when it has as many as the key columns.  *)
Whole(R, n) == Cardinality(R) = n

(* The rows grouped by table, view, constraint name and side, in key order.*)
(* The name does not tell apart two keys that reference one table.         *)
KeyDependencies(d, f) ==
  LET groups == {<<x.rel, x.name, x.type, x.n>> : x \in KeyColumns(d, f)}
      rows(v, g) == {x \in KeyColumns(d, f) :
                       /\ <<x.rel, x.name, x.type, x.n>> = g
                       /\ ViewColumns(d, f, v, <<x.rel, x.col>>) # {}}
      ordered(R) == CHOOSE s \in [1 .. Cardinality(R) -> R] :
                      /\ \A x \in R : \E i \in DOMAIN s : s[i] = x
                      /\ \A i, j \in DOMAIN s : i < j => s[i].ord <= s[j].ord
      columns(v, s) == [i \in DOMAIN s |-> ViewColumns(d, f, v, <<s[i].rel, s[i].col>>)]
  IN UNION {{[schema |-> Rel(d, g[1]).schema, table |-> Rel(d, g[1]).name,
              vschema |-> v.schema, view |-> v.name, name |-> g[2], type |-> g[3],
              columns |-> columns(v, ordered(rows(v, g)))] :
             g \in {h \in groups : Whole(rows(v, h), h[4])}} : v \in ViewsOf(d, f)}

-------------------------------------------------------------------------------
(* list(): the foreign keys, and for each of them every way that views     *)
(* expose its columns.                                                     *)

(* expandKeyDepCols: the cartesian product of the columns.                 *)
Expand(columns) ==
  {s \in [DOMAIN columns -> UNION {columns[i] : i \in DOMAIN columns}] :
     \A i \in DOMAIN columns : s[i] \in columns[i]}

Exposed(deps, type, name, schema, table) ==
  UNION {{[schema |-> k.vschema, relation |-> k.view, columns |-> cols] : cols \in Expand(k.columns)} :
         k \in {x \in deps : x.type = type /\ x.name = name /\ x.schema = schema /\ x.table = table}}

(* Mutant: a view is only ever related to tables.                          *)
RelationshipsListTables(rels, deps) ==
  rels \cup (UNION {
    LET views == Exposed(deps, "f", r.name, r.schema, r.relation)
        refs == Exposed(deps, "f_ref", r.name, r.rschema, r.rrelation) IN
    {[r EXCEPT !.schema = v.schema, !.relation = v.relation, !.columns = v.columns] : v \in views}
    \cup {[r EXCEPT !.rschema = w.schema, !.rrelation = w.relation, !.rcolumns = w.columns] : w \in refs}
    : r \in rels})

RelationshipsList(rels, deps) ==
  rels \cup (UNION {
    LET views == Exposed(deps, "f", r.name, r.schema, r.relation)
        refs == Exposed(deps, "f_ref", r.name, r.rschema, r.rrelation)
        fromView(q, v) == [q EXCEPT !.schema = v.schema, !.relation = v.relation, !.columns = v.columns]
        toView(q, w) == [q EXCEPT !.rschema = w.schema, !.rrelation = w.relation, !.rcolumns = w.columns]
    IN {fromView(r, v) : v \in views} \cup {toView(r, w) : w \in refs}
       \cup {toView(fromView(r, p[1]), p[2]) : p \in views \X refs}
    : r \in rels})
=============================================================================
