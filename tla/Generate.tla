------------------------------ MODULE Generate ------------------------------
(***************************************************************************)
(* Type generation: getGeneratorMetadata of src/lib/generators.ts for the  *)
(* routes under /generators, and getTypeOutput of src/server/server.ts for *)
(* a process that only generates.  Each list is a query of its own that    *)
(* sees the database as it is then; other sessions change it in between.   *)
(* The lists are then written out in one of the four languages.            *)
(*                                                                         *)
(* The nine lists are ten queries: relationships.list() makes two.  A      *)
(* route makes them one after the other and stops at the first error.  The *)
(* process issues nine at once, on a pool of one connection that serves    *)
(* them in order, the second query of relationships.list() behind them.    *)
(***************************************************************************)
EXTENDS Relationships, TypescriptTemplate, PythonTemplate, SwiftTemplate

CONSTANTS
  Databases,    \* databases to start from
  Spare,        \* relations that other sessions may create
  NewName,      \* a name that nothing has yet, for renames
  Filters,      \* the schemas to include and to exclude, [include, exclude]
  MaxOthers,    \* bound: statements of other sessions in a behaviour
  MaxFailures   \* bound: queries that fail in a behaviour

ASSUME DatabasesAssumption == \A d \in Databases : LegalDatabase(d)

Language == {"typescript", "go", "python", "swift"}
Mode == {"route", "process"}

VARIABLES
  db,        \* the database
  others,    \* how many statements other sessions made
  mode,      \* a route, or a process that only generates
  filter,    \* includedSchemas and excludedSchemas
  seen,      \* the lists that were read, each with the database it saw
  failed,    \* the queries that failed
  phase,     \* "reading", then "written", "threw" or "error"
  language,  \* what was written, "" before
  ended      \* was end() called on the pool?

generateVars == <<db, others, mode, filter, seen, failed, phase, language, ended>>

Queries == <<"schemas", "tables", "foreignTables", "views", "materializedViews", "columns",
             "keys", "dependencies", "functions", "types">>

(* A process makes the second query of relationships.list() last.          *)
Order(m) == IF m = "route" THEN Queries
            ELSE <<"schemas", "tables", "foreignTables", "views", "materializedViews", "columns",
                   "keys", "functions", "types", "dependencies">>

Made == DOMAIN seen \cup failed
NextQuery ==
  LET o == Order(mode) IN
  o[CHOOSE i \in DOMAIN o : o[i] \notin Made /\ \A j \in 1 .. i - 1 : o[j] \in Made]

Init ==
  /\ db \in Databases /\ others = 0
  /\ mode \in Mode
  /\ filter \in {f \in Filters : mode = "process" => f.exclude = {}}
  /\ seen = [q \in {} |-> db] /\ failed = {}
  /\ phase = "reading" /\ language = "" /\ ended = FALSE

-------------------------------------------------------------------------------
(* Reading                                                                 *)

Read ==
  /\ phase = "reading" /\ Cardinality(Made) < 10
  /\ seen' = [q \in DOMAIN seen \cup {NextQuery} |-> IF q \in DOMAIN seen THEN seen[q] ELSE db]
  /\ UNCHANGED <<db, others, mode, filter, failed, phase, language, ended>>

(* A route returns the first error, and does not end its pool.             *)
FailRoute ==
  /\ phase = "reading" /\ mode = "route" /\ Cardinality(Made) < 10
  /\ Cardinality(failed) < MaxFailures
  /\ failed' = {NextQuery} /\ phase' = "error"
  /\ UNCHANGED <<db, others, mode, filter, seen, language, ended>>

(* A process waits for the other lists.  When the first query of           *)
(* relationships.list() fails the second one is not made.                  *)
FailProcess ==
  /\ phase = "reading" /\ mode = "process" /\ Cardinality(Made) < 10
  /\ Cardinality(failed) < MaxFailures
  /\ failed' = failed \cup (IF NextQuery = "keys" THEN {"keys", "dependencies"} ELSE {NextQuery})
  /\ UNCHANGED <<db, others, mode, filter, seen, phase, language, ended>>

(* `await pgMeta.end()`, then the first error is thrown.                   *)
ProcessError ==
  /\ phase = "reading" /\ mode = "process" /\ Cardinality(Made) = 10 /\ failed # {}
  /\ phase' = "error" /\ ended' = TRUE
  /\ UNCHANGED <<db, others, mode, filter, seen, failed, language>>

NoFilter == [include |-> {}, exclude |-> {}]

(* A process passes no filter to schemas.list() and relationships.list().  *)
ListFilter == IF mode = "process" THEN NoFilter ELSE filter

(* Both filter the schemas again by the lists they were given.             *)
KeptSchemas(S) ==
  {s \in S : s.name \notin filter.exclude /\ (filter.include = {} \/ s.name \in filter.include)}

(* GeneratorMetadata.  types.list() is given no schemas.                   *)
Lists ==
  [schemas |-> KeptSchemas(SchemasList(seen["schemas"], ListFilter)),
   tables |-> TablesList(seen["tables"], filter),
   foreignTables |-> ForeignTablesList(seen["foreignTables"], filter),
   views |-> ViewsList(seen["views"], filter),
   materializedViews |-> MaterializedViewsList(seen["materializedViews"], filter),
   columns |-> ColumnsList(seen["columns"], filter),
   relationships |-> RelationshipsList(TableRelationships(seen["keys"], ListFilter),
                                       KeyDependencies(seen["dependencies"], ListFilter)),
   functions |-> FunctionsList(seen["functions"], filter),
   types |-> TypesList(seen["types"])]

(* Where the order of a list decides, a template may do either.            *)
MayThrow(l, L) ==
  CASE l = "typescript" -> TsThrows(L)
    [] l = "go" -> GoThrows(L)
    [] l = "python" -> PyMayThrow(L)
    [] l = "swift" -> SwiftThrows(L)

MustThrow(l, L) == IF l = "python" THEN PyMustThrow(L) ELSE MayThrow(l, L)

(* The pool is ended, then the template is applied.                        *)
Write(l) ==
  /\ phase = "reading" /\ Cardinality(Made) = 10 /\ failed = {}
  /\ ended' = TRUE /\ language' = l
  /\ \/ phase' = "written" /\ ~ MustThrow(l, Lists)
     \/ phase' = "threw" /\ MayThrow(l, Lists)
  /\ UNCHANGED <<db, others, mode, filter, seen, failed>>

-------------------------------------------------------------------------------
(* The statements of other sessions (external).                            *)

Renamed(R, id, n) == {IF r.id = id THEN [r EXCEPT !.name = n] ELSE r : r \in R}
Revoked(r) ==
  [r EXCEPT !.access = "none", !.cols = [i \in DOMAIN @ |-> [@[i] EXCEPT !.granted = FALSE]]]
Moved(R, s, n) == {IF r.schema = s THEN [r EXCEPT !.schema = n] ELSE r : r \in R}

Statements(d) ==
  (* ALTER TABLE ... RENAME, ALTER TYPE ... RENAME                         *)
  {[d EXCEPT !.rels = Renamed(@, r.id, NewName)] : r \in {x \in d.rels : x.schema \notin System}}
  \cup {[d EXCEPT !.types = Renamed(@, t.id, NewName)] :
          t \in {x \in d.types : x.schema \notin System}}
  (* ALTER SCHEMA ... RENAME                                               *)
  \cup {[d EXCEPT !.schemas = {IF x = s THEN [s EXCEPT !.name = NewName] ELSE x : x \in @},
                  !.rels = Moved(@, s.name, NewName), !.types = Moved(@, s.name, NewName),
                  !.fns = Moved(@, s.name, NewName)] :
          s \in {x \in d.schemas : x.name \notin System /\ ~ x.temp}}
  (* REVOKE ALL, with the privileges on columns; GRANT SELECT (column)     *)
  \cup {[d EXCEPT !.rels = {IF x = r THEN Revoked(r) ELSE x : x \in @}] :
          r \in {x \in d.rels : SeesTable(x)}}
  \cup (UNION {{[d EXCEPT !.rels = {IF x = r THEN [r EXCEPT !.cols[i].granted = TRUE] ELSE x : x \in @}] :
                 i \in DOMAIN r.cols} : r \in {x \in d.rels : x.access # "columns"}})
  (* DROP TABLE, with its constraints; DROP FUNCTION                       *)
  \cup {[d EXCEPT !.rels = @ \ {r}, !.keys = {k \in @ : k.rel # r.id}] :
          r \in {x \in d.rels : x.schema \notin System}}
  \cup {[d EXCEPT !.fns = @ \ {p}] : p \in {x \in d.fns : x.schema \notin System}}
  (* CREATE TABLE or VIEW                                                  *)
  \cup {[d EXCEPT !.rels = @ \cup {r}] : r \in Spare}

(* Postgres refuses a statement that takes a name that is taken, or drops  *)
(* what something else refers to.                                          *)
Changed(d) == {e \in Statements(d) : LegalDatabase(e)}

Elsewhere ==
  /\ phase = "reading" /\ Cardinality(Made) < 10
  /\ others < MaxOthers /\ others' = others + 1
  /\ db' \in Changed(db)
  /\ UNCHANGED <<mode, filter, seen, failed, phase, language, ended>>

Next ==
  \/ Read \/ FailRoute \/ FailProcess \/ ProcessError
  \/ \E l \in Language : Write(l)
  \/ Elsewhere

Spec == Init /\ [][Next]_generateVars

-------------------------------------------------------------------------------
(* Properties                                                              *)

Written(l) == phase = "written" /\ language = l

(* No statement of another session fell between the queries.               *)
Undisturbed == \A q \in DOMAIN seen : seen[q] = db

(* The TypeScript compiles: whatever other sessions did between the        *)
(* queries, a reference Database[schema][section][name] is to an entry     *)
(* that is written.                                                        *)
TypescriptResolves ==
  Written("typescript") => TsReferences(Lists) \subseteq TsDeclared(Lists)

(* Another type that pgTypeToTsType may take for type t of d in schema s:  *)
(* it goes by the name, which may be that of a built-in type, looks in the *)
(* enums first, then in the composites, and prefers those of s.            *)
Mistakable(d, s, t) ==
  \/ t.name[1] = Separator \/ t.name \in TsBuiltIn
  \/ \E u \in ElementTypes(d) :
       /\ u.name = t.name /\ u.id # t.id
       /\ ~ (t.schema = s /\ u.schema # s /\ (t.labels = {} => u.enums = {}))

(* The type of a column is the one it has in the database: an enum or a    *)
(* composite, or an array of them, is referred to by the right schema,     *)
(* section and name, though the column only tells its name, unless another *)
(* type can be mistaken for it.                                            *)
ColumnTypesRight ==
  Written("typescript") /\ Undisturbed =>
    LET L == Lists IN
    \A r \in db.rels : \A i \in DOMAIN r.cols : \A t \in db.types :
      /\ r.cols[i].type \in {t.id, ArrayId(t.id)}
      /\ t.labels # {} \/ t.attrs # <<>>
      /\ Listed(L, r.schema) /\ Listed(L, t.schema) /\ ~ Mistakable(db, r.schema, t)
      => TsType(L, r.schema, TypeName(db, r.cols[i].type)) =
           {[schema |-> t.schema, name |-> t.name,
             section |-> IF t.labels # {} THEN "Enums" ELSE "CompositeTypes"]}

(* The ways to read columns cols of relation r: its own, and those of the  *)
(* views whose columns come from them.                                     *)
Exposures(d, f, r, cols) ==
  {[schema |-> r.schema, relation |-> r.name, columns |-> cols]}
  \cup (UNION {{[schema |-> v.schema, relation |-> v.name, columns |-> s] :
               s \in {x \in [DOMAIN cols -> {v.cols[j].name : j \in DOMAIN v.cols}] :
                      \A i \in DOMAIN cols : \E j \in DOMAIN v.cols :
                        /\ v.cols[j].name = x[i]
                        /\ <<r.id, cols[i]>> \in OriginsOf(d, f, v.cols[j])}} : v \in ViewsOf(d, f)})

Image(s) == {s[i] : i \in DOMAIN s}

(* What the list of relationships should be: every foreign key, between    *)
(* every way to read its two sides, one-to-one when its columns are a key. *)
AllRelationships(d, f) ==
  UNION {LET a == Rel(d, k.rel) b == Rel(d, k.ref) IN
         {[name |-> k.name, schema |-> x.schema, relation |-> x.relation, columns |-> x.columns,
           one |-> \E u \in d.keys : u.kind # "f" /\ u.rel = k.rel /\ Image(u.cols) = Image(k.cols),
           rschema |-> y.schema, rrelation |-> y.relation, rcolumns |-> y.columns] :
            x \in Exposures(d, f, a, k.cols), y \in Exposures(d, f, b, k.refcols)} :
         k \in ForeignKeys(d, f)}

(* Two keys of one name that reference one table are taken for one, a key  *)
(* is compared in an order that need not be its own, and the keys of an    *)
(* included schema whose name Postgres quotes lose their columns.          *)
PlainKeys(d, f) ==
  /\ \A k \in {x \in d.keys : x.kind = "f"} :
       /\ \A h \in d.keys : h.kind = "f" /\ h.name = k.name /\ h.ref = k.ref => h = k
       /\ InColumnOrder(Rel(d, k.rel), Image(k.cols)) = k.cols
  /\ \A k \in ForeignKeys(d, f) : PassesQuoted(d, f, k)

(* The relationships are complete and exact, for views over tables, views  *)
(* over views and views on both sides, composite keys and columns that are *)
(* shown twice.                                                            *)
RelationshipsExact ==
  phase = "written" /\ Undisturbed /\ PlainKeys(db, ListFilter) =>
    Lists.relationships = AllRelationships(db, ListFilter)

(* Two relations whose names are the same when they are joined with a dot. *)
SameBucket(d) ==
  \E x, y \in d.rels : x # y /\ BucketKey(x.schema, x.name) = BucketKey(y.schema, y.name)

(* An embedding can be typed: the relation that a written relationship     *)
(* refers to is written in the same schema, unless it is a table that the  *)
(* role has no privilege on, and so is the referring one; both have the    *)
(* columns in their rows, but for those the role has no privilege on.  A   *)
(* function that embeds a relation of its schema names one that is         *)
(* written, and only an embedding turns a set into a single row.           *)
EmbedsDeclared ==
  Written("typescript") /\ Undisturbed /\ ~ SameBucket(db) =>
    LET L == Lists
        written(s, x) == \E y \in TsTables(L, s) \cup TsViews(L, s) : y.id = x.id /\ y.name = x.name
        shown(x, c) == \E y \in ColumnsOf(L, x.id) : y.name = c
        seesColumn(x, c) == \A i \in DOMAIN x.cols : x.cols[i].name = c => SeesColumn(x, x.cols[i])
        related(s, n, cols) ==
          \E x \in db.rels :
            /\ x.schema = s /\ x.name = n
            /\ written(s, x) \/ (x.kind = "table" /\ ~ SeesTable(x))
            /\ \A c \in Image(cols) : shown(x, c) \/ ~ seesColumn(x, c) IN
    \A s \in {x.name : x \in L.schemas} :
      /\ \A t \in TsTables(L, s) \cup TsViews(L, s) : \A r \in TsRelationships(L, t) :
           related(s, t.name, r.columns) /\ related(s, r.rrelation, r.rcolumns)
      /\ \A fn \in TsFunctions(L, s) :
           /\ fn.set /\ ~ IsArray(L, fn) => EmbedsTo(L, fn) # <<>>
           /\ \A x \in db.rels : x.id = fn.relation /\ x.schema = s =>
                EmbedsTo(L, fn) = x.name /\ related(s, x.name, <<>>)

(* A composite type with an attribute of a foreign table's row type.       *)
HasForeignAttribute(d) ==
  \E t \in d.types : \E i \in DOMAIN t.attrs : \E r \in d.rels :
    r.kind = "foreign" /\ t.attrs[i].type = RowId(r.id)

(* A column, or an attribute, of a type named like a member of             *)
(* Object.prototype.                                                       *)
HasMemberColumn(d) ==
  \E r \in d.rels : \E i \in DOMAIN r.cols : TypeName(d, r.cols[i].type) \in Prototype
HasMemberAttribute(d) ==
  \E t \in d.types : \E i \in DOMAIN t.attrs : \E u \in AllTypes(d) :
    u.id = t.attrs[i].type /\ u.format \in Prototype

SharedNames(d) ==
  \E t, u \in TypesList(d) : t.name = u.name /\ t.id # u.id

(* Generation fails for few databases.  TypeScript: only when a schema or  *)
(* a function is named like a member of Object.prototype.  Go and Swift:   *)
(* only for a composite type with an attribute of a foreign table's row    *)
(* type, and Go for a column or an attribute of a type named like such a   *)
(* member, whatever other sessions do.  Python: for those of Swift, when   *)
(* names are shared by types, when a schema that the role cannot use, or   *)
(* that is temporary, has relations, when a system schema has a            *)
(* materialized view, when the filters contradict each other or ask for a  *)
(* schema of Postgres, or when another session interfered.                 *)
ThrowsOnlyIf ==
  phase = "threw" =>
    CASE language = "typescript" ->
           \E q \in DOMAIN seen :
             \E n \in {x.name : x \in seen[q].schemas \cup seen[q].fns} : n \in Prototype
      [] language = "go" ->
           \/ HasForeignAttribute(seen["types"]) \/ HasMemberAttribute(seen["types"])
           \/ HasMemberColumn(seen["columns"])
      [] language = "swift" -> HasForeignAttribute(seen["types"])
      [] language = "python" ->
           \/ ~ Undisturbed \/ HasForeignAttribute(db) \/ SharedNames(db)
           \/ filter.include \cap (filter.exclude \cup System) # {}
           \/ \E s \in db.schemas : s.temp \/ ~ s.usable
           \/ \E r \in db.rels : r.kind = "matview" /\ r.schema \in System

(* The four languages let an Insert leave out the same columns of a table, *)
(* those that Postgres can fill, of the columns that the role has a        *)
(* privilege on: no other column can be left out, and a column that        *)
(* Postgres fills need not be given.                                       *)
InsertsAgree ==
  phase = "written" /\ Undisturbed =>
    LET L == Lists IN
    \A t \in L.tables : \A r \in {x \in db.rels : x.id = t.id} :
      LET filled == {c.name : c \in {r.cols[i] : i \in {j \in DOMAIN r.cols :
                       /\ SeesColumn(r, r.cols[j])
                       /\ \/ r.cols[j].null \/ r.cols[j].default \/ r.cols[j].generated
                          \/ r.cols[j].identity # "none"}}} IN
      /\ TsInsertOptional(L, t) = filled /\ GoInsertOptional(L, t) = filled
      /\ PyInsertOptional(L, t) = filled /\ SwiftInsertOptional(L, t) = filled

(* Names that the templates cannot tell apart: the words of the schema and *)
(* of the name are joined, and an operation is put behind them.            *)
Confusable(d) ==
  LET objects == {<<r.schema, r.name>> : r \in d.rels} \cup {<<t.schema, t.name>> : t \in d.types} IN
  \/ \E x, y \in objects : x # y /\ Pascal(x[1]) \o Pascal(x[2]) = Pascal(y[1]) \o Pascal(y[2])
  \/ \E x, y \in objects : x[1] = y[1] /\ x # y /\ SwiftName(x[2]) = SwiftName(y[2])
  \/ \E x \in objects :
       LET w == Pascal(x[1]) \o Pascal(x[2]) IN
       w # <<>> /\ w[Len(w)] \in {"select", "insert", "update"}

(* No declaration of Go, Python or Swift is written twice: a name stands   *)
(* for one object and operation, unless the names can be confused or       *)
(* Python borrows one for a schema that is not listed.                     *)
DeclaredOnce ==
  phase = "written" /\ Undisturbed /\ ~ Confusable(db) =>
    LET L == Lists once(D) == \A x, y \in D : x.name = y.name => x = y IN
    /\ language = "go" => once(GoDeclared(L))
    /\ language = "python" /\ (\A t \in PyRelations(L) : ~ Borrowed(L, t.schema)) => once(PyDeclared(L))
    /\ language = "swift" =>
         \A s \in L.schemas : once({x \in SwiftDeclared(L) : x.schema = s.name})

(* An argument has a question mark if, and only if, it may be left out of  *)
(* a call, for the functions whose inputs come before their outputs.       *)
OptionalArgs ==
  Written("typescript") /\ Undisturbed =>
    \A p \in db.fns : \A fn \in {x \in Lists.functions : x.id = p.id} :
      (\A i, j \in DOMAIN p.args : i < j /\ p.args[j].mode \in Input => p.args[i].mode \in Input)
      => Optional(fn) = {i \in DOMAIN p.args : p.args[i].mode \in Input /\
           Cardinality({j \in DOMAIN p.args : j >= i /\ p.args[j].mode \in Input}) <= p.defaults}

(* Python and Swift write references to names that they declare, but for   *)
(* these: Python, a type without labels, attributes or relation, or that   *)
(* of a schema that is not listed or of a table that the role has no       *)
(* privilege on, and Object for a type named like a member of it; Swift,   *)
(* a type of those kinds, a composite type (declared without, referred to  *)
(* with Select), and any type of another schema.                           *)
ReferencesResolve ==
  Undisturbed =>
    LET L == Lists
        unwritten(t) ==
          \/ t.enums = {} /\ t.attributes = <<>> /\ t.relation = 0
          \/ ~ Listed(L, t.schema)
          \/ \E r \in db.rels : r.id = t.relation /\ r.kind = "table" /\ ~ SeesTable(r) IN
    /\ Written("python") =>
         \A n \in PyReferences(L) \ {x.name : x \in PyDeclared(L)} :
           \/ \E t \in L.types : ClassName(t) = n /\ unwritten(t)
           \/ n = <<"Object">> /\ \E t \in AllTypes(db) : Element(t.name) \in Prototype
    /\ Written("swift") =>
         \A x \in SwiftReferences(L) \ {[schema |-> y.schema, name |-> y.name] : y \in SwiftDeclared(L)} :
           \E t \in L.types :
             /\ x.name \in {SwiftName(t.name), SwiftName(t.name) \o <<"select">>}
             /\ unwritten(t) \/ t.attributes # <<>> \/ t.schema # x.schema
=============================================================================
