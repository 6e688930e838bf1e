---------------------------- MODULE Introspection ----------------------------
(***************************************************************************)
(* What the nine list() calls of the type generators read from a database: *)
(* the queries of src/lib/sql with the filters that src/lib/PostgresMeta*  *)
(* give them.  A database d is a record of sets of catalog rows:           *)
(*   schemas  [name, usable, temp]  usable: USAGE or CREATE on it;         *)
(*                                  temp: of another session               *)
(*   rels     [id, schema, name, kind, access, updatable, cols]            *)
(*            access: what the role may do, "columns": it owns the         *)
(*            relation, or has SELECT, INSERT, UPDATE or REFERENCES on all *)
(*            of it; "table": DELETE, TRUNCATE or TRIGGER alone; "none"    *)
(*            cols: sequence of [name, type, origin, granted, null,        *)
(*            default, identity, generated]; origin: the column a view's   *)
(*            column comes from, as <<relation id, column>>, or <<>>;      *)
(*            granted: SELECT, INSERT, UPDATE or REFERENCES on the column  *)
(*   types    [id, schema, name, sql, labels, attrs, array]                *)
(*   fns      [id, schema, name, args, defaults, ret, set, rows]           *)
(*   keys     [name, kind, rel, cols, ref, refcols], in column order       *)
(* A name is a sequence of words and separators, of which the dash and the *)
(* dot stand for all that Postgres quotes.  Postgres makes a row type for  *)
(* each relation, with its name, and an array type for each type, with an  *)
(* underscore before it.                                                   *)
(***************************************************************************)
EXTENDS Naturals, Sequences, FiniteSets, SequencesExt

Separator == "_"
Quoted == {"-", "."}
Separators == {Separator} \cup Quoted

(* A name without the array prefix.  The templates drop one underscore and *)
(* call themselves on the rest, whatever the type is.                      *)
Element(n) ==
  LET words == {i \in DOMAIN n : n[i] # Separator} IN
  IF words = {} THEN <<>>
  ELSE SubSeq(n, CHOOSE i \in words : \A j \in words : i <= j, Len(n))

(* The words of a name.                                                    *)
Words(n) == FoldLeft(LAMBDA words, w : IF w \in Separators THEN words ELSE Append(words, w), <<>>, n)

(* The names that are members of every object of JavaScript: `in` finds    *)
(* them in any {}.                                                         *)
Prototype == {<<"constructor">>}

(* How Postgres writes a name as text, and a schema's as regnamespace.     *)
Quote(n) ==
  IF \E i \in DOMAIN n : n[i] \in Quoted THEN <<"quote">> \o n \o <<"quote">> ELSE n

(* DEFAULT_SYSTEM_SCHEMAS                                                  *)
System == {<<"information", Separator, "schema">>, <<"pg", Separator, "catalog">>,
           <<"pg", Separator, "toast">>}

Temporary(d, s) == \E x \in d.schemas : x.name = s /\ x.temp
Internal(s) == Len(s) > 1 /\ s[1] = "pg" /\ s[2] = Separator

(* filterByList: an include list stands alone, whatever is excluded.       *)
FilterByList(f, default, s) ==
  IF f.include # {} THEN s \in f.include ELSE s \notin f.exclude \cup default

(* Most lists exclude the system schemas by default.                       *)
Passes(f, s) == FilterByList(f, System, s)

-------------------------------------------------------------------------------
(* Types: the base types, enums and composites of d.types, the row type of *)
(* each relation and the array type of each of them.                       *)

RowId(id) == 100 + id
ArrayId(id) == 10000 + id

(* The pg_class row that a composite type has too.                         *)
CompositeRelation(id) == 500 + id

(* format_type(): the SQL name of a base type; a type outside the search   *)
(* path is qualified.                                                      *)
Format(s, n) == IF s = <<"public">> THEN Quote(n) ELSE Quote(s) \o <<".">> \o Quote(n)

ElementTypes(d) ==
  {[id |-> t.id, name |-> t.name, schema |-> t.schema,
    format |-> IF t.sql = <<>> THEN Format(t.schema, t.name) ELSE t.sql,
    enums |-> t.labels, attributes |-> t.attrs,
    relation |-> IF t.attrs = <<>> THEN 0 ELSE CompositeRelation(t.id)] : t \in d.types}
  \cup
  {[id |-> RowId(r.id), name |-> r.name, schema |-> r.schema,
    format |-> Format(r.schema, r.name), enums |-> {}, attributes |-> <<>>,
    relation |-> r.id] : r \in d.rels}

(* An array type has no labels, attributes or relation of its own.         *)
ArrayOf(t) ==
  [id |-> ArrayId(t.id), name |-> <<Separator>> \o t.name, schema |-> t.schema,
   format |-> t.format \o <<"[]">>, enums |-> {}, attributes |-> <<>>, relation |-> 0]

AllTypes(d) == ElementTypes(d) \cup {ArrayOf(t) : t \in ElementTypes(d)}

(* Mutant: types.list() is not asked for the row types.                    *)
TypesListNoTables(d) ==
  LET E == {t \in ElementTypes(d) : t.relation = 0 \/ t.attributes # <<>>} IN
  E \cup {ArrayOf(t) : t \in E}

Foreign(d, id) == \E r \in d.rels : r.id = id /\ r.kind = "foreign"

(* TYPES_SQL with table types, array types and system schemas: every type  *)
(* but the row types of foreign tables (relkind 'f' is not in the list).   *)
TypesList(d) ==
  {t \in ElementTypes(d) : ~ Foreign(d, t.relation)} \cup {ArrayOf(t) : t \in ElementTypes(d)}

TypeName(d, id) == (CHOOSE t \in AllTypes(d) : t.id = id).name

-------------------------------------------------------------------------------
(* Schemas, relations and columns.                                         *)

(* SCHEMAS_SQL: not the pg_ ones, and only those the role may use.         *)
SchemasList(d, f) ==
  {s \in d.schemas : Passes(f, s.name) /\ ~ Internal(s.name) /\ s.usable}

Relations(d, kind) ==
  {[id |-> r.id, schema |-> r.schema, name |-> r.name, updatable |-> r.updatable] :
     r \in {x \in d.rels : x.kind = kind}}

(* A privilege on the relation, or on a column of it.                      *)
SeesTable(r) == r.access # "none" \/ \E i \in DOMAIN r.cols : r.cols[i].granted

(* A privilege on the column, by itself or with all the others.            *)
SeesColumn(r, c) == r.access = "columns" \/ c.granted

(* TABLES_SQL: the tables the role has some privilege on, and not those of *)
(* another session; FOREIGN_TABLES_SQL, VIEWS_SQL and                      *)
(* MATERIALIZED_VIEWS_SQL filter by schema only.                           *)
TablesList(d, f) ==
  {t \in Relations(d, "table") :
     /\ Passes(f, t.schema) /\ ~ Temporary(d, t.schema)
     /\ \E r \in d.rels : r.id = t.id /\ SeesTable(r)}

ViewsList(d, f) == {v \in Relations(d, "view") : Passes(f, v.schema)}

(* These two exclude no schemas by default.                                *)
ForeignTablesList(d, f) == {t \in Relations(d, "foreign") : FilterByList(f, {}, t.schema)}
MaterializedViewsList(d, f) ==
  {[v EXCEPT !.updatable = FALSE] :
     v \in {x \in Relations(d, "matview") : FilterByList(f, {}, x.schema)}}

(* COLUMNS_SQL: those that the role has a privilege on.  `format` is the   *)
(* type's name alone, without its schema.                                  *)
ColumnsList(d, f) ==
  UNION {{[table_id |-> r.id, schema |-> r.schema, name |-> r.cols[i].name,
           format |-> TypeName(d, r.cols[i].type),
           nullable |-> r.cols[i].null,
           default |-> r.cols[i].default \/ r.cols[i].generated,
           identity |-> r.cols[i].identity, generated |-> r.cols[i].generated] :
          i \in {j \in DOMAIN r.cols : SeesColumn(r, r.cols[j])}} :
         r \in {x \in d.rels : Passes(f, x.schema) /\ ~ Temporary(d, x.schema)}}

-------------------------------------------------------------------------------
(* Functions.                                                              *)

Input == {"in", "inout", "variadic"}
Inputs(fn) == {i \in DOMAIN fn.args : fn.args[i].mode \in Input}

(* Mutant: the last arguments are the ones with a default.                 *)
HasDefaultLast(fn, i) == i > Len(fn.args) - fn.defaults

(* FUNCTIONS_SQL: arg_has_defaults has an entry per input argument, and is *)
(* unnested beside arg_modes, which has one per argument: the entry of the *)
(* i-th argument is that of the i-th input one, and null past the last.    *)
HasDefault(fn, i) ==
  /\ i <= Cardinality(Inputs(fn))
  /\ i > Cardinality(Inputs(fn)) - fn.defaults

ArgsOf(fn) ==
  [i \in DOMAIN fn.args |->
     [mode |-> fn.args[i].mode, name |-> fn.args[i].name, type |-> fn.args[i].type,
      has_default |-> HasDefault(fn, i)]]

(* pg_get_function_arguments() as far as the templates compare it: it has  *)
(* no columns of RETURNS TABLE, a lone unnamed input is written as its     *)
(* type, anything else is no type name.                                    *)
ArgumentTypes(d, fn) ==
  LET args == SelectSeq(fn.args, LAMBDA a : a.mode # "table") IN
  IF Len(args) = 1 /\ args[1].mode = "in" /\ args[1].name = "" /\ fn.defaults = 0
  THEN (CHOOSE t \in AllTypes(d) : t.id = args[1].type).format
  ELSE <<>>

RelationOf(d, type) ==
  IF \E r \in d.rels : RowId(r.id) = type THEN type - 100
  ELSE IF \E t \in d.types : t.id = type /\ t.attrs # <<>> THEN CompositeRelation(type) ELSE 0

(* The generators drop the trigger functions.  prorows is 0 for none.      *)
FunctionsList(d, f) ==
  {[id |-> p.id, schema |-> p.schema, name |-> p.name, args |-> ArgsOf(p),
    argument_types |-> ArgumentTypes(d, p), ret |-> p.ret,
    relation |-> RelationOf(d, p.ret), set |-> p.set, rows |-> p.rows] :
     p \in {q \in d.fns : Passes(f, q.schema) /\ ~ q.trigger}}

-------------------------------------------------------------------------------
(* The databases that Postgres keeps.                                      *)

IsName(n) == n \in Seq(ToSet(n)) /\ n # <<>>
Names(S) == {x.name : x \in S}
TypeIds(d) == {t.id : t \in AllTypes(d)}
ColumnNames(r) == {r.cols[i].name : i \in DOMAIN r.cols}

UniqueIds(d) ==
  /\ \A r, s \in d.rels : r.id = s.id => r = s
  /\ \A t, u \in AllTypes(d) : t.id = u.id => t = u
  /\ \A p, q \in d.fns : p.id = q.id => p = q
  /\ \A r \in d.rels : /\ r.id \in Nat
                        /\ r.id \notin {0} \cup {CompositeRelation(t.id) : t \in d.types}

(* Names are unique: of schemas, of relations and of types in a schema, of *)
(* the constraints of a table.  Only Postgres makes pg_ schemas.           *)
UniqueNames(d) ==
  /\ \A s \in d.schemas \cup d.rels \cup d.types \cup d.fns : IsName(s.name)
  /\ \A s, x \in d.schemas : s.name = x.name => s = x
  /\ \A s \in d.schemas : /\ s.temp => Internal(s.name)
                          /\ Internal(s.name) => s.temp \/ s.name \in System
  /\ \A t, u \in AllTypes(d) : t.schema = u.schema /\ t.name = u.name => t = u
  /\ \A h, k \in d.keys : h.rel = k.rel /\ h.name = k.name => h = k

(* What a statement refers to is there, and is not dropped while it is.    *)
References(d) ==
  /\ \A x \in d.rels \cup d.types \cup d.fns : x.schema \in Names(d.schemas)
  /\ \A r \in d.rels : \A i \in DOMAIN r.cols :
       /\ r.cols[i].type \in TypeIds(d)
       /\ r.cols[i].origin # <<>> => \E x \in d.rels :
            x.id = r.cols[i].origin[1] /\ r.cols[i].origin[2] \in ColumnNames(x)
  /\ \A t \in d.types : \A i \in DOMAIN t.attrs : t.attrs[i].type \in TypeIds(d)
  /\ \A p \in d.fns : {p.ret} \cup {p.args[i].type : i \in DOMAIN p.args} \subseteq TypeIds(d)
  /\ \A k \in d.keys : \E r \in d.rels : r.id = k.rel /\ ToSet(k.cols) \subseteq ColumnNames(r)
  /\ \A k \in d.keys : k.kind = "f" =>
       /\ \E r \in d.rels : r.id = k.ref /\ ToSet(k.refcols) \subseteq ColumnNames(r)
       /\ Len(k.cols) = Len(k.refcols)

LegalDatabase(d) ==
  /\ UniqueIds(d) /\ UniqueNames(d) /\ References(d)
  /\ \A r \in d.rels : /\ r.kind \in {"table", "view", "matview", "foreign"}
                        /\ r.access \in {"columns", "table", "none"}
                        /\ r.cols \in Seq(ToSet(r.cols))
  /\ \A t \in d.types : t.labels = {} \/ t.attrs = <<>>
  /\ \A p \in d.fns : p.args \in Seq(ToSet(p.args)) /\ p.defaults \in 0 .. Cardinality(Inputs(p))
  /\ \A k \in d.keys :
       /\ k.kind \in {"p", "u", "f"} /\ k.cols \in Seq(ToSet(k.cols)) \ {<<>>}
       /\ k.refcols \in Seq(ToSet(k.refcols))
=============================================================================
