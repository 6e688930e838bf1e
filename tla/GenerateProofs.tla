--------------------------- MODULE GenerateProofs ---------------------------
(***************************************************************************)
(* Proofs about Generate, for every set of legal databases, every filter   *)
(* and every interleaving of statements of other sessions: what the four   *)
(* templates refer to is declared, a column has its type, an Insert and a  *)
(* call leave out what Postgres fills, no name is declared twice, the      *)
(* relationships are exact and name what is written, and generation throws *)
(* in the named cases only.                                                *)
(*                                                                         *)
(* The invariant is that all the databases ever seen are legal and that    *)
(* nothing is written before all ten queries were made; the rest is about  *)
(* what the list operators and the templates make of a legal database.     *)
(***************************************************************************)
EXTENDS Generate, FiniteSetTheorems, FunctionTheorems, SequenceTheorems, TLAPS

-------------------------------------------------------------------------------
(* The order of the queries, and the invariant.                            *)

(* Of ListFolds, only the induction is used here.                         *)
NoOp(k, acc, elem) == acc
Induction == INSTANCE ListFolds WITH Op <- NoOp

AllQueries == {"schemas", "tables", "foreignTables", "views", "materializedViews", "columns",
               "keys", "dependencies", "functions", "types"}

(* The nine lists are ten queries.                                         *)
LEMMA TenQueries == IsFiniteSet(AllQueries) /\ Cardinality(AllQueries) = 10
<1> DEFINE Q1 == {"schemas"}
           Q2 == Q1 \cup {"tables"}
           Q3 == Q2 \cup {"foreignTables"}
           Q4 == Q3 \cup {"views"}
           Q5 == Q4 \cup {"materializedViews"}
           Q6 == Q5 \cup {"columns"}
           Q7 == Q6 \cup {"keys"}
           Q8 == Q7 \cup {"dependencies"}
           Q9 == Q8 \cup {"functions"}
           Q10 == Q9 \cup {"types"}
<1>1. IsFiniteSet(Q1) /\ Cardinality(Q1) = 1
  BY FS_Singleton
<1>2. IsFiniteSet(Q2) /\ Cardinality(Q2) = 2
  BY <1>1, FS_AddElement
<1>3. IsFiniteSet(Q3) /\ Cardinality(Q3) = 3
  BY <1>2, FS_AddElement
<1>4. IsFiniteSet(Q4) /\ Cardinality(Q4) = 4
  BY <1>3, FS_AddElement
<1>5. IsFiniteSet(Q5) /\ Cardinality(Q5) = 5
  BY <1>4, FS_AddElement
<1>6. IsFiniteSet(Q6) /\ Cardinality(Q6) = 6
  BY <1>5, FS_AddElement
<1>7. IsFiniteSet(Q7) /\ Cardinality(Q7) = 7
  BY <1>6, FS_AddElement
<1>8. IsFiniteSet(Q8) /\ Cardinality(Q8) = 8
  BY <1>7, FS_AddElement
<1>9. IsFiniteSet(Q9) /\ Cardinality(Q9) = 9
  BY <1>8, FS_AddElement
<1>10. IsFiniteSet(Q10) /\ Cardinality(Q10) = 10
  BY <1>9, FS_AddElement
<1>11. AllQueries = Q10
  BY DEF AllQueries
<1>12. QED
  BY <1>10, <1>11

(* Both ways to generate make each of the ten queries once.                *)
LEMMA OrderComplete ==
  ASSUME NEW m
  PROVE  /\ DOMAIN Order(m) = 1 .. 10
         /\ \A i \in 1 .. 10 : Order(m)[i] \in AllQueries
         /\ \A q \in AllQueries : \E i \in 1 .. 10 : Order(m)[i] = q
<1>1. CASE m = "route"
  BY <1>1 DEF Order, Queries, AllQueries
<1>2. CASE m # "route"
  BY <1>2 DEF Order, AllQueries
<1>3. QED
  BY <1>1, <1>2

(* While fewer than ten were made, the next one is one of the ten          *)
(* (NextQuery chooses from an order that still has one left).              *)
LEMMA NextIsQuery ==
  ASSUME Made \subseteq AllQueries, Cardinality(Made) < 10
  PROVE  NextQuery \in AllQueries
<1> DEFINE o == Order(mode)
           T == {i \in 1 .. 10 : o[i] \notin Made}
<1>1. Made # AllQueries
  BY TenQueries
<1>2. PICK q \in AllQueries : q \notin Made
  BY <1>1
<1>3. T # {}
  BY <1>2, OrderComplete
<1>4. PICK n \in T : \A m \in T : n <= m
  <2>1. T \subseteq Nat
    OBVIOUS
  <2>2. QED
    BY <1>3, <2>1, Induction!Least
<1>5. \A j \in 1 .. n - 1 : o[j] \in Made
  <2>1. n \in 1 .. 10
    OBVIOUS
  <2>2. QED
    BY <1>4, <2>1
<1>6. n \in DOMAIN o /\ o[n] \notin Made
  BY OrderComplete
<1> HIDE DEF o, T
<1>7. (CHOOSE i \in DOMAIN o : o[i] \notin Made /\ \A j \in 1 .. i - 1 : o[j] \in Made) \in DOMAIN o
  BY <1>5, <1>6
<1>8. QED
  BY <1>7, OrderComplete DEF NextQuery, o

GenerateInv ==
  /\ LegalDatabase(db)
  /\ \A q \in DOMAIN seen : LegalDatabase(seen[q])
  /\ Made \subseteq AllQueries
  /\ phase \in {"written", "threw"} => DOMAIN seen = AllQueries
  /\ phase = "threw" => language \in Language /\ MayThrow(language, Lists)

(* Every database that a query saw is one that Postgres keeps, whatever    *)
(* the other sessions did; a template is applied only after all ten        *)
(* queries succeeded; and a generation that threw had a reason in the      *)
(* lists (getGeneratorMetadata, then apply()).                             *)
THEOREM GenerateInvariant == Spec => []GenerateInv
<1>1. Init => GenerateInv
  BY DatabasesAssumption DEF Init, GenerateInv, Made
<1>2. GenerateInv /\ [Next]_generateVars => GenerateInv'
  <2> SUFFICES ASSUME GenerateInv, [Next]_generateVars PROVE GenerateInv'
    OBVIOUS
  <2>1. CASE Read
    <3>1. NextQuery \in AllQueries
      BY <2>1, NextIsQuery DEF Read, GenerateInv
    <3>2. DOMAIN seen' = DOMAIN seen \cup {NextQuery}
      BY <2>1 DEF Read
    <3>3. ASSUME NEW q \in DOMAIN seen' PROVE LegalDatabase(seen'[q])
      <4>1. seen'[q] \in {db} \cup {seen[p] : p \in DOMAIN seen}
        BY <2>1 DEF Read
      <4>2. QED
        BY <4>1 DEF GenerateInv
    <3>4. Made' \subseteq AllQueries
      BY <2>1, <3>1, <3>2 DEF Read, Made, GenerateInv
    <3>5. QED
      BY <2>1, <3>3, <3>4 DEF Read, GenerateInv
  <2>2. CASE FailRoute
    <3>1. NextQuery \in AllQueries
      BY <2>2, NextIsQuery DEF FailRoute, GenerateInv
    <3>2. QED
      BY <2>2, <3>1 DEF FailRoute, GenerateInv, Made
  <2>3. CASE FailProcess
    <3>1. NextQuery \in AllQueries
      BY <2>3, NextIsQuery DEF FailProcess, GenerateInv
    <3>2. {"keys", "dependencies"} \subseteq AllQueries
      BY DEF AllQueries
    <3>3. failed' \subseteq failed \cup AllQueries
      BY <2>3, <3>1, <3>2 DEF FailProcess
    <3>4. QED
      BY <2>3, <3>3 DEF FailProcess, GenerateInv, Made
  <2>4. CASE ProcessError
    BY <2>4 DEF ProcessError, GenerateInv, Made
  <2>5. ASSUME NEW l \in Language, Write(l) PROVE GenerateInv'
    <3>1. DOMAIN seen = AllQueries
      <4>1. Made = DOMAIN seen /\ Cardinality(Made) = 10
        BY <2>5 DEF Write, Made
      <4>2. Made \in SUBSET AllQueries
        BY DEF GenerateInv
      <4>3. QED
        BY <4>1, <4>2, TenQueries, FS_Subset
    <3>2. Lists' = Lists
      BY <2>5 DEF Write, Lists, KeptSchemas, ListFilter
    <3>3. phase' = "threw" => language' = l /\ MayThrow(l, Lists)
      BY <2>5 DEF Write
    <3>4. phase' = "threw" => language' \in Language /\ MayThrow(language', Lists')
      BY <3>2, <3>3
    <3>5. (language \in Language /\ MayThrow(language, Lists))' <=> language' \in Language /\ MayThrow(language', Lists')
      BY <3>2 DEF Language, MayThrow
    <3>6. QED
      BY <2>5, <3>1, <3>4, <3>5 DEF Write, GenerateInv, Made
  <2>6. CASE Elsewhere
    <3>1. LegalDatabase(db')
      BY <2>6 DEF Elsewhere, Changed
    <3>2. QED
      BY <2>6, <3>1 DEF Elsewhere, GenerateInv, Made
  <2>7. CASE UNCHANGED generateVars
    <3>1. Lists' = Lists
      BY <2>7 DEF generateVars, Lists, KeptSchemas, ListFilter
    <3>2. (language \in Language /\ MayThrow(language, Lists))' <=> language \in Language /\ MayThrow(language, Lists)
      BY <2>7, <3>1 DEF Language, MayThrow, generateVars
    <3>3. QED
      BY <2>7, <3>2 DEF generateVars, GenerateInv, Made
  <2>8. QED
    BY <2>1, <2>2, <2>3, <2>4, <2>5, <2>6, <2>7 DEF Next
<1>3. QED
  BY <1>1, <1>2, PTL DEF Spec

-------------------------------------------------------------------------------
(* The lists of a database that nobody disturbs; what an Insert may leave out. *)

(* The lists, when all the queries saw database d.                         *)
ListsOf(d) ==
  [schemas |-> KeptSchemas(SchemasList(d, ListFilter)),
   tables |-> TablesList(d, filter),
   foreignTables |-> ForeignTablesList(d, filter),
   views |-> ViewsList(d, filter),
   materializedViews |-> MaterializedViewsList(d, filter),
   columns |-> ColumnsList(d, filter),
   relationships |-> RelationshipsList(TableRelationships(d, ListFilter), KeyDependencies(d, ListFilter)),
   functions |-> FunctionsList(d, filter),
   types |-> TypesList(d)]

(* When nobody interfered, the lists are those of the database.            *)
LEMMA UndisturbedLists ==
  ASSUME GenerateInv, phase \in {"written", "threw"}, Undisturbed
  PROVE  Lists = ListsOf(db)
<1>1. \A q \in AllQueries : seen[q] = db
  BY DEF GenerateInv, Undisturbed
<1>2. /\ seen["schemas"] = db /\ seen["tables"] = db /\ seen["foreignTables"] = db
      /\ seen["views"] = db /\ seen["materializedViews"] = db /\ seen["columns"] = db
      /\ seen["keys"] = db /\ seen["dependencies"] = db /\ seen["functions"] = db
      /\ seen["types"] = db
  BY <1>1 DEF AllQueries
<1>3. QED
  BY <1>2 DEF Lists, ListsOf

ColumnOf(d, r, i) ==
  [table_id |-> r.id, schema |-> r.schema, name |-> r.cols[i].name,
   format |-> TypeName(d, r.cols[i].type), nullable |-> r.cols[i].null,
   default |-> r.cols[i].default \/ r.cols[i].generated,
   identity |-> r.cols[i].identity, generated |-> r.cols[i].generated]

Readable(d, f, r) == Passes(f, r.schema) /\ ~ Temporary(d, r.schema)

(* The columns listed for a relation are those that the role has a         *)
(* privilege on, or none.                                                  *)
LEMMA RelationColumns ==
  ASSUME NEW d, NEW f, UniqueIds(d), NEW r \in d.rels
  PROVE  {c \in ColumnsList(d, f) : c.table_id = r.id} =
           {ColumnOf(d, r, i) : i \in {j \in DOMAIN r.cols : Readable(d, f, r) /\ SeesColumn(r, r.cols[j])}}
<1>1. \A c : c \in ColumnsList(d, f) <=>
        \E x \in d.rels : Readable(d, f, x) /\ \E i \in DOMAIN x.cols :
          SeesColumn(x, x.cols[i]) /\ c = ColumnOf(d, x, i)
  BY DEF ColumnsList, Readable, ColumnOf
<1>2. \A x, i : ColumnOf(d, x, i).table_id = x.id
  BY DEF ColumnOf
<1>3. \A x \in d.rels : x.id = r.id => x = r
  BY DEF UniqueIds
<1>4. QED
  BY <1>1, <1>2, <1>3

(* A relation in a list of relations is one of the database.               *)
LEMMA RelationListed ==
  ASSUME NEW d, NEW kind, NEW t \in Relations(d, kind)
  PROVE  \E r \in d.rels :
           /\ r.kind = kind
           /\ t.id = r.id /\ t.schema = r.schema /\ t.name = r.name
BY DEF Relations

(* A table in the list can be read, and some of it at least is granted.    *)
LEMMA TableReadable ==
  ASSUME NEW d, NEW f, UniqueIds(d), NEW t \in TablesList(d, f), NEW r \in d.rels, r.id = t.id
  PROVE  Readable(d, f, r) /\ SeesTable(r)
<1>1. /\ t \in Relations(d, "table") /\ Passes(f, t.schema) /\ ~ Temporary(d, t.schema)
      /\ \E x \in d.rels : x.id = t.id /\ SeesTable(x)
  BY DEF TablesList
<1>2. PICK x \in d.rels : SeesTable(x) /\ x.id = r.id
  BY <1>1
<1>3. PICK y \in d.rels : t.id = y.id /\ t.schema = y.schema
  BY <1>1, RelationListed
<1>4. x = r /\ y = r
  BY <1>2, <1>3 DEF UniqueIds
<1>5. QED
  BY <1>1, <1>2, <1>3, <1>4 DEF Readable

Filled(r, j) ==
  \/ r.cols[j].null \/ r.cols[j].default \/ r.cols[j].generated
  \/ r.cols[j].identity # "none"
FilledColumn(c) == c.nullable \/ c.identity # "none" \/ c.generated \/ c.default

(* An optional column is one that is filled; a generated one has a default.*)
LEMMA FilledIsOptional ==
  ASSUME NEW d, NEW r, NEW i, NEW c, c = ColumnOf(d, r, i)
  PROVE  /\ FilledColumn(c) <=> Filled(r, i)
         /\ c.generated => c.default
         /\ c.name = r.cols[i].name
BY DEF ColumnOf, Filled, FilledColumn

(* InsertsAgree: the four templates let an Insert leave out the same       *)
(* columns of a table, those that Postgres fills.                          *)
THEOREM InsertsAlwaysAgree == Spec => []InsertsAgree
<1>1. GenerateInv => InsertsAgree
  <2> SUFFICES ASSUME GenerateInv, phase = "written", Undisturbed,
                      NEW t \in Lists.tables, NEW r \in {x \in db.rels : x.id = t.id}
               PROVE  LET filled == {c.name : c \in {r.cols[i] : i \in {j \in DOMAIN r.cols :
                             /\ SeesColumn(r, r.cols[j])
                             /\ \/ r.cols[j].null \/ r.cols[j].default \/ r.cols[j].generated
                                \/ r.cols[j].identity # "none"}}} IN
                      /\ TsInsertOptional(Lists, t) = filled /\ GoInsertOptional(Lists, t) = filled
                      /\ PyInsertOptional(Lists, t) = filled /\ SwiftInsertOptional(Lists, t) = filled
    BY DEF InsertsAgree
  <2> DEFINE L == Lists
             C == {c \in L.columns : c.table_id = t.id}
             O == {c.name : c \in {x \in C : FilledColumn(x)}}
  <2>1. UniqueIds(db)
    BY DEF GenerateInv, LegalDatabase
  <2>2. L.tables = TablesList(db, filter) /\ L.columns = ColumnsList(db, filter)
    BY UndisturbedLists DEF ListsOf
  <2>3. Readable(db, filter, r)
    BY <2>1, <2>2, TableReadable
  <2>4. C = {ColumnOf(db, r, i) : i \in {j \in DOMAIN r.cols : SeesColumn(r, r.cols[j])}}
    BY <2>1, <2>2, <2>3, RelationColumns
  <2> HIDE DEF L, C
  <2>5. \A c \in C : c.generated => c.default
    BY <2>4, FilledIsOptional
  <2>6. ColumnsOf(L, t.id) = C /\ PyColumns(L, t.id) = C /\ SwiftColumns(L, t.id) = C
    BY DEF ColumnsOf, PyColumns, SwiftColumns, C
  <2>7. TsInsertOptional(L, t) = O
    <3>1. \A c \in C : FilledColumn(c) <=>
            c.identity = "always" \/ c.nullable \/ c.identity # "none" \/ c.default
      BY <2>5 DEF FilledColumn
    <3>2. QED
      BY <2>6, <3>1 DEF TsInsertOptional
  <2>8. GoInsertOptional(L, t) = O
    <3>1. GoInsertOptional(L, t) = {c.name : c \in {x \in C :
                                     x.nullable \/ x.identity # "none" \/ x.generated \/ x.default}}
      BY DEF GoInsertOptional, C
    <3>2. QED
      BY <3>1 DEF FilledColumn
  <2>9. PyInsertOptional(L, t) = O
    <3>1. \A c \in C : FilledColumn(c) <=> c.nullable \/ c.identity # "none" \/ c.default
      BY <2>5 DEF FilledColumn
    <3>2. QED
      BY <2>6, <3>1 DEF PyInsertOptional
  <2>10. SwiftInsertOptional(L, t) = O
    BY <2>6 DEF SwiftInsertOptional, FilledColumn
  <2>11. O = {c.name : c \in {r.cols[i] : i \in {j \in DOMAIN r.cols : SeesColumn(r, r.cols[j]) /\ Filled(r, j)}}}
    <3>1. \A n : n \in O <=> \E c \in C : FilledColumn(c) /\ n = c.name
      OBVIOUS
    <3>2. \A n : n \in O <=> \E i \in DOMAIN r.cols : SeesColumn(r, r.cols[i]) /\ Filled(r, i) /\ n = r.cols[i].name
      BY <2>4, <3>1, FilledIsOptional
    <3> HIDE DEF O
    <3>3. QED
      BY <3>2
  <2> HIDE DEF O
  <2>12. QED
    BY <2>7, <2>8, <2>9, <2>10, <2>11 DEF Filled, L
<1>2. QED
  BY <1>1, GenerateInvariant, PTL

-------------------------------------------------------------------------------
(* The arguments that a call may leave out.                                *)

(* A set of numbers up to n that has every number below one of its own is  *)
(* the first ones, as many as it has members.                              *)
LEMMA FirstNumbers ==
  ASSUME NEW n \in Nat, NEW S \in SUBSET (1 .. n),
         \A i, j \in 1 .. n : i < j /\ j \in S => i \in S
  PROVE  Cardinality(S) \in Nat /\ S = 1 .. Cardinality(S)
<1>1. CASE S = {}
  <2>1. Cardinality(S) = 0
    BY <1>1, FS_EmptySet
  <2>2. QED
    BY <1>1, <2>1
<1>2. CASE S # {}
  <2>1. \E m \in S : \A i \in S : i <= m
    BY <1>2, Induction!Greatest
  <2>2. PICK m \in S : \A i \in S : i <= m
    BY <2>1
  <2>3. m \in 1 .. n /\ m \in Int
    OBVIOUS
  <2>4. S = 1 .. m
    <3>1. S \subseteq 1 .. m
      BY <2>2
    <3>2. ASSUME NEW i \in 1 .. m PROVE i \in S
      <4>1. i \in 1 .. n /\ (i < m \/ i = m)
        BY <2>3
      <4>2. QED
        BY <2>3, <4>1
    <3>3. QED
      BY <3>1, <3>2
  <2>5. Cardinality(S) = m
    BY <2>3, <2>4, FS_Interval
  <2>6. QED
    BY <2>3, <2>4, <2>5
<1>3. QED
  BY <1>1, <1>2

(* A function of the list is one of the database, with its arguments.      *)
LEMMA FunctionListed ==
  ASSUME NEW d, NEW f, UniqueIds(d), NEW p \in d.fns, NEW fn \in FunctionsList(d, f), fn.id = p.id
  PROVE  fn.args = ArgsOf(p)
<1>1. PICK q \in d.fns : fn.id = q.id /\ fn.args = ArgsOf(q)
  BY DEF FunctionsList
<1>2. q = p
  BY <1>1 DEF UniqueIds
<1>3. QED
  BY <1>1, <1>2

InputsFirst(p) ==
  \A i, j \in DOMAIN p.args : i < j /\ p.args[j].mode \in Input => p.args[i].mode \in Input

(* The last `defaults` inputs are those with a default.                    *)
LEMMA DefaultsLast ==
  ASSUME NEW p, p.args \in Seq(ToSet(p.args)), p.defaults \in Nat, InputsFirst(p),
         NEW i \in Inputs(p)
  PROVE  HasDefault(p, i) <=>
           Cardinality({j \in DOMAIN p.args : j >= i /\ p.args[j].mode \in Input}) <= p.defaults
<1> DEFINE n == Len(p.args)
           S == Inputs(p)
           c == Cardinality(S)
<1>1. n \in Nat /\ DOMAIN p.args = 1 .. n
  OBVIOUS
<1>2. S \in SUBSET (1 .. n) /\ \A k, j \in 1 .. n : k < j /\ j \in S => k \in S
  BY <1>1 DEF Inputs, InputsFirst
<1>3. c \in Nat /\ S = 1 .. c
  BY <1>1, <1>2, FirstNumbers
<1> HIDE DEF c
<1>4. i \in 1 .. c
  BY <1>3
<1>5. {j \in DOMAIN p.args : j >= i /\ p.args[j].mode \in Input} = {j \in S : j >= i}
  BY DEF Inputs
<1> HIDE DEF S, n
<1>6. {j \in S : j >= i} = i .. c
  BY <1>3, <1>4
<1>7. Cardinality(i .. c) = c - i + 1
  BY <1>3, <1>4, FS_Interval
<1>8. HasDefault(p, i) <=> i <= c /\ i > c - p.defaults
  BY DEF HasDefault, c, S
<1>9. Cardinality({j \in DOMAIN p.args : j >= i /\ p.args[j].mode \in Input}) = c - i + 1
  BY <1>5, <1>6, <1>7
<1>10. QED
  BY <1>3, <1>4, <1>8, <1>9

(* OptionalArgs: an argument is written with a question mark if, and only  *)
(* if, a call may leave it out, though the query unnests the defaults of   *)
(* the inputs beside the modes of all arguments.                           *)
THEOREM ArgsAlwaysOptional == Spec => []OptionalArgs
<1>1. GenerateInv => OptionalArgs
  <2> SUFFICES ASSUME GenerateInv, phase = "written", Undisturbed,
                      NEW p \in db.fns, NEW fn \in {x \in Lists.functions : x.id = p.id},
                      \A i, j \in DOMAIN p.args : i < j /\ p.args[j].mode \in Input => p.args[i].mode \in Input
               PROVE  Optional(fn) = {i \in DOMAIN p.args : p.args[i].mode \in Input /\
                        Cardinality({j \in DOMAIN p.args : j >= i /\ p.args[j].mode \in Input}) <= p.defaults}
    BY DEF OptionalArgs, Written
  <2>1. UniqueIds(db) /\ p.args \in Seq(ToSet(p.args)) /\ p.defaults \in 0 .. Cardinality(Inputs(p))
    BY DEF GenerateInv, LegalDatabase
  <2>2. fn.args = ArgsOf(p)
    <3>1. fn \in FunctionsList(db, filter)
      BY UndisturbedLists DEF ListsOf
    <3>2. QED
      BY <2>1, <3>1, FunctionListed
  <2>3. DOMAIN fn.args = DOMAIN p.args
    BY <2>2 DEF ArgsOf
  <2>4. \A i \in DOMAIN p.args : fn.args[i].mode = p.args[i].mode /\ (fn.args[i].has_default <=> HasDefault(p, i))
    BY <2>2 DEF ArgsOf
  <2>5. Optional(fn) = {i \in DOMAIN p.args : p.args[i].mode \in Input /\ HasDefault(p, i)}
    BY <2>3, <2>4 DEF Optional
  <2>6. \A i \in DOMAIN p.args : p.args[i].mode \in Input =>
          (HasDefault(p, i) <=>
             Cardinality({j \in DOMAIN p.args : j >= i /\ p.args[j].mode \in Input}) <= p.defaults)
    <3>1. p.defaults \in Nat /\ InputsFirst(p)
      BY <2>1 DEF InputsFirst
    <3>2. \A i \in DOMAIN p.args : p.args[i].mode \in Input => i \in Inputs(p)
      BY DEF Inputs
    <3>3. QED
      BY <2>1, <3>1, <3>2, DefaultsLast
  <2>7. QED
    BY <2>5, <2>6
<1>2. QED
  BY <1>1, GenerateInvariant, PTL

-------------------------------------------------------------------------------
(* The types in the list, and when a template throws.                      *)

(* The members of ElementTypes.                                            *)
ElementOf(t) ==
  [id |-> t.id, name |-> t.name, schema |-> t.schema,
   format |-> IF t.sql = <<>> THEN Format(t.schema, t.name) ELSE t.sql,
   enums |-> t.labels, attributes |-> t.attrs,
   relation |-> IF t.attrs = <<>> THEN 0 ELSE CompositeRelation(t.id)]
RowOf(r) ==
  [id |-> RowId(r.id), name |-> r.name, schema |-> r.schema,
   format |-> Format(r.schema, r.name), enums |-> {}, attributes |-> <<>>, relation |-> r.id]

(* A type is one of d.types, the row type of a relation or an array type.  *)
LEMMA TypeCases ==
  ASSUME NEW d, NEW t \in AllTypes(d)
  PROVE  \/ \E x \in d.types : t = ElementOf(x)
         \/ \E r \in d.rels : t = RowOf(r)
         \/ \E u \in ElementTypes(d) : t = ArrayOf(u)
BY DEF AllTypes, ElementTypes, ElementOf, RowOf

(* A type that is no array is one of d.types or a row type.                *)
LEMMA ElementCases ==
  ASSUME NEW d, NEW t \in ElementTypes(d)
  PROVE  (\E x \in d.types : t = ElementOf(x)) \/ (\E r \in d.rels : t = RowOf(r))
BY DEF ElementTypes, ElementOf, RowOf

(* types.list() returns types of the database.                             *)
LEMMA TypesInList ==
  ASSUME NEW d
  PROVE  TypesList(d) \subseteq AllTypes(d)
BY DEF TypesList, AllTypes

(* The types of the list that have labels or attributes are enums and      *)
(* composites of the database.                                             *)
LEMMA OwnTypes ==
  ASSUME NEW d, NEW t \in AllTypes(d), t.enums # {} \/ t.attributes # <<>>
  PROVE  \E x \in d.types : t = ElementOf(x)
<1>1. \A r : RowOf(r).enums = {} /\ RowOf(r).attributes = <<>>
  BY DEF RowOf
<1>2. \A u : ArrayOf(u).enums = {} /\ ArrayOf(u).attributes = <<>>
  BY DEF ArrayOf
<1>3. QED
  BY <1>1, <1>2, TypeCases

(* The schema of a type is there.                                          *)
LEMMA TypeSchema ==
  ASSUME NEW d, References(d), NEW t \in AllTypes(d)
  PROVE  t.schema \in Names(d.schemas)
<1>1. ASSUME NEW u \in ElementTypes(d) PROVE u.schema \in Names(d.schemas)
  <2>1. CASE \E x \in d.types : u = ElementOf(x)
    BY <2>1 DEF ElementOf, References
  <2>2. CASE \E r \in d.rels : u = RowOf(r)
    BY <2>2 DEF RowOf, References
  <2>3. QED
    BY <2>1, <2>2, ElementCases
<1>2. CASE t \in ElementTypes(d)
  BY <1>1, <1>2
<1>3. CASE \E u \in ElementTypes(d) : t = ArrayOf(u)
  <2>1. \A u : ArrayOf(u).schema = u.schema
    BY DEF ArrayOf
  <2>2. QED
    BY <1>1, <1>3, <2>1
<1>4. QED
  BY <1>2, <1>3 DEF AllTypes

(* The only types that the list leaves out are rows of foreign tables.     *)
LEMMA LeftOut ==
  ASSUME NEW d, UniqueIds(d), NEW id \in TypeIds(d), \A y \in TypesList(d) : y.id # id
  PROVE  \E r \in d.rels : r.kind = "foreign" /\ id = RowId(r.id)
<1>1. PICK t \in AllTypes(d) : t.id = id
  BY DEF TypeIds
<1>2. t \notin TypesList(d)
  BY <1>1
<1>3. t \in ElementTypes(d) /\ Foreign(d, t.relation)
  BY <1>1, <1>2 DEF TypesList, AllTypes
<1>4. PICK f \in d.rels : f.id = t.relation /\ f.kind = "foreign"
  BY <1>3 DEF Foreign
<1>5. \A x \in d.types : ElementOf(x).relation \in {0, CompositeRelation(x.id)}
  BY DEF ElementOf
<1>6. \A x \in d.types : t # ElementOf(x)
  <2>1. f.id \notin {0} \cup {CompositeRelation(x.id) : x \in d.types}
    BY DEF UniqueIds
  <2>2. QED
    BY <1>4, <1>5, <2>1
<1>7. PICK r \in d.rels : t = RowOf(r)
  BY <1>3, <1>6, ElementCases
<1>8. t.relation = r.id /\ t.id = RowId(r.id)
  BY <1>7 DEF RowOf
<1>9. f = r
  BY <1>4, <1>8 DEF UniqueIds
<1>10. QED
  BY <1>1, <1>4, <1>8, <1>9

(* An attribute whose type is not in the list is of a foreign table's row  *)
(* type.                                                                   *)
LEMMA LeftOutAttribute ==
  ASSUME NEW d, LegalDatabase(d), NEW t \in TypesList(d), NEW i \in DOMAIN t.attributes,
         t.attributes # <<>>, \A y \in TypesList(d) : y.id # t.attributes[i].type
  PROVE  HasForeignAttribute(d)
<1>1. PICK x \in d.types : t = ElementOf(x)
  BY TypesInList, OwnTypes
<1>2. t.attributes = x.attrs
  BY <1>1 DEF ElementOf
<1>3. t.attributes[i].type \in TypeIds(d)
  BY <1>2 DEF LegalDatabase, References
<1>4. PICK r \in d.rels : r.kind = "foreign" /\ t.attributes[i].type = RowId(r.id)
  BY <1>3, LeftOut DEF LegalDatabase
<1>5. QED
  BY <1>2, <1>4 DEF HasForeignAttribute

(* An attribute of the list that Go finds in Object.prototype has a type   *)
(* that is formatted so.                                                   *)
LEMMA MemberAttribute ==
  ASSUME NEW d, NEW t \in TypesList(d), NEW i \in DOMAIN t.attributes, t.attributes # <<>>,
         NEW y \in TypesList(d), y.id = t.attributes[i].type, y.format \in Prototype
  PROVE  HasMemberAttribute(d)
<1>1. PICK x \in d.types : t = ElementOf(x)
  BY TypesInList, OwnTypes
<1>2. t.attributes = x.attrs
  BY <1>1 DEF ElementOf
<1>3. y \in AllTypes(d)
  BY TypesInList
<1>4. QED
  BY <1>2, <1>3 DEF HasMemberAttribute

(* t is in the list of relations of a kind.                                *)
ListedAs(d, f, kind, t) ==
  \/ kind = "table" /\ t \in TablesList(d, f)
  \/ kind = "view" /\ t \in ViewsList(d, f)
  \/ kind = "foreign" /\ t \in ForeignTablesList(d, f)
  \/ kind = "matview" /\ t \in MaterializedViewsList(d, f)

(* A relation of a list is one of the database, of its kind and of a       *)
(* schema that passes the list's filter.                                   *)
LEMMA KindListed ==
  ASSUME NEW d, NEW f, References(d), NEW kind, NEW t, ListedAs(d, f, kind, t)
  PROVE  \E r \in d.rels : /\ r.kind = kind /\ t.id = r.id /\ t.name = r.name /\ t.schema = r.schema
                           /\ r.schema \in Names(d.schemas)
                           /\ \/ Passes(f, r.schema)
                              \/ kind \in {"foreign", "matview"} /\ FilterByList(f, {}, r.schema)
<1> DEFINE Goal(x) == \/ Passes(f, x.schema)
                      \/ kind \in {"foreign", "matview"} /\ FilterByList(f, {}, x.schema)
<1>1. \E x \in Relations(d, kind) : t.id = x.id /\ t.name = x.name /\ t.schema = x.schema /\ Goal(x)
  <2>1. CASE kind # "matview"
    BY <2>1 DEF ListedAs, TablesList, ForeignTablesList, ViewsList
  <2>2. CASE kind = "matview"
    <3>1. PICK v \in Relations(d, "matview") :
            t = [v EXCEPT !.updatable = FALSE] /\ FilterByList(f, {}, v.schema)
      BY <2>2 DEF ListedAs, MaterializedViewsList
    <3>2. t.id = v.id /\ t.name = v.name /\ t.schema = v.schema
      BY <3>1 DEF Relations
    <3>3. QED
      BY <2>2, <3>1, <3>2
  <2>3. QED
    BY <2>1, <2>2
<1>2. PICK x \in Relations(d, kind) : t.id = x.id /\ t.name = x.name /\ t.schema = x.schema /\ Goal(x)
  BY <1>1
<1>3. PICK r \in d.rels : r.kind = kind /\ x.id = r.id /\ x.schema = r.schema /\ x.name = r.name
  BY RelationListed
<1>4. r.schema \in Names(d.schemas)
  BY DEF References
<1>5. QED
  BY <1>2, <1>3, <1>4

(* The relations of the lists, and their schemas, are in the database.     *)
LEMMA RelationSchema ==
  ASSUME NEW d, NEW f, References(d),
         NEW t \in TablesList(d, f) \cup ForeignTablesList(d, f) \cup ViewsList(d, f) \cup MaterializedViewsList(d, f)
  PROVE  \E r \in d.rels : /\ t.id = r.id /\ t.name = r.name /\ t.schema = r.schema
                           /\ r.schema \in Names(d.schemas)
<1>1. PICK kind : ListedAs(d, f, kind, t)
  BY DEF ListedAs
<1>2. QED
  BY <1>1, KindListed

(* A schema that passes is kept in the list of schemas, but for those that *)
(* the exceptions of Python name.                                          *)
LEMMA PassingListed ==
  ASSUME NEW d, UniqueNames(d), NEW s \in d.schemas, s.usable, ~ s.temp, Passes(filter, s.name),
         filter.include \cap (filter.exclude \cup System) = {}
  PROVE  s \in KeptSchemas(SchemasList(d, ListFilter))
<1>1. s.name \notin filter.exclude \cup System
  BY DEF Passes, FilterByList
<1>2. filter.include = {} \/ s.name \in filter.include
  BY DEF Passes, FilterByList
<1>3. ~ Internal(s.name)
  BY <1>1 DEF UniqueNames
<1>4. Passes(ListFilter, s.name)
  BY <1>1 DEF ListFilter, Passes, FilterByList, NoFilter
<1>5. QED
  BY <1>1, <1>2, <1>3, <1>4 DEF KeptSchemas, SchemasList

(* TypeScript: what is found in Object.prototype is named so in a list,    *)
(* and the lists hold what the queries saw.                                *)
LEMMA TypescriptThrows ==
  ASSUME GenerateInv, phase = "threw", TsThrows(Lists)
  PROVE  \E q \in DOMAIN seen :
           \E n \in {x.name : x \in seen[q].schemas \cup seen[q].fns} : n \in Prototype
<1> DEFINE L == Lists
<1>1. \A q \in AllQueries : q \in DOMAIN seen /\ References(seen[q])
  BY DEF GenerateInv, LegalDatabase
<1>2. {"types", "tables", "foreignTables", "views", "materializedViews", "functions", "schemas"} \subseteq AllQueries
  BY DEF AllQueries
<1>3. SUFFICES \E q \in AllQueries : \E n \in Names(seen[q].schemas) \cup Names(seen[q].fns) : n \in Prototype
  BY <1>1 DEF Names
<1>4. CASE \E t \in L.types : t.schema \in Prototype
  <2>1. L.types \subseteq AllTypes(seen["types"])
    BY TypesInList DEF Lists
  <2>2. QED
    BY <1>1, <1>2, <1>4, <2>1, TypeSchema
<1>5. CASE \E t \in TablesLike(L) : t.schema \in Prototype
  <2>1. PICK t \in TablesLike(L) : t.schema \in Prototype
    BY <1>5
  <2>2. PICK q \in {"tables", "foreignTables", "views", "materializedViews"} :
          t \in TablesList(seen[q], filter) \cup ForeignTablesList(seen[q], filter)
                  \cup ViewsList(seen[q], filter) \cup MaterializedViewsList(seen[q], filter)
    BY DEF Lists, TablesLike
  <2>3. t.schema \in Names(seen[q].schemas)
    BY <1>1, <1>2, <2>2, RelationSchema
  <2>4. QED
    BY <1>2, <2>1, <2>2, <2>3
<1>6. ASSUME NEW fn \in L.functions, fn.schema \in Prototype \/ fn.name \in Prototype
      PROVE  \E q \in AllQueries : \E n \in Names(seen[q].schemas) \cup Names(seen[q].fns) : n \in Prototype
  <2>1. PICK p \in seen["functions"].fns : fn.schema = p.schema /\ fn.name = p.name
    BY DEF Lists, FunctionsList
  <2>2. p.schema \in Names(seen["functions"].schemas) /\ p.name \in Names(seen["functions"].fns)
    BY <1>1, <1>2 DEF References, Names
  <2>3. QED
    BY <1>2, <1>6, <2>1, <2>2
<1>7. \/ \E t \in L.types : t.schema \in Prototype
      \/ \E t \in TablesLike(L) : t.schema \in Prototype
      \/ \E fn \in L.functions : fn.schema \in Prototype \/ fn.name \in Prototype
  BY DEF TsThrows, TsFunctions
<1>8. QED
  BY <1>4, <1>5, <1>6, <1>7

(* Python: a schema that is not listed does not pass, is temporary or is   *)
(* not usable; a type that is not found is a foreign table's row type.     *)
LEMMA PythonThrows ==
  ASSUME GenerateInv, phase = "threw", Undisturbed, PyMayThrow(Lists),
         filter.include \cap (filter.exclude \cup System) = {},
         \A s \in db.schemas : ~ s.temp /\ s.usable,
         \A r \in db.rels : ~ (r.kind = "matview" /\ r.schema \in System)
  PROVE  HasForeignAttribute(db) \/ SharedNames(db)
<1> DEFINE L == Lists
<1>1. /\ L.types = TypesList(db) /\ L.schemas = KeptSchemas(SchemasList(db, ListFilter))
      /\ PyRelations(L) = TablesList(db, filter) \cup ViewsList(db, filter) \cup MaterializedViewsList(db, filter)
  BY UndisturbedLists DEF ListsOf, PyRelations
<1>2. LegalDatabase(db) /\ References(db) /\ UniqueNames(db) /\ UniqueIds(db)
  BY DEF GenerateInv, LegalDatabase
<1> HIDE DEF L
<1>3. CASE \E t \in PyRelations(L) : ~ PyListed(L, t.schema)
  <2>1. PICK t \in PyRelations(L) : ~ \E s \in L.schemas : s.name = t.schema
    BY <1>3 DEF PyListed
  <2>2. PICK r \in db.rels : t.schema = r.schema /\ Passes(filter, r.schema) /\ r.schema \in Names(db.schemas)
    <3>1. PICK kind : kind # "foreign" /\ ListedAs(db, filter, kind, t)
      BY <1>1 DEF ListedAs
    <3>2. PICK r \in db.rels : /\ t.schema = r.schema /\ r.kind = kind /\ r.schema \in Names(db.schemas)
                               /\ Passes(filter, r.schema) \/ FilterByList(filter, {}, r.schema)
                               /\ Passes(filter, r.schema) \/ kind = "matview"
      BY <1>2, <3>1, KindListed
    <3>3. Passes(filter, r.schema)
      BY <3>1, <3>2 DEF Passes, FilterByList
    <3>4. QED
      BY <3>2, <3>3
  <2>3. PICK s \in db.schemas : s.name = r.schema
    BY <2>2 DEF Names
  <2>4. s \in L.schemas
    BY <1>1, <1>2, <2>2, <2>3, PassingListed
  <2>5. QED
    BY <2>1, <2>2, <2>3, <2>4
<1>4. CASE \E t \in PyComposites(L) : \E i \in DOMAIN t.attributes :
             \A y \in L.types : y.id # t.attributes[i].type
  BY <1>1, <1>2, <1>4, LeftOutAttribute DEF PyComposites
<1>5. CASE \E y, z \in L.types : z # y /\ z.name = y.name
  <2>1. \A y, z \in L.types : y.id = z.id => y = z
    BY <1>1, <1>2, TypesInList DEF UniqueIds
  <2>2. QED
    BY <1>1, <1>5, <2>1 DEF SharedNames
<1>6. CASE PyMustThrow(L)
  BY <1>3, <1>4, <1>6 DEF PyMustThrow
<1>7. CASE \E t \in PyComposites(L) : \E i \in DOMAIN t.attributes :
             \E y, z \in L.types : y.id = t.attributes[i].type /\ z # y /\ z.name = y.name
  BY <1>5, <1>7
<1>8. QED
  BY <1>6, <1>7 DEF PyMayThrow, L

(* ThrowsOnlyIf: a template throws in the cases that the property names    *)
(* and in no other, whatever other sessions did between the queries.       *)
THEOREM ThrowsAlwaysOnlyIf == Spec => []ThrowsOnlyIf
<1>1. GenerateInv => ThrowsOnlyIf
  <2> SUFFICES ASSUME GenerateInv, phase = "threw"
               PROVE  ThrowsOnlyIf
    BY DEF ThrowsOnlyIf
  <2> DEFINE L == Lists
  <2>1. language \in Language /\ MayThrow(language, L)
    BY DEF GenerateInv
  <2>2. CASE language = "typescript"
    BY <2>1, <2>2, TypescriptThrows DEF ThrowsOnlyIf, MayThrow
  <2> DEFINE d == seen["types"]
             LeftOutOf(t) == /\ t.attributes # <<>>
                             /\ \E i \in DOMAIN t.attributes : \A y \in L.types : y.id # t.attributes[i].type
  <2>3. L.types = TypesList(d) /\ LegalDatabase(d) /\ L.columns = ColumnsList(seen["columns"], filter)
    BY DEF Lists, GenerateInv, AllQueries
  <2>4. (\E t \in L.types : LeftOutOf(t)) => HasForeignAttribute(d)
    BY <2>3, LeftOutAttribute
  <2>5. CASE language = "swift"
    <3>1. SwiftThrows(L)
      BY <2>1, <2>5 DEF MayThrow
    <3>2. \E t \in L.types : LeftOutOf(t)
      BY <3>1 DEF SwiftThrows, SwiftComposites
    <3>3. QED
      BY <2>4, <2>5, <3>2 DEF ThrowsOnlyIf
  <2>6. CASE language = "go"
    <3>1. GoThrows(L)
      BY <2>1, <2>6 DEF MayThrow
    <3>2. \/ \E c \in L.columns : c.format \in Prototype
          \/ \E t \in L.types : LeftOutOf(t)
          \/ \E t \in L.types : t.attributes # <<>> /\ \E i \in DOMAIN t.attributes :
               \E y \in L.types : y.id = t.attributes[i].type /\ y.format \in Prototype
      BY <3>1 DEF GoThrows, GoComposites, NoString
    <3> HIDE DEF L
    <3>3. (\E c \in L.columns : c.format \in Prototype) => HasMemberColumn(seen["columns"])
      BY <2>3 DEF ColumnsList, HasMemberColumn
    <3>4. (\E t \in L.types : t.attributes # <<>> /\ \E i \in DOMAIN t.attributes :
               \E y \in L.types : y.id = t.attributes[i].type /\ y.format \in Prototype)
            => HasMemberAttribute(d)
      BY <2>3, MemberAttribute
    <3>5. QED
      BY <2>6, <2>4, <3>2, <3>3, <3>4 DEF ThrowsOnlyIf
  <2>7. CASE language = "python"
    <3>1. PyMayThrow(Lists)
      BY <2>1, <2>7 DEF MayThrow
    <3>2. QED
      BY <2>7, <3>1, PythonThrows DEF ThrowsOnlyIf
  <2>8. QED
    BY <2>1, <2>2, <2>6, <2>7, <2>5 DEF Language
<1>2. QED
  BY <1>1, GenerateInvariant, PTL

-------------------------------------------------------------------------------
(* TypeScript: every reference is to an entry.                             *)

(* The entry that a reference names is written: a type, table or view that *)
(* is taken for a candidate is in a list, and its schema is listed.        *)
LEMMA ReferenceDeclared ==
  ASSUME NEW L, NEW i \in 1 .. 4, NEW n,
         NEW t \in Candidates(L, Sections[i], n), Listed(L, t.schema)
  PROVE  [schema |-> t.schema, section |-> Sections[i], name |-> t.name] \in TsDeclared(L)
<1> DEFINE s == t.schema
<1>1. s \in Names(L.schemas)
  BY DEF Listed, Names
<1>2. Sections[i] \in {"Enums", "CompositeTypes", "Tables", "Views"}
  BY DEF Sections
<1> SUFFICES
      [schema |-> s, section |-> Sections[i], name |-> t.name] \in
        Entry(s, "Tables", TsTables(L, s)) \cup Entry(s, "Views", TsViews(L, s))
        \cup Entry(s, "Functions", TsFunctions(L, s))
        \cup Entry(s, "Enums", TsEnums(L, s))
        \cup Entry(s, "CompositeTypes", TsComposites(L, s))
  BY <1>1 DEF TsDeclared, Names
<1>3. CASE Sections[i] = "Enums"
  <2>1. t \in TsEnums(L, s)
    BY <1>3 DEF Candidates, TsEnums
  <2> QED BY <2>1, <1>3 DEF Entry
<1>4. CASE Sections[i] = "CompositeTypes"
  <2>1. t \in TsComposites(L, s)
    BY <1>4 DEF Candidates, TsComposites
  <2> QED BY <2>1, <1>4 DEF Entry
<1>5. CASE Sections[i] = "Tables"
  <2>1. t \in TsTables(L, s)
    BY <1>5 DEF Candidates, TsTables, InSchema
  <2> QED BY <2>1, <1>5 DEF Entry
<1>6. CASE Sections[i] = "Views"
  <2>1. t \in TsViews(L, s)
    BY <1>6 DEF Candidates, TsViews, InSchema
  <2> QED BY <2>1, <1>6 DEF Entry
<1> QED BY <1>2, <1>3, <1>4, <1>5, <1>6

(* The first section that has the name is one of the five cases.           *)
First(L, n, k) ==
  /\ k \in 1 .. 5
  /\ k = 5 \/ Candidates(L, Sections[k], n) # {}
  /\ \A j \in 1 .. k - 1 : Candidates(L, Sections[j], n) = {}

(* SectionOf chooses the first section that has the name, or 5.            *)
LEMMA SectionChosen ==
  ASSUME NEW L, NEW n
  PROVE  First(L, n, SectionOf(L, n))
<1> DEFINE P(k) == /\ k = 5 \/ Candidates(L, Sections[k], n) # {}
                   /\ \A j \in 1 .. k - 1 : Candidates(L, Sections[j], n) = {}
<1>1. \E k \in 1 .. 5 : P(k)
  <2>1. CASE \A k \in 1 .. 4 : Candidates(L, Sections[k], n) = {}
    <3>1. P(5) BY <2>1
    <3> QED BY <3>1
  <2>2. CASE Candidates(L, Sections[1], n) # {}
    <3>1. P(1) BY <2>2
    <3> QED BY <3>1
  <2>3. CASE Candidates(L, Sections[1], n) = {} /\ Candidates(L, Sections[2], n) # {}
    <3>1. P(2)
      <4>1. \A j \in 1 .. 1 : Candidates(L, Sections[j], n) = {}
        <5> TAKE j \in 1 .. 1
        <5>1. j = 1 OBVIOUS
        <5> QED BY <5>1, <2>3
      <4> QED BY <4>1, <2>3
    <3> QED BY <3>1
  <2>4. CASE /\ Candidates(L, Sections[1], n) = {} /\ Candidates(L, Sections[2], n) = {}
             /\ Candidates(L, Sections[3], n) # {}
    <3>1. P(3)
      <4>1. \A j \in 1 .. 2 : Candidates(L, Sections[j], n) = {}
        <5> TAKE j \in 1 .. 2
        <5>1. j = 1 \/ j = 2 OBVIOUS
        <5> QED BY <5>1, <2>4
      <4> QED BY <4>1, <2>4
    <3> QED BY <3>1
  <2>5. CASE /\ Candidates(L, Sections[1], n) = {} /\ Candidates(L, Sections[2], n) = {}
             /\ Candidates(L, Sections[3], n) = {} /\ Candidates(L, Sections[4], n) # {}
    <3>1. P(4)
      <4>1. \A j \in 1 .. 3 : Candidates(L, Sections[j], n) = {}
        <5> TAKE j \in 1 .. 3
        <5>1. j = 1 \/ j = 2 \/ j = 3 OBVIOUS
        <5> QED BY <5>1, <2>5
      <4> QED BY <4>1, <2>5
    <3> QED BY <3>1
  <2>6. \A k \in 1 .. 4 : k = 1 \/ k = 2 \/ k = 3 \/ k = 4
    OBVIOUS
  <2> QED BY <2>1, <2>2, <2>3, <2>4, <2>5, <2>6
<1> HIDE DEF P
<1>2. (CHOOSE k \in 1 .. 5 : P(k)) \in 1 .. 5 /\ P(CHOOSE k \in 1 .. 5 : P(k))
  BY <1>1
<1>3. SectionOf(L, n) = CHOOSE k \in 1 .. 5 : P(k)
  BY DEF SectionOf, P
<1>4. SectionOf(L, n) \in 1 .. 5 /\ P(SectionOf(L, n))
  BY <1>2, <1>3
<1> QED BY <1>4 DEF P, First

(* A name is turned into a reference to an entry that is written, or into  *)
(* no reference.                                                           *)
LEMMA TypeDeclared ==
  ASSUME NEW L, NEW s, NEW name
  PROVE  TsType(L, s, name) \subseteq TsDeclared(L) \cup {Plain}
<1> DEFINE n == Element(name)
           i == SectionOf(L, n)
<1>1. CASE n \in TsBuiltIn \/ i = 5
  BY <1>1 DEF TsType
<1>2. CASE ~ (n \in TsBuiltIn \/ i = 5)
  <2>1. i \in 1 .. 4
    <3>1. i \in 1 .. 5
      BY SectionChosen DEF First
    <3> HIDE DEF i
    <3> QED BY <3>1, <1>2
  <2>2. TsType(L, s, name) =
          {Reference(L, Sections[i], t) : t \in Preferred(Candidates(L, Sections[i], n), s)}
    BY <1>2 DEF TsType
  <2>3. Preferred(Candidates(L, Sections[i], n), s) \subseteq Candidates(L, Sections[i], n)
    BY DEF Preferred
  <2> HIDE DEF i, n
  <2>4. ASSUME NEW t \in Candidates(L, Sections[i], n)
        PROVE  Reference(L, Sections[i], t) \in TsDeclared(L) \cup {Plain}
    BY <2>1, ReferenceDeclared DEF Reference
  <2> QED BY <2>2, <2>3, <2>4
<1> QED BY <1>1, <1>2

(* A reference by a type's id is declared.                                 *)
LEMMA TypeOfDeclared ==
  ASSUME NEW L, NEW s, NEW id
  PROVE  TsTypeOf(L, s, id) \subseteq TsDeclared(L) \cup {Plain}
BY TypeDeclared DEF TsTypeOf

(* So is what a function returns and takes, and what a row shows.          *)
LEMMA ReturnDeclared ==
  ASSUME NEW L, NEW s, NEW fn
  PROVE  ReturnReferences(L, s, fn) \subseteq TsDeclared(L) \cup {Plain}
BY TypeDeclared, TypeOfDeclared DEF ReturnReferences

(* So is all that a signature refers to.                                   *)
LEMMA SignatureDeclared ==
  ASSUME NEW L, NEW s, NEW fn
  PROVE  SignatureReferences(L, s, fn) \subseteq TsDeclared(L) \cup {Plain}
<1>1. ArgumentReferences(L, s, fn) \subseteq TsDeclared(L) \cup {Plain}
  BY TypeOfDeclared DEF ArgumentReferences
<1> QED BY <1>1, ReturnDeclared DEF SignatureReferences

(* So is all that a row refers to.                                         *)
LEMMA RowDeclared ==
  ASSUME NEW L, NEW s, NEW t
  PROVE  RowReferences(L, s, t) \subseteq TsDeclared(L) \cup {Plain}
<1>1. (UNION {TsType(L, s, c.format) : c \in ColumnsOf(L, t.id)}) \subseteq TsDeclared(L) \cup {Plain}
  BY TypeDeclared
<1>2. UNION {ReturnReferences(L, s, fn) : fn \in ComputedFields(L, s, t)}
        \subseteq TsDeclared(L) \cup {Plain}
  BY ReturnDeclared
<1> QED BY <1>1, <1>2 DEF RowReferences

(* So is all that a composite type refers to.                              *)
LEMMA CompositeDeclared ==
  ASSUME NEW L, NEW s, NEW t
  PROVE  CompositeReferences(L, s, t) \subseteq TsDeclared(L) \cup {Plain}
BY TypeOfDeclared DEF CompositeReferences

(* Whatever lists apply() is given, from however many snapshots of the     *)
(* database, the TypeScript refers to entries of the text only.            *)
THEOREM ReferencesDeclared ==
  ASSUME NEW L
  PROVE  TsReferences(L) \subseteq TsDeclared(L)
<1>1. ASSUME NEW s, NEW r,
             \/ \E t \in TsTables(L, s) \cup TsViews(L, s) : r \in RowReferences(L, s, t)
             \/ \E fn \in TsFunctions(L, s) : r \in SignatureReferences(L, s, fn)
             \/ \E t \in TsComposites(L, s) : r \in CompositeReferences(L, s, t)
      PROVE  r \in TsDeclared(L) \cup {Plain}
  BY <1>1, RowDeclared, SignatureDeclared, CompositeDeclared
<1> SUFFICES ASSUME NEW r \in TsReferences(L) PROVE r \in TsDeclared(L)
  OBVIOUS
<1>2. r # Plain /\ \E s \in Names(L.schemas) :
        \/ \E t \in TsTables(L, s) \cup TsViews(L, s) : r \in RowReferences(L, s, t)
        \/ \E fn \in TsFunctions(L, s) : r \in SignatureReferences(L, s, fn)
        \/ \E t \in TsComposites(L, s) : r \in CompositeReferences(L, s, t)
  BY DEF TsReferences, Names
<1> QED BY <1>1, <1>2

(* So generation keeps it, through every interleaving of its queries with  *)
(* the statements of other sessions, and every filter.                     *)
THEOREM TypescriptResolved == Spec => []TypescriptResolves
<1>1. TypescriptResolves
  BY ReferencesDeclared DEF TypescriptResolves
<1> QED BY <1>1, PTL

-------------------------------------------------------------------------------
(* TypeScript: the type of a column.                                       *)

(* Types have ids of their own.                                            *)
LEMMA Distinct ==
  ASSUME NEW d, LegalDatabase(d), NEW t, NEW u \in AllTypes(d), t \in AllTypes(d), t.id = u.id
  PROVE  t = u
BY DEF LegalDatabase, UniqueIds

(* TypeName finds the name of a type by its id.                            *)
LEMMA TypeNameOf ==
  ASSUME NEW d, LegalDatabase(d), NEW t \in AllTypes(d)
  PROVE  TypeName(d, t.id) = t.name
<1>1. (CHOOSE u \in AllTypes(d) : u.id = t.id) = t
  BY Distinct
<1>2. QED
  BY <1>1 DEF TypeName

(* A name that begins with a word is no array's; one underscore is dropped.*)
LEMMA ElementOfName ==
  ASSUME NEW n, IsName(n), n[1] # Separator
  PROVE  Element(n) = n /\ Element(<<Separator>> \o n) = n
<1> DEFINE S == ToSet(n) \cup {Separator}
<1>1. n \in Seq(S) /\ Len(n) \in Nat /\ Len(n) > 0 /\ DOMAIN n = 1 .. Len(n)
  <2>1. n \in Seq(ToSet(n)) /\ n # <<>>
    BY DEF IsName
  <2>2. Len(n) \in Nat \ {0}
    BY <2>1, EmptySeq
  <2>3. DOMAIN n = 1 .. Len(n)
    BY <2>1, LenProperties
  <2>4. n \in Seq(S)
    BY <2>1, SeqMonotonic
  <2>5. QED
    BY <2>2, <2>3, <2>4
<1>s. Separator \in S
  OBVIOUS
<1> HIDE DEF S
<1>2. Element(n) = n
  <2> DEFINE words == {i \in DOMAIN n : n[i] # Separator}
  <2>1. 1 \in words /\ \A j \in words : 1 <= j
    BY <1>1
  <2>2. words \subseteq Nat
    BY <1>1
  <2> HIDE DEF words
  <2>3. (CHOOSE i \in words : \A j \in words : i <= j) = 1
    <3> DEFINE c == CHOOSE i \in words : \A j \in words : i <= j
    <3>1. c \in words /\ \A j \in words : c <= j
      BY <2>1, <2>2
    <3> HIDE DEF c
    <3>2. c = 1
      BY <2>1, <2>2, <3>1
    <3>3. QED
      BY <3>2 DEF c
  <2>4. Element(n) = SubSeq(n, 1, Len(n))
    BY <2>1, <2>3 DEF Element, words
  <2>5. QED
    BY <1>1, <2>4, SubSeqFull
<1>3. Element(<<Separator>> \o n) = n
  <2> DEFINE u == <<Separator>>
             m == u \o n
             words == {i \in DOMAIN m : m[i] # Separator}
  <2>1. u \in Seq(S) /\ Len(u) = 1 /\ u[1] = Separator
    BY <1>s
  <2> HIDE DEF u
  <2>2. /\ m \in Seq(S) /\ Len(m) = Len(u) + Len(n)
        /\ \A i \in 1 .. Len(u) + Len(n) : m[i] = IF i <= Len(u) THEN u[i] ELSE n[i - Len(u)]
    BY <1>1, <2>1, ConcatProperties
  <2>3. DOMAIN m = 1 .. Len(m)
    BY <2>2, LenProperties
  <2>4. m[1] = Separator /\ m[2] = n[1]
    BY <1>1, <2>1, <2>2
  <2> HIDE DEF m
  <2>5. 2 \in words /\ \A j \in words : 2 <= j
    BY <1>1, <2>1, <2>2, <2>3, <2>4
  <2>6. words \subseteq Nat
    BY <2>3
  <2> HIDE DEF words
  <2>7. (CHOOSE i \in words : \A j \in words : i <= j) = 2
    <3> DEFINE c == CHOOSE i \in words : \A j \in words : i <= j
    <3>1. c \in words /\ \A j \in words : c <= j
      BY <2>5, <2>6
    <3> HIDE DEF c
    <3>2. c = 2
      BY <2>5, <2>6, <3>1
    <3>3. QED
      BY <3>2 DEF c
  <2>8. Element(m) = SubSeq(m, 2, Len(m))
    BY <2>5, <2>7 DEF Element, words
  <2>9. SubSeq(m, 2, Len(m)) = SubSeq(n, 1, Len(n))
    <3>1. 2 \in Len(u) + 1 .. Len(u) + Len(n) /\ Len(m) \in Len(u) + 1 .. Len(u) + Len(n)
      BY <1>1, <2>1, <2>2
    <3>2. SubSeq(m, 2, Len(m)) = SubSeq(n, 2 - Len(u), Len(m) - Len(u))
      BY <1>1, <2>1, <3>1, SubSeqOfConcat2 DEF m
    <3>3. 2 - Len(u) = 1 /\ Len(m) - Len(u) = Len(n)
      BY <1>1, <2>1, <2>2
    <3>4. QED
      BY <3>2, <3>3
  <2>10. QED
    BY <1>1, <2>8, <2>9, SubSeqFull DEF m, u
<1>4. QED
  BY <1>2, <1>3 DEF First

(* An enum or a composite of the database is in the list of types.         *)
LEMMA ElementListed ==
  ASSUME NEW d, LegalDatabase(d), NEW t \in d.types
  PROVE  /\ ElementOf(t) \in ElementTypes(d) /\ ElementOf(t) \in TypesList(d)
         /\ ElementOf(t) \in AllTypes(d) /\ ArrayOf(ElementOf(t)) \in AllTypes(d)
<1>1. ElementOf(t) \in ElementTypes(d)
  BY DEF ElementTypes, ElementOf
<1>2. ElementOf(t).relation \in {0, CompositeRelation(t.id)}
  BY DEF ElementOf
<1>3. \A r \in d.rels : r.id \notin {0, CompositeRelation(t.id)}
  BY DEF LegalDatabase, UniqueIds
<1>4. ~ Foreign(d, ElementOf(t).relation)
  BY <1>2, <1>3 DEF Foreign
<1>5. QED
  BY <1>1, <1>4 DEF TypesList, AllTypes

OwnSection(t) == IF t.labels # {} THEN "Enums" ELSE "CompositeTypes"

(* Another type that has the name of t is of another schema, and t of s.   *)
LEMMA Unmistaken ==
  ASSUME NEW d, LegalDatabase(d), NEW s, NEW t \in d.types, ~ Mistakable(d, s, t),
         NEW u \in TypesList(d), u.name = t.name, u.enums # {} \/ u.attributes # <<>>,
         u # ElementOf(t)
  PROVE  t.schema = s /\ u.schema # s /\ (t.labels = {} => u.enums = {})
<1>1. PICK x \in d.types : u = ElementOf(x)
  BY TypesInList, OwnTypes
<1>2. u \in ElementTypes(d) /\ u \in AllTypes(d) /\ ElementOf(t) \in AllTypes(d)
  BY <1>1, ElementListed
<1>3. ElementOf(t).id = t.id
  BY DEF ElementOf
<1>4. u.id # t.id
  BY <1>2, <1>3, Distinct
<1>5. QED
  BY <1>2, <1>4 DEF Mistakable

(* The section that holds a type is found by its name.                     *)
LEMMA OwnSectionFound ==
  ASSUME NEW d, LegalDatabase(d), NEW s, NEW t \in d.types, ~ Mistakable(d, s, t),
         NEW L, L.types = TypesList(d), t.labels # {} \/ t.attrs # <<>>,
         NEW i, i = SectionOf(L, t.name)
  PROVE  i \in {1, 2} /\ Sections[i] = OwnSection(t)
<1> DEFINE e == ElementOf(t)
<1>1. /\ e \in L.types /\ e.name = t.name /\ e.enums = t.labels /\ e.attributes = t.attrs
  BY ElementListed DEF ElementOf
<1>2. First(L, t.name, i)
  BY SectionChosen
<1>3. Sections[1] = "Enums" /\ Sections[2] = "CompositeTypes"
  BY DEF Sections
<1>4. CASE t.labels # {}
  <2>1. e \in Candidates(L, Sections[1], t.name)
    BY <1>1, <1>3, <1>4 DEF Candidates
  <2>2. i = 1
    BY <1>2, <2>1 DEF First
  <2>3. QED
    BY <1>3, <1>4, <2>2 DEF OwnSection
<1>5. CASE t.labels = {}
  <2>1. e \in Candidates(L, Sections[2], t.name)
    BY <1>1, <1>3, <1>5 DEF Candidates
  <2>2. i \in {1, 2}
    BY <1>2, <2>1 DEF First
  <2>3. i # 1
    <3>1. SUFFICES ASSUME NEW u \in Candidates(L, "Enums", t.name) PROVE FALSE
      BY <1>2, <1>3 DEF First
    <3>2. u \in TypesList(d) /\ u.name = t.name /\ u.enums # {}
      BY DEF Candidates
    <3>3. u # e
      BY <1>1, <1>5, <3>2
    <3>4. QED
      BY <1>5, <3>2, <3>3, Unmistaken
  <2>4. QED
    BY <1>3, <1>5, <2>2, <2>3 DEF OwnSection
<1>6. QED
  BY <1>4, <1>5

(* So the type itself is taken.                                            *)
Taken(L, s, t) == Preferred(Candidates(L, OwnSection(t), t.name), s) = {ElementOf(t)}

(* The enum or composite that cannot be mistaken is the only candidate     *)
(* that is left in the section that holds it.                              *)
LEMMA OwnTypeTaken ==
  ASSUME NEW d, LegalDatabase(d), NEW s, NEW t \in d.types, ~ Mistakable(d, s, t),
         NEW L, L.types = TypesList(d), t.labels # {} \/ t.attrs # <<>>
  PROVE  Taken(L, s, t)
<1> DEFINE e == ElementOf(t)
           C == Candidates(L, OwnSection(t), t.name)
<1>1. /\ e \in L.types /\ e.name = t.name /\ e.enums = t.labels /\ e.attributes = t.attrs
      /\ e.schema = t.schema
  BY ElementListed DEF ElementOf
<1>2. e \in C
  BY <1>1 DEF Candidates, OwnSection
<1>3. ASSUME NEW u \in C, u # e PROVE t.schema = s /\ u.schema # s
  <2>1. u \in TypesList(d) /\ u.name = t.name /\ (u.enums # {} \/ u.attributes # <<>>)
    BY <1>3 DEF Candidates, OwnSection
  <2>2. QED
    BY <1>3, <2>1, Unmistaken
<1> HIDE DEF C, e
<1>4. CASE t.schema = s
  <2>1. {u \in C : u.schema = s} = {e}
    BY <1>1, <1>2, <1>3, <1>4
  <2>2. Preferred(C, s) = {u \in C : u.schema = s}
    BY <1>1, <1>2, <1>4 DEF Preferred
  <2>3. QED
    BY <2>1, <2>2 DEF C, e, Taken
<1>5. CASE t.schema # s
  <2>1. C = {e}
    BY <1>2, <1>3, <1>5
  <2>2. Preferred(C, s) = C
    BY <1>1, <1>5, <2>1 DEF Preferred
  <2>3. QED
    BY <2>1, <2>2 DEF C, e, Taken
<1>6. QED
  BY <1>4, <1>5

(* ColumnTypesRight: pgTypeToTsType, which only knows a type's name,       *)
(* refers to the type that the column has in the database, but where       *)
(* another type can be mistaken for it.                                    *)
THEOREM ColumnTypesAlwaysRight == Spec => []ColumnTypesRight
<1>1. GenerateInv => ColumnTypesRight
  <2> SUFFICES ASSUME GenerateInv, phase = "written", Undisturbed,
                      NEW r \in db.rels, NEW i \in DOMAIN r.cols, NEW t \in db.types,
                      r.cols[i].type \in {t.id, ArrayId(t.id)},
                      t.labels # {} \/ t.attrs # <<>>,
                      Listed(Lists, r.schema), Listed(Lists, t.schema), ~ Mistakable(db, r.schema, t)
               PROVE  TsType(Lists, r.schema, TypeName(db, r.cols[i].type)) =
                        {[schema |-> t.schema, name |-> t.name,
                          section |-> IF t.labels # {} THEN "Enums" ELSE "CompositeTypes"]}
    BY DEF ColumnTypesRight, Written
  <2> DEFINE L == Lists
             e == ElementOf(t)
             s == r.schema
             n == TypeName(db, r.cols[i].type)
  <2>1. LegalDatabase(db) /\ L.types = TypesList(db)
    BY UndisturbedLists DEF ListsOf, GenerateInv
  <2>2. IsName(t.name) /\ t.name[1] # Separator /\ t.name \notin TsBuiltIn
    BY <2>1 DEF LegalDatabase, UniqueNames, Mistakable
  <2>3. Element(n) = t.name
    <3>1. e \in AllTypes(db) /\ ArrayOf(e) \in AllTypes(db)
      BY <2>1, ElementListed
    <3>2. e.id = t.id /\ e.name = t.name /\ ArrayOf(e).id = ArrayId(t.id) /\ ArrayOf(e).name = <<Separator>> \o t.name
      BY DEF ElementOf, ArrayOf
    <3>3. n = t.name \/ n = <<Separator>> \o t.name
      BY <2>1, <3>1, <3>2, TypeNameOf
    <3>4. QED
      BY <2>2, <3>3, ElementOfName
  <2> HIDE DEF n, L
  <2> DEFINE k == SectionOf(L, t.name)
  <2>4. k \in {1, 2} /\ Sections[k] = OwnSection(t)
    BY <2>1, OwnSectionFound
  <2> HIDE DEF k
  <2>5. TsType(L, s, n) = {Reference(L, Sections[k], u) : u \in Preferred(Candidates(L, Sections[k], t.name), s)}
    BY <2>2, <2>3, <2>4 DEF TsType, k
  <2>6. TsType(L, s, n) = {Reference(L, OwnSection(t), e)}
    <3>1. Preferred(Candidates(L, OwnSection(t), t.name), s) = {e}
      <4>1. Taken(L, s, t)
        BY <2>1, OwnTypeTaken
      <4>2. QED
        BY <4>1 DEF Taken
    <3> HIDE DEF e
    <3>2. TsType(L, s, n) = {Reference(L, OwnSection(t), u) : u \in {e}}
      BY <2>4, <2>5, <3>1
    <3>3. QED
      BY <3>2
  <2>7. Reference(L, OwnSection(t), e) = [schema |-> t.schema, section |-> OwnSection(t), name |-> t.name]
    BY DEF Reference, ElementOf, L
  <2>8. QED
    BY <2>6, <2>7 DEF OwnSection, L, n
<1>2. QED
  BY <1>1, GenerateInvariant, PTL

-------------------------------------------------------------------------------
(* Names: no declaration is written twice.                                 *)

WordStep(k, words, w) == IF w \in Separators THEN words ELSE Append(words, w)
WordFolds == INSTANCE ListFolds WITH Op <- WordStep

(* The words of a name are a list of its words.                            *)
LEMMA WordsTyped ==
  ASSUME NEW S, NEW n \in Seq(S)
  PROVE  Words(n) \in Seq(S)
<1>1. Len(n) \in Nat /\ DOMAIN n = 1 .. Len(n)
  BY LenProperties
<1>2. PICK f : WordFolds!Steps(f, 0, <<>>, n)
  BY <1>1, WordFolds!FoldSteps
<1>3. f[0] = <<>> /\ \A i \in 1 .. Len(n) : f[i] = WordStep(0, f[i - 1], n[i])
  BY <1>2 DEF WordFolds!Steps
<1>4. Words(n) = f[Len(n)]
  BY <1>2 DEF Words, WordFolds!Steps, WordFolds!Fold, WordStep, FoldLeft, MapThenFoldSet, Max,
              WordFolds!FoldLeft, WordFolds!MapThenFoldSet, WordFolds!Max
<1> DEFINE T == {i \in Nat : i <= Len(n) => f[i] \in Seq(S)}
<1>5. 0 \in T
  BY <1>3, EmptySeq
<1>6. ASSUME NEW i \in Nat, i \in T PROVE i + 1 \in T
  <2>1. SUFFICES ASSUME i + 1 <= Len(n) PROVE f[i + 1] \in Seq(S)
    OBVIOUS
  <2>2. f[i] \in Seq(S) /\ i + 1 \in 1 .. Len(n)
    BY <1>1, <1>6, <2>1
  <2>3. f[i + 1] = WordStep(0, f[i], n[i + 1])
    BY <1>3, <2>2
  <2>4. n[i + 1] \in S
    BY <2>2, ElementOfSeq
  <2>5. Append(f[i], n[i + 1]) \in Seq(S)
    BY <2>2, <2>4, AppendProperties
  <2>6. QED
    BY <2>2, <2>3, <2>5 DEF WordStep
<1> HIDE DEF T
<1>7. Len(n) \in T
  BY <1>1, <1>5, <1>6, WordFolds!Inductive
<1>8. QED
  BY <1>1, <1>4, <1>7 DEF T

Operation == {"select", "insert", "update"}
Endings == {<<>>, <<"select">>, <<"insert">>, <<"update">>}
EndsInOperation(a) == a # <<>> /\ a[Len(a)] \in Operation
Objects(d) == {<<r.schema, r.name>> : r \in d.rels} \cup {<<t.schema, t.name>> : t \in d.types}
Joined(x) == Pascal(x[1]) \o Pascal(x[2])
JoinedAs(x, o) == Joined(x) \o o
SwiftAs(x, o) == SwiftName(x[2]) \o o

(* What ~ Confusable says: objects differ in their joined words, and those *)
(* of one schema in their Swift names.                                     *)
LEMMA Told ==
  ASSUME NEW d, ~ Confusable(d), NEW x \in Objects(d), NEW y \in Objects(d)
  PROVE  /\ Joined(x) = Joined(y) => x = y
         /\ x[1] = y[1] /\ SwiftName(x[2]) = SwiftName(y[2]) => x = y
         /\ ~ EndsInOperation(Joined(x))
BY DEF Confusable, Objects, Joined, Operation, EndsInOperation

(* What ends in an operation is not what an object is called.              *)
Decided(a, o, b, p) ==
  (a = b /\ o = p) \/ EndsInOperation(a) \/ EndsInOperation(b)

(* Behind equal words that end in no operation, the endings are equal too. *)
LEMMA SuffixDecides ==
  ASSUME NEW S, NEW a \in Seq(S), NEW b \in Seq(S), NEW o \in Endings, NEW p \in Endings,
         Operation \subseteq S, a \o o = b \o p
  PROVE  Decided(a, o, b, p)
<1>1. \A q \in Endings : q = <<>> \/ \E e \in Operation : q = <<e>>
  BY DEF Endings, Operation
<1>2. \A c \in Seq(S) : c \o <<>> = c
  BY ConcatEmptySeq
<1>3. \A c \in Seq(S), e \in S : /\ c \o <<e>> = Append(c, e)
                                /\ Append(c, e) # <<>>
                                /\ Append(c, e)[Len(Append(c, e))] = e
  <2> TAKE c \in Seq(S), e \in S
  <2>1. c \o <<e>> = Append(c, e)
    BY AppendIsConcat
  <2>2. Append(c, e) # <<>> /\ Len(Append(c, e)) = Len(c) + 1 /\ Append(c, e)[Len(c) + 1] = e
    BY AppendProperties
  <2>3. QED
    BY <2>1, <2>2
<1>4. CASE o = <<>> /\ p = <<>>
  BY <1>2, <1>4 DEF Decided
<1>5. CASE o = <<>> /\ p # <<>>
  <2>1. PICK e \in Operation : p = <<e>>
    BY <1>1, <1>5
  <2>2. a = Append(b, e) /\ e \in S
    BY <1>2, <1>3, <1>5, <2>1
  <2>3. QED
    BY <1>3, <2>1, <2>2 DEF EndsInOperation, Decided
<1>6. CASE o # <<>> /\ p = <<>>
  <2>1. PICK e \in Operation : o = <<e>>
    BY <1>1, <1>6
  <2>2. b = Append(a, e) /\ e \in S
    BY <1>2, <1>3, <1>6, <2>1
  <2>3. QED
    BY <1>3, <2>1, <2>2 DEF EndsInOperation, Decided
<1>7. CASE o # <<>> /\ p # <<>>
  <2>1. PICK e \in Operation : o = <<e>>
    BY <1>1, <1>7
  <2>2. PICK g \in Operation : p = <<g>>
    BY <1>1, <1>7
  <2>3. Append(a, e) = Append(b, g) /\ e \in S /\ g \in S
    BY <1>3, <2>1, <2>2
  <2>4. a = b /\ e = g
    BY <2>3, AppendInjective
  <2>5. QED
    BY <2>1, <2>2, <2>4 DEF Decided
<1>8. QED
  BY <1>4, <1>5, <1>6, <1>7

(* The words that objects have in all, and the operations.                 *)
Letters(d) ==
  Operation \cup {Separator} \cup UNION {ToSet(x[1]) \cup ToSet(x[2]) : x \in Objects(d)}

(* The schema and the name of an object are lists of letters.              *)
LEMMA ObjectsNamed ==
  ASSUME NEW d, LegalDatabase(d), NEW x \in Objects(d)
  PROVE  x[1] \in Seq(Letters(d)) /\ x[2] \in Seq(Letters(d)) /\ x = <<x[1], x[2]>> /\ x[2] # <<>>
<1>1. PICK r \in d.rels \cup d.types : x = <<r.schema, r.name>>
  BY DEF Objects
<1>2. x[1] = r.schema /\ x[2] = r.name
  BY <1>1
<1>3. r.schema \in Names(d.schemas)
  BY DEF LegalDatabase, References
<1>4. IsName(x[1]) /\ IsName(x[2])
  BY <1>2, <1>3 DEF LegalDatabase, UniqueNames, Names
<1>5. ToSet(x[1]) \subseteq Letters(d) /\ ToSet(x[2]) \subseteq Letters(d)
  BY DEF Letters
<1>6. x[1] \in Seq(Letters(d)) /\ x[2] \in Seq(Letters(d))
  BY <1>4, <1>5, SeqMonotonic DEF IsName
<1>7. QED
  BY <1>1, <1>2, <1>4, <1>6 DEF IsName

(* So are their words, joined.                                             *)
LEMMA JoinedTyped ==
  ASSUME NEW d, LegalDatabase(d), NEW x \in Objects(d)
  PROVE  /\ Pascal(x[1]) \in Seq(Letters(d)) /\ Pascal(x[2]) \in Seq(Letters(d))
         /\ Joined(x) \in Seq(Letters(d))
<1>1. Pascal(x[1]) \in Seq(Letters(d)) /\ Pascal(x[2]) \in Seq(Letters(d))
  BY ObjectsNamed, WordsTyped DEF Pascal
<1>2. QED
  BY <1>1, ConcatProperties DEF Joined

(* Go and Python: the name tells the object and the operation.             *)
LEMMA JoinedOnce ==
  ASSUME NEW d, LegalDatabase(d), ~ Confusable(d), NEW x \in Objects(d), NEW y \in Objects(d),
         NEW o \in Endings, NEW p \in Endings, JoinedAs(x, o) = JoinedAs(y, p)
  PROVE  x = y /\ o = p
<1>1. Operation \subseteq Letters(d)
  BY DEF Letters
<1>2. Joined(x) \in Seq(Letters(d)) /\ Joined(y) \in Seq(Letters(d)) /\ Joined(x) \o o = Joined(y) \o p
  BY JoinedTyped DEF JoinedAs
<1>3. Decided(Joined(x), o, Joined(y), p)
  BY <1>1, <1>2, SuffixDecides
<1>4. QED
  BY <1>3, Told DEF Decided

(* Swift keeps a first separator.                                          *)
LEMMA SwiftTyped ==
  ASSUME NEW d, LegalDatabase(d), NEW x \in Objects(d)
  PROVE  /\ SwiftName(x[2]) \in Seq(Letters(d))
         /\ EndsInOperation(SwiftName(x[2]))
              => EndsInOperation(Joined(x))
<1> DEFINE w == Pascal(x[2])
           v == Pascal(x[1])
           n == SwiftName(x[2])
           u == <<Separator>>
           S == Letters(d)
<1>1. v \in Seq(S) /\ w \in Seq(S) /\ Joined(x) = v \o w
  BY JoinedTyped DEF Joined
<1>2. n = w \/ n = u \o w
  BY DEF SwiftName, Pascal
<1>3. u \in Seq(S) /\ Len(u) = 1 /\ u[1] = Separator
  <2>1. Separator \in S
    BY DEF Letters
  <2> HIDE DEF S
  <2>2. QED
    BY <2>1
<1>4. Separator \notin Operation
  <2>1. Separator # "select" /\ Separator # "insert" /\ Separator # "update"
    BY Zenon DEF Separator
  <2>2. QED
    BY <2>1 DEF Operation
<1> HIDE DEF n, w, v, u, S
<1>5. \A a, b \in Seq(S) : b # <<>> => /\ a \o b # <<>>
                                       /\ (a \o b)[Len(a \o b)] = b[Len(b)]
  <2> TAKE a, b \in Seq(S)
  <2> HAVE b # <<>>
  <2>1. Len(b) \in Nat \ {0} /\ Len(a) \in Nat
    BY EmptySeq, LenProperties
  <2>2. /\ Len(a \o b) = Len(a) + Len(b)
        /\ \A i \in 1 .. Len(a) + Len(b) : (a \o b)[i] = IF i <= Len(a) THEN a[i] ELSE b[i - Len(a)]
    BY ConcatProperties
  <2>3. (a \o b)[Len(a) + Len(b)] = b[Len(a) + Len(b) - Len(a)]
    BY <2>1, <2>2
  <2>4. Len(a) + Len(b) - Len(a) = Len(b)
    BY <2>1
  <2>5. a \o b # <<>>
    BY ConcatEqualIffEmpty
  <2>6. QED
    BY <2>2, <2>3, <2>4, <2>5
<1>6. n \in Seq(S)
  BY <1>1, <1>2, <1>3, ConcatProperties
<1>7. ASSUME EndsInOperation(n)
      PROVE  EndsInOperation(Joined(x))
  <2>1. w # <<>> /\ n[Len(n)] = w[Len(w)]
    <3>1. CASE n = w
      BY <1>7, <3>1 DEF EndsInOperation
    <3>2. CASE n = u \o w
      <4>1. w # <<>>
        <5>1. SUFFICES ASSUME w = <<>> PROVE FALSE
          OBVIOUS
        <5>2. n = u
          BY <1>3, <3>2, <5>1, ConcatEmptySeq
        <5>3. QED
          BY <1>3, <1>4, <1>7, <5>2 DEF EndsInOperation
      <4>2. QED
        BY <1>1, <1>3, <1>5, <3>2, <4>1
    <3>3. QED
      BY <1>2, <3>1, <3>2
  <2>2. QED
    BY <1>1, <1>5, <1>7, <2>1 DEF EndsInOperation
<1>8. QED
  BY <1>6, <1>7 DEF n, S

(* A Swift name with an operation behind it stands for one object of its   *)
(* schema and one operation.                                               *)
LEMMA SwiftOnce ==
  ASSUME NEW d, LegalDatabase(d), ~ Confusable(d), NEW x \in Objects(d), NEW y \in Objects(d),
         x[1] = y[1], NEW o \in Endings, NEW p \in Endings, SwiftAs(x, o) = SwiftAs(y, p)
  PROVE  x = y /\ o = p
<1>1. Operation \subseteq Letters(d)
  BY DEF Letters
<1>2. /\ SwiftName(x[2]) \in Seq(Letters(d)) /\ SwiftName(y[2]) \in Seq(Letters(d))
      /\ SwiftName(x[2]) \o o = SwiftName(y[2]) \o p
  BY SwiftTyped DEF SwiftAs
<1>3. Decided(SwiftName(x[2]), o, SwiftName(y[2]), p)
  BY <1>1, <1>2, SuffixDecides
<1>4. QED
  BY <1>3, SwiftTyped, Told DEF Decided

(* What the templates declare is named after objects.                      *)
Joins(d, D) ==
  \A e \in D : \E x \in Objects(d) : \E o \in Endings :
    e = [name |-> JoinedAs(x, o), of |-> <<x[1], x[2], o>>]

(* In a set of declarations that are objects with an ending, a name is     *)
(* declared once.                                                          *)
LEMMA JoinsOnce ==
  ASSUME NEW d, LegalDatabase(d), ~ Confusable(d), NEW D, Joins(d, D),
         NEW e \in D, NEW g \in D, e.name = g.name
  PROVE  e = g
<1>1. PICK x \in Objects(d), o \in Endings : e = [name |-> JoinedAs(x, o), of |-> <<x[1], x[2], o>>]
  BY DEF Joins
<1>2. PICK y \in Objects(d), p \in Endings : g = [name |-> JoinedAs(y, p), of |-> <<y[1], y[2], p>>]
  BY DEF Joins
<1>3. JoinedAs(x, o) = JoinedAs(y, p)
  BY <1>1, <1>2
<1>4. x = y /\ o = p
  BY <1>3, JoinedOnce
<1>5. QED
  BY <1>1, <1>2, <1>4

(* A struct for a type, table or view is an object with an ending.         *)
LEMMA JoinedObject ==
  ASSUME NEW d, NEW t, <<t.schema, t.name>> \in Objects(d), NEW o \in Endings
  PROVE  \E x \in Objects(d) : \E p \in Endings :
           Struct(t, o) = [name |-> JoinedAs(x, p), of |-> <<x[1], x[2], p>>]
<1> DEFINE x == <<t.schema, t.name>>
<1>1. x[1] = t.schema /\ x[2] = t.name
  OBVIOUS
<1>2. Struct(t, o) = [name |-> JoinedAs(x, o), of |-> <<x[1], x[2], o>>]
  BY <1>1 DEF Struct, Joined, JoinedAs
<1>3. QED
  BY <1>2

StructOf(d, e) ==
  \E t : <<t.schema, t.name>> \in Objects(d) /\ \E o \in Endings : e = Struct(t, o)

(* Declarations that are structs are objects with an ending.               *)
LEMMA StructsJoin ==
  ASSUME NEW d, NEW D, \A e \in D : StructOf(d, e)
  PROVE  Joins(d, D)
<1>1. ASSUME NEW e \in D
      PROVE  \E x \in Objects(d) : \E p \in Endings :
               e = [name |-> JoinedAs(x, p), of |-> <<x[1], x[2], p>>]
  <2>1. PICK t : <<t.schema, t.name>> \in Objects(d) /\ \E o \in Endings : e = Struct(t, o)
    BY DEF StructOf
  <2>2. PICK o \in Endings : e = Struct(t, o)
    BY <2>1
  <2>3. QED
    BY <2>1, <2>2, JoinedObject
<1>2. QED
  BY <1>1 DEF Joins

(* Relations, enums and composites are objects.                            *)
Named(L, t) ==
  \/ t \in L.tables \cup L.foreignTables \cup L.views \cup L.materializedViews
  \/ t \in L.types /\ (t.enums # {} \/ t.attributes # <<>>)

(* The relations, enums and composites of the lists are objects.           *)
LEMMA ListedObjects ==
  ASSUME NEW d, NEW f, References(d), NEW t,
         \/ t \in TablesList(d, f) \cup ForeignTablesList(d, f) \cup ViewsList(d, f) \cup MaterializedViewsList(d, f)
         \/ t \in TypesList(d) /\ (t.enums # {} \/ t.attributes # <<>>)
  PROVE  <<t.schema, t.name>> \in Objects(d)
<1>1. CASE t \in TablesList(d, f) \cup ForeignTablesList(d, f) \cup ViewsList(d, f) \cup MaterializedViewsList(d, f)
  <2>1. PICK r \in d.rels : t.name = r.name /\ t.schema = r.schema
    BY <1>1, RelationSchema
  <2>2. QED
    BY <2>1 DEF Objects
<1>2. CASE t \in TypesList(d) /\ (t.enums # {} \/ t.attributes # <<>>)
  <2>1. PICK x \in d.types : t = ElementOf(x)
    BY <1>2, TypesInList, OwnTypes
  <2>2. t.schema = x.schema /\ t.name = x.name
    BY <2>1 DEF ElementOf
  <2>3. QED
    BY <2>2 DEF Objects
<1>3. QED
  BY <1>1, <1>2

(* DeclaredOnce: Go, Python and Swift declare no name twice, unless the    *)
(* names of two objects can be confused.                                   *)
THEOREM AlwaysDeclaredOnce == Spec => []DeclaredOnce
<1>1. GenerateInv => DeclaredOnce
  <2> SUFFICES ASSUME GenerateInv, phase = "written", Undisturbed, ~ Confusable(db)
               PROVE  /\ \A x, y \in GoDeclared(Lists) : x.name = y.name => x = y
                      /\ (\A t \in PyRelations(Lists) : ~ Borrowed(Lists, t.schema)) =>
                           \A x, y \in PyDeclared(Lists) : x.name = y.name => x = y
                      /\ \A s \in Lists.schemas :
                           \A x, y \in {z \in SwiftDeclared(Lists) : z.schema = s.name} : x.name = y.name => x = y
    BY DEF DeclaredOnce
  <2> DEFINE L == Lists
  <2>1. LegalDatabase(db) /\ References(db)
    BY DEF GenerateInv, LegalDatabase
  <2>2. \A t : Named(L, t) => <<t.schema, t.name>> \in Objects(db)
    BY <2>1, UndisturbedLists, ListedObjects DEF ListsOf, Named
  <2>3. <<>> \in Endings /\ <<"select">> \in Endings /\ <<"insert">> \in Endings /\ <<"update">> \in Endings
    BY DEF Endings
  <2> HIDE DEF L
  <2>4. Joins(db, GoDeclared(L))
    <3>1. SUFFICES ASSUME NEW e \in GoDeclared(L)
                   PROVE  \E t : Named(L, t) /\ \E o \in Endings : e = Struct(t, o)
      <4>1. SUFFICES \A e \in GoDeclared(L) : StructOf(db, e)
        BY StructsJoin
      <4>2. QED
        BY <2>2 DEF StructOf
    <3>2. CASE \E t \in L.tables : e \in TableStructs(t)
      BY <2>3, <3>2 DEF TableStructs, Named
    <3>3. CASE \E t \in L.views \cup L.materializedViews : e = Struct(t, <<"select">>)
      BY <2>3, <3>3 DEF Named
    <3>4. CASE \E t \in GoComposites(L) : e = Struct(t, <<>>)
      BY <2>3, <3>4 DEF GoComposites, Named
    <3>5. QED
      BY <3>2, <3>3, <3>4 DEF GoDeclared
  <2>5. ASSUME \A t \in PyRelations(L) : ~ Borrowed(L, t.schema) PROVE Joins(db, PyDeclared(L))
    <3>0. \A t \in PyRelations(L) : RelationClass(L, t) = ClassName(t)
      BY <2>5 DEF RelationClass, ClassName
    <3>1. SUFFICES ASSUME NEW e \in PyDeclared(L)
                   PROVE  \E t : Named(L, t) /\ \E o \in Endings : e = Struct(t, o)
      <4>1. SUFFICES \A e \in PyDeclared(L) : StructOf(db, e)
        BY StructsJoin
      <4>2. QED
        BY <2>2 DEF StructOf
    <3>2. CASE \E t \in PyEnums(L) \cup PyRelations(L) \cup PyComposites(L) :
                 e = [name |-> ClassName(t), of |-> <<t.schema, t.name, <<>>>>]
      <4>1. PICK t \in PyEnums(L) \cup PyRelations(L) \cup PyComposites(L) :
              e = [name |-> ClassName(t), of |-> <<t.schema, t.name, <<>>>>]
        BY <3>2
      <4>2. Named(L, t)
        BY DEF PyEnums, PyRelations, PyComposites, Named
      <4>3. <<t.schema, t.name>> \in Objects(db)
        BY <2>2, <4>2
      <4>4. ClassName(t) = ClassName(t) \o <<>>
        <5>1. ClassName(t) = Joined(<<t.schema, t.name>>)
          BY DEF ClassName, Joined
        <5>2. ClassName(t) \in Seq(Letters(db))
          BY <2>1, <4>3, <5>1, JoinedTyped
        <5>3. QED
          BY <5>2, ConcatEmptySeq
      <4>5. e = Struct(t, <<>>)
        BY <4>1, <4>4 DEF Struct, ClassName
      <4>6. QED
        BY <2>3, <4>2, <4>5
    <3>3. CASE \E t \in L.tables : \E o \in {<<"insert">>, <<"update">>} :
                 e = [name |-> RelationClass(L, t) \o o, of |-> <<t.schema, t.name, o>>]
      <4>1. PICK t \in L.tables, o \in {<<"insert">>, <<"update">>} :
              e = [name |-> RelationClass(L, t) \o o, of |-> <<t.schema, t.name, o>>]
        BY <3>3
      <4>2. RelationClass(L, t) = ClassName(t) /\ Named(L, t)
        BY <3>0 DEF PyRelations, Named
      <4>3. e = Struct(t, o)
        BY <4>1, <4>2 DEF Struct, ClassName
      <4>4. QED
        BY <2>3, <4>2, <4>3
    <3>4. QED
      BY <3>0, <3>2, <3>3 DEF PyDeclared
  <2>6. ASSUME NEW s, NEW x \in SwiftDeclared(L), x.schema = s
        PROVE  \E a \in Objects(db) : \E o \in Endings :
                 a[1] = s /\ x = [schema |-> s, name |-> SwiftAs(a, o), of |-> <<a[2], o>>]
    <3> DEFINE T == SwiftTables(L, s) \cup SwiftViews(L, s) \cup SwiftEnums(L, s) \cup SwiftComposites(L, s)
    <3>0. \E t \in T : \E o \in Endings : x = Declare(s, t, o)
      <4>1. \A z, t, o : Declare(z, t, o).schema = z
        BY DEF Declare
      <4>2. PICK z : \/ \E t \in SwiftTables(L, z) : \E o \in Endings : x = Declare(z, t, o)
                     \/ \E t \in SwiftViews(L, z) : x = Declare(z, t, <<"select">>)
                     \/ \E t \in SwiftEnums(L, z) \cup SwiftComposites(L, z) : x = Declare(z, t, <<>>)
        BY <2>3 DEF SwiftDeclared, SwiftView
      <4>3. z = s
        BY <2>6, <4>1, <4>2
      <4>4. QED
        BY <2>3, <4>2, <4>3
    <3>1. PICK t \in T, o \in Endings : x = Declare(s, t, o)
      BY <3>0
    <3>2. t.schema = s /\ <<t.schema, t.name>> \in Objects(db)
      <4>1. t.schema = s /\ Named(L, t)
        BY DEF SwiftTables, SwiftViews, SwiftEnums, SwiftComposites, Named
      <4>2. QED
        BY <2>2, <4>1
    <3>3. QED
      BY <3>1, <3>2 DEF Declare, SwiftAs
  <2>7. ASSUME NEW s, NEW x \in SwiftDeclared(L), NEW y \in SwiftDeclared(L),
               x.schema = s, y.schema = s, x.name = y.name
        PROVE  x = y
    <3>1. PICK a \in Objects(db), o \in Endings :
            a[1] = s /\ x = [schema |-> s, name |-> SwiftAs(a, o), of |-> <<a[2], o>>]
      BY <2>6, <2>7
    <3>2. PICK b \in Objects(db), p \in Endings :
            b[1] = s /\ y = [schema |-> s, name |-> SwiftAs(b, p), of |-> <<b[2], p>>]
      BY <2>6, <2>7
    <3>3. SwiftAs(a, o) = SwiftAs(b, p)
      BY <2>7, <3>1, <3>2
    <3>4. a = b /\ o = p
      BY <2>1, <3>1, <3>2, <3>3, SwiftOnce
    <3>5. QED
      BY <3>1, <3>2, <3>4
  <2>8. QED
    BY <2>1, <2>4, <2>5, <2>7, JoinsOnce DEF L
<1>2. QED
  BY <1>1, GenerateInvariant, PTL

-------------------------------------------------------------------------------
(* Python and Swift: every reference is to a declaration.                  *)

(* The row types in the list are those of relations that are not foreign.  *)
LEMMA RowTypeOf ==
  ASSUME NEW d, NEW t \in TypesList(d), t.relation # 0, t.attributes = <<>>
  PROVE  \E r \in d.rels : t = RowOf(r) /\ r.kind # "foreign"
<1>1. \A u : ArrayOf(u).relation = 0
  BY DEF ArrayOf
<1>2. \A x : ElementOf(x).relation = 0 \/ ElementOf(x).attributes # <<>>
  BY DEF ElementOf
<1>3. PICK r \in d.rels : t = RowOf(r)
  BY <1>1, <1>2, TypesInList, TypeCases
<1>4. ~ Foreign(d, t.relation)
  BY <1>1 DEF TypesList
<1>5. t.relation = r.id
  BY <1>3 DEF RowOf
<1>6. QED
  BY <1>3, <1>4, <1>5 DEF Foreign

(* types.list() returns the row type of a relation that is not foreign.    *)
LEMMA RowTypeListed ==
  ASSUME NEW d, UniqueIds(d), NEW r \in d.rels, r.kind # "foreign"
  PROVE  RowOf(r) \in TypesList(d)
<1>1. RowOf(r) \in ElementTypes(d)
  BY DEF ElementTypes, RowOf
<1>2. RowOf(r).relation = r.id
  BY DEF RowOf
<1>3. ~ Foreign(d, RowOf(r).relation)
  BY <1>2 DEF UniqueIds, Foreign
<1>4. QED
  BY <1>1, <1>3 DEF TypesList

(* A schema of the list passes, and is nobody's temporary schema.          *)
LEMMA ListedPasses ==
  ASSUME NEW d, UniqueNames(d), NEW s \in KeptSchemas(SchemasList(d, ListFilter))
  PROVE  Passes(filter, s.name) /\ ~ Temporary(d, s.name)
<1>1. /\ s \in d.schemas /\ Passes(ListFilter, s.name) /\ ~ Internal(s.name)
      /\ s.name \notin filter.exclude /\ (filter.include = {} \/ s.name \in filter.include)
  BY DEF KeptSchemas, SchemasList
<1>2. Passes(filter, s.name)
  <2>1. CASE filter.include = {}
    <3>1. s.name \notin System
      BY <1>1, <2>1 DEF Passes, FilterByList, ListFilter, NoFilter
    <3>2. QED
      BY <1>1, <2>1, <3>1 DEF Passes, FilterByList
  <2>2. QED
    BY <1>1, <2>1 DEF Passes, FilterByList
<1>3. ~ Temporary(d, s.name)
  BY <1>1 DEF Temporary, UniqueNames
<1>4. QED
  BY <1>2, <1>3

(* A relation of a listed schema is listed, if it is no table that the     *)
(* role has no privilege on.                                               *)
LEMMA ReadableListed ==
  ASSUME NEW d, LegalDatabase(d), NEW r \in d.rels, r.kind # "foreign",
         r.kind = "table" => SeesTable(r), Listed(ListsOf(d), r.schema)
  PROVE  \E y \in ListsOf(d).tables \cup ListsOf(d).views \cup ListsOf(d).materializedViews :
           y.schema = r.schema /\ y.name = r.name /\ y.id = r.id
<1>1. PICK s \in KeptSchemas(SchemasList(d, ListFilter)) : s.name = r.schema
  BY DEF Listed, ListsOf
<1>2. Passes(filter, r.schema) /\ ~ Temporary(d, r.schema) /\ FilterByList(filter, {}, r.schema)
  BY <1>1, ListedPasses DEF LegalDatabase, Passes, FilterByList
<1>3. r.kind \in {"table", "view", "matview"}
  BY DEF LegalDatabase
<1> DEFINE y == [id |-> r.id, schema |-> r.schema, name |-> r.name, updatable |-> r.updatable]
<1>4. y \in Relations(d, r.kind)
  BY DEF Relations
<1>5. CASE r.kind = "table"
  <2>1. y \in TablesList(d, filter)
    BY <1>2, <1>4, <1>5 DEF TablesList
  <2>2. QED
    BY <2>1 DEF ListsOf
<1>6. CASE r.kind = "view"
  <2>1. y \in ViewsList(d, filter)
    BY <1>2, <1>4, <1>6 DEF ViewsList
  <2>2. QED
    BY <2>1 DEF ListsOf
<1>7. CASE r.kind = "matview"
  <2>1. [y EXCEPT !.updatable = FALSE] \in MaterializedViewsList(d, filter)
    BY <1>2, <1>4, <1>7 DEF MaterializedViewsList
  <2>2. QED
    BY <2>1 DEF ListsOf
<1>8. QED
  BY <1>3, <1>5, <1>6, <1>7

Unwritten(d, L, t) ==
  \/ t.enums = {} /\ t.attributes = <<>> /\ t.relation = 0
  \/ ~ Listed(L, t.schema)
  \/ \E r \in d.rels : r.id = t.relation /\ r.kind = "table" /\ ~ SeesTable(r)

(* A row type that is not among the exceptions is that of a relation that  *)
(* is listed.                                                              *)
LEMMA WrittenRow ==
  ASSUME NEW d, LegalDatabase(d), NEW t \in TypesList(d), t.enums = {}, t.attributes = <<>>,
         ~ Unwritten(d, ListsOf(d), t)
  PROVE  \E y \in ListsOf(d).tables \cup ListsOf(d).views \cup ListsOf(d).materializedViews :
           y.schema = t.schema /\ y.name = t.name
<1>1. PICK r \in d.rels : t = RowOf(r) /\ r.kind # "foreign"
  BY RowTypeOf DEF Unwritten
<1>2. t.schema = r.schema /\ t.name = r.name /\ t.relation = r.id
  BY <1>1 DEF RowOf
<1>3. (r.kind = "table" => SeesTable(r)) /\ Listed(ListsOf(d), r.schema)
  BY <1>2 DEF Unwritten
<1>4. QED
  BY <1>1, <1>2, <1>3, ReadableListed

(* Python: what a type's name is resolved to is declared, or is a type     *)
(* that is not written, or a member of Object.prototype.                   *)
LEMMA PythonResolves ==
  ASSUME NEW d, LegalDatabase(d), NEW L, L = ListsOf(d), NEW name, NEW n \in Resolve(L, name)
  PROVE  \/ \E x \in PyDeclared(L) : x.name = n
         \/ \E t \in L.types : ClassName(t) = n /\ Unwritten(d, L, t)
         \/ n = <<"Object">> /\ Element(name) \in Prototype
<1>1. \A t \in PyEnums(L) \cup PyComposites(L) : \E x \in PyDeclared(L) : x.name = ClassName(t)
  <2> TAKE t \in PyEnums(L) \cup PyComposites(L)
  <2> DEFINE x == [name |-> ClassName(t), of |-> <<t.schema, t.name, <<>>>>]
  <2>1. x \in PyDeclared(L)
    BY DEF PyDeclared
  <2>2. QED
    BY <2>1
<1>2. \A t \in PyRelations(L) : PyListed(L, t.schema) => \E x \in PyDeclared(L) : x.name = ClassName(t)
  <2> TAKE t \in PyRelations(L)
  <2> HAVE PyListed(L, t.schema)
  <2> DEFINE x == [name |-> RelationClass(L, t), of |-> <<t.schema, t.name, <<>>>>]
  <2>1. x \in PyDeclared(L)
    BY DEF PyDeclared
  <2>2. RelationClass(L, t) = ClassName(t)
    BY DEF RelationClass, ClassName, Borrowed
  <2>3. QED
    BY <2>1, <2>2
<1>3. CASE n = <<"Object">> /\ Element(name) \in Prototype
  BY <1>3
<1>4. CASE \E t \in L.types : n = ClassName(t) /\ (t \in PyEnums(L) \/ t.enums = {})
  <2>1. PICK t \in L.types : n = ClassName(t) /\ (t \in PyEnums(L) \/ t.enums = {})
    BY <1>4
  <2>2. CASE t \in PyEnums(L)
    BY <1>1, <2>1, <2>2
  <2>3. CASE t.enums = {} /\ t.attributes # <<>>
    <3>1. Listed(L, t.schema) => t \in PyComposites(L)
      BY <2>3 DEF Listed, PyListed, PyComposites
    <3>2. QED
      BY <1>1, <2>1, <3>1 DEF Unwritten
  <2>4. CASE t.enums = {} /\ t.attributes = <<>>
    <3>1. SUFFICES ASSUME ~ Unwritten(d, L, t) PROVE \E x \in PyDeclared(L) : x.name = n
      BY <2>1
    <3>2. t \in TypesList(d)
      BY DEF ListsOf
    <3>3. PICK y \in L.tables \cup L.views \cup L.materializedViews : y.schema = t.schema /\ y.name = t.name
      BY <2>4, <3>1, <3>2, WrittenRow
    <3>4. ClassName(y) = n /\ y \in PyRelations(L) /\ PyListed(L, y.schema)
      BY <2>1, <3>1, <3>3 DEF ClassName, PyRelations, Unwritten, Listed, PyListed
    <3>5. QED
      BY <1>2, <3>4
  <2>5. QED
    BY <2>1, <2>2, <2>3, <2>4
<1>5. QED
  BY <1>3, <1>4 DEF Resolve, PyEnums

(* What Python resolves is the name of a type of the database.             *)
LEMMA PythonRefersToTypes ==
  ASSUME NEW d, LegalDatabase(d), NEW L, L = ListsOf(d), NEW n \in PyReferences(L)
  PROVE  \E u \in AllTypes(d) : n \in Resolve(L, u.name)
<1>1. CASE \E c \in L.columns : n \in Resolve(L, c.format)
  <2>1. PICK c \in L.columns : n \in Resolve(L, c.format)
    BY <1>1
  <2>2. PICK r \in d.rels : \E i \in DOMAIN r.cols : c.format = TypeName(d, r.cols[i].type)
    BY DEF ListsOf, ColumnsList
  <2>a. PICK i \in DOMAIN r.cols : c.format = TypeName(d, r.cols[i].type)
    BY <2>2
  <2>3. r.cols[i].type \in TypeIds(d)
    BY DEF LegalDatabase, References
  <2>4. PICK u \in AllTypes(d) : u.id = r.cols[i].type
    BY <2>3 DEF TypeIds
  <2>5. c.format = u.name
    BY <2>a, <2>4, TypeNameOf DEF LegalDatabase
  <2>6. QED
    BY <2>1, <2>5
<1>2. CASE \E y \in L.types : n \in Resolve(L, y.name)
  BY <1>2, TypesInList DEF ListsOf
<1>3. QED
  BY <1>1, <1>2 DEF PyReferences, PyColumns

(* Swift: what a type's name turns into is declared in the schema, or is a *)
(* type that is not written, a composite or of another schema.             *)
LEMMA SwiftResolves ==
  ASSUME NEW d, LegalDatabase(d), NEW L, L = ListsOf(d), NEW s, Listed(L, s), NEW name,
         NEW x \in SwiftType(L, s, name)
  PROVE  \/ \E y \in SwiftDeclared(L) : x = [schema |-> y.schema, name |-> y.name]
         \/ \E t \in L.types :
              /\ x.name \in {SwiftName(t.name), SwiftName(t.name) \o <<"select">>}
              /\ Unwritten(d, L, t) \/ t.attributes # <<>> \/ t.schema # x.schema
<1> DEFINE n == Element(name)
           declared(o) ==
             \E y \in SwiftDeclared(L) : [schema |-> s, name |-> SwiftName(n) \o o] = [schema |-> y.schema, name |-> y.name]
<1>1. s \in {z.name : z \in L.schemas}
  BY DEF Listed
<1>2. \A t \in SwiftEnums(L, s) : t.name = n => declared(<<>>)
  <2> TAKE t \in SwiftEnums(L, s)
  <2>1. Declare(s, t, <<>>) \in SwiftDeclared(L)
    BY <1>1 DEF SwiftDeclared
  <2>2. QED
    BY <2>1 DEF Declare
<1>3. \A t \in SwiftTables(L, s) \cup SwiftViews(L, s) : t.name = n => declared(<<"select">>)
  <2> TAKE t \in SwiftTables(L, s) \cup SwiftViews(L, s)
  <2>1. Declare(s, t, <<"select">>) \in SwiftDeclared(L)
    BY <1>1 DEF SwiftDeclared, SwiftView
  <2>2. QED
    BY <2>1 DEF Declare
<1> HIDE DEF n
<1>4. CASE x = [schema |-> s, name |-> SwiftName(n)] /\ \E t \in L.types : t.name = n /\ t.enums # {}
  <2>1. PICK t \in L.types : t.name = n /\ t.enums # {}
    BY <1>4
  <2>2. CASE t.schema # s
    BY <1>4, <2>1, <2>2
  <2>3. CASE t.schema = s
    <3>1. declared(<<>>)
      BY <1>2, <2>1, <2>3 DEF SwiftEnums
    <3>2. SwiftName(n) \o <<>> = SwiftName(n)
      <4>1. <<t.schema, t.name>> \in Objects(d)
        BY <2>1, ListedObjects DEF ListsOf, LegalDatabase
      <4>2. SwiftName(n) \in Seq(Letters(d))
        BY <2>1, <4>1, SwiftTyped
      <4>3. QED
        BY <4>2, ConcatEmptySeq
    <3>3. QED
      BY <1>4, <3>1, <3>2
  <2>4. QED
    BY <2>2, <2>3
<1>5. CASE /\ x = [schema |-> s, name |-> SwiftName(n) \o <<"select">>]
           /\ ~ \E t \in L.types : t.name = n /\ t.enums # {}
           /\ \E t \in L.types \cup L.views \cup L.tables : t.name = n
  <2>1. PICK t \in L.types : t.name = n
    <3>1. CASE \E t \in L.types : t.name = n
      BY <3>1
    <3>2. CASE \E t \in L.views \cup L.tables : t.name = n
      <4>1. PICK t \in L.views \cup L.tables : t.name = n
        BY <3>2
      <4>2. PICK kind \in {"table", "view"} : t \in Relations(d, kind)
        BY <4>1 DEF ListsOf, ViewsList, TablesList
      <4>3. PICK r \in d.rels : r.kind = kind /\ r.name = n
        BY <4>1, <4>2, RelationListed
      <4>4. RowOf(r) \in L.types
        BY <4>3, RowTypeListed DEF ListsOf, LegalDatabase
      <4>5. RowOf(r).name = n
        BY <4>3 DEF RowOf
      <4>6. QED
        BY <4>4, <4>5
    <3>3. QED
      BY <1>5, <3>1, <3>2
  <2>2. t.enums = {}
    BY <1>5, <2>1
  <2>3. x.name = SwiftName(t.name) \o <<"select">> /\ x.schema = s
    BY <1>5, <2>1
  <2>4. CASE Unwritten(d, L, t) \/ t.attributes # <<>> \/ t.schema # s
    BY <2>3, <2>4
  <2>5. CASE ~ Unwritten(d, L, t) /\ t.attributes = <<>> /\ t.schema = s
    <3>1. t \in TypesList(d)
      BY DEF ListsOf
    <3>2. PICK y \in L.tables \cup L.views \cup L.materializedViews : y.schema = t.schema /\ y.name = t.name
      BY <2>2, <2>5, <3>1, WrittenRow
    <3>3. y \in SwiftTables(L, s) \cup SwiftViews(L, s)
      BY <2>5, <3>2 DEF SwiftTables, SwiftViews
    <3>4. declared(<<"select">>)
      BY <1>3, <2>1, <3>2, <3>3
    <3>5. QED
      BY <1>5, <3>4
  <2>6. QED
    BY <2>4, <2>5
<1>6. QED
  BY <1>4, <1>5 DEF SwiftType, n

(* ReferencesResolve: Python and Swift refer to names that they declare,   *)
(* but for those of the types that the property names.                     *)
THEOREM AlwaysResolved == Spec => []ReferencesResolve
<1>1. GenerateInv => ReferencesResolve
  <2> SUFFICES ASSUME GenerateInv, Undisturbed, phase = "written"
               PROVE  LET L == Lists
                          unwritten(t) ==
                            \/ t.enums = {} /\ t.attributes = <<>> /\ t.relation = 0
                            \/ ~ Listed(L, t.schema)
                            \/ \E r \in db.rels : r.id = t.relation /\ r.kind = "table" /\ ~ SeesTable(r) IN
                      /\ \A n \in PyReferences(L) \ {x.name : x \in PyDeclared(L)} :
                           \/ \E t \in L.types : ClassName(t) = n /\ unwritten(t)
                           \/ n = <<"Object">> /\ \E t \in AllTypes(db) : Element(t.name) \in Prototype
                      /\ \A x \in SwiftReferences(L) \ {[schema |-> y.schema, name |-> y.name] : y \in SwiftDeclared(L)} :
                           \E t \in L.types :
                             /\ x.name \in {SwiftName(t.name), SwiftName(t.name) \o <<"select">>}
                             /\ unwritten(t) \/ t.attributes # <<>> \/ t.schema # x.schema
    BY DEF ReferencesResolve, Written
  <2> DEFINE L == Lists
  <2>1. LegalDatabase(db) /\ L = ListsOf(db)
    BY UndisturbedLists DEF GenerateInv
  <2> HIDE DEF L
  <2>2. ASSUME NEW n \in PyReferences(L), n \notin {x.name : x \in PyDeclared(L)}
        PROVE  \/ \E t \in L.types : ClassName(t) = n /\ Unwritten(db, L, t)
               \/ n = <<"Object">> /\ \E t \in AllTypes(db) : Element(t.name) \in Prototype
    <3>1. PICK u \in AllTypes(db) : n \in Resolve(L, u.name)
      BY <2>1, PythonRefersToTypes
    <3>2. QED
      BY <2>1, <2>2, <3>1, PythonResolves
  <2>3. ASSUME NEW x \in SwiftReferences(L),
               x \notin {[schema |-> y.schema, name |-> y.name] : y \in SwiftDeclared(L)}
        PROVE  \E t \in L.types :
                 /\ x.name \in {SwiftName(t.name), SwiftName(t.name) \o <<"select">>}
                 /\ Unwritten(db, L, t) \/ t.attributes # <<>> \/ t.schema # x.schema
    <3>1. \E s, name : Listed(L, s) /\ x \in SwiftType(L, s, name)
      BY DEF SwiftReferences, Listed
    <3>2. PICK s, name : Listed(L, s) /\ x \in SwiftType(L, s, name)
      BY <3>1
    <3>3. ~ \E y \in SwiftDeclared(L) : x = [schema |-> y.schema, name |-> y.name]
      BY <2>3
    <3>4. QED
      BY <2>1, <3>2, <3>3, SwiftResolves
  <2>4. QED
    BY <2>2, <2>3 DEF Unwritten, L
<1>2. QED
  BY <1>1, GenerateInvariant, PTL

-------------------------------------------------------------------------------
(* Embeddings: the relations and columns they name.                        *)

(* A side of a relationship, and the relationship that foreign key k makes *)
(* between two of them.                                                    *)
Own(r, cols) == [schema |-> r.schema, relation |-> r.name, columns |-> cols]
Between(d, f, k, x, y) ==
  [name |-> k.name, schema |-> x.schema, relation |-> x.relation, columns |-> x.columns,
   one |-> IsOneToOne(d, f, k),
   rschema |-> y.schema, rrelation |-> y.relation, rcolumns |-> y.columns]

KeyColumnsListed(d, f, k, cols) == IF PassesQuoted(d, f, k) THEN cols ELSE <<>>
Referring(d, f, deps, k) ==
  {Own(Rel(d, k.rel), KeyColumnsListed(d, f, k, k.cols))}
  \cup Exposed(deps, "f", k.name, Rel(d, k.rel).schema, Rel(d, k.rel).name)
Referred(d, f, deps, k) ==
  {Own(Rel(d, k.ref), KeyColumnsListed(d, f, k, k.refcols))}
  \cup Exposed(deps, "f_ref", k.name, Rel(d, k.ref).schema, Rel(d, k.ref).name)
Relates(d, f, deps, e) ==
  \E k \in ForeignKeys(d, f) :
    \E x \in Referring(d, f, deps, k), y \in Referred(d, f, deps, k) : e = Between(d, f, k, x, y)

FromView(q, v) == [q EXCEPT !.schema = v.schema, !.relation = v.relation, !.columns = v.columns]
ToView(q, w) == [q EXCEPT !.rschema = w.schema, !.rrelation = w.relation, !.rcolumns = w.columns]

(* Functions of one domain are equal when their values are.                *)
LEMMA SameFunction ==
  ASSUME NEW S, NEW f, NEW g, f = [x \in S |-> f[x]], g = [x \in S |-> g[x]],
         \A x \in S : f[x] = g[x]
  PROVE  f = g
OBVIOUS

(* list() replaces one side of a relationship, then the other, by a view.  *)
LEMMA SidesReplaced ==
  ASSUME NEW d, NEW f, NEW k, NEW x, NEW y, NEW v
  PROVE  /\ FromView(Between(d, f, k, x, y), v) = Between(d, f, k, v, y)
         /\ ToView(Between(d, f, k, x, y), v) = Between(d, f, k, x, v)
<1> DEFINE q == Between(d, f, k, x, y)
           S == {"name", "schema", "relation", "columns", "one", "rschema", "rrelation", "rcolumns"}
<1>1. \A u, w : LET t == Between(d, f, k, u, w) IN
        /\ t = [z \in S |-> t[z]]
        /\ t.name = k.name /\ t.one = IsOneToOne(d, f, k)
        /\ t.schema = u.schema /\ t.relation = u.relation /\ t.columns = u.columns
        /\ t.rschema = w.schema /\ t.rrelation = w.relation /\ t.rcolumns = w.columns
  BY DEF Between
<1> HIDE DEF q
<1>2. q = [z \in S |-> q[z]]
  BY <1>1 DEF q
<1>3. FromView(q, v) = Between(d, f, k, v, y)
  <2> DEFINE r == FromView(q, v)
             t == Between(d, f, k, v, y)
  <2>1. /\ r = [z \in S |-> r[z]]
        /\ r.schema = v.schema /\ r.relation = v.relation /\ r.columns = v.columns
        /\ r.name = q.name /\ r.one = q.one
        /\ r.rschema = q.rschema /\ r.rrelation = q.rrelation /\ r.rcolumns = q.rcolumns
    BY <1>2 DEF FromView
  <2> HIDE DEF r
  <2>2. \A z \in S : r[z] = t[z]
    BY <1>1, <2>1 DEF q
  <2> HIDE DEF t, S
  <2>3. t = [z \in S |-> t[z]]
    BY <1>1 DEF t
  <2>4. r = t
    BY <2>1, <2>2, <2>3, SameFunction
  <2>5. QED
    BY <2>4 DEF r, t
<1>4. ToView(q, v) = Between(d, f, k, x, v)
  <2> DEFINE r == ToView(q, v)
             t == Between(d, f, k, x, v)
  <2>1. /\ r = [z \in S |-> r[z]]
        /\ r.rschema = v.schema /\ r.rrelation = v.relation /\ r.rcolumns = v.columns
        /\ r.name = q.name /\ r.one = q.one
        /\ r.schema = q.schema /\ r.relation = q.relation /\ r.columns = q.columns
    BY <1>2 DEF ToView
  <2> HIDE DEF r
  <2>2. \A z \in S : r[z] = t[z]
    BY <1>1, <2>1 DEF q
  <2> HIDE DEF t, S
  <2>3. t = [z \in S |-> t[z]]
    BY <1>1 DEF t
  <2>4. r = t
    BY <2>1, <2>2, <2>3, SameFunction
  <2>5. QED
    BY <2>4 DEF r, t
<1>5. QED
  BY <1>3, <1>4 DEF q

(* What list() returns: for each foreign key, every side that it finds for *)
(* the referencing columns with every one for the referenced columns.      *)
LEMMA RelationshipCases ==
  ASSUME NEW d, NEW f, NEW deps, NEW e
  PROVE  e \in RelationshipsList(TableRelationships(d, f), deps) <=> Relates(d, f, deps, e)
<1> DEFINE own(k) == Own(Rel(d, k.rel), KeyColumnsListed(d, f, k, k.cols))
           ref(k) == Own(Rel(d, k.ref), KeyColumnsListed(d, f, k, k.refcols))
           K == ForeignKeys(d, f)
           R == TableRelationships(d, f)
           V(r) == Exposed(deps, "f", r.name, r.schema, r.relation)
           W(r) == Exposed(deps, "f_ref", r.name, r.rschema, r.rrelation)
<1>1. R = {Between(d, f, k, own(k), ref(k)) : k \in K}
  BY DEF TableRelationships, Between, Own, KeyColumnsListed
<1>2. e \in RelationshipsList(R, deps) <=>
        \/ e \in R
        \/ \E r \in R : \/ \E v \in V(r) : e = FromView(r, v)
                        \/ \E w \in W(r) : e = ToView(r, w)
                        \/ \E v \in V(r), w \in W(r) : e = ToView(FromView(r, v), w)
  <2>1. \A r \in R : {ToView(FromView(r, p[1]), p[2]) : p \in V(r) \X W(r)}
                       = {ToView(FromView(r, v), w) : v \in V(r), w \in W(r)}
    <3> TAKE r \in R
    <3> HIDE DEF V, W, R
    <3>1. \A p \in V(r) \X W(r) : p[1] \in V(r) /\ p[2] \in W(r)
      OBVIOUS
    <3>2. \A v \in V(r), w \in W(r) : \E p \in V(r) \X W(r) : p[1] = v /\ p[2] = w
      <4> TAKE v \in V(r), w \in W(r)
      <4>1. <<v, w>> \in V(r) \X W(r) /\ <<v, w>>[1] = v /\ <<v, w>>[2] = w
        OBVIOUS
      <4>2. QED
        BY <4>1
    <3> DEFINE P == V(r) \X W(r)
    <3> HIDE DEF P
    <3>3. QED
      BY <3>1, <3>2 DEF P
  <2>2. RelationshipsList(R, deps) =
          R \cup UNION {{FromView(r, v) : v \in V(r)} \cup {ToView(r, w) : w \in W(r)}
                        \cup {ToView(FromView(r, p[1]), p[2]) : p \in V(r) \X W(r)} : r \in R}
    BY DEF RelationshipsList, FromView, ToView
  <2> HIDE DEF V, W, R
  <2>3. QED
    BY <2>1, <2>2
<1>3. ASSUME NEW k \in K
      PROVE  LET q == Between(d, f, k, own(k), ref(k)) IN
             /\ V(q) = Exposed(deps, "f", k.name, Rel(d, k.rel).schema, Rel(d, k.rel).name)
             /\ W(q) = Exposed(deps, "f_ref", k.name, Rel(d, k.ref).schema, Rel(d, k.ref).name)
  BY DEF Between, Own
<1>4. \A k \in K : LET q == Between(d, f, k, own(k), ref(k)) IN
        /\ Referring(d, f, deps, k) = {own(k)} \cup V(q)
        /\ Referred(d, f, deps, k) = {ref(k)} \cup W(q)
  BY <1>3 DEF Referring, Referred
<1> HIDE DEF V, W, own, ref, K, R
<1>5. e \in RelationshipsList(R, deps) <=>
        \E k \in K : LET q == Between(d, f, k, own(k), ref(k)) IN
          \/ e = q
          \/ \E v \in V(q) : e = Between(d, f, k, v, ref(k))
          \/ \E w \in W(q) : e = Between(d, f, k, own(k), w)
          \/ \E v \in V(q), w \in W(q) : e = Between(d, f, k, v, w)
  BY <1>1, <1>2, SidesReplaced
<1>6. QED
  BY <1>4, <1>5 DEF Relates, R, K

(* The relation that a key refers to.                                      *)
LEMMA RelOf ==
  ASSUME NEW d, UniqueIds(d), NEW r \in d.rels
  PROVE  Rel(d, r.id) = r
<1>1. \A x \in d.rels : x.id = r.id => x = r
  BY DEF UniqueIds
<1>2. QED
  BY <1>1 DEF Rel

SideOf(d, x) ==
  \E r \in d.rels : r.schema = x.schema /\ r.name = x.relation /\ Image(x.columns) \subseteq ColumnNames(r)

(* The groups of the second query, and the row it makes of one.            *)
Groups(d, f) == {<<x.rel, x.name, x.type, x.n>> : x \in KeyColumns(d, f)}
Rows(d, f, v, g) ==
  {x \in KeyColumns(d, f) : /\ <<x.rel, x.name, x.type, x.n>> = g
                            /\ ViewColumns(d, f, v, <<x.rel, x.col>>) # {}}
InOrder(R, s) ==
  /\ \A x \in R : \E i \in DOMAIN s : s[i] = x
  /\ \A i, j \in DOMAIN s : i < j => s[i].ord <= s[j].ord
Ordered(R) == CHOOSE s \in [1 .. Cardinality(R) -> R] : InOrder(R, s)
ColumnsIn(d, f, v, s) == [i \in DOMAIN s |-> ViewColumns(d, f, v, <<s[i].rel, s[i].col>>)]
Dependency(d, f, v, g) ==
  [schema |-> Rel(d, g[1]).schema, table |-> Rel(d, g[1]).name,
   vschema |-> v.schema, view |-> v.name, name |-> g[2], type |-> g[3],
   columns |-> ColumnsIn(d, f, v, Ordered(Rows(d, f, v, g)))]

(* The second query has a row for each view and each group of key columns  *)
(* that the view shows whole.                                              *)
LEMMA DependencyOf ==
  ASSUME NEW d, NEW f, NEW k
  PROVE  k \in KeyDependencies(d, f) <=>
           \E v \in ViewsOf(d, f) : \E g \in Groups(d, f) :
             Whole(Rows(d, f, v, g), g[4]) /\ k = Dependency(d, f, v, g)
<1>1. KeyDependencies(d, f) =
        UNION {{Dependency(d, f, v, g) : g \in {h \in Groups(d, f) : Whole(Rows(d, f, v, h), h[4])}} :
                 v \in ViewsOf(d, f)}
  BY DEF KeyDependencies, Dependency, Groups, Rows, InOrder, Ordered, ColumnsIn
<1>2. QED
  BY <1>1

(* A view that exposes a key has the columns.                              *)
LEMMA ExposedSide ==
  ASSUME NEW d, NEW f, NEW type, NEW name, NEW schema, NEW table,
         NEW x \in Exposed(KeyDependencies(d, f), type, name, schema, table)
  PROVE  SideOf(d, x)
<1>1. PICK k \in KeyDependencies(d, f) :
        \E cols \in Expand(k.columns) : x = [schema |-> k.vschema, relation |-> k.view, columns |-> cols]
  BY DEF Exposed
<1>2. PICK cols \in Expand(k.columns) : x = [schema |-> k.vschema, relation |-> k.view, columns |-> cols]
  BY <1>1
<1>3. PICK v \in ViewsOf(d, f), g \in Groups(d, f) : k = Dependency(d, f, v, g)
  BY DependencyOf
<1> DEFINE s == Ordered(Rows(d, f, v, g))
<1>4. \A o : ViewColumns(d, f, v, o) \subseteq ColumnNames(v)
  BY DEF ViewColumns, ColumnNames
<1>5. k.columns = ColumnsIn(d, f, v, s) /\ k.vschema = v.schema /\ k.view = v.name
  BY <1>3 DEF Dependency
<1> HIDE DEF s
<1>6. \A i \in DOMAIN cols : cols[i] \in ColumnNames(v)
  <2>1. DOMAIN cols = DOMAIN k.columns /\ \A i \in DOMAIN k.columns : cols[i] \in k.columns[i]
    BY <1>2 DEF Expand
  <2>2. \A i \in DOMAIN k.columns : k.columns[i] \subseteq ColumnNames(v)
    BY <1>4, <1>5 DEF ColumnsIn
  <2>3. QED
    BY <2>1, <2>2
<1>7. v \in d.rels
  BY DEF ViewsOf
<1>8. x.schema = v.schema /\ x.relation = v.name /\ x.columns = cols
  BY <1>2, <1>5
<1>9. QED
  BY <1>6, <1>7, <1>8 DEF SideOf, Image

(* Both sides of a relationship have their columns.                        *)
LEMMA SidesHaveColumns ==
  ASSUME NEW d, LegalDatabase(d), NEW f, NEW e, Relates(d, f, KeyDependencies(d, f), e)
  PROVE  /\ SideOf(d, [schema |-> e.schema, relation |-> e.relation, columns |-> e.columns])
         /\ SideOf(d, [schema |-> e.rschema, relation |-> e.rrelation, columns |-> e.rcolumns])
<1> DEFINE deps == KeyDependencies(d, f)
<1>a. PICK k \in ForeignKeys(d, f) :
        \E x \in Referring(d, f, deps, k), y \in Referred(d, f, deps, k) : e = Between(d, f, k, x, y)
  BY DEF Relates
<1>1. PICK x \in Referring(d, f, deps, k), y \in Referred(d, f, deps, k) : e = Between(d, f, k, x, y)
  BY <1>a
<1>2. k \in d.keys /\ k.kind = "f"
  BY DEF ForeignKeys
<1>3. PICK r \in d.rels : r.id = k.rel /\ ToSet(k.cols) \subseteq ColumnNames(r)
  BY <1>2 DEF LegalDatabase, References
<1>4. PICK q \in d.rels : q.id = k.ref /\ ToSet(k.refcols) \subseteq ColumnNames(q)
  BY <1>2 DEF LegalDatabase, References
<1>5. SideOf(d, x)
  <2>1. Rel(d, k.rel) = r
    BY <1>3, RelOf DEF LegalDatabase
  <2>2. SideOf(d, Own(r, KeyColumnsListed(d, f, k, k.cols)))
    BY <1>3 DEF SideOf, Own, Image, ToSet, KeyColumnsListed
  <2>3. QED
    BY <2>1, <2>2, ExposedSide DEF Referring
<1>6. SideOf(d, y)
  <2>1. Rel(d, k.ref) = q
    BY <1>4, RelOf DEF LegalDatabase
  <2>2. SideOf(d, Own(q, KeyColumnsListed(d, f, k, k.refcols)))
    BY <1>4 DEF SideOf, Own, Image, ToSet, KeyColumnsListed
  <2>3. QED
    BY <2>1, <2>2, ExposedSide DEF Referred
<1>7. QED
  BY <1>1, <1>5, <1>6 DEF SideOf, Between

(* What EmbedsDeclared calls related.                                      *)
WrittenIn(L, s, x) == \E y \in TsTables(L, s) \cup TsViews(L, s) : y.id = x.id /\ y.name = x.name
ShownIn(L, x, c) == \E y \in ColumnsOf(L, x.id) : y.name = c
SeesNamed(x, c) == \A i \in DOMAIN x.cols : x.cols[i].name = c => SeesColumn(x, x.cols[i])
Related(d, L, s, n, cols) ==
  \E x \in d.rels :
    /\ x.schema = s /\ x.name = n
    /\ WrittenIn(L, s, x) \/ (x.kind = "table" /\ ~ SeesTable(x))
    /\ \A c \in Image(cols) : ShownIn(L, x, c) \/ ~ SeesNamed(x, c)

(* A relation of a listed schema is written, unless it is a table that the *)
(* role has no privilege on, with the columns that the role may see.       *)
LEMMA SideRelated ==
  ASSUME NEW d, LegalDatabase(d), NEW L, L = ListsOf(d), NEW r \in d.rels, Listed(L, r.schema),
         NEW cols, Image(cols) \subseteq ColumnNames(r)
  PROVE  Related(d, L, r.schema, r.name, cols)
<1>1. Readable(d, filter, r) /\ FilterByList(filter, {}, r.schema)
  <2>1. PICK s \in KeptSchemas(SchemasList(d, ListFilter)) : s.name = r.schema
    BY DEF Listed, ListsOf
  <2>2. QED
    BY <2>1, ListedPasses DEF LegalDatabase, Readable, Passes, FilterByList
<1>2. ASSUME r.kind = "table" => SeesTable(r) PROVE WrittenIn(L, r.schema, r)
  <2>1. CASE r.kind = "foreign"
    <3> DEFINE y == [id |-> r.id, schema |-> r.schema, name |-> r.name, updatable |-> r.updatable]
    <3>1. y \in ForeignTablesList(d, filter)
      BY <1>1, <2>1 DEF ForeignTablesList, Relations
    <3>2. y \in L.foreignTables
      BY <3>1 DEF ListsOf
    <3>3. y \in TsTables(L, r.schema)
      BY <3>2 DEF TsTables, InSchema
    <3>4. QED
      BY <3>3 DEF WrittenIn
  <2>2. CASE r.kind # "foreign"
    <3>1. PICK y \in L.tables \cup L.views \cup L.materializedViews :
            y.schema = r.schema /\ y.name = r.name /\ y.id = r.id
      BY <1>2, <2>2, ReadableListed
    <3>2. y \in TsTables(L, r.schema) \cup TsViews(L, r.schema)
      BY <3>1 DEF TsTables, TsViews, InSchema
    <3>3. QED
      BY <3>1, <3>2 DEF WrittenIn
  <2>3. QED
    BY <2>1, <2>2
<1>3. ASSUME NEW c \in Image(cols), SeesNamed(r, c) PROVE ShownIn(L, r, c)
  <2>1. PICK i \in DOMAIN r.cols : r.cols[i].name = c
    BY DEF ColumnNames
  <2>2. SeesColumn(r, r.cols[i])
    BY <1>3, <2>1 DEF SeesNamed
  <2>3. {y \in ColumnsList(d, filter) : y.table_id = r.id} =
          {ColumnOf(d, r, j) : j \in {m \in DOMAIN r.cols : Readable(d, filter, r) /\ SeesColumn(r, r.cols[m])}}
    <3>1. UniqueIds(d)
      BY DEF LegalDatabase
    <3>2. QED
      BY <3>1, RelationColumns
  <2>4. ColumnOf(d, r, i) \in ColumnsOf(L, r.id)
    BY <1>1, <2>2, <2>3 DEF ColumnsOf, ListsOf
  <2>5. ColumnOf(d, r, i).name = c
    BY <2>1 DEF ColumnOf
  <2>6. QED
    BY <2>4, <2>5 DEF ShownIn
<1>4. QED
  BY <1>2, <1>3 DEF Related

(* The row type of a relation is found by the type that a function returns.*)
LEMMA RelationReturned ==
  ASSUME NEW d, LegalDatabase(d), NEW p \in d.fns, NEW x \in d.rels, x.id = RelationOf(d, p.ret)
  PROVE  p.ret = RowId(x.id)
<1>1. x.id \in Nat /\ x.id # 0 /\ \A t \in d.types : x.id # CompositeRelation(t.id)
  BY DEF LegalDatabase, UniqueIds
<1>2. PICK r \in d.rels : RowId(r.id) = p.ret
  <2>1. CASE \E r \in d.rels : RowId(r.id) = p.ret
    BY <2>1
  <2>2. CASE ~ \E r \in d.rels : RowId(r.id) = p.ret
    <3>1. CASE \E t \in d.types : t.id = p.ret /\ t.attrs # <<>>
      <4>1. x.id = CompositeRelation(p.ret)
        BY <2>2, <3>1 DEF RelationOf
      <4>2. QED
        BY <1>1, <3>1, <4>1
    <3>2. CASE ~ \E t \in d.types : t.id = p.ret /\ t.attrs # <<>>
      <4>1. x.id = 0
        BY <2>2, <3>2 DEF RelationOf
      <4>2. QED
        BY <1>1, <4>1
    <3>3. QED
      BY <3>1, <3>2
  <2>3. QED
    BY <2>1, <2>2
<1>3. x.id = p.ret - 100
  BY <1>2 DEF RelationOf
<1>4. r.id \in Nat
  BY DEF LegalDatabase, UniqueIds
<1>5. QED
  BY <1>1, <1>2, <1>3, <1>4 DEF RowId

(* A function that returns a relation's rows names that relation.          *)
LEMMA EmbeddingNamed ==
  ASSUME NEW d, LegalDatabase(d), NEW L, L = ListsOf(d), NEW x \in d.rels, Listed(L, x.schema),
         NEW type, type = RowId(x.id)
  PROVE  TableName(L, x.id, type) = x.name
<1>1. x.id # 0 /\ \A y \in d.rels : y.id = x.id => y = x
  BY DEF LegalDatabase, UniqueIds
<1>2. \A t \in TablesLike(L) : t.id = x.id => t.name = x.name
  <2> SUFFICES ASSUME NEW t \in TablesLike(L), t.id = x.id PROVE t.name = x.name
    OBVIOUS
  <2>1. t \in TablesList(d, filter) \cup ForeignTablesList(d, filter) \cup ViewsList(d, filter)
               \cup MaterializedViewsList(d, filter)
    BY DEF TablesLike, ListsOf
  <2>2. PICK r \in d.rels : t.id = r.id /\ t.name = r.name
    BY <2>1, RelationSchema DEF LegalDatabase
  <2>3. QED
    BY <1>1, <2>2
<1>3. CASE \E t \in TablesLike(L) : t.id = x.id
  <2>1. (CHOOSE t \in TablesLike(L) : t.id = x.id) \in {t \in TablesLike(L) : t.id = x.id}
    BY <1>3
  <2>2. QED
    BY <1>1, <1>2, <1>3, <2>1 DEF TableName
<1>4. CASE ~ \E t \in TablesLike(L) : t.id = x.id
  <2>1. x.kind # "foreign"
    <3>1. SUFFICES ASSUME x.kind = "foreign" PROVE FALSE
      OBVIOUS
    <3>2. PICK s \in KeptSchemas(SchemasList(d, ListFilter)) : s.name = x.schema
      BY DEF Listed, ListsOf
    <3>3. FilterByList(filter, {}, x.schema)
      BY <3>2, ListedPasses DEF LegalDatabase, Passes, FilterByList
    <3> DEFINE y == [id |-> x.id, schema |-> x.schema, name |-> x.name, updatable |-> x.updatable]
    <3>4. y \in ForeignTablesList(d, filter)
      BY <3>1, <3>3 DEF ForeignTablesList, Relations
    <3>5. y \in TablesLike(L) /\ y.id = x.id
      BY <3>4 DEF TablesLike, ListsOf
    <3>6. QED
      BY <1>4, <3>5
  <2>2. RowOf(x) \in RowTypes(L)
    <3>1. RowOf(x) \in L.types
      BY <2>1, RowTypeListed DEF ListsOf, LegalDatabase
    <3>2. QED
      BY <1>1, <3>1 DEF RowTypes, RowOf
  <2>3. RowOf(x).id = type /\ RowOf(x).name = x.name
    BY DEF RowOf
  <2>4. \A t \in RowTypes(L) : t.id = type => t = RowOf(x)
    <3>1. RowTypes(L) \subseteq AllTypes(d)
      BY TypesInList DEF RowTypes, ListsOf
    <3>2. QED
      BY <2>2, <2>3, <3>1, Distinct
  <2>5. (CHOOSE t \in RowTypes(L) : t.id = type) = RowOf(x)
    BY <2>2, <2>3, <2>4
  <2>6. IsRowType(L, type)
    BY <2>2, <2>3 DEF IsRowType
  <2>7. QED
    BY <1>1, <1>4, <2>3, <2>5, <2>6 DEF TableName
<1>5. QED
  BY <1>3, <1>4

(* What is written in a schema is a relation of the database.              *)
LEMMA WrittenRelation ==
  ASSUME NEW d, LegalDatabase(d), NEW L, L = ListsOf(d), NEW s,
         NEW t \in TsTables(L, s) \cup TsViews(L, s)
  PROVE  \E x \in d.rels : x.schema = s /\ x.name = t.name
<1>1. t.schema = s /\ t \in L.tables \cup L.foreignTables \cup L.views \cup L.materializedViews
  BY DEF TsTables, TsViews, InSchema
<1>2. t \in TablesList(d, filter) \cup ForeignTablesList(d, filter) \cup ViewsList(d, filter)
            \cup MaterializedViewsList(d, filter)
  BY <1>1 DEF ListsOf
<1>3. PICK r \in d.rels : t.schema = r.schema /\ t.name = r.name
  BY <1>2, RelationSchema DEF LegalDatabase
<1>4. QED
  BY <1>1, <1>3

(* What EmbedsDeclared says of schema s.                                   *)
Embeddings(d, L, s) ==
  /\ \A t \in TsTables(L, s) \cup TsViews(L, s) : \A r \in TsRelationships(L, t) :
       Related(d, L, s, t.name, r.columns) /\ Related(d, L, s, r.rrelation, r.rcolumns)
  /\ \A fn \in TsFunctions(L, s) :
       /\ fn.set /\ ~ IsArray(L, fn) => EmbedsTo(L, fn) # <<>>
       /\ \A x \in d.rels : x.id = fn.relation /\ x.schema = s =>
            EmbedsTo(L, fn) = x.name /\ Related(d, L, s, x.name, <<>>)

(* EmbedsDeclared: a relationship that is written names relations and      *)
(* columns that are written too, and a function that returns the rows of a *)
(* relation names that relation, but for what the role has no privilege on.*)
THEOREM EmbedsAlwaysDeclared == Spec => []EmbedsDeclared
<1>1. GenerateInv => EmbedsDeclared
  <2> SUFFICES ASSUME GenerateInv, Undisturbed, phase = "written", ~ SameBucket(db)
               PROVE  \A s \in {x.name : x \in Lists.schemas} : Embeddings(db, Lists, s)
    BY DEF EmbedsDeclared, Written, Embeddings, Related, WrittenIn, ShownIn, SeesNamed
  <2> DEFINE L == Lists
  <2>1. LegalDatabase(db) /\ L = ListsOf(db)
    BY UndisturbedLists DEF GenerateInv
  <2> HIDE DEF L
  <2>2. SUFFICES ASSUME NEW s \in {x.name : x \in L.schemas} PROVE Embeddings(db, L, s)
    BY DEF L
  <2>3. Listed(L, s)
    BY DEF Listed
  <2>4. ASSUME NEW t \in TsTables(L, s) \cup TsViews(L, s), NEW r \in TsRelationships(L, t)
        PROVE  Related(db, L, s, t.name, r.columns) /\ Related(db, L, s, r.rrelation, r.rcolumns)
    <3>1. PICK x \in db.rels : x.schema = s /\ x.name = t.name
      BY <2>1, WrittenRelation
    <3>2. /\ r \in L.relationships /\ r.rschema = s
          /\ BucketKey(r.schema, r.relation) = BucketKey(s, t.name)
      <4>1. t.schema = s
        BY DEF TsTables, TsViews, InSchema
      <4>2. QED
        BY <4>1 DEF TsRelationships
    <3>3. Relates(db, ListFilter, KeyDependencies(db, ListFilter), r)
      BY <2>1, <3>2, RelationshipCases DEF ListsOf
    <3>4. /\ SideOf(db, [schema |-> r.schema, relation |-> r.relation, columns |-> r.columns])
          /\ SideOf(db, [schema |-> s, relation |-> r.rrelation, columns |-> r.rcolumns])
      BY <2>1, <3>2, <3>3, SidesHaveColumns
    <3>5. PICK z \in db.rels :
            z.schema = r.schema /\ z.name = r.relation /\ Image(r.columns) \subseteq ColumnNames(z)
      BY <3>4 DEF SideOf
    <3>6. PICK y \in db.rels : y.schema = s /\ y.name = r.rrelation /\ Image(r.rcolumns) \subseteq ColumnNames(y)
      BY <3>4 DEF SideOf
    <3>7. z = x
      <4>1. BucketKey(z.schema, z.name) = BucketKey(x.schema, x.name)
        BY <3>1, <3>2, <3>5
      <4>2. QED
        BY <4>1 DEF SameBucket
    <3>8. QED
      BY <2>1, <2>3, <3>1, <3>5, <3>6, <3>7, SideRelated
  <2>5. ASSUME NEW fn \in TsFunctions(L, s), NEW x \in db.rels, x.id = fn.relation, x.schema = s
        PROVE  EmbedsTo(L, fn) = x.name /\ Related(db, L, s, x.name, <<>>)
    <3>1. fn \in FunctionsList(db, filter)
      BY <2>1 DEF TsFunctions, ListsOf
    <3>2. PICK p \in db.fns : fn.ret = p.ret /\ fn.relation = RelationOf(db, p.ret)
      BY <3>1 DEF FunctionsList
    <3>3. fn.ret = RowId(x.id)
      BY <2>1, <2>5, <3>2, RelationReturned
    <3>4. EmbedsTo(L, fn) = x.name
      BY <2>1, <2>3, <2>5, <3>3, EmbeddingNamed DEF EmbedsTo
    <3>5. Image(<<>>) \subseteq ColumnNames(x)
      BY DEF Image
    <3>6. QED
      BY <2>1, <2>3, <2>5, <3>4, <3>5, SideRelated
  <2>6. ASSUME NEW fn \in TsFunctions(L, s), fn.set /\ ~ IsArray(L, fn)
        PROVE  EmbedsTo(L, fn) # <<>>
    BY <2>6 DEF IsArray
  <2>7. QED
    BY <2>4, <2>5, <2>6 DEF Embeddings
<1>2. QED
  BY <1>1, GenerateInvariant, PTL

-------------------------------------------------------------------------------
(* Relationships: complete and exact.                                      *)

PickStep(S, names, c) == IF c.name \in S THEN Append(names, c.name) ELSE names
PickFolds == INSTANCE ListFolds WITH Op <- PickStep

(* InColumnOrder lists columns of a relation, and no others.               *)
LEMMA OrderedImage ==
  ASSUME NEW r, NEW C, r.cols \in Seq(C), NEW S, S \subseteq ColumnNames(r)
  PROVE  Image(InColumnOrder(r, S)) = S
<1> DEFINE n == Len(r.cols)
           upTo(i) == {r.cols[j].name : j \in 1 .. i}
<1>1. n \in Nat /\ DOMAIN r.cols = 1 .. n
  BY LenProperties
<1>2. PICK f : PickFolds!Steps(f, S, <<>>, r.cols)
  BY <1>1, PickFolds!FoldSteps
<1>3. f[0] = <<>> /\ \A i \in 1 .. n : f[i] = PickStep(S, f[i - 1], r.cols[i])
  BY <1>2 DEF PickFolds!Steps
<1>4. InColumnOrder(r, S) = f[n]
  BY <1>2 DEF InColumnOrder, PickFolds!Steps, PickFolds!Fold, PickStep, FoldLeft, MapThenFoldSet, Max,
              PickFolds!FoldLeft, PickFolds!MapThenFoldSet, PickFolds!Max
<1> DEFINE P == {i \in Nat : i <= n => f[i] \in Seq(S) /\ Image(f[i]) = S \cap upTo(i)}
<1>5. 0 \in P
  <2>1. upTo(0) = {} /\ Image(<<>>) = {} /\ <<>> \in Seq(S)
    BY EmptySeq DEF Image
  <2>2. f[0] \in Seq(S) /\ Image(f[0]) = S \cap upTo(0)
    BY <1>3, <2>1
  <2>3. QED
    BY <2>2
<1>6. ASSUME NEW i \in Nat, i \in P PROVE i + 1 \in P
  <2>1. SUFFICES ASSUME i + 1 <= n PROVE f[i + 1] \in Seq(S) /\ Image(f[i + 1]) = S \cap upTo(i + 1)
    OBVIOUS
  <2>2. f[i] \in Seq(S) /\ Image(f[i]) = S \cap upTo(i)
    BY <1>1, <1>6, <2>1
  <2> DEFINE c == r.cols[i + 1].name
  <2>3. upTo(i + 1) = upTo(i) \cup {c}
    OBVIOUS
  <2>4. f[i + 1] = IF c \in S THEN Append(f[i], c) ELSE f[i]
    <3>1. i + 1 \in 1 .. n /\ (i + 1) - 1 = i
      BY <1>1, <2>1
    <3>2. QED
      BY <1>3, <3>1 DEF PickStep
  <2> HIDE DEF upTo, c
  <2>5. CASE c \in S
    <3>1. Append(f[i], c) \in Seq(S) /\ Image(Append(f[i], c)) = Image(f[i]) \cup {c}
      <4>1. /\ Append(f[i], c) \in Seq(S)
            /\ DOMAIN Append(f[i], c) = 1 .. Len(f[i]) + 1 /\ DOMAIN f[i] = 1 .. Len(f[i])
            /\ Len(f[i]) \in Nat
            /\ \A j \in 1 .. Len(f[i]) : Append(f[i], c)[j] = f[i][j]
            /\ Append(f[i], c)[Len(f[i]) + 1] = c
        BY <2>2, <2>5, AppendProperties, LenProperties
      <4>2. QED
        BY <4>1 DEF Image
    <3>2. QED
      BY <2>2, <2>3, <2>4, <2>5, <3>1
  <2>6. CASE c \notin S
    BY <2>2, <2>3, <2>4, <2>6
  <2>7. QED
    BY <2>5, <2>6
<1> HIDE DEF P
<1>7. \A i \in Nat : i \in P
  BY <1>5, <1>6, Induction!Inductive
<1>8. Image(f[n]) = S \cap upTo(n)
  BY <1>1, <1>7 DEF P
<1>9. upTo(n) = ColumnNames(r)
  BY <1>1 DEF ColumnNames
<1>10. QED
  BY <1>4, <1>8, <1>9

Within(p, n) == \A i \in 1 .. n : p[i] \in 1 .. n
Onto(p, n) == \A m \in 1 .. n : \E i \in 1 .. n : p[i] = m
Rising(p, n) == \A i, j \in 1 .. n : i < j => p[i] <= p[j]

(* A list of n numbers up to n that has them all and never falls is 1 ..   *)
(* n.                                                                      *)
LEMMA OnlyOrder ==
  ASSUME NEW n \in Nat, NEW p, Within(p, n), Onto(p, n), Rising(p, n)
  PROVE  \A i \in 1 .. n : p[i] = i
<1>1. \A i \in 1 .. n : p[i] \in 1 .. n
  BY DEF Within
<1>2. ASSUME NEW i \in 1 .. n, i + 1 \in 1 .. n PROVE p[i + 1] <= p[i] + 1
  <2>1. SUFFICES ASSUME p[i] + 1 < p[i + 1] PROVE FALSE
    BY <1>1, <1>2
  <2>2. p[i] + 1 \in 1 .. n
    <3>1. p[i] \in 1 .. n /\ p[i + 1] \in 1 .. n
      BY <1>1, <1>2
    <3>2. QED
      BY <2>1, <3>1
  <2>3. PICK j \in 1 .. n : p[j] = p[i] + 1
    BY <2>2 DEF Onto
  <2>4. j <= i \/ j >= i + 1
    BY <1>2
  <2>5. p[j] <= p[i] \/ p[j] >= p[i + 1]
    <3>1. \A a, b \in 1 .. n : a <= b => p[a] <= p[b]
      <4> SUFFICES ASSUME NEW a \in 1 .. n, NEW b \in 1 .. n, a <= b PROVE p[a] <= p[b]
        OBVIOUS
      <4>1. a < b \/ a = b
        OBVIOUS
      <4>2. QED
        BY <1>1, <4>1 DEF Rising
    <3>2. QED
      BY <1>2, <2>4, <3>1
  <2>6. p[i] \in Nat /\ p[i + 1] \in Nat
    BY <1>1, <1>2
  <2>7. QED
    BY <2>1, <2>3, <2>5, <2>6
<1> DEFINE U == {i \in Nat : i \in 1 .. n => p[i] <= i}
           D == {i \in Nat : i < n => p[n - i] >= n - i}
<1>3. \A i \in Nat : i \in U
  <2>1. 0 \in U
    OBVIOUS
  <2>2. ASSUME NEW i \in Nat, i \in U PROVE i + 1 \in U
    <3>1. SUFFICES ASSUME i + 1 \in 1 .. n PROVE p[i + 1] <= i + 1
      OBVIOUS
    <3>2. CASE i = 0
      <4>1. 1 \in 1 .. n
        BY <3>1, <3>2
      <4>2. PICK j \in 1 .. n : p[j] = 1
        BY <4>1 DEF Onto
      <4>3. p[1] <= p[j]
        <5>1. 1 < j \/ 1 = j
          OBVIOUS
        <5>2. QED
          BY <1>1, <4>1, <5>1 DEF Rising
      <4>4. QED
        BY <3>2, <4>2, <4>3
    <3>3. CASE i # 0
      <4>1. i \in 1 .. n
        BY <3>1, <3>3
      <4>2. p[i] <= i /\ p[i + 1] <= p[i] + 1 /\ p[i] \in Nat /\ p[i + 1] \in Nat
        BY <1>1, <1>2, <2>2, <3>1, <4>1
      <4>3. QED
        BY <4>2
    <3>4. QED
      BY <3>2, <3>3
  <2> HIDE DEF U
  <2>3. QED
    BY <2>1, <2>2, Induction!Inductive
<1>4. \A i \in Nat : i \in D
  <2>1. 0 \in D
    <3>1. SUFFICES ASSUME 0 < n PROVE p[n] >= n
      OBVIOUS
    <3>2. PICK j \in 1 .. n : p[j] = n
      BY <3>1 DEF Onto
    <3>3. n \in 1 .. n /\ (j < n \/ j = n)
      BY <3>1
    <3>4. QED
      BY <1>1, <3>2, <3>3 DEF Rising
  <2>2. ASSUME NEW i \in Nat, i \in D PROVE i + 1 \in D
    <3>1. SUFFICES ASSUME i + 1 < n PROVE p[n - (i + 1)] >= n - (i + 1)
      OBVIOUS
    <3> DEFINE j == n - (i + 1)
    <3>2. j \in 1 .. n /\ j + 1 \in 1 .. n /\ n - i = j + 1
      BY <3>1
    <3>3. p[j + 1] >= j + 1
      BY <2>2, <3>1, <3>2
    <3>4. p[j + 1] <= p[j] + 1 /\ p[j] \in Nat /\ p[j + 1] \in Nat
      BY <1>1, <1>2, <3>2
    <3>5. QED
      BY <3>2, <3>3, <3>4
  <2> HIDE DEF D
  <2>3. QED
    BY <2>1, <2>2, Induction!Inductive
<1>5. ASSUME NEW i \in 1 .. n PROVE p[i] = i
  <2>1. p[i] <= i
    BY <1>3
  <2>2. n - i \in Nat /\ n - i < n /\ n - (n - i) = i
    OBVIOUS
  <2>3. p[i] >= i
    <3>1. n - i \in D
      BY <1>4, <2>2
    <3>2. QED
      BY <2>2, <3>1
  <2>4. QED
    BY <1>1, <2>1, <2>3
<1>6. QED
  BY <1>5

(* The rows of one side of a key: g is the group they are in.              *)
KeyRow(g, cols, i) ==
  [name |-> g[2], type |-> g[3], n |-> g[4], rel |-> g[1], col |-> cols[i], ord |-> i]
FromSide(k) == <<k.rel, k.name, "f", Len(k.cols)>>
ToSide(k) == <<k.ref, k.name, "f_ref", Len(k.refcols)>>
Exposing(d, f, v, rel, cols) == {i \in DOMAIN cols : ViewColumns(d, f, v, <<rel, cols[i]>>) # {}}

RowSet(g, cols, T) == {KeyRow(g, cols, i) : i \in T}

(* The rows of a table, name and side are those of one side of one key.    *)
OnlyRows(d, f, g, cols) ==
  \A x : x \in KeyColumns(d, f) /\ x.rel = g[1] /\ x.name = g[2] /\ x.type = g[3]
         <=> \E i \in DOMAIN cols : x = KeyRow(g, cols, i)

(* The fields of such a row.                                               *)
LEMMA RowFields ==
  ASSUME NEW a, NEW b, NEW c, NEW n, NEW cols, NEW i
  PROVE  LET x == KeyRow(<<a, b, c, n>>, cols, i) IN
         x.rel = a /\ x.name = b /\ x.type = c /\ x.n = n /\ x.col = cols[i] /\ x.ord = i
BY DEF KeyRow

(* The rows of a group that a view shows.                                  *)
LEMMA RowsOfSide ==
  ASSUME NEW d, NEW f, NEW v, NEW a, NEW b, NEW c, NEW cols, NEW n, n = Len(cols),
         OnlyRows(d, f, <<a, b, c, n>>, cols)
  PROVE  Rows(d, f, v, <<a, b, c, n>>) = RowSet(<<a, b, c, n>>, cols, Exposing(d, f, v, a, cols))
<1> DEFINE g == <<a, b, c, n>>
<1>1. g[1] = a /\ g[2] = b /\ g[3] = c
  OBVIOUS
<1>2. \A i : LET x == KeyRow(g, cols, i) IN
        x.rel = a /\ x.name = b /\ x.type = c /\ x.n = n /\ x.col = cols[i]
  BY RowFields
<1>3. \A x : <<x.rel, x.name, x.type, x.n>> = g <=> x.rel = a /\ x.name = b /\ x.type = c /\ x.n = n
  OBVIOUS
<1> HIDE DEF g
<1>4. \A x : x \in Rows(d, f, v, g) <=>
        \E i \in DOMAIN cols : x = KeyRow(g, cols, i) /\ ViewColumns(d, f, v, <<a, cols[i]>>) # {}
  <2>1. \A x : x \in Rows(d, f, v, g) <=>
          /\ x \in KeyColumns(d, f) /\ x.rel = a /\ x.name = b /\ x.type = c /\ x.n = n
          /\ ViewColumns(d, f, v, <<x.rel, x.col>>) # {}
    BY <1>3 DEF Rows
  <2>2. \A x : x \in KeyColumns(d, f) /\ x.rel = a /\ x.name = b /\ x.type = c
               <=> \E i \in DOMAIN cols : x = KeyRow(g, cols, i)
    BY <1>1 DEF OnlyRows, g
  <2>3. ASSUME NEW x, x \in Rows(d, f, v, g)
        PROVE  \E i \in DOMAIN cols : x = KeyRow(g, cols, i) /\ ViewColumns(d, f, v, <<a, cols[i]>>) # {}
    <3>1. /\ x \in KeyColumns(d, f) /\ x.rel = a /\ x.name = b /\ x.type = c
          /\ ViewColumns(d, f, v, <<x.rel, x.col>>) # {}
      BY <2>1, <2>3
    <3>2. PICK i \in DOMAIN cols : x = KeyRow(g, cols, i)
      BY <2>2, <3>1
    <3>3. x.col = cols[i]
      BY <1>2, <3>2
    <3>4. QED
      BY <3>1, <3>2, <3>3
  <2>4. ASSUME NEW i \in DOMAIN cols, ViewColumns(d, f, v, <<a, cols[i]>>) # {}
        PROVE  KeyRow(g, cols, i) \in Rows(d, f, v, g)
    <3> DEFINE x == KeyRow(g, cols, i)
    <3>1. x.rel = a /\ x.name = b /\ x.type = c /\ x.n = n /\ x.col = cols[i]
      BY <1>2
    <3> HIDE DEF x
    <3>2. x \in KeyColumns(d, f)
      BY <2>2, <3>1 DEF x
    <3>3. x \in Rows(d, f, v, g)
      BY <2>1, <2>4, <3>1, <3>2
    <3>4. QED
      BY <3>3 DEF x
  <2>5. QED
    BY <2>3, <2>4
<1>5. QED
  BY <1>4 DEF Exposing, RowSet, g

(* They count as whole when every column of the key is exposed.            *)
LEMMA WholeSide ==
  ASSUME NEW d, NEW f, NEW v, NEW a, NEW b, NEW c, NEW C, NEW cols \in Seq(C), NEW n, n = Len(cols),
         OnlyRows(d, f, <<a, b, c, n>>, cols)
  PROVE  Whole(Rows(d, f, v, <<a, b, c, n>>), n) <=> Exposing(d, f, v, a, cols) = DOMAIN cols
<1> DEFINE g == <<a, b, c, n>>
           T == Exposing(d, f, v, a, cols)
           R == RowSet(g, cols, T)
           h == [i \in T |-> KeyRow(g, cols, i)]
<1>1. n \in Nat /\ DOMAIN cols = 1 .. n
  BY LenProperties
<1>2. IsFiniteSet(1 .. n) /\ Cardinality(1 .. n) = n
  <2>1. 1 \in Int /\ n \in Int
    BY <1>1
  <2>2. IsFiniteSet(1 .. n) /\ Cardinality(1 .. n) = IF 1 > n THEN 0 ELSE n - 1 + 1
    BY <2>1, FS_Interval
  <2>3. QED
    BY <1>1, <2>2
<1>3. T \in SUBSET (1 .. n)
  BY <1>1 DEF Exposing
<1>4. \A i : KeyRow(g, cols, i).ord = i
  BY RowFields
<1>5. Rows(d, f, v, g) = R
  BY RowsOfSide
<1> HIDE DEF g, T
<1>6. ExistsBijection(T, R)
  <2>a. h \in [T -> R] /\ \A i \in T : h[i] = KeyRow(g, cols, i)
    BY DEF RowSet
  <2>b. \A x \in R : \E i \in T : h[i] = x
    BY DEF RowSet
  <2> HIDE DEF h, R
  <2>c. \A i, j \in T : h[i] = h[j] => i = j
    BY <1>4, <2>a
  <2>1. h \in Bijection(T, R)
    BY <2>a, <2>b, <2>c, Fun_IsBij
  <2>2. QED
    BY <2>1 DEF ExistsBijection
<1>7. IsFiniteSet(T) /\ (Cardinality(T) = n => T = 1 .. n)
  BY <1>2, <1>3, FS_Subset
<1>8. Cardinality(R) = Cardinality(T)
  BY <1>6, <1>7, FS_Bijection
<1>9. QED
  BY <1>1, <1>2, <1>5, <1>7, <1>8 DEF Whole, T, g

ColumnsShown(d, f, v, rel, cols) == [i \in DOMAIN cols |-> ViewColumns(d, f, v, <<rel, cols[i]>>)]

(* Put in order, the rows of a whole side are the columns of the key.      *)
LEMMA OrderedSide ==
  ASSUME NEW d, NEW f, NEW v, NEW a, NEW b, NEW c, NEW C, NEW cols \in Seq(C), NEW n, n = Len(cols),
         OnlyRows(d, f, <<a, b, c, n>>, cols), Exposing(d, f, v, a, cols) = DOMAIN cols
  PROVE  ColumnsIn(d, f, v, Ordered(Rows(d, f, v, <<a, b, c, n>>)))
           = ColumnsShown(d, f, v, a, cols)
<1> DEFINE g == <<a, b, c, n>>
           row(i) == KeyRow(g, cols, i)
           R == Rows(d, f, v, g)
           t == [i \in 1 .. n |-> row(i)]
<1>1. n \in Nat /\ DOMAIN cols = 1 .. n
  BY LenProperties
<1>2. Cardinality(R) = n
  <2>1. Whole(R, n)
    BY WholeSide
  <2>2. QED
    BY <2>1 DEF Whole
<1>3. R = {row(i) : i \in 1 .. n}
  BY <1>1, RowsOfSide DEF RowSet
<1>4. \A i : row(i).ord = i /\ row(i).rel = a /\ row(i).col = cols[i]
  BY RowFields
<1> HIDE DEF g, row, R
<1>5. t \in [1 .. n -> R] /\ InOrder(R, t)
  <2>1. \A i \in 1 .. n : t[i] = row(i) /\ t[i].ord = i /\ row(i) \in R
    BY <1>3, <1>4
  <2>2. DOMAIN t = 1 .. n /\ t \in [1 .. n -> R]
    BY <2>1
  <2>3. \A i, j \in 1 .. n : i < j => t[i].ord <= t[j].ord
    BY <1>1, <2>1
  <2> HIDE DEF t
  <2>4. \A x \in R : \E i \in 1 .. n : t[i] = x
    BY <1>3, <2>1
  <2>5. QED
    BY <2>2, <2>3, <2>4 DEF InOrder
<1> DEFINE s == Ordered(R)
<1>6. s \in [1 .. n -> R] /\ InOrder(R, s)
  BY <1>2, <1>5 DEF Ordered
<1> HIDE DEF s, t
<1>7. \A i \in 1 .. n : s[i] = row(i)
  <2> DEFINE p == [i \in 1 .. n |-> s[i].ord]
  <2>1. DOMAIN s = 1 .. n /\ \A i \in 1 .. n : s[i] \in R
    BY <1>6
  <2>2. \A x \in R : x.ord \in 1 .. n /\ x = row(x.ord)
    BY <1>3, <1>4
  <2>3. \A i \in 1 .. n : p[i] = s[i].ord /\ p[i] \in 1 .. n /\ s[i] = row(p[i])
    BY <2>1, <2>2
  <2>4. Within(p, n)
    BY <2>3 DEF Within
  <2>5. Onto(p, n)
    <3>1. ASSUME NEW m \in 1 .. n PROVE \E i \in 1 .. n : p[i] = m
      <4>1. row(m) \in R
        BY <1>3
      <4>2. PICK i \in 1 .. n : s[i] = row(m)
        BY <1>6, <2>1, <4>1 DEF InOrder
      <4>3. p[i] = m
        BY <1>4, <2>3, <4>2
      <4>4. QED
        BY <4>3
    <3>2. QED
      BY <3>1 DEF Onto
  <2>6. Rising(p, n)
    BY <1>6, <2>1, <2>3 DEF Rising, InOrder
  <2> HIDE DEF p
  <2>7. \A i \in 1 .. n : p[i] = i
    BY <1>1, <2>4, <2>5, <2>6, OnlyOrder
  <2>8. QED
    BY <2>3, <2>7
<1>8. DOMAIN s = 1 .. n
  BY <1>6
<1>9. \A i \in 1 .. n : <<s[i].rel, s[i].col>> = <<a, cols[i]>>
  BY <1>4, <1>7
<1>10. ColumnsIn(d, f, v, s) = [i \in 1 .. n |-> ViewColumns(d, f, v, <<a, cols[i]>>)]
  BY <1>8, <1>9 DEF ColumnsIn
<1>11. QED
  BY <1>1, <1>10 DEF ColumnsShown, s, R, g

(* The foreign keys that the second query takes for the referenced side.   *)
Referable(d, f) == {k \in d.keys : k.kind = "f" /\ PassesQuoted(d, f, k)}

(* The rows that the second query makes of the keys.                       *)
LEMMA KeyColumnCases ==
  ASSUME NEW d, NEW f, NEW x
  PROVE  x \in KeyColumns(d, f) <=>
           \/ \E k \in d.keys : k.kind = "f" /\ \E i \in DOMAIN k.cols : x = KeyRow(FromSide(k), k.cols, i)
           \/ \E k \in Referable(d, f) : \E i \in DOMAIN k.refcols : x = KeyRow(ToSide(k), k.refcols, i)
<1> DEFINE from(k, i) == [name |-> k.name, type |-> "f", n |-> Len(k.cols), rel |-> k.rel,
                          col |-> k.cols[i], ord |-> i]
           to(k, i) == [name |-> k.name, type |-> "f_ref", n |-> Len(k.refcols), rel |-> k.ref,
                        col |-> k.refcols[i], ord |-> i]
<1>1. \A k, i : from(k, i) = KeyRow(FromSide(k), k.cols, i)
  BY DEF KeyRow, FromSide
<1>2. \A k, i : to(k, i) = KeyRow(ToSide(k), k.refcols, i)
  BY DEF KeyRow, ToSide
<1>3. x \in KeyColumns(d, f) <=>
        \/ \E k \in {h \in d.keys : h.kind = "f"} : \E i \in DOMAIN k.cols : x = from(k, i)
        \/ \E k \in Referable(d, f) : \E i \in DOMAIN k.refcols : x = to(k, i)
  BY DEF KeyColumns, Referable
<1> HIDE DEF from, to
<1>4. QED
  BY <1>1, <1>2, <1>3

(* Keys of one table have names of their own: the rows of a name on the    *)
(* referencing side are those of one key.                                  *)
LEMMA FromRows ==
  ASSUME NEW d, UniqueNames(d), NEW f, NEW k \in d.keys, k.kind = "f"
  PROVE  OnlyRows(d, f, FromSide(k), k.cols)
<1> DEFINE g == FromSide(k)
<1>1. g[1] = k.rel /\ g[2] = k.name /\ g[3] = "f"
  BY DEF FromSide
<1>2. \A h, i : /\ KeyRow(FromSide(h), h.cols, i).rel = h.rel
                /\ KeyRow(FromSide(h), h.cols, i).name = h.name
                /\ KeyRow(FromSide(h), h.cols, i).type = "f"
                /\ KeyRow(ToSide(h), h.refcols, i).type = "f_ref"
  BY RowFields DEF FromSide, ToSide
<1>3. \A h \in d.keys : h.rel = k.rel /\ h.name = k.name => h = k
  BY DEF UniqueNames
<1> HIDE DEF g
<1>4. ASSUME NEW x \in KeyColumns(d, f), x.rel = g[1], x.name = g[2], x.type = g[3]
      PROVE  \E i \in DOMAIN k.cols : x = KeyRow(g, k.cols, i)
  <2>1. ~ \E h \in Referable(d, f) : \E i \in DOMAIN h.refcols : x = KeyRow(ToSide(h), h.refcols, i)
    BY <1>1, <1>2, <1>4
  <2>2. PICK h \in d.keys : h.kind = "f" /\ \E i \in DOMAIN h.cols : x = KeyRow(FromSide(h), h.cols, i)
    BY <2>1, KeyColumnCases
  <2>3. h = k
    <3>1. PICK i : x = KeyRow(FromSide(h), h.cols, i)
      BY <2>2
    <3>2. h.rel = k.rel /\ h.name = k.name
      BY <1>1, <1>2, <1>4, <3>1
    <3>3. QED
      BY <1>3, <3>2
  <2>4. QED
    BY <2>2, <2>3 DEF g
<1>5. ASSUME NEW i \in DOMAIN k.cols
      PROVE  LET x == KeyRow(g, k.cols, i) IN
             x \in KeyColumns(d, f) /\ x.rel = g[1] /\ x.name = g[2] /\ x.type = g[3]
  <2>1. KeyRow(g, k.cols, i) \in KeyColumns(d, f)
    BY KeyColumnCases DEF g
  <2>2. QED
    BY <1>1, <1>2, <2>1 DEF g
<1>6. QED
  BY <1>4, <1>5 DEF OnlyRows, g

(* So are those on the referenced side, unless two keys share a name.      *)
LEMMA ToRows ==
  ASSUME NEW d, NEW f, PlainKeys(d, f), NEW k \in ForeignKeys(d, f)
  PROVE  OnlyRows(d, f, ToSide(k), k.refcols)
<1> DEFINE g == ToSide(k)
<1>1. g[1] = k.ref /\ g[2] = k.name /\ g[3] = "f_ref"
  BY DEF ToSide
<1>2. \A h, i : /\ KeyRow(ToSide(h), h.refcols, i).rel = h.ref
                /\ KeyRow(ToSide(h), h.refcols, i).name = h.name
                /\ KeyRow(ToSide(h), h.refcols, i).type = "f_ref"
                /\ KeyRow(FromSide(h), h.cols, i).type = "f"
  BY RowFields DEF FromSide, ToSide
<1>3. \A h \in Referable(d, f) : h.ref = k.ref /\ h.name = k.name => h = k
  BY DEF PlainKeys, ForeignKeys, Referable
<1>a. k \in Referable(d, f)
  BY DEF PlainKeys, ForeignKeys, Referable
<1> HIDE DEF g
<1>4. ASSUME NEW x \in KeyColumns(d, f), x.rel = g[1], x.name = g[2], x.type = g[3]
      PROVE  \E i \in DOMAIN k.refcols : x = KeyRow(g, k.refcols, i)
  <2>1. ~ \E h \in d.keys : h.kind = "f" /\ \E i \in DOMAIN h.cols : x = KeyRow(FromSide(h), h.cols, i)
    BY <1>1, <1>2, <1>4
  <2>2. PICK h \in Referable(d, f) : \E i \in DOMAIN h.refcols : x = KeyRow(ToSide(h), h.refcols, i)
    BY <2>1, KeyColumnCases
  <2>3. h = k
    <3>1. PICK i : x = KeyRow(ToSide(h), h.refcols, i)
      BY <2>2
    <3>2. h.ref = k.ref /\ h.name = k.name
      BY <1>1, <1>2, <1>4, <3>1
    <3>3. QED
      BY <1>3, <3>2
  <2>4. QED
    BY <2>2, <2>3 DEF g
<1>5. ASSUME NEW i \in DOMAIN k.refcols
      PROVE  LET x == KeyRow(g, k.refcols, i) IN
             x \in KeyColumns(d, f) /\ x.rel = g[1] /\ x.name = g[2] /\ x.type = g[3]
  <2>1. KeyRow(g, k.refcols, i) \in KeyColumns(d, f)
    BY <1>a, KeyColumnCases DEF g
  <2>2. QED
    BY <1>1, <1>2, <2>1 DEF g
<1>6. QED
  BY <1>4, <1>5 DEF OnlyRows, g

(* The ways to read columns cols of relation rel in view v.                *)
ShownAs(d, f, v, rel, cols) ==
  {s \in [DOMAIN cols -> ColumnNames(v)] :
     \A i \in DOMAIN cols : s[i] \in ViewColumns(d, f, v, <<rel, cols[i]>>)}
InView(v, s) == [schema |-> v.schema, relation |-> v.name, columns |-> s]
ExposedBy(d, f, rel, cols, x) ==
  \E v \in ViewsOf(d, f) : \E s \in ShownAs(d, f, v, rel, cols) : x = InView(v, s)

(* expandKeyDepCols makes every choice of view columns.                    *)
LEMMA ExpandShown ==
  ASSUME NEW d, NEW f, NEW v, NEW rel, NEW cols
  PROVE  Expand(ColumnsShown(d, f, v, rel, cols)) = ShownAs(d, f, v, rel, cols)
<1> DEFINE C == ColumnsShown(d, f, v, rel, cols)
<1>1. DOMAIN C = DOMAIN cols /\ \A i \in DOMAIN cols : C[i] = ViewColumns(d, f, v, <<rel, cols[i]>>)
  BY DEF ColumnsShown
<1> HIDE DEF C
<1>2. \A o : ViewColumns(d, f, v, o) \subseteq ColumnNames(v)
  BY DEF ViewColumns, ColumnNames
<1>3. ASSUME NEW s \in Expand(C) PROVE s \in ShownAs(d, f, v, rel, cols)
  <2>1. /\ s \in [DOMAIN cols -> UNION {C[i] : i \in DOMAIN C}]
        /\ \A i \in DOMAIN cols : s[i] \in ViewColumns(d, f, v, <<rel, cols[i]>>)
    BY <1>1 DEF Expand
  <2>2. \A i \in DOMAIN cols : s[i] \in ColumnNames(v)
    BY <1>2, <2>1
  <2>3. s \in [DOMAIN cols -> ColumnNames(v)]
    BY <2>1, <2>2
  <2>4. QED
    BY <2>1, <2>3 DEF ShownAs
<1>4. ASSUME NEW s \in ShownAs(d, f, v, rel, cols) PROVE s \in Expand(C)
  <2>1. /\ s \in [DOMAIN cols -> ColumnNames(v)]
        /\ \A i \in DOMAIN cols : s[i] \in C[i]
    BY <1>1 DEF ShownAs
  <2>2. \A i \in DOMAIN cols : s[i] \in UNION {C[j] : j \in DOMAIN C}
    BY <1>1, <2>1
  <2>3. s \in [DOMAIN C -> UNION {C[j] : j \in DOMAIN C}]
    BY <1>1, <2>1, <2>2
  <2>4. QED
    BY <1>1, <2>1, <2>3 DEF Expand
<1>5. QED
  BY <1>3, <1>4 DEF C

(* What the relationships should be reads the same.                        *)
LEMMA ExposuresShown ==
  ASSUME NEW d, NEW f, NEW r, NEW cols, NEW x
  PROVE  x \in Exposures(d, f, r, cols) <=> x = Own(r, cols) \/ ExposedBy(d, f, r.id, cols, x)
<1> DEFINE E(v) == {s \in [DOMAIN cols -> {v.cols[j].name : j \in DOMAIN v.cols}] :
                      \A i \in DOMAIN cols : \E j \in DOMAIN v.cols :
                        /\ v.cols[j].name = s[i]
                        /\ <<r.id, cols[i]>> \in OriginsOf(d, f, v.cols[j])}
<1>1. \A v : E(v) = ShownAs(d, f, v, r.id, cols)
  <2> TAKE v
  <2>1. \A o, n : n \in ViewColumns(d, f, v, o) <=>
          \E j \in DOMAIN v.cols : v.cols[j].name = n /\ o \in OriginsOf(d, f, v.cols[j])
    BY DEF ViewColumns
  <2>2. QED
    BY <2>1 DEF ShownAs, ColumnNames
<1>2. Exposures(d, f, r, cols) = {Own(r, cols)} \cup UNION {{InView(v, s) : s \in E(v)} : v \in ViewsOf(d, f)}
  BY DEF Exposures, Own, InView
<1> HIDE DEF E
<1>3. QED
  BY <1>1, <1>2 DEF ExposedBy

(* Relations of a schema have names of their own.                          *)
LEMMA NamedOnce ==
  ASSUME NEW d, LegalDatabase(d), NEW r \in d.rels, NEW q \in d.rels,
         r.schema = q.schema, r.name = q.name
  PROVE  r = q
<1>1. RowOf(r) \in AllTypes(d) /\ RowOf(q) \in AllTypes(d)
  BY DEF AllTypes, ElementTypes, RowOf
<1>2. \A x : RowOf(x).schema = x.schema /\ RowOf(x).name = x.name /\ RowOf(x).relation = x.id
  BY DEF RowOf
<1>3. RowOf(r) = RowOf(q)
  BY <1>1, <1>2 DEF LegalDatabase, UniqueNames
<1>4. r.id = q.id
  BY <1>2, <1>3
<1>5. QED
  BY <1>4 DEF LegalDatabase, UniqueIds

(* The key columns of the second query are of relations that are there.    *)
LEMMA GroupRelation ==
  ASSUME NEW d, LegalDatabase(d), NEW f, NEW x \in KeyColumns(d, f)
  PROVE  \E r \in d.rels : r.id = x.rel
<1>1. \A h, i : /\ KeyRow(FromSide(h), h.cols, i).rel = h.rel
                /\ KeyRow(ToSide(h), h.refcols, i).rel = h.ref
  BY RowFields DEF FromSide, ToSide
<1>2. PICK k \in d.keys : k.kind = "f" /\ x.rel \in {k.rel, k.ref}
  <2>1. CASE \E k \in d.keys : k.kind = "f" /\ \E i \in DOMAIN k.cols : x = KeyRow(FromSide(k), k.cols, i)
    <3>1. PICK k \in d.keys : k.kind = "f" /\ \E i \in DOMAIN k.cols : x = KeyRow(FromSide(k), k.cols, i)
      BY <2>1
    <3>2. x.rel = k.rel
      BY <1>1, <3>1
    <3>3. QED
      BY <3>1, <3>2
  <2>2. CASE \E k \in Referable(d, f) : \E i \in DOMAIN k.refcols : x = KeyRow(ToSide(k), k.refcols, i)
    BY <1>1, <2>2 DEF Referable
  <2>3. QED
    BY <2>1, <2>2, KeyColumnCases
<1>3. QED
  BY <1>2 DEF LegalDatabase, References

(* The views that list() finds for a side of a key are those that show     *)
(* all of its columns, in every way that they show them.                   *)
LEMMA ExposedExactly ==
  ASSUME NEW d, LegalDatabase(d), NEW f, NEW r \in d.rels, NEW name, NEW type,
         NEW C, NEW cols \in Seq(C), cols # <<>>, NEW n, n = Len(cols),
         OnlyRows(d, f, <<r.id, name, type, n>>, cols), NEW x
  PROVE  x \in Exposed(KeyDependencies(d, f), type, name, r.schema, r.name)
           <=> ExposedBy(d, f, r.id, cols, x)
<1> DEFINE g == <<r.id, name, type, n>>
           deps == KeyDependencies(d, f)
           shown(v) == ColumnsShown(d, f, v, r.id, cols)
<1>1. n \in Nat /\ n # 0 /\ DOMAIN cols = 1 .. n
  BY LenProperties, EmptySeq
<1>2. g[1] = r.id /\ g[2] = name /\ g[3] = type /\ g[4] = n
  OBVIOUS
<1>3. \A v : Whole(Rows(d, f, v, g), n) <=> Exposing(d, f, v, r.id, cols) = DOMAIN cols
  BY WholeSide
<1>4. \A v : Whole(Rows(d, f, v, g), n) => ColumnsIn(d, f, v, Ordered(Rows(d, f, v, g))) = shown(v)
  <2> SUFFICES ASSUME NEW v, Whole(Rows(d, f, v, g), n)
               PROVE  ColumnsIn(d, f, v, Ordered(Rows(d, f, v, g))) = shown(v)
    OBVIOUS
  <2>1. Exposing(d, f, v, r.id, cols) = DOMAIN cols
    BY <1>3
  <2>2. QED
    BY <2>1, OrderedSide
<1>5. \A v : Expand(shown(v)) = ShownAs(d, f, v, r.id, cols)
  BY ExpandShown
<1>6. \A i : LET y == KeyRow(g, cols, i) IN
        y.rel = r.id /\ y.name = name /\ y.type = type /\ y.n = n
  BY RowFields
<1>7. x \in Exposed(deps, type, name, r.schema, r.name) <=>
        \E k \in deps : /\ k.type = type /\ k.name = name /\ k.schema = r.schema /\ k.table = r.name
                        /\ \E s \in Expand(k.columns) : x = [schema |-> k.vschema, relation |-> k.view, columns |-> s]
  BY DEF Exposed
<1>8. \A v, h : LET k == Dependency(d, f, v, h) IN
        /\ k.type = h[3] /\ k.name = h[2] /\ k.schema = Rel(d, h[1]).schema /\ k.table = Rel(d, h[1]).name
        /\ k.vschema = v.schema /\ k.view = v.name
        /\ k.columns = ColumnsIn(d, f, v, Ordered(Rows(d, f, v, h)))
  BY DEF Dependency
<1>9. \A y : y \in KeyColumns(d, f) /\ y.rel = g[1] /\ y.name = g[2] /\ y.type = g[3]
             <=> \E i \in DOMAIN cols : y = KeyRow(g, cols, i)
  BY DEF OnlyRows
<1> HIDE DEF g, deps, shown
<1>10. ASSUME NEW k \in deps, k.type = type, k.name = name, k.schema = r.schema, k.table = r.name,
              NEW s \in Expand(k.columns), x = [schema |-> k.vschema, relation |-> k.view, columns |-> s]
       PROVE  ExposedBy(d, f, r.id, cols, x)
  <2>1. PICK v \in ViewsOf(d, f), h \in Groups(d, f) :
          Whole(Rows(d, f, v, h), h[4]) /\ k = Dependency(d, f, v, h)
    BY <1>10, DependencyOf DEF deps
  <2>2. PICK y \in KeyColumns(d, f) : h = <<y.rel, y.name, y.type, y.n>>
    BY DEF Groups
  <2>3. h[1] = y.rel /\ h[2] = y.name /\ h[3] = y.type /\ h[4] = y.n
    BY <2>2
  <2>4. PICK q \in d.rels : q.id = y.rel
    BY GroupRelation
  <2>5. Rel(d, h[1]) = q
    BY <2>3, <2>4, RelOf DEF LegalDatabase
  <2>6. q = r
    BY <1>8, <1>10, <2>1, <2>5, NamedOnce
  <2>7. y.rel = g[1] /\ y.name = g[2] /\ y.type = g[3]
    BY <1>2, <1>8, <1>10, <2>1, <2>3, <2>4, <2>6
  <2>8. PICK i \in DOMAIN cols : y = KeyRow(g, cols, i)
    BY <1>9, <2>7
  <2>9. h = g /\ h[4] = n
    BY <1>6, <2>2, <2>3, <2>8 DEF g
  <2>10. k.columns = shown(v)
    BY <1>4, <1>8, <2>1, <2>9
  <2>11. s \in ShownAs(d, f, v, r.id, cols)
    BY <1>5, <1>10, <2>10
  <2>12. x = InView(v, s)
    BY <1>8, <1>10, <2>1 DEF InView
  <2>13. QED
    BY <2>11, <2>12 DEF ExposedBy
<1>11. ASSUME ExposedBy(d, f, r.id, cols, x)
       PROVE  x \in Exposed(deps, type, name, r.schema, r.name)
  <2>1. PICK v \in ViewsOf(d, f) : \E s \in ShownAs(d, f, v, r.id, cols) : x = InView(v, s)
    BY <1>11 DEF ExposedBy
  <2>2. PICK s \in ShownAs(d, f, v, r.id, cols) : x = InView(v, s)
    BY <2>1
  <2>3. \A i \in DOMAIN cols : ViewColumns(d, f, v, <<r.id, cols[i]>>) # {}
    BY DEF ShownAs
  <2>4. Whole(Rows(d, f, v, g), g[4])
    BY <1>2, <1>3, <2>3 DEF Exposing
  <2>5. g \in Groups(d, f)
    <3>1. 1 \in DOMAIN cols
      BY <1>1
    <3> DEFINE y == KeyRow(g, cols, 1)
    <3>2. y \in KeyColumns(d, f)
      BY <1>9, <3>1
    <3>3. <<y.rel, y.name, y.type, y.n>> = g
      BY <1>6 DEF g
    <3> HIDE DEF y
    <3>4. QED
      BY <3>2, <3>3 DEF Groups
  <2> DEFINE k == Dependency(d, f, v, g)
  <2>6. k \in deps
    BY <2>4, <2>5, DependencyOf DEF deps
  <2>7. Rel(d, g[1]) = r
    BY <1>2, RelOf DEF LegalDatabase
  <2>8. k.type = type /\ k.name = name /\ k.schema = r.schema /\ k.table = r.name
    BY <1>2, <1>8, <2>7
  <2>9. k.vschema = v.schema /\ k.view = v.name /\ k.columns = shown(v)
    BY <1>2, <1>4, <1>8, <2>4
  <2>10. s \in Expand(k.columns)
    BY <1>5, <2>9
  <2>11. x = [schema |-> k.vschema, relation |-> k.view, columns |-> s]
    BY <2>2, <2>9 DEF InView
  <2> HIDE DEF k
  <2>12. QED
    BY <1>7, <2>6, <2>8, <2>10, <2>11
<1>12. QED
  BY <1>7, <1>10, <1>11 DEF deps

(* So each side of a relationship is as it should be.                      *)
LEMMA ReferringExactly ==
  ASSUME NEW d, LegalDatabase(d), NEW f, PlainKeys(d, f), NEW k \in ForeignKeys(d, f)
  PROVE  Referring(d, f, KeyDependencies(d, f), k) = Exposures(d, f, Rel(d, k.rel), k.cols)
<1> DEFINE deps == KeyDependencies(d, f)
<1>1. k \in d.keys /\ k.kind = "f"
  BY DEF ForeignKeys
<1>2. PICK r \in d.rels : r.id = k.rel
  BY <1>1 DEF LegalDatabase, References
<1>3. Rel(d, k.rel) = r
  BY <1>2, RelOf DEF LegalDatabase
<1>4. k.cols \in Seq(ToSet(k.cols)) /\ k.cols # <<>>
  BY <1>1 DEF LegalDatabase
<1>5. OnlyRows(d, f, <<r.id, k.name, "f", Len(k.cols)>>, k.cols)
  BY <1>1, <1>2, FromRows DEF FromSide, LegalDatabase
<1>6. \A x : x \in Exposed(deps, "f", k.name, r.schema, r.name) <=> ExposedBy(d, f, r.id, k.cols, x)
  BY <1>4, <1>5, ExposedExactly
<1>7. \A x : x \in Referring(d, f, deps, k) <=>
               x = Own(r, k.cols) \/ x \in Exposed(deps, "f", k.name, r.schema, r.name)
  <2>1. KeyColumnsListed(d, f, k, k.cols) = k.cols
    BY DEF PlainKeys, KeyColumnsListed
  <2>2. QED
    BY <1>3, <2>1 DEF Referring
<1> HIDE DEF deps
<1>8. \A x : x \in Referring(d, f, deps, k) <=> x \in Exposures(d, f, r, k.cols)
  BY <1>6, <1>7, ExposuresShown
<1>9. QED
  BY <1>3, <1>8 DEF deps

(* The same for the referenced side.                                       *)
LEMMA ReferredExactly ==
  ASSUME NEW d, LegalDatabase(d), NEW f, PlainKeys(d, f), NEW k \in ForeignKeys(d, f)
  PROVE  Referred(d, f, KeyDependencies(d, f), k) = Exposures(d, f, Rel(d, k.ref), k.refcols)
<1> DEFINE deps == KeyDependencies(d, f)
<1>1. k \in d.keys /\ k.kind = "f"
  BY DEF ForeignKeys
<1>2. PICK r \in d.rels : r.id = k.ref
  BY <1>1 DEF LegalDatabase, References
<1>3. Rel(d, k.ref) = r
  BY <1>2, RelOf DEF LegalDatabase
<1>4. k.refcols \in Seq(ToSet(k.refcols)) /\ k.refcols # <<>>
  <2>1. k.cols \in Seq(ToSet(k.cols)) /\ k.cols # <<>> /\ k.refcols \in Seq(ToSet(k.refcols))
    BY <1>1 DEF LegalDatabase
  <2>2. Len(k.cols) = Len(k.refcols)
    BY <1>1 DEF LegalDatabase, References
  <2>3. QED
    BY <2>1, <2>2, EmptySeq
<1>5. OnlyRows(d, f, <<r.id, k.name, "f_ref", Len(k.refcols)>>, k.refcols)
  BY <1>2, ToRows DEF ToSide
<1>6. \A x : x \in Exposed(deps, "f_ref", k.name, r.schema, r.name) <=> ExposedBy(d, f, r.id, k.refcols, x)
  BY <1>4, <1>5, ExposedExactly
<1>7. \A x : x \in Referred(d, f, deps, k) <=>
               x = Own(r, k.refcols) \/ x \in Exposed(deps, "f_ref", k.name, r.schema, r.name)
  <2>1. KeyColumnsListed(d, f, k, k.refcols) = k.refcols
    BY DEF PlainKeys, KeyColumnsListed
  <2>2. QED
    BY <1>3, <2>1 DEF Referred
<1> HIDE DEF deps
<1>8. \A x : x \in Referred(d, f, deps, k) <=> x \in Exposures(d, f, r, k.refcols)
  BY <1>6, <1>7, ExposuresShown
<1>9. QED
  BY <1>3, <1>8 DEF deps

(* is_one_to_one compares lists, and tells whether the sets are equal.     *)
KeyColumnsOf(d, k) == \E u \in d.keys : u.kind # "f" /\ u.rel = k.rel /\ Image(u.cols) = Image(k.cols)

(* For keys whose columns are in the table's order, as PlainKeys says.     *)
LEMMA OneToOneExactly ==
  ASSUME NEW d, LegalDatabase(d), NEW f, PlainKeys(d, f), NEW k \in ForeignKeys(d, f)
  PROVE  IsOneToOne(d, f, k) <=> KeyColumnsOf(d, k)
<1> DEFINE r == Rel(d, k.rel)
<1>0. k \in d.keys /\ k.kind = "f"
  BY DEF ForeignKeys
<1>1. PICK q \in d.rels : q.id = k.rel
  BY <1>0 DEF LegalDatabase, References
<1>2. r = q
  BY <1>1, RelOf DEF LegalDatabase
<1>3. r.cols \in Seq(ToSet(r.cols))
  BY <1>2 DEF LegalDatabase
<1>4. \A u \in d.keys : u.kind \in {"p", "u"} <=> u.kind # "f"
  BY DEF LegalDatabase
<1>5. ASSUME NEW u \in d.keys, u.rel = k.rel
      PROVE  InColumnOrder(r, Image(u.cols)) = k.cols <=> Image(u.cols) = Image(k.cols)
  <2>1. Image(u.cols) \subseteq ColumnNames(r)
    <3>1. PICK p \in d.rels : p.id = u.rel /\ ToSet(u.cols) \subseteq ColumnNames(p)
      BY DEF LegalDatabase, References
    <3>2. p = q
      BY <1>1, <1>5, <3>1 DEF LegalDatabase, UniqueIds
    <3>3. QED
      BY <1>2, <3>1, <3>2 DEF Image, ToSet
  <2>2. Image(InColumnOrder(r, Image(u.cols))) = Image(u.cols)
    BY <1>3, <2>1, OrderedImage
  <2>3. InColumnOrder(r, Image(k.cols)) = k.cols
    BY <1>0 DEF PlainKeys
  <2>4. QED
    BY <2>2, <2>3
<1>a. \A u \in d.keys : u.rel = k.rel => PassesQuoted(d, f, u)
  <2>1. PassesQuoted(d, f, k)
    BY DEF PlainKeys
  <2>2. QED
    BY <2>1 DEF PassesQuoted
<1>6. IsOneToOne(d, f, k) <=>
        \E u \in d.keys : u.kind \in {"p", "u"} /\ u.rel = k.rel /\ InColumnOrder(r, Image(u.cols)) = k.cols
  BY <1>a DEF IsOneToOne, Image
<1> HIDE DEF r
<1>7. QED
  BY <1>4, <1>5, <1>6 DEF KeyColumnsOf

(* The lists of a database have the relationships they should.             *)
LEMMA RelationshipsExactly ==
  ASSUME NEW d, LegalDatabase(d), NEW f, PlainKeys(d, f)
  PROVE  RelationshipsList(TableRelationships(d, f), KeyDependencies(d, f)) = AllRelationships(d, f)
<1> DEFINE should(k, x, y) ==
             [name |-> k.name, schema |-> x.schema, relation |-> x.relation, columns |-> x.columns,
              one |-> \E u \in d.keys : u.kind # "f" /\ u.rel = k.rel /\ Image(u.cols) = Image(k.cols),
              rschema |-> y.schema, rrelation |-> y.relation, rcolumns |-> y.columns]
<1>1. AllRelationships(d, f) =
        UNION {{should(k, x, y) : x \in Exposures(d, f, Rel(d, k.rel), k.cols),
                                  y \in Exposures(d, f, Rel(d, k.ref), k.refcols)} : k \in ForeignKeys(d, f)}
  BY DEF AllRelationships
<1>2. \A k \in ForeignKeys(d, f) : \A x, y : should(k, x, y) = Between(d, f, k, x, y)
  <2> TAKE k \in ForeignKeys(d, f)
  <2> TAKE x, y
  <2>1. IsOneToOne(d, f, k) = KeyColumnsOf(d, k)
    <3>1. IsOneToOne(d, f, k) <=> KeyColumnsOf(d, k)
      BY OneToOneExactly
    <3>2. IsOneToOne(d, f, k) \in BOOLEAN /\ KeyColumnsOf(d, k) \in BOOLEAN
      BY DEF IsOneToOne, KeyColumnsOf
    <3>3. QED
      BY <3>1, <3>2
  <2>2. should(k, x, y) =
          [name |-> k.name, schema |-> x.schema, relation |-> x.relation, columns |-> x.columns,
           one |-> KeyColumnsOf(d, k),
           rschema |-> y.schema, rrelation |-> y.relation, rcolumns |-> y.columns]
    BY DEF KeyColumnsOf
  <2> HIDE DEF should
  <2>3. QED
    BY <2>1, <2>2 DEF Between
<1> HIDE DEF should
<1>3. \A e : e \in AllRelationships(d, f) <=>
        \E k \in ForeignKeys(d, f) :
          \E x \in Exposures(d, f, Rel(d, k.rel), k.cols), y \in Exposures(d, f, Rel(d, k.ref), k.refcols) :
            e = Between(d, f, k, x, y)
  BY <1>1, <1>2
<1>4. \A e : e \in AllRelationships(d, f) <=> Relates(d, f, KeyDependencies(d, f), e)
  BY <1>3, ReferringExactly, ReferredExactly DEF Relates
<1>5. QED
  BY <1>4, RelationshipCases

(* RelationshipsExact: list() returns every foreign key between every way  *)
(* to read its two sides, one-to-one when its columns are a key, and       *)
(* nothing else, whatever views, composite keys and columns that are shown *)
(* twice there are.                                                        *)
THEOREM AlwaysExact == Spec => []RelationshipsExact
<1>1. GenerateInv => RelationshipsExact
  <2> SUFFICES ASSUME GenerateInv, phase = "written", Undisturbed, PlainKeys(db, ListFilter)
               PROVE  Lists.relationships = AllRelationships(db, ListFilter)
    BY DEF RelationshipsExact
  <2>1. LegalDatabase(db) /\ Lists = ListsOf(db)
    BY UndisturbedLists DEF GenerateInv
  <2>2. QED
    BY <2>1, RelationshipsExactly DEF ListsOf
<1>2. QED
  BY <1>1, GenerateInvariant, PTL
=============================================================================
