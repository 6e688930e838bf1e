----------------------------- MODULE MCGenerate -----------------------------
(* Databases for Generate: small ones, each with cases of its own.         *)
EXTENDS Generate

Schema(n) == [name |-> n, usable |-> TRUE, temp |-> FALSE]
public == <<"public">>
app == <<"app">>
catalog == <<"pg", "_", "catalog">>

Base(id, n, sql) ==
  [id |-> id, schema |-> catalog, name |-> <<n>>, sql |-> <<sql>>,
   labels |-> {}, attrs |-> <<>>]
BaseTypes == {Base(25, "text", "text"), Base(23, "int4", "integer"), Base(869, "inet", "inet"),
              Base(2279, "trigger", "trigger")}
EnumType(id, s, n) ==
  [id |-> id, schema |-> s, name |-> n, sql |-> <<>>, labels |-> {"l"}, attrs |-> <<>>]
CompositeType(id, s, n, attrs) ==
  [id |-> id, schema |-> s, name |-> n, sql |-> <<>>, labels |-> {}, attrs |-> attrs]

Column(n, type) ==
  [name |-> n, type |-> type, origin |-> <<>>, granted |-> FALSE, null |-> TRUE,
   default |-> FALSE, identity |-> "none", generated |-> FALSE]
From(n, id, c) == [Column(n, 23) EXCEPT !.origin = <<id, c>>]
Required(n, type) == [Column(n, type) EXCEPT !.null = FALSE]
Relation(id, s, n, kind, cols) ==
  [id |-> id, schema |-> s, name |-> n, kind |-> kind, access |-> "columns", updatable |-> TRUE,
   cols |-> cols]

Arg(m, n, type) == [mode |-> m, name |-> n, type |-> type]
Routine(id, s, n, args, defaults, ret, set, rows) ==
  [id |-> id, schema |-> s, name |-> n, args |-> args, defaults |-> defaults, ret |-> ret,
   set |-> set, rows |-> rows, trigger |-> FALSE]

Foreign_(n, rel, cols, ref, refcols) ==
  [name |-> n, kind |-> "f", rel |-> rel, cols |-> cols, ref |-> ref, refcols |-> refcols]
Unique(n, kind, rel, cols) ==
  [name |-> n, kind |-> kind, rel |-> rel, cols |-> cols, ref |-> 0, refcols |-> <<>>]

(* Tables, views over tables and views, functions of every kind.           *)
Shop ==
  [schemas |-> {Schema(public), Schema(app), Schema(catalog)},
   rels |-> {
     Relation(1, public, <<"users">>, "table",
       <<[Required("id", 23) EXCEPT !.identity = "always"], Required("name", 25), Column("mood", 51)>>),
     Relation(2, public, <<"posts">>, "table",
       <<[Required("id", 23) EXCEPT !.identity = "default"],
         [Required("author", 23) EXCEPT !.default = TRUE],
         [Required("size", 23) EXCEPT !.generated = TRUE], Column("tags", 10051),
         Column("who", RowId(3))>>),
     Relation(3, public, <<"authors">>, "view", <<From("id", 1, "id"), From("name", 1, "name")>>),
     Relation(4, public, <<"twice">>, "matview", <<From("a", 3, "id"), From("b", 3, "id")>>),
     Relation(5, app, <<"log">>, "view", <<From("author", 2, "author"), Column("addr", 52)>>)},
   types |-> BaseTypes \cup
     {EnumType(51, public, <<"mood">>),
      CompositeType(52, app, <<"addr">>,
        <<[name |-> "street", type |-> 25], [name |-> "mood", type |-> 51]>>)},
   fns |-> {
     Routine(1, public, <<"label">>, <<Arg("in", "", RowId(1))>>, 0, 25, FALSE, 0),
     Routine(2, public, <<"find">>, <<Arg("in", "a", 23), Arg("in", "b", 25)>>, 1, RowId(1), TRUE, 1),
     Routine(3, public, <<"stats">>, <<Arg("out", "o", 25), Arg("in", "i", 23)>>, 1, 25, FALSE, 0),
     Routine(4, app, <<"rows">>, <<Arg("in", "", 25), Arg("table", "m", 51)>>, 0, 52, TRUE, 10),
     Routine(5, app, <<"hidden">>, <<Arg("in", "", 869)>>, 0, 23, FALSE, 0),
     Routine(6, app, <<"posts">>, <<Arg("in", "", RowId(5))>>, 0, RowId(2), TRUE, 1),
     Routine(8, public, <<"both">>,
       <<Arg("in", "a", 23), Arg("in", "b", 25), Arg("out", "o", 23)>>, 1, 23, FALSE, 0),
     [Routine(7, app, <<"fire">>, <<>>, 0, 2279, FALSE, 0) EXCEPT !.trigger = TRUE]},
   keys |-> {Unique("users_pkey", "p", 1, <<"id">>), Unique("posts_author", "u", 2, <<"author">>),
             Foreign_("posts_author_fkey", 2, <<"author">>, 1, <<"id">>)}]

(* Composite keys, seen whole and in part, a view on either side, and a    *)
(* type named constructor, in an array and as an attribute.                *)
Pairs ==
  [schemas |-> {Schema(public), Schema(app), Schema(catalog)},
   rels |-> {
     Relation(1, public, <<"a">>, "table", <<Required("x", 23), Required("y", 23)>>),
     Relation(2, public, <<"b">>, "table",
       <<Column("p", 23), Column("q", 23), Column("many", ArrayId(51))>>),
     Relation(3, public, <<"whole">>, "view", <<From("p", 2, "p"), From("q", 2, "q"), From("q2", 2, "q")>>),
     Relation(4, public, <<"part">>, "view", <<From("q", 2, "q")>>),
     Relation(5, public, <<"side">>, "view", <<From("y", 1, "y"), From("x", 1, "x")>>),
     Relation(6, app, <<"over">>, "view", <<From("p", 3, "p"), From("q", 3, "q")>>)},
   types |-> BaseTypes \cup
     {CompositeType(51, public, <<"constructor">>, <<[name |-> "t", type |-> 25]>>),
      CompositeType(52, app, <<"box">>, <<[name |-> "c", type |-> 51]>>)},
   fns |-> {},
   keys |-> {Unique("a_pkey", "p", 1, <<"y", "x">>), Unique("b_key", "u", 2, <<"q", "p">>),
             Foreign_("b_fkey", 2, <<"p", "q">>, 1, <<"x", "y">>)}]

(* Names shared by schemas, and two keys of one name.                      *)
Namesakes ==
  [schemas |-> {Schema(public), Schema(app), Schema(catalog)},
   rels |-> {
     Relation(1, public, <<"users">>, "table", <<Column("s", 51), Column("t", 52), Column("k", 54)>>),
     Relation(2, app, <<"users">>, "table", <<Column("s", 51), Column("t", 52), Column("u", 53)>>),
     Relation(3, public, <<"v">>, "view", <<From("s", 1, "s"), Column("w", RowId(1))>>)},
   types |-> BaseTypes \cup
     {EnumType(51, public, <<"status">>), EnumType(52, app, <<"status">>),
      CompositeType(53, app, <<"_", "odd">>, <<[name |-> "u", type |-> RowId(1)]>>),
      CompositeType(54, public, <<"kind">>, <<[name |-> "u", type |-> 51]>>)},
   fns |-> {Routine(1, app, <<"of">>, <<Arg("in", "", RowId(1))>>, 0, RowId(1), FALSE, 0)},
   keys |-> {Unique("u_pkey", "p", 1, <<"s">>), Foreign_("fk", 2, <<"s">>, 1, <<"s">>),
             Foreign_("fk", 1, <<"t">>, 1, <<"t">>)}]

(* A schema whose name Postgres quotes, in which the role has a privilege  *)
(* on one column of a table, and DELETE on another; names with dots, and   *)
(* a column of a type named constructor.                                   *)
dashed == <<"my", "-", "schema">>
Dashed ==
  [schemas |-> {Schema(dashed), Schema(<<"my">>), Schema(catalog)},
   rels |-> {
     [Relation(1, dashed, <<"a">>, "table",
       <<[Required("id", 23) EXCEPT !.granted = TRUE], Column("secret", 25)>>) EXCEPT !.access = "none"],
     [Relation(2, dashed, <<"b", ".", "c">>, "table",
       <<Column("a", 23), Column("e", 51)>>) EXCEPT !.access = "table"],
     [Relation(3, dashed, <<"v">>, "view", <<From("a", 2, "a"), From("x", 1, "id")>>)
       EXCEPT !.access = "none"],
     Relation(4, <<"my">>, <<"d">>, "table", <<Column("a", 23), Column("r", RowId(5)), Column("m", 52)>>),
     [Relation(5, <<"my">>, <<"none">>, "table", <<Column("a", 23)>>) EXCEPT !.access = "none"]},
   types |-> BaseTypes \cup {EnumType(51, dashed, <<"e">>),
     CompositeType(52, <<"my">>, <<"constructor">>, <<[name |-> "t", type |-> 25]>>)},
   fns |-> {Routine(1, dashed, <<"one">>, <<Arg("in", "", RowId(2))>>, 0, RowId(1), TRUE, 1)},
   keys |-> {Unique("a_pkey", "p", 1, <<"id">>), Unique("c_key", "u", 2, <<"a">>),
             Foreign_("c_fkey", 2, <<"a">>, 1, <<"id">>), Foreign_("d_fkey", 4, <<"a">>, 5, <<"a">>)}]

(* A schema that the role cannot use, one of another session, a foreign    *)
(* table whose rows are an attribute, a function, a type and a schema      *)
(* named constructor, and a materialized view in a system schema.          *)
Corners ==
  [schemas |-> {Schema(public), Schema(catalog), Schema(<<"information", "_", "schema">>),
                [Schema(<<"constructor">>) EXCEPT !.usable = FALSE], [name |-> <<"closed">>, usable |-> FALSE, temp |-> FALSE],
                [name |-> <<"pg", "_", "temp">>, usable |-> TRUE, temp |-> TRUE]},
   rels |-> {
     Relation(1, public, <<"wrap">>, "foreign", <<Column("c", 23)>>),
     Relation(2, <<"closed">>, <<"v">>, "view", <<Column("c", 51)>>),
     [Relation(3, <<"pg", "_", "temp">>, <<"t">>, "table", <<Column("c", 23)>>) EXCEPT !.access = "none"],
     Relation(4, public, <<"u">>, "table", <<Column("c", 51), Column("d", RowId(2))>>),
     Relation(5, catalog, <<"pg", "_", "tables">>, "view", <<Column("name", 25)>>),
     Relation(6, <<"constructor">>, <<"w">>, "view", <<Column("c", 53)>>),
     Relation(7, public, <<"x">>, "matview", <<Column("c", 53)>>),
     Relation(8, <<"information", "_", "schema">>, <<"m">>, "matview", <<Column("c", 23)>>)},
   types |-> BaseTypes \cup
     {EnumType(51, <<"closed">>, <<"e">>),
      CompositeType(53, <<"constructor">>, <<"constructor">>, <<[name |-> "t", type |-> 25]>>),
      CompositeType(52, public, <<"holds">>, <<[name |-> "r", type |-> RowId(1)]>>)},
   fns |-> {Routine(1, public, <<"constructor">>, <<>>, 0, 23, FALSE, 0)},
   keys |-> {}]

MCDatabases == {Shop, Pairs, Namesakes, Dashed, Corners}
MCSpare == {Relation(9, public, <<"users">>, "view", <<From("id", 2, "id")>>),
            Relation(9, public, <<"fresh">>, "table", <<Column("m", 10023), Column("n", RowId(1))>>)}
MCNewName == <<"renamed">>
Only(s) == [include |-> {s}, exclude |-> {}]
Without(s) == [include |-> {}, exclude |-> {s}]
MCFilters == {NoFilter, Only(public), Without(app), Only(catalog), Only(dashed),
              [include |-> {public}, exclude |-> {public}]}
=============================================================================
