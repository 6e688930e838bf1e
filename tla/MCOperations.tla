------------------------------ MODULE MCOperations ------------------------------
(***************************************************************************)
(* Instances of Operations for TLC: one object with every combination of   *)
(* its attributes, alone or with another one of its kind, in every place   *)
(* that other one can be; bodies with up to two properties.                *)
(***************************************************************************)
EXTENDS Operations

CONSTANTS id1, id2, id3, s1, s2, a, b, cx, cy, cz, list, plain, v, w, me, you, insert, update, anyone, public, shouted

(* A body with nothing in it, and the values its properties can have.      *)
With(p, values) == UNION {{[p EXCEPT ![f] = z] : z \in values[f]} : f \in DOMAIN values}
UpToTwo(values) ==
  LET p == [f \in DOMAIN values |-> Undefined]
  IN {p} \cup With(p, values) \cup UNION {With(q, values) : q \in With(p, values)}

Keys == {Null, [con |-> a, cols |-> {cx}], [con |-> b, cols |-> {cy}]}

Entry(who, by, option) ==
  [grantee |-> who, grantor |-> by, privilege |-> "SELECT", grantable |-> option]

KindAttributes ==
  [table |-> [rls : {FALSE}, forced : {FALSE}, replica : {"DEFAULT", "FULL"}, pk : Keys,
              comment : {Null}],
   function |-> [definition : {v}, strict : BOOLEAN],
   schema |-> [owner : {me}],
   role |-> [can_login : {FALSE}, config : [Key -> {<<>>, <<v>>}]],
   policy |-> [definition : {v}, check : {Null}, roles : {v}],
   trigger |-> [enabled_mode : {"ORIGIN"}],
   publication |-> {p \in [all : BOOLEAN, tables : {{}, {cx}, {cx, cy}}, ops : SUBSET Operation,
                           owner : {you}, viaroot : {TRUE}] : p.all => p.tables = {}},
   extension |-> [version : {v}, schema : {s1}],
   relation |-> [acl : {{}, {Entry(you, me, TRUE), Entry(v, you, FALSE)},
                        {Entry(v, me, FALSE), Entry(anyone, me, FALSE)}},
                 cols : {[c \in {cx, cy} |-> {Entry(v, me, FALSE)}],
                         [c \in {cx, cy} |-> {Entry(v, you, c = cx)}]}],
   view |-> [cols : {{cx}, {cx, cy}}], matview |-> [cols : {{cx}, {cx, cy}}],
   foreign |-> [cols : {{cx}, {cx, cy}}],
   index |-> [indkey : {{1}, {2}, {1, 3}, {2, 3}}]]

(* The attributes of the object beside it.                                 *)
Beside(k) ==
  IF k = "table" THEN {t \in KindAttributes["table"] : t.replica = "DEFAULT"}
  ELSE {CHOOSE at \in KindAttributes[k] : TRUE}

PlacesOf(k) == IF k \in {"table", "function", "policy", "trigger"} \cup (Read \ {"relation"}) THEN Place ELSE {Database}

Object(k, ns, n, at) == [kind |-> k, ns |-> ns, name |-> n, at |-> at]
First(k) == {Object(k, IF PlacesOf(k) = Place THEN s1 ELSE Database, a, at) : at \in KindAttributes[k]}
Second(k) ==
  {NoObject} \cup
  {Object(k, z[1], z[2], at) :
     z \in IF k \in Read \ {"relation"} THEN {<<s2, a>>}
           ELSE (PlacesOf(k) \X Name) \ {<<s1, a>>, <<Database, a>>},
     at \in Beside(k)}

MCCatalogs ==
  UNION {{[i \in Oid |-> CASE i = id1 -> f [] i = id2 -> s [] OTHER -> NoObject] :
            f \in First(k), s \in Second(k)} : k \in Kinds}

(* Foreign tables only.                                                    *)
MCForeign == {c \in MCCatalogs : c[id1].kind = "foreign"}

Op(o, k, z) == [op |-> o, path |-> k, value |-> z]
Configs == {<<>>, <<Op("add", plain, <<v>>)>>, <<Op("add", plain, <<v, w>>)>>,
            <<Op("replace", list, <<v, w>>)>>, <<Op("remove", list, <<>>)>>,
            <<Op("replace", list, <<>>)>>, <<Op("move", plain, <<v>>)>>,
            <<Op("add", plain, <<v>>), Op("remove", plain, <<>>)>>,
            <<Op("remove", plain, <<>>), Op("add", plain, <<w>>)>>,
            <<Op("add", NoKey, <<v>>)>>}

Publishes == [Operation -> {Undefined, TRUE, FALSE}]

(* Lists of grants and revokes of up to two items; the third relation and  *)
(* the third column are not there.                                         *)
Item(i, who, q, option) == [id |-> i, grantee |-> who, privilege |-> q, grantable |-> option]
TableItems ==
  {Item(id1, who, q, option) :
     who \in {you, v, public, shouted}, q \in {"DELETE", "ALL"}, option \in BOOLEAN}
  \cup {Item(id3, v, "SELECT", FALSE)}
ColumnItems ==
  {Item(<<id1, cx>>, who, "ALL", option) : who \in {you, v, shouted}, option \in BOOLEAN}
  \cup {Item(<<id1, cz>>, v, "SELECT", FALSE)}
ListsOf(S, T) == {<<>>} \cup {<<x>> : x \in S} \cup (T \X T)
Privileges_ ==
  {[level |-> "table", items |-> l] :
     l \in ListsOf(TableItems, {Item(i, v, q, TRUE) : i \in {id1, id2}, q \in {"SELECT"}})}
  \cup
  {[level |-> "column", items |-> l] :
     l \in ListsOf(ColumnItems, {Item(<<id1, c>>, v, "SELECT", o) : c \in {cx, cy}, o \in BOOLEAN})}

MCBodies ==
  [table |-> UpToTwo([name |-> {a, b}, schema |-> {s1, s2}, rls_enabled |-> {TRUE},
                      rls_forced |-> {TRUE}, replica_identity |-> {"FULL", a, b},
                      primary_keys |-> {{}, {cx}}, comment |-> {v}]),
   function |-> UpToTwo([name |-> {a, b}, schema |-> {s1, s2}, definition |-> {w}])
                  \cup [name : {b}, schema : {s2}, definition : {w}],
   schema |-> UpToTwo([name |-> {a, b}, owner |-> {you}]),
   role |-> [name : {Undefined, a, b}, can_login : {Undefined, TRUE}, config : Configs],
   policy |-> UpToTwo([name |-> {a, b}, definition |-> {w}, check |-> {w}, roles |-> {w}]),
   trigger |-> UpToTwo([name |-> {a, b}, enabled_mode |-> {"DISABLED"}]),
   publication |-> [name : {Undefined, a, b}, owner : {Undefined, you}, publish : Publishes,
                    tables : {Undefined, Null, {}, {cx}}],
   extension |-> UpToTwo([update |-> BOOLEAN, version |-> {w}, schema |-> {s2}]),
   relation |-> Privileges_]

MCNewBodies ==
  [table |-> [name : {a, b}, schema : {s1}, comment : {Undefined, v}],
   function |-> [name : {a, b}, schema : {s1}, definition : {w}],
   schema |-> [name : {a, b}, owner : {me}],
   role |-> [name : {a, b}, can_login : {TRUE}, config : {q \in Configs : Len(q) <= 1}],
   policy |-> [name : {a, b}, table : {s1}, definition : {w}, check : {Null}, roles : {v}],
   trigger |-> [name : {a, b}, table : {s1}],
   publication |-> [name : {a, b}, publish : Publishes, tables : {Undefined, Null, {}, {cx}}],
   extension |-> [name : {a, b}, version : {v}, schema : {s1}]]
===============================================================================
