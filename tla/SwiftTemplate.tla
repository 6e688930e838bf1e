---------------------------- MODULE SwiftTemplate ----------------------------
(***************************************************************************)
(* src/server/templates/swift.ts: an enum per schema, in which the enums   *)
(* and structs of that schema are declared, for the lists L.  A reference  *)
(* has no schema: it is looked up in the enum it is written in.            *)
(***************************************************************************)
EXTENDS Introspection

(* formatForSwiftTypeName: a first underscore is kept.                     *)
SwiftName(n) == IF n # <<>> /\ n[1] = Separator THEN <<Separator>> \o Words(n) ELSE Words(n)

SwiftBuiltIn == {<<"int4">>, <<"text">>, <<"jsonb">>, <<"record">>, <<"void">>}

SwiftTables(L, s) == {t \in L.tables \cup L.foreignTables : t.schema = s}
SwiftViews(L, s) == {v \in L.views \cup L.materializedViews : v.schema = s}
SwiftEnums(L, s) == {t \in L.types : t.schema = s /\ t.enums # {}}
SwiftComposites(L, s) == {t \in L.types : t.schema = s /\ t.attributes # <<>>}

Declare(s, t, suffix) ==
  [schema |-> s, name |-> SwiftName(t.name) \o suffix, of |-> <<t.name, suffix>>]

(* Mutant: views are declared without the operation.                       *)
DeclareView(s, t) == Declare(s, t, <<>>)

(* pgTypeToSwiftStruct of a view: the operation is Select.                 *)
SwiftView(s, t) == Declare(s, t, <<"select">>)

SwiftDeclared(L) ==
  UNION {(UNION {{Declare(s, t, o) : o \in {<<"select">>, <<"insert">>, <<"update">>}} :
                  t \in SwiftTables(L, s)})
         \cup {SwiftView(s, v) : v \in SwiftViews(L, s)}
         \cup {Declare(s, t, <<>>) : t \in SwiftEnums(L, s) \cup SwiftComposites(L, s)} :
           s \in {x.name : x \in L.schemas}}

(* pgTypeToSwiftType in schema s: an enum of that name in any schema, else *)
(* the struct for Select of a type, view or table of that name.            *)
SwiftType(L, s, name) ==
  LET n == Element(name) IN
  IF n \in SwiftBuiltIn THEN {}
  ELSE IF \E t \in L.types : t.name = n /\ t.enums # {}
       THEN {[schema |-> s, name |-> SwiftName(n)]}
       ELSE IF \E t \in L.types \cup L.views \cup L.tables : t.name = n
            THEN {[schema |-> s, name |-> SwiftName(n) \o <<"select">>]} ELSE {}

SwiftColumns(L, id) == {c \in L.columns : c.table_id = id}

(* An attribute's type goes by format_type's name for it.                  *)
SwiftReferences(L) ==
  UNION {(UNION {SwiftType(L, s, c.format) :
                  c \in UNION {SwiftColumns(L, t.id) : t \in SwiftTables(L, s) \cup SwiftViews(L, s)}})
         \cup (UNION {UNION {SwiftType(L, s, y.format) :
                  y \in {x \in L.types : \E i \in DOMAIN t.attributes : t.attributes[i].type = x.id}} :
                       t \in SwiftComposites(L, s)}) :
           s \in {x.name : x \in L.schemas}}

(* attribute.type! of an attribute whose type is not in the list.          *)
SwiftThrows(L) ==
  \E s \in L.schemas : \E t \in SwiftComposites(L, s.name) : \E i \in DOMAIN t.attributes :
    \A y \in L.types : y.id # t.attributes[i].type

(* Insert: the optional properties.                                        *)
SwiftInsertOptional(L, t) ==
  {c.name : c \in {x \in SwiftColumns(L, t.id) :
     x.nullable \/ x.identity # "none" \/ x.generated \/ x.default}}
=============================================================================
