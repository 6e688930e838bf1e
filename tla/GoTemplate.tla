----------------------------- MODULE GoTemplate -----------------------------
(***************************************************************************)
(* src/server/templates/go.ts: the structs that apply() declares for the   *)
(* lists L, and when it throws.  A field's type is a type of Go or a map   *)
(* of anything, never another struct, so nothing is referred to.           *)
(* A declaration is [name, of]: its Go name, and what it is for.           *)
(***************************************************************************)
EXTENDS Introspection

(* formatForGoTypeName: the words, capitalised and joined.                 *)
Pascal(n) == Words(n)

GoListed(L) == {s.name : s \in L.schemas}

Struct(t, suffix) ==
  [name |-> Pascal(t.schema) \o Pascal(t.name) \o suffix, of |-> <<t.schema, t.name, suffix>>]

(* Mutant: the operation is not part of the name.                          *)
TableStructsSame(t) ==
  {[name |-> Pascal(t.schema) \o Pascal(t.name), of |-> <<t.schema, t.name, o>>] :
     o \in {<<"select">>, <<"insert">>, <<"update">>}}

(* generateTableStructsForOperations                                       *)
TableStructs(t) == {Struct(t, o) : o \in {<<"select">>, <<"insert">>, <<"update">>}}

GoComposites(L) == {t \in L.types : t.attributes # <<>> /\ t.schema \in GoListed(L)}

(* apply(): foreign tables are not among its tables.                       *)
GoDeclared(L) ==
  (UNION {TableStructs(t) : t \in {x \in L.tables : x.schema \in GoListed(L)}})
  \cup {Struct(v, <<"select">>) :
          v \in {x \in L.views \cup L.materializedViews : x.schema \in GoListed(L)}}
  \cup {Struct(t, <<>>) : t \in GoComposites(L)}

(* pgTypeToGoType: `in` finds the members of Object.prototype in the table *)
(* of types, and what is there has no padEnd(); an enum is looked up last. *)
NoString(T, n) == n \in Prototype /\ ~ \E t \in T : t.name = n /\ t.enums # {}

(* The structs that are written throw for such a column or attribute (the  *)
(* enums are not passed on for these), generateCompositeTypeStruct also at *)
(* attribute.type! of an attribute whose type is not in the list.          *)
GoThrows(L) ==
  \/ \E t \in {x \in L.tables \cup L.views \cup L.materializedViews : x.schema \in GoListed(L)} :
       \E c \in L.columns : c.table_id = t.id /\ NoString(L.types, c.format)
  \/ \E t \in GoComposites(L) : \E i \in DOMAIN t.attributes :
       \/ \A y \in L.types : y.id # t.attributes[i].type
       \/ \E y \in L.types : y.id = t.attributes[i].type /\ NoString({}, y.format)

(* Insert: the pointer fields.                                             *)
GoInsertOptional(L, t) ==
  {c.name : c \in {x \in L.columns : x.table_id = t.id /\
     (x.nullable \/ x.identity # "none" \/ x.generated \/ x.default)}}
=============================================================================
