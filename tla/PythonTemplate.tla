--------------------------- MODULE PythonTemplate ---------------------------
(***************************************************************************)
(* src/server/templates/python.ts: the classes that apply() declares for   *)
(* the lists L, the names their attributes refer to, and when it throws.   *)
(* Types are kept in a dictionary by name, where the last of a name wins;  *)
(* the list has no order, so the operators return what may come out.       *)
(* Foreign tables and functions are not written.                           *)
(***************************************************************************)
EXTENDS GoTemplate

(* formatForPyClassName makes the names that Go's function makes.          *)
ClassName(t) == Pascal(t.schema) \o Pascal(t.name)

(* Schemas are looked up in a plain {}.                                    *)
PyListed(L, s) == \E x \in L.schemas : x.name = s
Borrowed(L, s) == s \in Prototype /\ ~ PyListed(L, s)

(* The class of a relation: `constructor` of any object is named Object.   *)
RelationClass(L, t) ==
  (IF Borrowed(L, t.schema) THEN <<"Object">> ELSE Pascal(t.schema)) \o Pascal(t.name)

PyBuiltIn == {<<"int4">>, <<"text">>, <<"jsonb">>, <<"record">>, <<"void">>}

PyEnums(L) == {t \in L.types : t.enums # {}}

(* parsePgType and resolveTypeName: underscores are dropped, then an enum  *)
(* is its alias, a mapped type is Python's, and any other type of the list *)
(* is called by its class name, whether or not it has a class.  The enums  *)
(* are a plain {} too.                                                     *)
Resolve(L, name) ==
  LET n == Element(name) enums == {t \in PyEnums(L) : t.name = n} IN
  IF enums # {} THEN {ClassName(t) : t \in enums}
  ELSE IF n \in Prototype THEN {<<"Object">>}
  ELSE IF n \in PyBuiltIn THEN {}
  ELSE {ClassName(t) : t \in {x \in L.types : x.name = n}}

PyColumns(L, id) == {c \in L.columns : c.table_id = id}

(* Every table is written, in whatever schema.                             *)
PyRelations(L) == L.tables \cup L.views \cup L.materializedViews
PyComposites(L) == {t \in L.types : t.attributes # <<>> /\ PyListed(L, t.schema)}

(* apply(): aliases of the enums, of every schema but one per name; classes*)
(* of the relations; dictionaries of the tables; classes of the composites.*)
PyDeclared(L) ==
  {[name |-> ClassName(t), of |-> <<t.schema, t.name, <<>>>>] : t \in PyEnums(L) \cup PyComposites(L)}
  \cup {[name |-> RelationClass(L, t), of |-> <<t.schema, t.name, <<>>>>] : t \in PyRelations(L)}
  \cup (UNION {{[name |-> RelationClass(L, t) \o o, of |-> <<t.schema, t.name, o>>] :
                  o \in {<<"insert">>, <<"update">>}} : t \in L.tables})

PyReferences(L) ==
  (UNION {Resolve(L, c.format) :
           c \in UNION {PyColumns(L, t.id) : t \in PyRelations(L)}})
  \cup (UNION {UNION {Resolve(L, y.name) :
                       y \in {x \in L.types : \E i \in DOMAIN t.attributes : t.attributes[i].type = x.id}} :
                t \in PyComposites(L)})

(* A relation of a schema that is not found has `undefined` for a schema,  *)
(* an attribute whose type is not in the list `undefined` for a type.      *)
PyMustThrow(L) ==
  \/ \E t \in PyRelations(L) : ~ PyListed(L, t.schema) /\ ~ Borrowed(L, t.schema)
  \/ \E t \in PyComposites(L) : \E i \in DOMAIN t.attributes :
       \A y \in L.types : y.id # t.attributes[i].type

(* typeToClass searches the dictionary, where an attribute's type may have *)
(* lost its place to another type of its name.                             *)
PyMayThrow(L) ==
  \/ PyMustThrow(L)
  \/ \E t \in PyComposites(L) : \E i \in DOMAIN t.attributes :
       \E y, z \in L.types : y.id = t.attributes[i].type /\ z # y /\ z.name = y.name

(* Mutant: an identity column has to be given.                             *)
PyInsertOptionalIdentity(L, t) ==
  {c.name : c \in {x \in PyColumns(L, t.id) : x.nullable \/ x.default}}

(* Insert: NotRequired entries of the dictionary.                          *)
PyInsertOptional(L, t) ==
  {c.name : c \in {x \in PyColumns(L, t.id) :
     x.nullable \/ x.identity # "none" \/ x.default}}
=============================================================================
