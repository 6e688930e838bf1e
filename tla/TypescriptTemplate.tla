------------------------- MODULE TypescriptTemplate -------------------------
(***************************************************************************)
(* src/server/templates/typescript.ts: what apply() writes for the lists L *)
(* it is given.  L is a record of nine sets.  The output is taken as the   *)
(* names it declares, Database[schema][section][name], the references to   *)
(* them, and what the properties tell apart of a row or a function: the    *)
(* wording, the order and the text of the overload conflicts are left out. *)
(*                                                                         *)
(* The queries have no ORDER BY: where the code takes the first of several *)
(* candidates, the operators here return the set of those it may take.     *)
(***************************************************************************)
EXTENDS Introspection

Listed(L, s) == \E x \in L.schemas : x.name = s
TablesLike(L) == L.tables \cup L.foreignTables \cup L.views \cup L.materializedViews

(* columnsByTableId                                                        *)
ColumnsOf(L, id) == {c \in L.columns : c.table_id = id}

(* relationTypeByIds: row types and composites.                            *)
RowTypes(L) == {t \in L.types : t.relation # 0}
IsRowType(L, id) == \E t \in RowTypes(L) : t.id = id

-------------------------------------------------------------------------------
(* pgTypeToTsType                                                          *)

(* The types with a TypeScript type of their own, of those that occur.     *)
TsBuiltIn == {<<"int4">>, <<"text">>, <<"jsonb">>, <<"record">>, <<"void">>}

(* The types, tables or views of a name that a section can hold.           *)
Candidates(L, section, n) ==
  {t \in L.types : /\ t.name = n
                   /\ \/ section = "Enums" /\ t.enums # {}
                      \/ section = "CompositeTypes" /\ t.attributes # <<>>}
  \cup {t \in L.tables : t.name = n /\ section = "Tables"}
  \cup {t \in L.views : t.name = n /\ section = "Views"}

Sections == <<"Enums", "CompositeTypes", "Tables", "Views">>

(* The first section that has the name, or 5.                              *)
SectionOf(L, n) ==
  CHOOSE i \in 1 .. 5 :
    /\ i = 5 \/ Candidates(L, Sections[i], n) # {}
    /\ \A j \in 1 .. i - 1 : Candidates(L, Sections[j], n) = {}

(* find(schema) || [0]                                                     *)
Preferred(T, s) == IF \E t \in T : t.schema = s THEN {t \in T : t.schema = s} ELSE T

Plain == [schema |-> <<>>, section |-> "", name |-> <<>>]

(* Mutant: a type is referred to without looking for its schema.           *)
ReferenceUnlisted(L, section, t) == [schema |-> t.schema, section |-> section, name |-> t.name]

(* A type of a schema that is not listed is spelled out, or unknown.       *)
Reference(L, section, t) ==
  IF Listed(L, t.schema) THEN [schema |-> t.schema, section |-> section, name |-> t.name] ELSE Plain

(* Mutant: the schema at hand is not preferred.                            *)
TsTypeAny(L, s, name) ==
  LET n == Element(name) i == SectionOf(L, n) IN
  IF n \in TsBuiltIn \/ i = 5 THEN {Plain}
  ELSE {Reference(L, Sections[i], t) : t \in Candidates(L, Sections[i], n)}

(* The references that a type's name may turn into in schema s.            *)
TsType(L, s, name) ==
  LET n == Element(name) i == SectionOf(L, n) IN
  IF n \in TsBuiltIn \/ i = 5 THEN {Plain}
  ELSE {Reference(L, Sections[i], t) : t \in Preferred(Candidates(L, Sections[i], n), s)}

(* By id, where the code has one: the type's name, then as above.          *)
TsTypeOf(L, s, id) ==
  IF \E t \in L.types : t.id = id
  THEN UNION {TsType(L, s, t.name) : t \in {x \in L.types : x.id = id}} ELSE {Plain}

-------------------------------------------------------------------------------
(* Functions                                                               *)

TsInputs(fn) == SelectSeq(fn.args, LAMBDA a : a.mode \in Input)

(* VALID_UNNAMED_FUNCTION_ARG_TYPES: json, jsonb and text.                 *)
UnnamedTypes == {114, 3802, 25}

(* getTableNameFromRelationId: the relation's name, or that of the row or  *)
(* composite type that is returned; <<>> for null.                         *)
TableName(L, relation, type) ==
  IF relation = 0 THEN <<>>
  ELSE IF \E t \in TablesLike(L) : t.id = relation
       THEN (CHOOSE t \in TablesLike(L) : t.id = relation).name
       ELSE IF IsRowType(L, type) THEN (CHOOSE t \in RowTypes(L) : t.id = type).name ELSE <<>>

(* The four cases of functions that PostgREST can call.  The two          *)
(* alternatives for a row argument, embedded or not, are one here.         *)
Callable(L, fn) ==
  LET in == TsInputs(fn) IN
  \/ \A i \in DOMAIN in : in[i].name # ""
  \/ \A i \in DOMAIN in :
       in[i].name = "" => in[i].has_default /\ in[i].type \in UnnamedTypes
  \/ /\ Len(in) = 1 /\ in[1].name = ""
     /\ in[1].type \in UnnamedTypes \/ IsRowType(L, in[1].type)

TsFunctions(L, s) == {fn \in L.functions : fn.schema = s /\ Callable(L, fn)}

InSchema(L, T, s) == {t \in T : t.schema = s}
TsTables(L, s) == InSchema(L, L.tables \cup L.foreignTables, s)
TsViews(L, s) == InSchema(L, L.views \cup L.materializedViews, s)

(* getFunctionReturnType: `returns table` columns, the columns of a        *)
(* relation of the same schema, or the type.                               *)
ReturnReferences(L, s, fn) ==
  LET tableArgs == {i \in DOMAIN fn.args : fn.args[i].mode = "table"} IN
  IF tableArgs # {} THEN UNION {TsTypeOf(L, s, fn.args[i].type) : i \in tableArgs}
  ELSE IF \E t \in TsTables(L, s) \cup TsViews(L, s) : t.id = fn.relation
       THEN UNION {TsType(L, s, c.format) : c \in ColumnsOf(L, fn.relation)}
       ELSE TsTypeOf(L, s, fn.ret)

ArgumentReferences(L, s, fn) ==
  UNION {TsTypeOf(L, s, TsInputs(fn)[i].type) : i \in DOMAIN TsInputs(fn)}

(* The arguments written with a question mark.                             *)
Optional(fn) == {i \in DOMAIN fn.args : fn.args[i].mode \in Input /\ fn.args[i].has_default}

(* hasTableRowError: a row is taken but nothing embeddable is returned.    *)
TableRowError(L, fn) ==
  LET in == TsInputs(fn) IN
  /\ Len(in) = 1 /\ in[1].name = "" /\ IsRowType(L, in[1].type)
  /\ TableName(L, fn.relation, fn.ret) = <<>>

(* A signature: the arguments, and the return type unless it is an error.  *)
(* (Overloads in conflict give an error too, and fewer references.)        *)
SignatureReferences(L, s, fn) ==
  ArgumentReferences(L, s, fn)
  \cup (IF TableRowError(L, fn) THEN {} ELSE ReturnReferences(L, s, fn))

(* getFunctionTsReturnType: SetofOptions are written when the function     *)
(* returns a relation's rows; `to` is the relation's name.                 *)
EmbedsTo(L, fn) == TableName(L, fn.relation, fn.ret)

(* A set is an array, but for an embedding of one row by the estimate.     *)
IsArray(L, fn) == fn.set /\ (fn.rows > 1 \/ EmbedsTo(L, fn) = <<>>)

-------------------------------------------------------------------------------
(* Rows                                                                    *)

(* The functions that are fields of a row: those whose arguments are       *)
(* written like the relation's name.                                       *)
ComputedFields(L, s, t) == {fn \in TsFunctions(L, s) : fn.argument_types = t.name}

RowReferences(L, s, t) ==
  (UNION {TsType(L, s, c.format) : c \in ColumnsOf(L, t.id)})
  \cup (UNION {ReturnReferences(L, s, fn) : fn \in ComputedFields(L, s, t)})

(* The columns an Insert may leave out; GENERATED ALWAYS ones are `never`. *)
TsInsertOptional(L, t) ==
  {c.name : c \in {x \in ColumnsOf(L, t.id) :
     x.identity = "always" \/ x.nullable \/ x.identity # "none" \/ x.default}}

(* relationshipsByRelation: its keys are the names joined with a dot.      *)
BucketKey(s, n) == s \o <<".">> \o n

(* Mutant: a relationship may leave the schema.                            *)
TsRelationshipsAnySchema(L, t) ==
  {r \in L.relationships : BucketKey(r.schema, r.relation) = BucketKey(t.schema, t.name)}

(* getRelationships: those of the object, by its key, that stay in its     *)
(* schema.                                                                 *)
TsRelationships(L, t) ==
  {r \in L.relationships :
     BucketKey(r.schema, r.relation) = BucketKey(t.schema, t.name) /\ r.rschema = t.schema}

CompositeReferences(L, s, t) ==
  UNION {TsTypeOf(L, s, t.attributes[i].type) : i \in DOMAIN t.attributes}

TsEnums(L, s) == {t \in L.types : t.schema = s /\ t.enums # {}}
TsComposites(L, s) == {t \in L.types : t.schema = s /\ t.attributes # <<>>}

-------------------------------------------------------------------------------
(* apply()                                                                 *)

Entry(s, section, T) == {[schema |-> s, section |-> section, name |-> t.name] : t \in T}

TsDeclared(L) ==
  UNION {Entry(s, "Tables", TsTables(L, s)) \cup Entry(s, "Views", TsViews(L, s))
         \cup Entry(s, "Functions", TsFunctions(L, s))
         \cup Entry(s, "Enums", TsEnums(L, s))
         \cup Entry(s, "CompositeTypes", TsComposites(L, s)) : s \in {x.name : x \in L.schemas}}

(* References to nothing, Plain, are left out.                             *)
TsReferences(L) ==
  (UNION {(UNION {RowReferences(L, s, t) : t \in TsTables(L, s) \cup TsViews(L, s)})
         \cup (UNION {SignatureReferences(L, s, fn) : fn \in TsFunctions(L, s)})
         \cup (UNION {CompositeReferences(L, s, t) : t \in TsComposites(L, s)}) :
           s \in {x.name : x \in L.schemas}}) \ {Plain}

(* Two objects of the code are plain {}: a name that every object has is   *)
(* found in them.  A schema that is not listed but so named takes types    *)
(* and relations to lists that are not there, and a function so named is   *)
(* pushed onto what is no array: a TypeError.                              *)
TsThrows(L) ==
  \/ \E t \in L.types :
       t.schema \in Prototype /\ ~ Listed(L, t.schema) /\ (t.enums # {} \/ t.attributes # <<>>)
  \/ \E t \in TablesLike(L) : t.schema \in Prototype /\ ~ Listed(L, t.schema)
  \/ \E fn \in L.functions :
       fn.schema \in Prototype /\ ~ Listed(L, fn.schema) /\ Callable(L, fn)
  \/ \E x \in L.schemas : \E fn \in TsFunctions(L, x.name) : fn.name \in Prototype
=============================================================================
