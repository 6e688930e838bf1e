------------------------------- MODULE MCColumns -------------------------------
(***************************************************************************)
(* Instances of Columns for TLC: a table with a column of every kind, one  *)
(* plain column beside it and room for a third; bodies with up to two      *)
(* properties.                                                             *)
(***************************************************************************)
EXTENDS Columns

CONSTANTS c1, c2, c3, a, b, B

Plain(n) ==
  [name |-> n, type |-> "int", notnull |-> FALSE, identity |-> "none",
   default |-> "none", pk |-> FALSE, uniq |-> 0, comment |-> Null]

(* The attributes that constrain each other in every combination, and the  *)
(* constraints in every combination.                                       *)
Kinds ==
  {k \in [name : {a}, type : {"int", "text"}, notnull : BOOLEAN, identity : Identity,
          default : {"none", "int", "text"}, pk : BOOLEAN, uniq : {0}, comment : {Null}] :
     Legal(k)}

Constrained == {[Plain(n) EXCEPT !.uniq = u] : n \in {a, B}, u \in 0..2}

Own(n) == [con |-> n, key |-> {c1}]

Checks ==
  {<<>>, <<Own(a)>>, <<Own(B)>>, <<Own(Null), Own(a)>>,
   <<[con |-> b, key |-> {c2}], [con |-> Null, key |-> {c1, c2}]>>}

Table(k, s) ==
  [col |-> [c \in Column |-> CASE c = c1 -> k [] c = c2 -> Plain(b) [] c = c3 -> Plain(Unmade)],
   check |-> s]

MCTables ==
  {Table(k, <<>>) : k \in Kinds} \cup {Table(k, s) : k \in Constrained, s \in Checks}

Nothing ==
  [name |-> Undefined, type |-> Undefined, drop_default |-> FALSE,
   default_value |-> Undefined, is_identity |-> Undefined,
   identity_generation |-> Undefined, is_nullable |-> Undefined,
   is_unique |-> Undefined, comment |-> Undefined, check |-> Undefined]

Values ==
  [name |-> {a, b}, type |-> {"int", "text"}, drop_default |-> {TRUE},
   default_value |-> {"int", "text"}, is_identity |-> BOOLEAN,
   identity_generation |-> {"ALWAYS", "BY DEFAULT"}, is_nullable |-> BOOLEAN,
   is_unique |-> BOOLEAN, comment |-> {"text"}, check |-> {Null, {}, {a}, {b}, {a, b}}]

Set1(p) == UNION {{[p EXCEPT ![f] = v] : v \in Values[f]} : f \in DOMAIN Values}
MCPatches == {Nothing} \cup Set1(Nothing) \cup UNION {Set1(p) : p \in Set1(Nothing)}

Asked1 ==
  [name |-> b, type |-> "int", default_value |-> Undefined, is_identity |-> FALSE,
   identity_generation |-> Undefined, is_nullable |-> Undefined,
   is_primary_key |-> FALSE, is_unique |-> FALSE, comment |-> Undefined,
   check |-> Undefined]

MCBodies ==
  {[Asked1 EXCEPT !.name = n, !.default_value = d, !.is_identity = i, !.is_nullable = m,
                  !.is_primary_key = k, !.check = h] :
     n \in {a, b}, d \in {Undefined, "int"}, i \in BOOLEAN, m \in {Undefined, TRUE, FALSE},
     k \in BOOLEAN, h \in {Undefined, {a}, {b}}}
===============================================================================
