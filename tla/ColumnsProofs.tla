----------------------------- MODULE ColumnsProofs -----------------------------
(***************************************************************************)
(* Proofs about Columns, for any table, any bodies and any number of       *)
(* changes by others: what an update does to its column, and to no other,  *)
(* when it is aborted, and that the table stays one Postgres can keep.     *)
(***************************************************************************)
EXTENDS Columns, SequenceTheorems, TLAPS

OldColumn == [id : Column, name : Name, identity : Identity, unique : BOOLEAN]

(* A table, whatever its checks are.                                       *)
Shaped(t) ==
  /\ t = [col |-> t.col, check |-> t.check]
  /\ t.col \in [Column -> ColumnState]

(* What a request knows: an update goes on with the column of its id.      *)
Knows ==
  \/ req \in [op : {"none"}, at : {"idle"}]
  \/ /\ req \in [op : {"update"}, id : Column, body : Patches,
                 at : {"apply", "read", "done"}, old : OldColumn]
     /\ req.old.id = req.id
  \/ req \in [op : {"remove"}, id : Column, body : {Null},
              at : {"apply", "read", "done"}, old : OldColumn]
  \/ req \in [op : {"update", "remove"}, id : Column, body : Patches \cup {Null}, at : {"done"}]
  \/ req \in [op : {"create"}, body : Bodies, at : {"apply", "read", "done"}]

ColumnsInv == Shaped(table) /\ Knows

-------------------------------------------------------------------------------
(* The statements of one update, each over a table or over what another    *)
(* one aborted.                                                            *)

Input(t) == t = Aborted \/ Shaped(t)

(* u is t with columns that are changed, but not in their constraints.     *)
SameUniques(t, u) ==
  /\ Shaped(t) /\ Shaped(u)
  /\ u.check = t.check
  /\ \A c \in Column : u.col[c].uniq = t.col[c].uniq

KeepsUniques(t, u) == u = Aborted \/ SameUniques(t, u)

(* A column that is found by its name is a column of the table.            *)
LEMMA AtColumn == ASSUME NEW t, NEW n, Has(t, n) PROVE At(t, n) \in Column
BY DEF At, Has

(* Another state of one column, with the same unique constraints.          *)
LEMMA AlterOne ==
  ASSUME NEW t, Shaped(t), NEW c \in Column, NEW d \in ColumnState,
         d.uniq = t.col[c].uniq
  PROVE  SameUniques(t, [t EXCEPT !.col[c] = d])
<1> DEFINE u == [t EXCEPT !.col[c] = d]
<1>1. u = [col |-> [t.col EXCEPT ![c] = d], check |-> t.check]
  BY DEF Shaped
<1>2. u.col = [t.col EXCEPT ![c] = d] /\ u.check = t.check
  BY <1>1
<1>3. Shaped(u)
  BY <1>1, <1>2 DEF Shaped
<1>4. \A e \in Column : u.col[e].uniq = t.col[e].uniq
  BY <1>2 DEF Shaped
<1>5. QED
  BY <1>2, <1>3, <1>4 DEF SameUniques

(* What ALTER COLUMN sets of a column leaves it one, its constraints alone. *)
LEMMA Fields ==
  ASSUME NEW d \in ColumnState
  PROVE  /\ \A b \in BOOLEAN : /\ [d EXCEPT !.notnull = b] \in ColumnState
                               /\ [d EXCEPT !.notnull = b].uniq = d.uniq
         /\ \A x \in {"int", "text"} : /\ [d EXCEPT !.type = x] \in ColumnState
                                      /\ [d EXCEPT !.type = x].uniq = d.uniq
         /\ \A x \in {"none", "int", "text"} : /\ [d EXCEPT !.default = x] \in ColumnState
                                              /\ [d EXCEPT !.default = x].uniq = d.uniq
         /\ \A x \in Identity : /\ [d EXCEPT !.identity = x] \in ColumnState
                               /\ [d EXCEPT !.identity = x].uniq = d.uniq
         /\ \A x \in {Null, "text"} : /\ [d EXCEPT !.comment = x] \in ColumnState
                                     /\ [d EXCEPT !.comment = x].uniq = d.uniq
         /\ \A x \in Name \cup {Dropped} : /\ [d EXCEPT !.name = x] \in ColumnState
                                         /\ [d EXCEPT !.name = x].uniq = d.uniq
BY DEF ColumnState

(* ALTER COLUMN, where it is allowed and d is what it makes of the column. *)
Altered(t, n, ok, d) ==
  IF t # Aborted /\ Has(t, n) /\ ok THEN [t EXCEPT !.col[At(t, n)] = d] ELSE Aborted

LEMMA AlterKeeps ==
  ASSUME NEW t, Input(t), NEW n, NEW ok, NEW d,
         t # Aborted /\ Has(t, n) =>
           d \in ColumnState /\ d.uniq = t.col[At(t, n)].uniq
  PROVE  KeepsUniques(t, Altered(t, n, ok, d))
<1>1. CASE t # Aborted /\ Has(t, n) /\ ok
  <2>1. Shaped(t) /\ At(t, n) \in Column
    BY <1>1, AtColumn DEF Input
  <2>2. SameUniques(t, [t EXCEPT !.col[At(t, n)] = d])
    BY <1>1, <2>1, AlterOne
  <2>3. QED
    BY <1>1, <2>2 DEF Altered, KeepsUniques
<1>2. CASE ~(t # Aborted /\ Has(t, n) /\ ok)
  BY <1>2 DEF Altered, KeepsUniques
<1>3. QED
  BY <1>1, <1>2

LEMMA FoundColumn ==
  ASSUME NEW t, Input(t), NEW n, t # Aborted, Has(t, n) PROVE t.col[At(t, n)] \in ColumnState
BY AtColumn DEF Input, Shaped

(* A property that the body does not have changes nothing.                 *)
LEMMA NothingKeeps == ASSUME NEW t, Input(t) PROVE KeepsUniques(t, t)
BY DEF Input, KeepsUniques, SameUniques

(* SET or DROP NOT NULL.                                                   *)
LEMMA NullableKeeps ==
  ASSUME NEW t, Input(t), NEW old \in OldColumn, NEW p \in PatchBody
  PROVE  KeepsUniques(t, NullableSql(t, old, p))
<1> DEFINE c == t.col[At(t, old.name)]
<1>0. t # Aborted /\ Has(t, old.name) => c \in ColumnState
  BY FoundColumn
<1>1. CASE p.is_nullable = Undefined
  <2>1. NullableSql(t, old, p) = t
    BY <1>1, BodiesAssumption DEF NullableSql
  <2>2. QED
    BY <2>1, NothingKeeps
<1>2. CASE p.is_nullable = TRUE
  <2> DEFINE ok == c.identity = "none" /\ ~c.pk
             d == [c EXCEPT !.notnull = FALSE]
  <2>1. NullableSql(t, old, p) = Altered(t, old.name, ok, d)
    BY <1>2, BodiesAssumption DEF NullableSql, Alter, Altered
  <2>2. t # Aborted /\ Has(t, old.name) => d \in ColumnState /\ d.uniq = c.uniq
    BY <1>2, <1>0, Fields DEF PatchBody, Optional
  <2> HIDE DEF ok, d
  <2>3. QED
    BY <2>1, <2>2, AlterKeeps
<1>3. CASE p.is_nullable = FALSE
  <2> DEFINE ok == TRUE
             d == [c EXCEPT !.notnull = TRUE]
  <2>1. NullableSql(t, old, p) = Altered(t, old.name, ok, d)
    BY <1>3, BodiesAssumption DEF NullableSql, Alter, Altered
  <2>2. t # Aborted /\ Has(t, old.name) => d \in ColumnState /\ d.uniq = c.uniq
    BY <1>3, <1>0, Fields DEF PatchBody, Optional
  <2> HIDE DEF ok, d
  <2>3. QED
    BY <2>1, <2>2, AlterKeeps
<1>4. QED
  BY <1>1, <1>2, <1>3 DEF PatchBody, Optional

(* SET DATA TYPE.                                                          *)
LEMMA TypeKeeps ==
  ASSUME NEW t, Input(t), NEW old \in OldColumn, NEW p \in PatchBody
  PROVE  KeepsUniques(t, TypeSql(t, old, p))
<1> DEFINE c == t.col[At(t, old.name)]
<1>0. t # Aborted /\ Has(t, old.name) => c \in ColumnState
  BY FoundColumn
<1>1. CASE p.type = Undefined
  <2>1. TypeSql(t, old, p) = t
    BY <1>1, BodiesAssumption DEF TypeSql
  <2>2. QED
    BY <2>1, NothingKeeps
<1>2. CASE p.type # Undefined
  <2> DEFINE ok == /\ p.type = "text" => c.identity = "none"
                   /\ c.type = "text" /\ p.type = "int" => c.default = "none"
             d == [c EXCEPT !.type = p.type]
  <2>1. TypeSql(t, old, p) = Altered(t, old.name, ok, d)
    BY <1>2, BodiesAssumption DEF TypeSql, Alter, Altered
  <2>2. t # Aborted /\ Has(t, old.name) => d \in ColumnState /\ d.uniq = c.uniq
    BY <1>2, <1>0, Fields DEF PatchBody, Optional
  <2> HIDE DEF ok, d
  <2>3. QED
    BY <2>1, <2>2, AlterKeeps
<1>3. QED
  BY <1>1, <1>2

(* SET or DROP DEFAULT.                                                    *)
LEMMA DefaultKeeps ==
  ASSUME NEW t, Input(t), NEW old \in OldColumn, NEW p \in PatchBody
  PROVE  KeepsUniques(t, DefaultSql(t, old, p))
<1> DEFINE c == t.col[At(t, old.name)]
<1>0. t # Aborted /\ Has(t, old.name) => c \in ColumnState
  BY FoundColumn
<1>1. CASE p.drop_default
  <2> DEFINE ok == c.identity = "none"
             d == [c EXCEPT !.default = "none"]
  <2>1. DefaultSql(t, old, p) = Altered(t, old.name, ok, d)
    BY <1>1, BodiesAssumption DEF DefaultSql, Alter, Altered
  <2>2. t # Aborted /\ Has(t, old.name) => d \in ColumnState /\ d.uniq = c.uniq
    BY <1>1, <1>0, Fields DEF PatchBody, Optional
  <2> HIDE DEF ok, d
  <2>3. QED
    BY <2>1, <2>2, AlterKeeps
<1>2. CASE ~p.drop_default /\ p.default_value = Undefined
  <2>1. DefaultSql(t, old, p) = t
    BY <1>2, BodiesAssumption DEF DefaultSql
  <2>2. QED
    BY <2>1, NothingKeeps
<1>3. CASE ~p.drop_default /\ p.default_value # Undefined
  <2> DEFINE ok == c.identity = "none" /\ (p.default_value = "text" => c.type = "text")
             d == [c EXCEPT !.default = p.default_value]
  <2>1. DefaultSql(t, old, p) = Altered(t, old.name, ok, d)
    BY <1>3, BodiesAssumption DEF DefaultSql, Alter, Altered
  <2>2. t # Aborted /\ Has(t, old.name) => d \in ColumnState /\ d.uniq = c.uniq
    BY <1>3, <1>0, Fields DEF PatchBody, Optional
  <2> HIDE DEF ok, d
  <2>3. QED
    BY <2>1, <2>2, AlterKeeps
<1>4. QED
  BY <1>1, <1>2, <1>3

(* The identity.                                                           *)
LEMMA IdentityKeeps ==
  ASSUME NEW t, Input(t), NEW old \in OldColumn, NEW p \in PatchBody
  PROVE  KeepsUniques(t, IdentitySql(t, old, p))
<1> DEFINE c == t.col[At(t, old.name)]
<1>0. t # Aborted /\ Has(t, old.name) => c \in ColumnState
  BY FoundColumn
<1>a. Generation(p) \in Identity
  BY DEF Generation, PatchBody, Optional, Identity
<1>1. CASE p.is_identity = FALSE
  <2> DEFINE ok == TRUE
             d == [c EXCEPT !.identity = "none"]
  <2>1. IdentitySql(t, old, p) = Altered(t, old.name, ok, d)
    BY <1>1, BodiesAssumption DEF IdentitySql, Alter, Altered
  <2>2. t # Aborted /\ Has(t, old.name) => d \in ColumnState /\ d.uniq = c.uniq
    BY <1>1, <1>0, Fields DEF Identity
  <2> HIDE DEF ok, d
  <2>3. QED
    BY <2>1, <2>2, AlterKeeps
<1>2. CASE p.is_identity # FALSE /\ old.identity # "none"
  <2> DEFINE ok == c.identity # "none"
             d == [c EXCEPT !.identity = Generation(p)]
  <2>1. IdentitySql(t, old, p) = Altered(t, old.name, ok, d)
    BY <1>2, BodiesAssumption DEF IdentitySql, Alter, Altered
  <2>2. t # Aborted /\ Has(t, old.name) => d \in ColumnState /\ d.uniq = c.uniq
    BY <1>2, <1>0, <1>a, Fields
  <2> HIDE DEF ok, d
  <2>3. QED
    BY <2>1, <2>2, AlterKeeps
<1>3. CASE p.is_identity = TRUE /\ old.identity = "none"
  <2> DEFINE ok == /\ c.identity = "none" /\ c.notnull /\ c.default = "none"
                   /\ c.type = "int"
             d == [c EXCEPT !.identity = Generation(p)]
  <2>1. IdentitySql(t, old, p) = Altered(t, old.name, ok, d)
    BY <1>3, BodiesAssumption DEF IdentitySql, Alter, Altered
  <2>2. t # Aborted /\ Has(t, old.name) => d \in ColumnState /\ d.uniq = c.uniq
    BY <1>3, <1>0, <1>a, Fields
  <2> HIDE DEF ok, d
  <2>3. QED
    BY <2>1, <2>2, AlterKeeps
<1>4. CASE p.is_identity = Undefined /\ old.identity = "none"
  <2>1. IdentitySql(t, old, p) = t
    BY <1>4, BodiesAssumption DEF IdentitySql
  <2>2. QED
    BY <2>1, NothingKeeps
<1>5. QED
  BY <1>1, <1>2, <1>3, <1>4 DEF PatchBody, Optional

(* COMMENT ON COLUMN.                                                      *)
LEMMA CommentKeeps ==
  ASSUME NEW t, Input(t), NEW old \in OldColumn, NEW p \in PatchBody
  PROVE  KeepsUniques(t, CommentSql(t, old, p))
<1> DEFINE c == t.col[At(t, old.name)]
<1>0. t # Aborted /\ Has(t, old.name) => c \in ColumnState
  BY FoundColumn
<1>1. CASE p.comment = Undefined
  <2>1. CommentSql(t, old, p) = t
    BY <1>1, BodiesAssumption DEF CommentSql
  <2>2. QED
    BY <2>1, NothingKeeps
<1>2. CASE p.comment # Undefined
  <2> DEFINE ok == TRUE
             d == [c EXCEPT !.comment = p.comment]
  <2>1. CommentSql(t, old, p) = Altered(t, old.name, ok, d)
    BY <1>2, BodiesAssumption DEF CommentSql, Alter, Altered
  <2>2. t # Aborted /\ Has(t, old.name) => d \in ColumnState /\ d.uniq = c.uniq
    BY <1>2, <1>0, Fields DEF PatchBody, Optional
  <2> HIDE DEF ok, d
  <2>3. QED
    BY <2>1, <2>2, AlterKeeps
<1>3. QED
  BY <1>1, <1>2

(* RENAME COLUMN.                                                          *)
LEMMA NameKeeps ==
  ASSUME NEW t, Input(t), NEW old \in OldColumn, NEW p \in PatchBody
  PROVE  KeepsUniques(t, NameSql(t, old, p))
<1> DEFINE c == t.col[At(t, old.name)]
<1>0. t # Aborted /\ Has(t, old.name) => c \in ColumnState
  BY FoundColumn
<1>1. CASE p.name = Undefined \/ p.name = old.name
  <2>1. NameSql(t, old, p) = t
    BY <1>1, BodiesAssumption DEF NameSql
  <2>2. QED
    BY <2>1, NothingKeeps
<1>2. CASE ~(p.name = Undefined \/ p.name = old.name)
  <2> DEFINE ok == ~Has(t, p.name)
             d == [c EXCEPT !.name = p.name]
  <2>1. NameSql(t, old, p) = Altered(t, old.name, ok, d)
    BY <1>2, BodiesAssumption DEF NameSql, Alter, Altered
  <2>2. t # Aborted /\ Has(t, old.name) => d \in ColumnState /\ d.uniq = c.uniq
    BY <1>2, <1>0, Fields DEF PatchBody, Optional
  <2> HIDE DEF ok, d
  <2>3. QED
    BY <2>1, <2>2, AlterKeeps
<1>3. QED
  BY <1>1, <1>2

(* The unique constraints: all of the column's go, or one comes.           *)
LEMMA UniqueDoes ==
  ASSUME NEW t, Input(t), NEW old \in OldColumn, NEW p \in PatchBody,
         UniqueSql(t, old, p) # Aborted
  PROVE  /\ Shaped(UniqueSql(t, old, p))
         /\ p.is_unique = FALSE /\ old.unique => UniqueSql(t, old, p).col[old.id].uniq = 0
<1> DEFINE u == UniqueSql(t, old, p)
<1>1. t # Aborted /\ Shaped(t) /\ old.id \in Column
  BY DEF UniqueSql, Input, OldColumn
<1>2. CASE old.unique /\ p.is_unique = FALSE
  <2> DEFINE d == [t.col[old.id] EXCEPT !.uniq = 0]
  <2>1. u = [t EXCEPT !.col[old.id] = d]
    BY <1>1, <1>2 DEF UniqueSql
  <2>2. d \in ColumnState /\ d.uniq = 0
    BY <1>1 DEF Shaped, ColumnState
  <2> HIDE DEF d
  <2>3. u = [col |-> [t.col EXCEPT ![old.id] = d], check |-> t.check]
    BY <1>1, <2>1 DEF Shaped
  <2> HIDE DEF u
  <2>4. u.col = [t.col EXCEPT ![old.id] = d] /\ u.check = t.check
    BY <2>3
  <2>5. Shaped(u) /\ u.col[old.id].uniq = 0
    BY <1>1, <2>2, <2>3, <2>4 DEF Shaped
  <2>6. QED
    BY <2>5 DEF u
<1>3. CASE ~old.unique /\ p.is_unique = TRUE
  <2> DEFINE c == At(t, old.name)
             d == [t.col[c] EXCEPT !.uniq = @ + 1]
  <2>1. Has(t, old.name) /\ u = [t EXCEPT !.col[c] = d]
    BY <1>1, <1>3 DEF UniqueSql, Alter
  <2>2. c \in Column /\ d \in ColumnState
    BY <1>1, <2>1, AtColumn DEF Shaped, ColumnState
  <2> HIDE DEF d, c
  <2>3. u = [col |-> [t.col EXCEPT ![c] = d], check |-> t.check]
    BY <1>1, <2>1 DEF Shaped
  <2> HIDE DEF u
  <2>4. u.col = [t.col EXCEPT ![c] = d] /\ u.check = t.check
    BY <2>3
  <2>5. Shaped(u)
    BY <1>1, <2>2, <2>3, <2>4 DEF Shaped
  <2>6. QED
    BY <1>3, <2>5 DEF u
<1>4. CASE ~(old.unique /\ p.is_unique = FALSE) /\ ~(~old.unique /\ p.is_unique = TRUE)
  BY <1>1, <1>4 DEF UniqueSql
<1>5. QED
  BY <1>2, <1>3, <1>4

(* Checks come and go without touching the columns.                        *)
LEMMA OtherChecks ==
  ASSUME NEW t, Shaped(t), NEW s
  PROVE  /\ Shaped([t EXCEPT !.check = s])
         /\ [t EXCEPT !.check = s].col = t.col
<1> DEFINE u == [t EXCEPT !.check = s]
<1>1. u = [col |-> t.col, check |-> s]
  BY DEF Shaped
<1> HIDE DEF u
<1>2. u.col = t.col /\ u.check = s
  BY <1>1
<1>3. Shaped(u)
  BY <1>1, <1>2 DEF Shaped
<1>4. QED
  BY <1>2, <1>3 DEF u

LEMMA DropFirstDoes ==
  ASSUME NEW t, Input(t), NEW old
  PROVE  LET u == DropFirstCheck(t, old)
         IN u = Aborted \/ (Shaped(t) /\ Shaped(u) /\ u.col = t.col)
BY OtherChecks DEF DropFirstCheck, DropCheck, Input

LEMMA AddCheckDoes ==
  ASSUME NEW t, Input(t), NEW con, NEW names
  PROVE  LET u == AddCheck(t, con, names)
         IN u = Aborted \/ (Shaped(t) /\ Shaped(u) /\ u.col = t.col)
BY OtherChecks DEF AddCheck, Input

(* The check of the update: the assertions let it through only when it is  *)
(* of the column, if the constraint they look at is the new one.           *)
LEMMA CheckDoes ==
  ASSUME NEW t, Input(t), NEW old, NEW p, NEW seen,
         CheckSql(t, old, p, seen) # Aborted
  PROVE  LET u == CheckSql(t, old, p, seen)
         IN /\ Shaped(t) /\ Shaped(u) /\ u.col = t.col
            /\ seen = Null /\ p.check \notin {Undefined, Null} => Last(u.check).key = {old.id}
<1> DEFINE d == DropFirstCheck(t, old)
           a == AddCheck(d, old.name, p.check)
<1>1. d = Aborted \/ (Shaped(t) /\ Shaped(d) /\ d.col = t.col)
  BY DropFirstDoes
<1>2. a = Aborted \/ (Shaped(d) /\ Shaped(a) /\ a.col = d.col)
  <2>1. Input(d)
    BY <1>1 DEF Input
  <2> HIDE DEF d
  <2>2. QED
    BY <2>1, AddCheckDoes
<1>3. CASE p.check = Undefined
  <2>1. CheckSql(t, old, p, seen) = t
    BY <1>3, BodiesAssumption DEF CheckSql
  <2>2. QED
    BY <1>3, <2>1 DEF Input
<1>4. CASE p.check # Undefined /\ p.check = Null
  BY <1>1, <1>4 DEF CheckSql
<1>5. CASE p.check \notin {Undefined, Null}
  <2>1. CheckSql(t, old, p, seen) =
          IF a = Aborted THEN Aborted
          ELSE IF (IF seen = Null THEN Last(a.check).key ELSE seen) = {old.id}
               THEN a ELSE Aborted
    BY <1>5 DEF CheckSql
  <2>2. d # Aborted
    BY <2>1 DEF AddCheck
  <2> HIDE DEF a, d
  <2>3. QED
    BY <1>1, <1>2, <2>1, <2>2
<1>6. QED
  BY <1>3, <1>4, <1>5

-------------------------------------------------------------------------------
(* What the transaction of update() leaves when it is not aborted.         *)
LEMMA UpdateDoes ==
  ASSUME Shaped(table), NEW old \in OldColumn, NEW p \in PatchBody, NEW seen,
         UpdateSql(table, old, p, seen) # Aborted
  PROVE  LET u == UpdateSql(table, old, p, seen)
         IN /\ Shaped(u)
            /\ p.is_unique = FALSE /\ old.unique => u.col[old.id].uniq = 0
            /\ seen = Null /\ p.check \notin {Undefined, Null} =>
                 Last(u.check).key = {old.id}
<1> DEFINE t1 == NullableSql(table, old, p)
           t2 == TypeSql(t1, old, p)
           t3 == DefaultSql(t2, old, p)
           t4 == IdentitySql(t3, old, p)
           t5 == UniqueSql(t4, old, p)
           t6 == CommentSql(t5, old, p)
           t7 == CheckSql(t6, old, p, seen)
           u == NameSql(t7, old, p)
<1>0. u = UpdateSql(table, old, p, seen) /\ u # Aborted
  BY DEF UpdateSql
<1>1. Input(t1)
  BY NullableKeeps DEF Input, KeepsUniques, SameUniques
<1> HIDE DEF t1
<1>2. Input(t2)
  BY <1>1, TypeKeeps DEF Input, KeepsUniques, SameUniques
<1> HIDE DEF t2
<1>3. Input(t3)
  BY <1>2, DefaultKeeps DEF Input, KeepsUniques, SameUniques
<1> HIDE DEF t3
<1>4. Input(t4)
  BY <1>3, IdentityKeeps DEF Input, KeepsUniques, SameUniques
<1> HIDE DEF t4
<1>5. /\ Input(t5)
      /\ t5 # Aborted => (p.is_unique = FALSE /\ old.unique => t5.col[old.id].uniq = 0)
  BY <1>4, UniqueDoes DEF Input
<1> HIDE DEF t5
<1>6. KeepsUniques(t5, t6)
  BY <1>5, CommentKeeps
<1> HIDE DEF t6
<1>7. Input(t6) /\ (t7 # Aborted =>
        /\ Shaped(t6) /\ Shaped(t7) /\ t7.col = t6.col
        /\ seen = Null /\ p.check \notin {Undefined, Null} => Last(t7.check).key = {old.id})
  <2>1. Input(t6)
    BY <1>6 DEF Input, KeepsUniques, SameUniques
  <2>2. QED
    BY <2>1, CheckDoes
<1>8. t6 = Aborted => t7 = Aborted
  <2>1. t6 = Aborted => DropFirstCheck(t6, old) = Aborted
    BY DEF DropFirstCheck
  <2>2. t6 = Aborted => AddCheck(DropFirstCheck(t6, old), old.name, p.check) = Aborted
    BY <2>1 DEF AddCheck
  <2>3. QED
    BY <2>1, <2>2 DEF CheckSql
<1> HIDE DEF t7
<1>9. KeepsUniques(t7, u)
  BY <1>7, NameKeeps DEF Input
<1>10. t7 = Aborted => u = Aborted
  BY DEF u, NameSql, Alter
<1> HIDE DEF u
<1>11. SameUniques(t7, u) /\ t7 # Aborted /\ t6 # Aborted /\ SameUniques(t5, t6)
  BY <1>0, <1>6, <1>8, <1>9, <1>10 DEF KeepsUniques
<1>12. t5 = Aborted => t6 = Aborted
  BY DEF t6, CommentSql, Alter
<1>13. old.id \in Column
  BY DEF OldColumn
<1>14. Shaped(u) /\ u.check = t7.check /\ u.col[old.id].uniq = t5.col[old.id].uniq
  BY <1>7, <1>11, <1>13 DEF SameUniques
<1>15. QED
  BY <1>0, <1>5, <1>7, <1>11, <1>12, <1>14

-------------------------------------------------------------------------------
(* The steps.                                                              *)

(* One column with another state.                                          *)
LEMMA OneColumn ==
  ASSUME NEW t, Shaped(t), NEW c \in Column, NEW d \in ColumnState
  PROVE  Shaped([t EXCEPT !.col[c] = d])
<1> DEFINE u == [t EXCEPT !.col[c] = d]
<1>1. u = [col |-> [t.col EXCEPT ![c] = d], check |-> t.check]
  BY DEF Shaped
<1> HIDE DEF u
<1>2. u.col = [t.col EXCEPT ![c] = d] /\ u.check = t.check
  BY <1>1
<1>3. QED
  BY <1>1, <1>2 DEF Shaped, u

(* DROP COLUMN leaves the column in its place, dropped.                    *)
LEMMA DropShaped ==
  ASSUME NEW t, Shaped(t), NEW n, Has(t, n) PROVE Shaped(Drop(t, n))
<1> DEFINE c == At(t, n)
           d == [t.col[c] EXCEPT !.name = Dropped]
           u == [col |-> [t.col EXCEPT ![c] = d], check |-> Without(t.check, c)]
<1>1. Drop(t, n) = u \/ Drop(t, n) = t
  BY DEF Drop
<1>2. c \in Column /\ d \in ColumnState
  BY AtColumn, Fields DEF Shaped
<1>3. u.col = [t.col EXCEPT ![c] = d] /\ u.check = Without(t.check, c)
  OBVIOUS
<1> HIDE DEF d, c
<1>4. u.col \in [Column -> ColumnState]
  BY <1>2, <1>3 DEF Shaped
<1>5. Shaped(u)
  BY <1>3, <1>4 DEF Shaped
<1>6. QED
  BY <1>1, <1>5

(* ADD COLUMN.                                                             *)
LEMMA CreateShaped ==
  ASSUME NEW t, Shaped(t), NEW c \in Column, NEW p \in PostBody,
         CreateSql(t, c, p) # Aborted
  PROVE  Shaped(CreateSql(t, c, p))
<1> DEFINE u == [t EXCEPT !.col[c] = NewColumn(p)]
<1>1. NewColumn(p) \in ColumnState
  <2>1. Generation(p) \in Identity
    BY DEF Generation, PostBody, Optional, Identity
  <2>2. (p.is_nullable = FALSE \/ p.is_primary_key \/ p.is_identity) \in BOOLEAN
    OBVIOUS
  <2>3. QED
    BY <2>1, <2>2 DEF NewColumn, PostBody, Optional, ColumnState, Identity
<1>2. Shaped(u)
  BY <1>1, OneColumn
<1>3. CreateSql(t, c, p) \in {u, AddCheck(u, ConName(t, p.name, p.check), p.check)}
  BY DEF CreateSql
<1> HIDE DEF u
<1>4. QED
  BY <1>2, <1>3, AddCheckDoes DEF Input

(* Whatever the other sessions do, the table keeps its columns.            *)
LEMMA ElsewhereInv == ASSUME ColumnsInv, Elsewhere PROVE ColumnsInv'
<1>1. Knows' /\ Shaped(table)
  BY DEF ColumnsInv, Knows, Elsewhere
<1>2. ASSUME NEW f \in [Made(table) -> Name],
             table' = [table EXCEPT !.col =
               [c \in Column |-> IF c \in Made(table) THEN [@[c] EXCEPT !.name = f[c]] ELSE @[c]]]
      PROVE  Shaped(table')
  <2> DEFINE g == [c \in Column |-> IF c \in Made(table)
                                    THEN [table.col[c] EXCEPT !.name = f[c]] ELSE table.col[c]]
  <2>1. g \in [Column -> ColumnState]
    BY <1>1, Fields DEF Shaped
  <2>2. table' = [col |-> g, check |-> table.check]
    BY <1>1, <1>2 DEF Shaped
  <2> HIDE DEF g
  <2>3. table'.col = g /\ table'.check = table.check
    BY <2>2
  <2>4. QED
    BY <2>1, <2>2, <2>3 DEF Shaped
<1>3. ASSUME NEW c \in Made(table), table' = Drop(table, table.col[c].name)
      PROVE  Shaped(table')
  <2>1. Has(table, table.col[c].name)
    BY DEF Has, Made
  <2>2. QED
    BY <1>1, <1>3, <2>1, DropShaped
<1>4. ASSUME NEW c \in Made(table), NEW g \in Identity,
             table' = [table EXCEPT !.col[c].identity = g]
      PROVE  Shaped(table')
  <2>1. c \in Column /\ [table.col[c] EXCEPT !.identity = g] \in ColumnState
    BY <1>1, Fields DEF Made, Shaped
  <2>2. table' = [table EXCEPT !.col[c] = [table.col[c] EXCEPT !.identity = g]]
    BY <1>4
  <2>3. QED
    BY <1>1, <2>1, <2>2, OneColumn
<1>5. ASSUME NEW c \in Made(table), NEW n \in 0..2,
             table' = [table EXCEPT !.col[c].uniq = n]
      PROVE  Shaped(table')
  <2>1. c \in Column /\ [table.col[c] EXCEPT !.uniq = n] \in ColumnState
    BY <1>1 DEF Made, Shaped, ColumnState
  <2>2. table' = [table EXCEPT !.col[c] = [table.col[c] EXCEPT !.uniq = n]]
    BY <1>5
  <2>3. QED
    BY <1>1, <2>1, <2>2, OneColumn
<1>6. ASSUME NEW s, table' = [table EXCEPT !.check = s] PROVE Shaped(table')
  BY <1>1, <1>6, OtherChecks
<1>7. Shaped(table')
  BY <1>2, <1>3, <1>4, <1>5, <1>6 DEF Elsewhere, DropCheck
<1>8. QED
  BY <1>1, <1>7 DEF ColumnsInv, Shaped

(* A request is answered, or goes on with what it knew.                    *)
LEMMA KnowsStep ==
  ASSUME Knows, NEW at \in {"read", "done"}, req.at \in {"apply", "read"},
         req' = [req EXCEPT !.at = at]
  PROVE  Knows' /\ req'.at = at
<1>1. CASE req \in [op : {"update"}, id : Column, body : Patches,
                   at : {"apply", "read", "done"}, old : OldColumn]
           /\ req.old.id = req.id
  BY <1>1 DEF Knows
<1>2. CASE req \in [op : {"remove"}, id : Column, body : {Null},
                   at : {"apply", "read", "done"}, old : OldColumn]
  BY <1>2 DEF Knows
<1>3. CASE req \in [op : {"create"}, body : Bodies, at : {"apply", "read", "done"}]
  BY <1>3 DEF Knows
<1>4. QED
  BY <1>1, <1>2, <1>3 DEF Knows

(* What update() and remove() read is the column of the id they were given.*)
LEMMA RetrieveInv ==
  ASSUME ColumnsInv, NEW c \in Column, NEW op \in {"update", "remove"}, NEW p,
         op = "update" => p \in Patches, op = "remove" => p = Null,
         Retrieve(op, c, p)
  PROVE  ColumnsInv'
<1>1. table' = table
  BY DEF Retrieve
<1>2. ASSUME c \in Made(table) PROVE Read(c) \in OldColumn /\ Read(c).id = c
  BY <1>2 DEF Read, OldColumn, Made, ColumnsInv, Shaped, ColumnState
<1>3. CASE c \in Made(table)
  <2>1. req' = [op |-> op, id |-> c, body |-> p, at |-> "apply", old |-> Read(c)]
    BY <1>3 DEF Retrieve
  <2>2. Knows'
    BY <1>2, <1>3, <2>1 DEF Knows
  <2>3. QED
    BY <1>1, <2>2 DEF ColumnsInv, Shaped
<1>4. CASE c \notin Made(table)
  <2>1. req' = [op |-> op, id |-> c, body |-> p, at |-> "done"]
    BY <1>4 DEF Retrieve
  <2>2. Knows'
    BY <2>1 DEF Knows
  <2>3. QED
    BY <1>1, <2>2 DEF ColumnsInv, Shaped
<1>5. QED
  BY <1>3, <1>4

(* create() knows its body.                                                *)
LEMMA RetrieveTableInv ==
  ASSUME ColumnsInv, NEW p \in Bodies, RetrieveTable(p) PROVE ColumnsInv'
BY DEF RetrieveTable, ColumnsInv, Knows, Shaped

(* A transaction leaves a table when what it would leave is one.           *)
LEMMA CommitInv ==
  ASSUME ColumnsInv, req.at = "apply", NEW t, t # Aborted => Shaped(t),
         NEW at \in {"read", "done"}, NEW ok, Commit(t, at, ok)
  PROVE  ColumnsInv'
<1>1. CASE t = Aborted
  <2>1. table' = table /\ req' = [req EXCEPT !.at = "done"]
    BY <1>1 DEF Commit, Answer
  <2>2. QED
    BY <2>1, KnowsStep DEF ColumnsInv, Shaped
<1>2. CASE t # Aborted
  <2>1. table' = t /\ req' = [req EXCEPT !.at = at]
    BY <1>2 DEF Commit
  <2>2. QED
    BY <1>2, <2>1, KnowsStep DEF ColumnsInv, Shaped
<1>3. QED
  BY <1>1, <1>2

(* What a PATCH that is applied knows.                                     *)
LEMMA Applying ==
  ASSUME ColumnsInv, req.at = "apply", req.op = "update"
  PROVE  req.old \in OldColumn /\ req.old.id = req.id /\ req.body \in PatchBody
BY BodiesAssumption DEF ColumnsInv, Knows

(* The transactions of the three operations.                               *)
LEMMA UpdateInv == ASSUME ColumnsInv, Update PROVE ColumnsInv'
<1>1. PICK seen \in Namesakes \cup {Null} :
        Commit(UpdateSql(table, req.old, req.body, seen), "read", "none")
  BY DEF Update
<1> DEFINE t == UpdateSql(table, req.old, req.body, seen)
<1>2. t # Aborted => Shaped(t)
  BY Applying, UpdateDoes DEF Update, ColumnsInv
<1> HIDE DEF t
<1>3. req.at = "apply" /\ Commit(t, "read", "none")
  BY <1>1 DEF Update, t
<1>4. QED
  BY <1>2, <1>3, CommitInv

LEMMA CreateInv == ASSUME ColumnsInv, Create PROVE ColumnsInv'
<1>1. PICK c \in Column : Commit(CreateSql(table, c, req.body), "read", "none")
  BY DEF Create
<1>2. req.at = "apply" /\ req.op = "create"
  BY DEF Create
<1>3. req.body \in PostBody
  BY <1>2, BodiesAssumption DEF ColumnsInv, Knows
<1> DEFINE t == CreateSql(table, c, req.body)
<1>4. t # Aborted => Shaped(t)
  BY <1>3, CreateShaped DEF ColumnsInv
<1> HIDE DEF t
<1>5. Commit(t, "read", "none")
  BY <1>1 DEF t
<1>6. QED
  BY <1>2, <1>4, <1>5, CommitInv

LEMMA DropColumnInv == ASSUME ColumnsInv, DropColumn PROVE ColumnsInv'
<1> DEFINE t == Drop(table, req.old.name)
<1>1. req.at = "apply" /\ Commit(t, "done", "data")
  BY DEF DropColumn
<1>2. t # Aborted => Has(table, req.old.name)
  BY DEF Drop
<1>3. t # Aborted => Shaped(t)
  BY <1>2, DropShaped DEF ColumnsInv
<1> HIDE DEF t
<1>4. QED
  BY <1>1, <1>3, CommitInv

(* A refused request and one that reads back leave the table alone.        *)
LEMMA AnswerInv == ASSUME ColumnsInv, Refuse \/ ReadBack PROVE ColumnsInv'
<1>1. table' = table /\ req' = [req EXCEPT !.at = "done"] /\ req.at \in {"apply", "read"}
  BY DEF Refuse, ReadBack, Answer
<1>2. QED
  BY <1>1, KnowsStep DEF ColumnsInv, Shaped

(* Every step keeps the invariant, and Init has it.                        *)
LEMMA NextInv == ASSUME ColumnsInv, [Next]_columnVars PROVE ColumnsInv'
<1>1. ASSUME UNCHANGED columnVars PROVE ColumnsInv'
  BY <1>1 DEF columnVars, ColumnsInv, Knows, Shaped
<1>2. ASSUME NEW c \in Column, NEW p \in Patches, Retrieve("update", c, p) PROVE ColumnsInv'
  BY <1>2, RetrieveInv
<1>3. ASSUME NEW c \in Column, Retrieve("remove", c, Null) PROVE ColumnsInv'
  BY <1>3, RetrieveInv
<1>4. ASSUME NEW p \in Bodies, RetrieveTable(p) PROVE ColumnsInv'
  BY <1>4, RetrieveTableInv
<1>5. ASSUME Update \/ Create \/ DropColumn \/ Refuse \/ ReadBack \/ Elsewhere
      PROVE  ColumnsInv'
  BY <1>5, UpdateInv, CreateInv, DropColumnInv, AnswerInv, ElsewhereInv
<1>6. QED
  BY <1>1, <1>2, <1>3, <1>4, <1>5 DEF Next

LEMMA InitInv == Init => ColumnsInv
<1> SUFFICES ASSUME Init PROVE ColumnsInv
  OBVIOUS
<1>1. Shaped(table)
  <2>1. table \in Tables
    BY DEF Init
  <2>2. QED
    BY <2>1, BodiesAssumption DEF Shaped
<1>2. Knows
  BY DEF Init, Knows
<1>3. QED
  BY <1>1, <1>2 DEF ColumnsInv

(* The table keeps its columns, and an update the column it began with.    *)
THEOREM ColumnsInvariant == Spec => []ColumnsInv
BY InitInv, NextInv, PTL DEF Spec

-------------------------------------------------------------------------------
(* A step that commits an update is the transaction that was not aborted.  *)
LEMMA CommittingStep ==
  ASSUME ColumnsInv, [Next]_columnVars, Committing
  PROVE  \E seen \in Namesakes \cup {Null} :
           /\ UpdateSql(table, req.old, req.body, seen) # Aborted
           /\ table' = UpdateSql(table, req.old, req.body, seen)
<1>1. req.at = "apply" /\ req.op = "update" /\ req'.at = "read"
  BY DEF Committing
<1>2. ~Elsewhere /\ ~UNCHANGED columnVars
  BY <1>1 DEF Elsewhere, columnVars
<1>3. req' # [req EXCEPT !.at = "done"]
  BY <1>1, KnowsStep DEF ColumnsInv
<1>4. Update
  BY <1>1, <1>2, <1>3 DEF Next, Retrieve, RetrieveTable, Create, DropColumn, Refuse,
                          ReadBack, Answer
<1>5. PICK seen \in Namesakes \cup {Null} :
        Commit(UpdateSql(table, req.old, req.body, seen), "read", "none")
  BY <1>4 DEF Update
<1>6. QED
  BY <1>3, <1>5 DEF Commit, Answer

(* Whatever others did to the names after the column was read, a PATCH     *)
(* that makes it not unique drops all its unique constraints: the loop at  *)
(* Columns.ts:288-303 goes by the column's number.                         *)
THEOREM UniquesAlwaysDropped == Spec => UniqueDropped
<1>1. ColumnsInv /\ [Next]_columnVars =>
        [Committing /\ req.body.is_unique = FALSE /\ req.old.unique =>
           table'.col[req.id].uniq = 0]_columnVars
  <2> SUFFICES ASSUME ColumnsInv, [Next]_columnVars, Committing,
                      req.body.is_unique = FALSE, req.old.unique
               PROVE  table'.col[req.id].uniq = 0
    OBVIOUS
  <2>1. PICK seen \in Namesakes \cup {Null} :
          /\ UpdateSql(table, req.old, req.body, seen) # Aborted
          /\ table' = UpdateSql(table, req.old, req.body, seen)
    BY CommittingStep
  <2>2. /\ Shaped(table) /\ req.old \in OldColumn /\ req.old.id = req.id
        /\ req.body \in PatchBody
    BY Applying DEF ColumnsInv, Committing
  <2> DEFINE u == UpdateSql(table, req.old, req.body, seen)
  <2>3. req.body.is_unique = FALSE /\ req.old.unique => u.col[req.old.id].uniq = 0
    BY <2>1, <2>2, UpdateDoes
  <2>4. table' = u
    BY <2>1
  <2> HIDE DEF u
  <2>5. QED
    BY <2>2, <2>3, <2>4
<1>2. QED
  BY <1>1, ColumnsInvariant, PTL DEF Spec, UniqueDropped

(* Where no other table has a constraint of the same name, the assertions  *)
(* at Columns.ts:345-353 let no check through that is about another column.*)
THEOREM ChecksAlwaysOwned == ASSUME Namesakes = {} PROVE Spec => CheckOwned
<1>1. ColumnsInv /\ [Next]_columnVars =>
        [Committing /\ req.body.check \notin {Undefined, Null} =>
           Last(table'.check).key = {req.id}]_columnVars
  <2> SUFFICES ASSUME ColumnsInv, [Next]_columnVars, Committing,
                      req.body.check \notin {Undefined, Null}
               PROVE  Last(table'.check).key = {req.id}
    OBVIOUS
  <2>1. PICK seen \in Namesakes \cup {Null} :
          /\ UpdateSql(table, req.old, req.body, seen) # Aborted
          /\ table' = UpdateSql(table, req.old, req.body, seen)
    BY CommittingStep
  <2>2. /\ Shaped(table) /\ req.old \in OldColumn /\ req.old.id = req.id
        /\ req.body \in PatchBody
    BY Applying DEF ColumnsInv, Committing
  <2> DEFINE u == UpdateSql(table, req.old, req.body, seen)
  <2>3. req.body.check \notin {Undefined, Null} => Last(u.check).key = {req.old.id}
    BY <2>1, <2>2, UpdateDoes
  <2>4. table' = u
    BY <2>1
  <2> HIDE DEF u
  <2>5. QED
    BY <2>2, <2>3, <2>4
<1>2. QED
  BY <1>1, ColumnsInvariant, PTL DEF Spec, CheckOwned

-------------------------------------------------------------------------------
(* What a transaction does to the table.  Without is a fold, whose steps   *)
(* can be reasoned about.                                                  *)
ChecksWithout == INSTANCE ListFolds WITH Op <- Unless

(* A table as Postgres keeps it.                                           *)
Tabled(t) ==
  /\ Shaped(t) /\ t.check \in Seq(CheckState) /\ LegalTable(t) /\ t # Aborted

(* The table t in which column id is d.                                    *)
Put(t, id, d) == [col |-> [t.col EXCEPT ![id] = d], check |-> t.check]

(* Column id is the one that a statement finds under the name n.           *)
Found(t, id, n) ==
  /\ Shaped(t) /\ t # Aborted
  /\ id \in Column /\ t.col[id].name = n
  /\ \A c \in Column : t.col[c].name = n => c = id

LEMMA PutFields ==
  ASSUME NEW t, Shaped(t), NEW id \in Column, NEW d \in ColumnState
  PROVE  /\ Shaped(Put(t, id, d))
         /\ Put(t, id, d).check = t.check
         /\ Put(t, id, d).col[id] = d
         /\ \A c \in Column \ {id} : Put(t, id, d).col[c] = t.col[c]
<1> DEFINE u == Put(t, id, d)
<1>1. u.col = [t.col EXCEPT ![id] = d] /\ u.check = t.check
  BY DEF Put
<1>2. u = [col |-> u.col, check |-> u.check]
  BY <1>1 DEF Put
<1> HIDE DEF u
<1>3. u.col \in [Column -> ColumnState] /\ u.col[id] = d
  BY <1>1 DEF Shaped
<1>4. \A c \in Column \ {id} : u.col[c] = t.col[c]
  BY <1>1 DEF Shaped
<1>5. Shaped(u)
  BY <1>2, <1>3 DEF Shaped
<1>6. QED
  BY <1>1, <1>3, <1>4, <1>5 DEF u

LEMMA PutSame ==
  ASSUME NEW t, Shaped(t), NEW id \in Column
  PROVE  Put(t, id, t.col[id]) = t
<1>1. [t.col EXCEPT ![id] = t.col[id]] = t.col
  BY DEF Shaped
<1>2. QED
  BY <1>1 DEF Put, Shaped

LEMMA FoundAt == ASSUME NEW t, NEW id, NEW n, Found(t, id, n) PROVE Has(t, n) /\ At(t, n) = id
BY DEF Found, Has, At

LEMMA AlteredFound ==
  ASSUME NEW t, NEW id, NEW n, Found(t, id, n), NEW ok, NEW d
  PROVE  Altered(t, n, ok, d) = IF ok THEN Put(t, id, d) ELSE Aborted
<1>1. t # Aborted /\ Has(t, n) /\ At(t, n) = id
  BY FoundAt DEF Found
<1>2. [t EXCEPT !.col[id] = d] = Put(t, id, d)
  BY DEF Found, Shaped, Put
<1>3. QED
  BY <1>1, <1>2 DEF Altered

-------------------------------------------------------------------------------
(* The statements as functions of the one column they find.                *)
NullableOk(c, p) == p.is_nullable = TRUE => c.identity = "none" /\ ~c.pk
NullableOf(c, p) == [c EXCEPT !.notnull = ~Given(p.is_nullable, ~@)]

TypeOk(c, p) ==
  p.type # Undefined =>
    /\ p.type = "text" => c.identity = "none"
    /\ c.type = "text" /\ p.type = "int" => c.default = "none"
TypeOf(c, p) == [c EXCEPT !.type = Given(p.type, @)]

DefaultOk(c, p) ==
  /\ p.drop_default \/ p.default_value # Undefined => c.identity = "none"
  /\ ~p.drop_default /\ p.default_value # Undefined /\ p.default_value = "text" => c.type = "text"
DefaultOf(c, p) ==
  [c EXCEPT !.default = IF p.drop_default THEN "none" ELSE Given(p.default_value, @)]

IdentityOk(c, old, p) ==
  p.is_identity # FALSE =>
    /\ old.identity # "none" => c.identity # "none"
    /\ p.is_identity = TRUE /\ old.identity = "none" =>
         c.identity = "none" /\ c.notnull /\ c.default = "none" /\ c.type = "int"
IdentityOf(c, old, p) ==
  [c EXCEPT !.identity = IF p.is_identity = FALSE THEN "none"
                         ELSE IF p.is_identity = TRUE \/ old.identity # "none"
                              THEN Generation(p) ELSE @]

UniqueOf(c, old, p) ==
  [c EXCEPT !.uniq = IF old.unique /\ p.is_unique = FALSE THEN 0
                     ELSE IF ~old.unique /\ p.is_unique = TRUE THEN @ + 1 ELSE @]

CommentOf(c, p) == [c EXCEPT !.comment = Given(p.comment, @)]

NameOk(t, c, p) == p.name # Undefined /\ p.name # c.name => ~Has(t, p.name)
NameOf(c, p) == [c EXCEPT !.name = Given(p.name, @)]

LEMMA NullableIs ==
  ASSUME NEW t, NEW id, NEW old, Found(t, id, old.name), NEW p \in PatchBody
  PROVE  NullableSql(t, old, p) =
           IF NullableOk(t.col[id], p) THEN Put(t, id, NullableOf(t.col[id], p)) ELSE Aborted
<1> DEFINE c == t.col[id]
<1>0. At(t, old.name) = id /\ c \in ColumnState /\ Shaped(t) /\ id \in Column
  BY FoundAt DEF Found, Shaped
<1>1. CASE p.is_nullable = Undefined
  <2>1. NullableSql(t, old, p) = t /\ NullableOk(c, p)
    BY <1>1, BodiesAssumption DEF NullableSql, NullableOk
  <2>2. NullableOf(c, p) = c
    BY <1>0, <1>1 DEF NullableOf, Given, ColumnState
  <2>3. QED
    BY <1>0, <2>1, <2>2, PutSame
<1>2. CASE p.is_nullable = TRUE
  <2> DEFINE ok == c.identity = "none" /\ ~c.pk
             d == [c EXCEPT !.notnull = FALSE]
  <2>1. NullableSql(t, old, p) = Altered(t, old.name, ok, d)
    BY <1>2, <1>0, BodiesAssumption DEF NullableSql, Alter, Altered
  <2>2. ok = NullableOk(c, p) /\ d = NullableOf(c, p)
    BY <1>2, BodiesAssumption DEF NullableOk, NullableOf, Given
  <2> HIDE DEF ok, d
  <2>3. QED
    BY <2>1, <2>2, AlteredFound
<1>3. CASE p.is_nullable = FALSE
  <2> DEFINE d == [c EXCEPT !.notnull = TRUE]
  <2>1. NullableSql(t, old, p) = Altered(t, old.name, TRUE, d)
    BY <1>3, <1>0, BodiesAssumption DEF NullableSql, Alter, Altered
  <2>2. NullableOk(c, p) /\ d = NullableOf(c, p)
    BY <1>3, BodiesAssumption DEF NullableOk, NullableOf, Given
  <2> HIDE DEF d
  <2>3. QED
    BY <2>1, <2>2, AlteredFound
<1>4. QED
  BY <1>1, <1>2, <1>3 DEF PatchBody, Optional

LEMMA TypeIs ==
  ASSUME NEW t, NEW id, NEW old, Found(t, id, old.name), NEW p \in PatchBody
  PROVE  TypeSql(t, old, p) =
           IF TypeOk(t.col[id], p) THEN Put(t, id, TypeOf(t.col[id], p)) ELSE Aborted
<1> DEFINE c == t.col[id]
<1>0. At(t, old.name) = id /\ c \in ColumnState /\ Shaped(t) /\ id \in Column
  BY FoundAt DEF Found, Shaped
<1>1. CASE p.type = Undefined
  <2>1. TypeSql(t, old, p) = t /\ TypeOk(c, p)
    BY <1>1 DEF TypeSql, TypeOk
  <2>2. TypeOf(c, p) = c
    BY <1>0, <1>1 DEF TypeOf, Given, ColumnState
  <2>3. QED
    BY <1>0, <2>1, <2>2, PutSame
<1>2. CASE p.type # Undefined
  <2> DEFINE ok == /\ p.type = "text" => c.identity = "none"
                   /\ c.type = "text" /\ p.type = "int" => c.default = "none"
             d == [c EXCEPT !.type = p.type]
  <2>1. TypeSql(t, old, p) = Altered(t, old.name, ok, d)
    BY <1>2, <1>0 DEF TypeSql, Alter, Altered
  <2>2. ok = TypeOk(c, p) /\ d = TypeOf(c, p)
    BY <1>2 DEF TypeOk, TypeOf, Given
  <2> HIDE DEF ok, d
  <2>3. QED
    BY <2>1, <2>2, AlteredFound
<1>3. QED
  BY <1>1, <1>2

LEMMA DefaultIs ==
  ASSUME NEW t, NEW id, NEW old, Found(t, id, old.name), NEW p \in PatchBody
  PROVE  DefaultSql(t, old, p) =
           IF DefaultOk(t.col[id], p) THEN Put(t, id, DefaultOf(t.col[id], p)) ELSE Aborted
<1> DEFINE c == t.col[id]
<1>0. At(t, old.name) = id /\ c \in ColumnState /\ Shaped(t) /\ id \in Column
  BY FoundAt DEF Found, Shaped
<1>1. CASE p.drop_default
  <2> DEFINE ok == c.identity = "none"
             d == [c EXCEPT !.default = "none"]
  <2>1. DefaultSql(t, old, p) = Altered(t, old.name, ok, d)
    BY <1>1, <1>0 DEF DefaultSql, Alter, Altered
  <2>2. ok = DefaultOk(c, p) /\ d = DefaultOf(c, p)
    BY <1>1 DEF DefaultOk, DefaultOf
  <2> HIDE DEF ok, d
  <2>3. QED
    BY <2>1, <2>2, AlteredFound
<1>2. CASE ~p.drop_default /\ p.default_value = Undefined
  <2>1. DefaultSql(t, old, p) = t /\ DefaultOk(c, p)
    BY <1>2 DEF DefaultSql, DefaultOk
  <2>2. DefaultOf(c, p) = c
    BY <1>0, <1>2 DEF DefaultOf, Given, ColumnState
  <2>3. QED
    BY <1>0, <2>1, <2>2, PutSame
<1>3. CASE ~p.drop_default /\ p.default_value # Undefined
  <2> DEFINE ok == c.identity = "none" /\ (p.default_value = "text" => c.type = "text")
             d == [c EXCEPT !.default = p.default_value]
  <2>1. DefaultSql(t, old, p) = Altered(t, old.name, ok, d)
    BY <1>3, <1>0 DEF DefaultSql, Alter, Altered
  <2>2. ok = DefaultOk(c, p) /\ d = DefaultOf(c, p)
    BY <1>3 DEF DefaultOk, DefaultOf, Given
  <2> HIDE DEF ok, d
  <2>3. QED
    BY <2>1, <2>2, AlteredFound
<1>4. QED
  BY <1>1, <1>2, <1>3

LEMMA IdentityIs ==
  ASSUME NEW t, NEW id, NEW old, Found(t, id, old.name), NEW p \in PatchBody
  PROVE  IdentitySql(t, old, p) =
           IF IdentityOk(t.col[id], old, p) THEN Put(t, id, IdentityOf(t.col[id], old, p))
           ELSE Aborted
<1> DEFINE c == t.col[id]
<1>0. At(t, old.name) = id /\ c \in ColumnState /\ Shaped(t) /\ id \in Column
  BY FoundAt DEF Found, Shaped
<1>1. CASE p.is_identity = FALSE
  <2> DEFINE d == [c EXCEPT !.identity = "none"]
  <2>1. IdentitySql(t, old, p) = Altered(t, old.name, TRUE, d)
    BY <1>1, <1>0, BodiesAssumption DEF IdentitySql, Alter, Altered
  <2>2. IdentityOk(c, old, p) /\ d = IdentityOf(c, old, p)
    BY <1>1, BodiesAssumption DEF IdentityOk, IdentityOf
  <2> HIDE DEF d
  <2>3. QED
    BY <2>1, <2>2, AlteredFound
<1>2. CASE p.is_identity # FALSE /\ old.identity # "none"
  <2> DEFINE ok == c.identity # "none"
             d == [c EXCEPT !.identity = Generation(p)]
  <2>1. IdentitySql(t, old, p) = Altered(t, old.name, ok, d)
    BY <1>2, <1>0, BodiesAssumption DEF IdentitySql, Alter, Altered
  <2>2. ok = IdentityOk(c, old, p) /\ d = IdentityOf(c, old, p)
    BY <1>2, BodiesAssumption DEF IdentityOk, IdentityOf
  <2> HIDE DEF ok, d
  <2>3. QED
    BY <2>1, <2>2, AlteredFound
<1>3. CASE p.is_identity = TRUE /\ old.identity = "none"
  <2> DEFINE ok == /\ c.identity = "none" /\ c.notnull /\ c.default = "none"
                   /\ c.type = "int"
             d == [c EXCEPT !.identity = Generation(p)]
  <2>1. IdentitySql(t, old, p) = Altered(t, old.name, ok, d)
    BY <1>3, <1>0, BodiesAssumption DEF IdentitySql, Alter, Altered
  <2>2. ok = IdentityOk(c, old, p) /\ d = IdentityOf(c, old, p)
    BY <1>3, <1>0, BodiesAssumption DEF IdentityOk, IdentityOf, ColumnState
  <2> HIDE DEF ok, d
  <2>3. QED
    BY <2>1, <2>2, AlteredFound
<1>4. CASE p.is_identity = Undefined /\ old.identity = "none"
  <2>1. IdentitySql(t, old, p) = t /\ IdentityOk(c, old, p)
    BY <1>4, BodiesAssumption DEF IdentitySql, IdentityOk
  <2>2. IdentityOf(c, old, p) = c
    BY <1>0, <1>4, BodiesAssumption DEF IdentityOf, ColumnState
  <2>3. QED
    BY <1>0, <2>1, <2>2, PutSame
<1>5. QED
  BY <1>1, <1>2, <1>3, <1>4 DEF PatchBody, Optional

LEMMA CommentIs ==
  ASSUME NEW t, NEW id, NEW old, Found(t, id, old.name), NEW p \in PatchBody
  PROVE  CommentSql(t, old, p) = Put(t, id, CommentOf(t.col[id], p))
<1> DEFINE c == t.col[id]
<1>0. At(t, old.name) = id /\ c \in ColumnState /\ Shaped(t) /\ id \in Column
  BY FoundAt DEF Found, Shaped
<1>1. CASE p.comment = Undefined
  <2>1. CommentSql(t, old, p) = t
    BY <1>1 DEF CommentSql
  <2>2. CommentOf(c, p) = c
    BY <1>0, <1>1 DEF CommentOf, Given, ColumnState
  <2>3. QED
    BY <1>0, <2>1, <2>2, PutSame
<1>2. CASE p.comment # Undefined
  <2> DEFINE d == [c EXCEPT !.comment = p.comment]
  <2>1. CommentSql(t, old, p) = Altered(t, old.name, TRUE, d)
    BY <1>2, <1>0 DEF CommentSql, Alter, Altered
  <2>2. d = CommentOf(c, p)
    BY <1>2 DEF CommentOf, Given
  <2> HIDE DEF d
  <2>3. QED
    BY <2>1, <2>2, AlteredFound
<1>3. QED
  BY <1>1, <1>2

LEMMA NameIs ==
  ASSUME NEW t, NEW id, NEW old, Found(t, id, old.name), NEW p \in PatchBody
  PROVE  NameSql(t, old, p) =
           IF NameOk(t, t.col[id], p) THEN Put(t, id, NameOf(t.col[id], p)) ELSE Aborted
<1> DEFINE c == t.col[id]
<1>0. At(t, old.name) = id /\ c \in ColumnState /\ Shaped(t) /\ id \in Column /\ c.name = old.name
  BY FoundAt DEF Found, Shaped
<1>1. CASE p.name = Undefined \/ p.name = old.name
  <2>1. NameSql(t, old, p) = t /\ NameOk(t, c, p)
    BY <1>0, <1>1 DEF NameSql, NameOk
  <2>2. NameOf(c, p) = c
    BY <1>0, <1>1 DEF NameOf, Given, ColumnState
  <2>3. QED
    BY <1>0, <2>1, <2>2, PutSame
<1>2. CASE ~(p.name = Undefined \/ p.name = old.name)
  <2> DEFINE ok == ~Has(t, p.name)
             d == [c EXCEPT !.name = p.name]
  <2>1. NameSql(t, old, p) = Altered(t, old.name, ok, d)
    BY <1>2, <1>0 DEF NameSql, Alter, Altered
  <2>2. ok = NameOk(t, c, p) /\ d = NameOf(c, p)
    BY <1>0, <1>2 DEF NameOk, NameOf, Given, Has
  <2> HIDE DEF ok, d
  <2>3. QED
    BY <2>1, <2>2, AlteredFound
<1>3. QED
  BY <1>1, <1>2

(* Of an undisturbed column, what was read is what it is.                  *)
LEMMA UniqueIs ==
  ASSUME NEW t, NEW id, NEW old, Found(t, id, old.name), old.id = id, NEW p \in PatchBody
  PROVE  UniqueSql(t, old, p) = Put(t, id, UniqueOf(t.col[id], old, p))
<1> DEFINE c == t.col[id]
<1>0. At(t, old.name) = id /\ c \in ColumnState /\ Shaped(t) /\ id \in Column /\ t # Aborted
  BY FoundAt DEF Found, Shaped
<1>1. CASE old.unique /\ p.is_unique = FALSE
  <2> DEFINE d == [c EXCEPT !.uniq = 0]
  <2>1. UniqueSql(t, old, p) = [t EXCEPT !.col[id] = d]
    BY <1>1, <1>0 DEF UniqueSql
  <2>2. d = UniqueOf(c, old, p)
    BY <1>1 DEF UniqueOf
  <2> HIDE DEF d
  <2>3. QED
    BY <1>0, <2>1, <2>2 DEF Put, Shaped
<1>2. CASE ~old.unique /\ p.is_unique = TRUE
  <2> DEFINE d == [c EXCEPT !.uniq = @ + 1]
  <2>1. UniqueSql(t, old, p) = Altered(t, old.name, TRUE, d)
    BY <1>2, <1>0 DEF UniqueSql, Alter, Altered
  <2>2. d = UniqueOf(c, old, p)
    BY <1>2 DEF UniqueOf
  <2> HIDE DEF d
  <2>3. QED
    BY <2>1, <2>2, AlteredFound
<1>3. CASE ~(old.unique /\ p.is_unique = FALSE) /\ ~(~old.unique /\ p.is_unique = TRUE)
  <2>1. UniqueSql(t, old, p) = t
    BY <1>3, <1>0 DEF UniqueSql
  <2>2. UniqueOf(c, old, p) = c
    BY <1>0, <1>3 DEF UniqueOf, ColumnState
  <2>3. QED
    BY <1>0, <2>1, <2>2, PutSame
<1>4. QED
  BY <1>1, <1>2, <1>3

(* What each of them sets of a column, and what it leaves alone.           *)
LEMMA NullableSets ==
  ASSUME NEW c \in ColumnState, NEW p \in PatchBody
  PROVE  LET d == NullableOf(c, p) IN
         /\ d \in ColumnState
         /\ d.notnull = ~Given(p.is_nullable, ~c.notnull)
         /\ d.name = c.name /\ d.type = c.type /\ d.identity = c.identity
         /\ d.default = c.default /\ d.pk = c.pk /\ d.uniq = c.uniq /\ d.comment = c.comment
BY DEF NullableOf, ColumnState

LEMMA TypeSets ==
  ASSUME NEW c \in ColumnState, NEW p \in PatchBody
  PROVE  LET d == TypeOf(c, p) IN
         /\ d \in ColumnState
         /\ d.type = Given(p.type, c.type)
         /\ d.name = c.name /\ d.notnull = c.notnull /\ d.identity = c.identity
         /\ d.default = c.default /\ d.pk = c.pk /\ d.uniq = c.uniq /\ d.comment = c.comment
<1>1. Given(p.type, c.type) \in {"int", "text"}
  BY DEF Given, ColumnState, PatchBody, Optional
<1>2. QED
  BY <1>1 DEF TypeOf, ColumnState

LEMMA DefaultSets ==
  ASSUME NEW c \in ColumnState, NEW p \in PatchBody
  PROVE  LET d == DefaultOf(c, p) IN
         /\ d \in ColumnState
         /\ d.default = IF p.drop_default THEN "none" ELSE Given(p.default_value, c.default)
         /\ d.name = c.name /\ d.notnull = c.notnull /\ d.identity = c.identity
         /\ d.type = c.type /\ d.pk = c.pk /\ d.uniq = c.uniq /\ d.comment = c.comment
<1>1. Given(p.default_value, c.default) \in {"none", "int", "text"}
  BY DEF Given, ColumnState, PatchBody, Optional
<1>2. QED
  BY <1>1 DEF DefaultOf, ColumnState

LEMMA IdentitySets ==
  ASSUME NEW c \in ColumnState, NEW old, NEW p \in PatchBody
  PROVE  LET d == IdentityOf(c, old, p) IN
         /\ d \in ColumnState
         /\ d.identity = IF p.is_identity = FALSE THEN "none"
                         ELSE IF p.is_identity = TRUE \/ old.identity # "none"
                              THEN Generation(p) ELSE c.identity
         /\ d.name = c.name /\ d.notnull = c.notnull /\ d.default = c.default
         /\ d.type = c.type /\ d.pk = c.pk /\ d.uniq = c.uniq /\ d.comment = c.comment
<1>1. Generation(p) \in Identity \ {"none"}
  BY DEF Generation, PatchBody, Optional, Identity
<1>2. QED
  BY <1>1 DEF IdentityOf, ColumnState, Identity

LEMMA UniqueSets ==
  ASSUME NEW c \in ColumnState, NEW old, NEW p \in PatchBody
  PROVE  LET d == UniqueOf(c, old, p) IN
         /\ d \in ColumnState
         /\ d.uniq = IF old.unique /\ p.is_unique = FALSE THEN 0
                     ELSE IF ~old.unique /\ p.is_unique = TRUE THEN c.uniq + 1 ELSE c.uniq
         /\ d.name = c.name /\ d.notnull = c.notnull /\ d.default = c.default
         /\ d.type = c.type /\ d.pk = c.pk /\ d.identity = c.identity /\ d.comment = c.comment
BY DEF UniqueOf, ColumnState

LEMMA CommentSets ==
  ASSUME NEW c \in ColumnState, NEW p \in PatchBody
  PROVE  LET d == CommentOf(c, p) IN
         /\ d \in ColumnState
         /\ d.comment = Given(p.comment, c.comment)
         /\ d.name = c.name /\ d.notnull = c.notnull /\ d.default = c.default
         /\ d.type = c.type /\ d.pk = c.pk /\ d.identity = c.identity /\ d.uniq = c.uniq
<1>1. Given(p.comment, c.comment) \in {Null, "text"}
  BY DEF Given, ColumnState, PatchBody, Optional
<1>2. QED
  BY <1>1 DEF CommentOf, ColumnState

LEMMA NameSets ==
  ASSUME NEW c \in ColumnState, NEW p \in PatchBody
  PROVE  LET d == NameOf(c, p) IN
         /\ d \in ColumnState
         /\ d.name = Given(p.name, c.name)
         /\ d.comment = c.comment /\ d.notnull = c.notnull /\ d.default = c.default
         /\ d.type = c.type /\ d.pk = c.pk /\ d.identity = c.identity /\ d.uniq = c.uniq
<1>1. Given(p.name, c.name) \in Name \cup {Unmade, Dropped}
  BY DEF Given, ColumnState, PatchBody, Optional
<1>2. QED
  BY <1>1 DEF NameOf, ColumnState

-------------------------------------------------------------------------------
(* Tables stay tables.                                                     *)

(* No table is what an aborted transaction leaves.                         *)
LEMMA NotAborted ==
  ASSUME NEW t, Shaped(t), t.check \in Seq(CheckState) PROVE t # Aborted
BY BodiesAssumption DEF Shaped

(* One column gets a state that is legal, its name and key as they were,   *)
(* or a name that no other column has.                                     *)
LEMMA PutTabled ==
  ASSUME NEW t, Tabled(t), NEW id \in Column, NEW d \in ColumnState,
         id \in Made(t) => Legal(d) /\ d.pk = t.col[id].pk,
         \/ d.name = t.col[id].name
         \/ id \in Made(t) /\ d.name \in Name /\ ~Has(t, d.name)
  PROVE  Tabled(Put(t, id, d))
<1> DEFINE u == Put(t, id, d)
<1>1. /\ Shaped(u) /\ u.check = t.check /\ u.col[id] = d
      /\ \A c \in Column \ {id} : u.col[c] = t.col[c]
  <2>1. Shaped(t)
    BY DEF Tabled
  <2>2. QED
    BY <2>1, PutFields
<1> HIDE DEF u
<1>2. Made(u) = Made(t)
  BY <1>1 DEF Made
<1>3. \A c \in Made(u) : Legal(u.col[c])
  BY <1>1, <1>2 DEF Tabled, LegalTable, Made
<1>4. \A c, e \in Made(u) : u.col[c].name = u.col[e].name => c = e
  BY <1>1, <1>2 DEF Tabled, LegalTable, Made, Has
<1>5. \A c, e \in Made(u) : u.col[c].pk /\ u.col[e].pk => c = e
  BY <1>1, <1>2 DEF Tabled, LegalTable, Made
<1>6. \A i \in DOMAIN u.check : u.check[i].key \subseteq Made(u)
  BY <1>1, <1>2 DEF Tabled, LegalTable
<1>7. LegalTable(u)
  BY <1>3, <1>4, <1>5, <1>6 DEF LegalTable
<1>8. u.check \in Seq(CheckState)
  BY <1>1 DEF Tabled
<1>9. QED
  BY <1>1, <1>7, <1>8, NotAborted DEF Tabled, u

(* The name of a column finds it.                                          *)
LEMMA NameFinds ==
  ASSUME NEW t, Tabled(t), NEW n \in Name, Has(t, n)
  PROVE  /\ At(t, n) \in Made(t) /\ t.col[At(t, n)].name = n
         /\ Found(t, At(t, n), n)
<1>1. At(t, n) \in Column /\ t.col[At(t, n)].name = n
  BY DEF At, Has
<1>2. \A c \in Column : t.col[c].name = n => c = At(t, n)
  BY <1>1 DEF Tabled, LegalTable, Made
<1>3. QED
  BY <1>1, <1>2 DEF Found, Tabled, Made

LEMMA FoundMade ==
  ASSUME NEW t, Tabled(t), NEW id \in Made(t) PROVE Found(t, id, t.col[id].name)
BY DEF Tabled, LegalTable, Made, Found

(* A statement that finds no column of the name does nothing, or aborts.   *)
LEMMA NotFound ==
  ASSUME NEW t, NEW old, NEW p, ~Has(t, old.name), p \in PatchBody
  PROVE  /\ NullableSql(t, old, p) \in {t, Aborted}
         /\ TypeSql(t, old, p) \in {t, Aborted}
         /\ DefaultSql(t, old, p) \in {t, Aborted}
         /\ IdentitySql(t, old, p) \in {t, Aborted}
         /\ CommentSql(t, old, p) \in {t, Aborted}
         /\ NameSql(t, old, p) \in {t, Aborted}
<1>1. NullableSql(t, old, p) \in {t, Aborted}
  BY DEF NullableSql, Alter, PatchBody, Optional
<1>2. TypeSql(t, old, p) \in {t, Aborted}
  BY DEF TypeSql, Alter
<1>3. DefaultSql(t, old, p) \in {t, Aborted}
  BY DEF DefaultSql, Alter
<1>4. IdentitySql(t, old, p) \in {t, Aborted}
  BY DEF IdentitySql, Alter
<1>5. CommentSql(t, old, p) \in {t, Aborted}
  BY DEF CommentSql, Alter
<1>6. NameSql(t, old, p) \in {t, Aborted}
  BY DEF NameSql, Alter
<1>7. QED
  BY <1>1, <1>2, <1>3, <1>4, <1>5, <1>6

LEMMA NullableLegal ==
  ASSUME NEW c \in ColumnState, Legal(c), NEW p \in PatchBody, NullableOk(c, p)
  PROVE  Legal(NullableOf(c, p))
<1> DEFINE d == NullableOf(c, p)
<1>1. d \in ColumnState /\ d.pk = c.pk
  BY NullableSets
<1>2. /\ d.notnull = ~Given(p.is_nullable, ~c.notnull) /\ d.type = c.type
      /\ d.identity = c.identity /\ d.default = c.default
  BY NullableSets
<1> HIDE DEF d
<1>3. Legal(d)
  BY <1>1, <1>2 DEF Legal, NullableOk, Given, ColumnState, PatchBody, Optional
<1>4. QED
  BY <1>3 DEF d

LEMMA NullableTabled ==
  ASSUME NEW t, Tabled(t), NEW old \in OldColumn, NEW p \in PatchBody
  PROVE  NullableSql(t, old, p) = Aborted \/ Tabled(NullableSql(t, old, p))
<1>1. CASE ~Has(t, old.name)
  BY <1>1, NotFound
<1>2. CASE Has(t, old.name)
  <2> DEFINE id == At(t, old.name)
             c == t.col[id]
             d == NullableOf(c, p)
  <2>1. id \in Made(t) /\ Found(t, id, old.name)
    BY <1>2, NameFinds DEF OldColumn
  <2>2. id \in Column /\ c \in ColumnState /\ Legal(c)
    BY <2>1 DEF Tabled, Shaped, LegalTable, Made
  <2>3. NullableSql(t, old, p) = IF NullableOk(c, p) THEN Put(t, id, d) ELSE Aborted
    BY <2>1, NullableIs
  <2>4. d \in ColumnState /\ d.pk = c.pk /\ d.name = c.name
    BY <2>2, NullableSets
  <2>5. NullableOk(c, p) => Legal(d)
    BY <2>2, NullableLegal
  <2> HIDE DEF c, d, id
  <2>6. NullableOk(c, p) => Tabled(Put(t, id, d))
    BY <2>2, <2>4, <2>5, PutTabled DEF c
  <2>7. QED
    BY <2>3, <2>6
<1>3. QED
  BY <1>1, <1>2

LEMMA TypeLegal ==
  ASSUME NEW c \in ColumnState, Legal(c), NEW p \in PatchBody, TypeOk(c, p)
  PROVE  Legal(TypeOf(c, p))
<1> DEFINE d == TypeOf(c, p)
<1>1. d \in ColumnState /\ d.pk = c.pk
  BY TypeSets
<1>2. /\ d.type = Given(p.type, c.type) /\ d.notnull = c.notnull
      /\ d.identity = c.identity /\ d.default = c.default
  BY TypeSets
<1> HIDE DEF d
<1>3. Legal(d)
  BY <1>1, <1>2 DEF Legal, TypeOk, Given, ColumnState, PatchBody, Optional
<1>4. QED
  BY <1>3 DEF d

LEMMA TypeTabled ==
  ASSUME NEW t, Tabled(t), NEW old \in OldColumn, NEW p \in PatchBody
  PROVE  TypeSql(t, old, p) = Aborted \/ Tabled(TypeSql(t, old, p))
<1>1. CASE ~Has(t, old.name)
  BY <1>1, NotFound
<1>2. CASE Has(t, old.name)
  <2> DEFINE id == At(t, old.name)
             c == t.col[id]
             d == TypeOf(c, p)
  <2>1. id \in Made(t) /\ Found(t, id, old.name)
    BY <1>2, NameFinds DEF OldColumn
  <2>2. id \in Column /\ c \in ColumnState /\ Legal(c)
    BY <2>1 DEF Tabled, Shaped, LegalTable, Made
  <2>3. TypeSql(t, old, p) = IF TypeOk(c, p) THEN Put(t, id, d) ELSE Aborted
    BY <2>1, TypeIs
  <2>4. d \in ColumnState /\ d.pk = c.pk /\ d.name = c.name
    BY <2>2, TypeSets
  <2>5. TypeOk(c, p) => Legal(d)
    BY <2>2, TypeLegal
  <2> HIDE DEF c, d, id
  <2>6. TypeOk(c, p) => Tabled(Put(t, id, d))
    BY <2>2, <2>4, <2>5, PutTabled DEF c
  <2>7. QED
    BY <2>3, <2>6
<1>3. QED
  BY <1>1, <1>2

LEMMA DefaultLegal ==
  ASSUME NEW c \in ColumnState, Legal(c), NEW p \in PatchBody, DefaultOk(c, p)
  PROVE  Legal(DefaultOf(c, p))
<1> DEFINE d == DefaultOf(c, p)
<1>1. d \in ColumnState /\ d.pk = c.pk
  BY DefaultSets
<1>2. /\ d.default = IF p.drop_default THEN "none" ELSE Given(p.default_value, c.default)
      /\ d.notnull = c.notnull /\ d.identity = c.identity /\ d.type = c.type
  BY DefaultSets
<1> HIDE DEF d
<1>3. Legal(d)
  BY <1>1, <1>2 DEF Legal, DefaultOk, Given, ColumnState, PatchBody, Optional
<1>4. QED
  BY <1>3 DEF d

LEMMA DefaultTabled ==
  ASSUME NEW t, Tabled(t), NEW old \in OldColumn, NEW p \in PatchBody
  PROVE  DefaultSql(t, old, p) = Aborted \/ Tabled(DefaultSql(t, old, p))
<1>1. CASE ~Has(t, old.name)
  BY <1>1, NotFound
<1>2. CASE Has(t, old.name)
  <2> DEFINE id == At(t, old.name)
             c == t.col[id]
             d == DefaultOf(c, p)
  <2>1. id \in Made(t) /\ Found(t, id, old.name)
    BY <1>2, NameFinds DEF OldColumn
  <2>2. id \in Column /\ c \in ColumnState /\ Legal(c)
    BY <2>1 DEF Tabled, Shaped, LegalTable, Made
  <2>3. DefaultSql(t, old, p) = IF DefaultOk(c, p) THEN Put(t, id, d) ELSE Aborted
    BY <2>1, DefaultIs
  <2>4. d \in ColumnState /\ d.pk = c.pk /\ d.name = c.name
    BY <2>2, DefaultSets
  <2>5. DefaultOk(c, p) => Legal(d)
    BY <2>2, DefaultLegal
  <2> HIDE DEF c, d, id
  <2>6. DefaultOk(c, p) => Tabled(Put(t, id, d))
    BY <2>2, <2>4, <2>5, PutTabled DEF c
  <2>7. QED
    BY <2>3, <2>6
<1>3. QED
  BY <1>1, <1>2

LEMMA IdentityLegal ==
  ASSUME NEW c \in ColumnState, Legal(c), NEW old, NEW p \in PatchBody, IdentityOk(c, old, p)
  PROVE  Legal(IdentityOf(c, old, p))
<1> DEFINE d == IdentityOf(c, old, p)
<1>1. d \in ColumnState /\ d.pk = c.pk
  BY IdentitySets
<1>2. /\ d.identity = IF p.is_identity = FALSE THEN "none"
                        ELSE IF p.is_identity = TRUE \/ old.identity # "none"
                             THEN Generation(p) ELSE c.identity
      /\ d.notnull = c.notnull /\ d.default = c.default /\ d.type = c.type
  BY IdentitySets
<1> HIDE DEF d
<1>3. Legal(d)
  BY <1>1, <1>2 DEF Legal, IdentityOk, Given, ColumnState, PatchBody, Optional
<1>4. QED
  BY <1>3 DEF d

LEMMA IdentityTabled ==
  ASSUME NEW t, Tabled(t), NEW old \in OldColumn, NEW p \in PatchBody
  PROVE  IdentitySql(t, old, p) = Aborted \/ Tabled(IdentitySql(t, old, p))
<1>1. CASE ~Has(t, old.name)
  BY <1>1, NotFound
<1>2. CASE Has(t, old.name)
  <2> DEFINE id == At(t, old.name)
             c == t.col[id]
             d == IdentityOf(c, old, p)
  <2>1. id \in Made(t) /\ Found(t, id, old.name)
    BY <1>2, NameFinds DEF OldColumn
  <2>2. id \in Column /\ c \in ColumnState /\ Legal(c)
    BY <2>1 DEF Tabled, Shaped, LegalTable, Made
  <2>3. IdentitySql(t, old, p) = IF IdentityOk(c, old, p) THEN Put(t, id, d) ELSE Aborted
    BY <2>1, IdentityIs
  <2>4. d \in ColumnState /\ d.pk = c.pk /\ d.name = c.name
    <3>1. c \in ColumnState
      BY <2>2
    <3> HIDE DEF c
    <3>2. QED
      BY <3>1, IdentitySets
  <2>5. IdentityOk(c, old, p) => Legal(d)
    BY <2>2, IdentityLegal
  <2> HIDE DEF c, d, id
  <2>6. IdentityOk(c, old, p) => Tabled(Put(t, id, d))
    BY <2>2, <2>4, <2>5, PutTabled DEF c
  <2>7. QED
    BY <2>3, <2>6
<1>3. QED
  BY <1>1, <1>2

LEMMA CommentTabled ==
  ASSUME NEW t, Tabled(t), NEW old \in OldColumn, NEW p \in PatchBody
  PROVE  CommentSql(t, old, p) = Aborted \/ Tabled(CommentSql(t, old, p))
<1>1. CASE ~Has(t, old.name)
  BY <1>1, NotFound
<1>2. CASE Has(t, old.name)
  <2> DEFINE id == At(t, old.name)
             c == t.col[id]
             d == CommentOf(c, p)
  <2>1. id \in Made(t) /\ Found(t, id, old.name)
    BY <1>2, NameFinds DEF OldColumn
  <2>2. id \in Column /\ c \in ColumnState /\ Legal(c)
    BY <2>1 DEF Tabled, Shaped, LegalTable, Made
  <2>3. CommentSql(t, old, p) = Put(t, id, d)
    BY <2>1, CommentIs
  <2>4. d \in ColumnState /\ d.pk = c.pk /\ d.name = c.name /\ Legal(d)
    BY <2>2, CommentSets DEF Legal
  <2> HIDE DEF c, d, id
  <2>5. Tabled(Put(t, id, d))
    BY <2>2, <2>4, PutTabled DEF c
  <2>6. QED
    BY <2>3, <2>5
<1>3. QED
  BY <1>1, <1>2

LEMMA NameTabled ==
  ASSUME NEW t, Tabled(t), NEW old \in OldColumn, NEW p \in PatchBody
  PROVE  NameSql(t, old, p) = Aborted \/ Tabled(NameSql(t, old, p))
<1>1. CASE ~Has(t, old.name)
  BY <1>1, NotFound
<1>2. CASE Has(t, old.name)
  <2> DEFINE id == At(t, old.name)
             c == t.col[id]
             d == NameOf(c, p)
  <2>1. id \in Made(t) /\ Found(t, id, old.name)
    BY <1>2, NameFinds DEF OldColumn
  <2>2. id \in Column /\ c \in ColumnState /\ Legal(c)
    BY <2>1 DEF Tabled, Shaped, LegalTable, Made
  <2>3. NameSql(t, old, p) = IF NameOk(t, c, p) THEN Put(t, id, d) ELSE Aborted
    BY <2>1, NameIs
  <2>4. d \in ColumnState /\ d.pk = c.pk /\ d.name = Given(p.name, c.name) /\ Legal(d)
    BY <2>2, NameSets DEF Legal
  <2>5. NameOk(t, c, p) => d.name = c.name \/ (d.name \in Name /\ ~Has(t, d.name))
    BY <2>4 DEF NameOk, Given, PatchBody, Optional
  <2> HIDE DEF c, d, id
  <2>6. NameOk(t, c, p) => Tabled(Put(t, id, d))
    BY <2>1, <2>2, <2>4, <2>5, PutTabled DEF c
  <2>7. QED
    BY <2>3, <2>6
<1>3. QED
  BY <1>1, <1>2

(* The constraints of the column that was read go, or the column that has  *)
(* its name gets one: those may be two columns.                            *)
LEMMA UniqueTabled ==
  ASSUME NEW t, Tabled(t), NEW old \in OldColumn, NEW p \in PatchBody
  PROVE  UniqueSql(t, old, p) = Aborted \/ Tabled(UniqueSql(t, old, p))
<1>0. Shaped(t) /\ t # Aborted
  BY DEF Tabled
<1>1. ASSUME NEW c \in Column, NEW n \in Nat
      PROVE  LET u == [t EXCEPT !.col[c] = [t.col[c] EXCEPT !.uniq = n]]
             IN Tabled(u)
  <2> DEFINE d == [t.col[c] EXCEPT !.uniq = n]
  <2>1. t.col[c] \in ColumnState
    BY <1>0 DEF Shaped
  <2>2. /\ d \in ColumnState /\ d.pk = t.col[c].pk /\ d.name = t.col[c].name
        /\ Legal(t.col[c]) => Legal(d)
    BY <2>1 DEF ColumnState, Legal
  <2> HIDE DEF d
  <2>3. c \in Made(t) => Legal(d)
    BY <2>2 DEF Tabled, LegalTable
  <2>4. Tabled(Put(t, c, d))
    BY <2>2, <2>3, PutTabled
  <2>5. [t EXCEPT !.col[c] = d] = Put(t, c, d)
    BY <1>0 DEF Put, Shaped
  <2>6. QED
    BY <2>4, <2>5 DEF d
<1>2. CASE old.unique /\ p.is_unique = FALSE
  <2>1. UniqueSql(t, old, p) = [t EXCEPT !.col[old.id] = [t.col[old.id] EXCEPT !.uniq = 0]]
    BY <1>0, <1>2 DEF UniqueSql
  <2>2. old.id \in Column
    BY DEF OldColumn
  <2>3. QED
    BY <1>1, <2>1, <2>2
<1>3. CASE ~old.unique /\ p.is_unique = TRUE /\ Has(t, old.name)
  <2> DEFINE c == At(t, old.name)
  <2>1. UniqueSql(t, old, p) =
          [t EXCEPT !.col[c] = [t.col[c] EXCEPT !.uniq = t.col[c].uniq + 1]]
    BY <1>0, <1>3 DEF UniqueSql, Alter
  <2>2. c \in Column
    BY <1>3, AtColumn
  <2>3. t.col[c].uniq + 1 \in Nat
    BY <1>0, <2>2 DEF Shaped, ColumnState
  <2> HIDE DEF c
  <2>4. QED
    BY <1>1, <2>1, <2>2, <2>3
<1>4. CASE ~old.unique /\ p.is_unique = TRUE /\ ~Has(t, old.name)
  BY <1>4 DEF UniqueSql, Alter
<1>5. CASE ~(old.unique /\ p.is_unique = FALSE) /\ ~(~old.unique /\ p.is_unique = TRUE)
  BY <1>0, <1>5 DEF UniqueSql
<1>6. QED
  BY <1>2, <1>3, <1>4, <1>5

-------------------------------------------------------------------------------
(* Lists of checks.                                                        *)

(* RemoveAt takes one out, and the later ones move up.                     *)
LEMMA Removed ==
  ASSUME NEW S, NEW s \in Seq(S), NEW i \in 1..Len(s)
  PROVE  /\ RemoveAt(s, i) \in Seq(S)
         /\ Len(RemoveAt(s, i)) = Len(s) - 1
         /\ \A j \in 1..(Len(s) - 1) : RemoveAt(s, i)[j] = IF j < i THEN s[j] ELSE s[j + 1]
<1> DEFINE a == SubSeq(s, 1, i - 1)
           b == SubSeq(s, i + 1, Len(s))
<1>0. Len(s) \in Nat /\ \A j \in 1..Len(s) : s[j] \in S
  BY LenProperties
<1>1. a \in Seq(S) /\ Len(a) = i - 1 /\ \A j \in 1..(i - 1) : a[j] = s[j]
  <2>1. i - 1 \in Int /\ \A j \in 1..(i - 1) : s[j] \in S
    BY <1>0
  <2>2. /\ a \in Seq(S) /\ Len(a) = IF 1 <= i - 1 THEN i - 1 - 1 + 1 ELSE 0
        /\ \A j \in 1..(i - 1 - 1 + 1) : a[j] = s[1 + j - 1]
    BY <2>1, SubSeqProperties
  <2> HIDE DEF a
  <2>3. QED
    BY <2>2
<1>2. b \in Seq(S) /\ Len(b) = Len(s) - i /\ \A j \in 1..(Len(s) - i) : b[j] = s[i + j]
  <2>1. i + 1 \in Int /\ Len(s) \in Int /\ \A j \in (i + 1)..Len(s) : s[j] \in S
    BY <1>0
  <2>2. /\ b \in Seq(S) /\ Len(b) = IF i + 1 <= Len(s) THEN Len(s) - (i + 1) + 1 ELSE 0
        /\ \A j \in 1..(Len(s) - (i + 1) + 1) : b[j] = s[i + 1 + j - 1]
    BY <2>1, SubSeqProperties
  <2> HIDE DEF b
  <2>3. QED
    BY <1>0, <2>2
<1> HIDE DEF a, b
<1>3. /\ a \o b \in Seq(S) /\ Len(a \o b) = Len(a) + Len(b)
      /\ \A j \in 1..(Len(a) + Len(b)) :
           (a \o b)[j] = IF j <= Len(a) THEN a[j] ELSE b[j - Len(a)]
  BY <1>1, <1>2, ConcatProperties
<1>4. \A j \in 1..(Len(s) - 1) : (a \o b)[j] = IF j < i THEN s[j] ELSE s[j + 1]
  <2> TAKE j \in 1..(Len(s) - 1)
  <2>1. CASE j < i
    BY <1>0, <1>1, <1>2, <1>3, <2>1
  <2>2. CASE ~(j < i)
    <3>1. j - Len(a) \in 1..(Len(s) - i) /\ i + (j - Len(a)) = j + 1
      BY <1>0, <1>1, <2>2
    <3>2. (a \o b)[j] = b[j - Len(a)]
      BY <1>0, <1>1, <1>2, <1>3, <2>2
    <3>3. QED
      BY <1>2, <2>2, <3>1, <3>2
  <2>3. QED
    BY <2>1, <2>2
<1>5. RemoveAt(s, i) = a \o b
  BY DEF RemoveAt, a, b
<1>6. QED
  BY <1>0, <1>1, <1>2, <1>3, <1>4, <1>5

(* Without leaves checks that were there and are not about the column.     *)
LEMMA WithoutChecks ==
  ASSUME NEW s \in Seq(CheckState), NEW c
  PROVE  /\ Without(s, c) \in Seq(CheckState)
         /\ \A i \in DOMAIN Without(s, c) :
              \E j \in DOMAIN s : Without(s, c)[i] = s[j] /\ c \notin s[j].key
<1> DEFINE n == Len(s)
<1>1. n \in Nat /\ DOMAIN s = 1..n /\ \A i \in 1..n : s[i] \in CheckState
  BY LenProperties
<1>2. PICK f : ChecksWithout!Steps(f, c, <<>>, s)
  BY <1>1, ChecksWithout!FoldSteps
<1>a. f[0] = <<>> /\ \A i \in 1..n : f[i] = Unless(c, f[i - 1], s[i])
  BY <1>2 DEF ChecksWithout!Steps
<1>3. Without(s, c) = f[n]
  BY <1>2 DEF Without, FoldLeft, MapThenFoldSet, Max, ChecksWithout!Steps, ChecksWithout!Fold,
              ChecksWithout!FoldLeft, ChecksWithout!MapThenFoldSet, ChecksWithout!Max
<1> DEFINE Good(u) == /\ u \in Seq(CheckState)
                      /\ \A i \in DOMAIN u : \E j \in DOMAIN s : u[i] = s[j] /\ c \notin s[j].key
           S == {m \in Nat : m <= n => Good(f[m])}
<1>4. 0 \in S
  <2>1. Good(<<>>)
    <3>1. <<>> \in Seq(CheckState) /\ DOMAIN <<>> = {}
      OBVIOUS
    <3>2. QED
      BY <3>1
  <2> HIDE DEF Good
  <2>2. QED
    BY <1>a, <2>1
<1>5. ASSUME NEW m \in Nat, m \in S PROVE m + 1 \in S
  <2>1. SUFFICES ASSUME m + 1 <= n PROVE Good(f[m + 1])
    OBVIOUS
  <2>2. Good(f[m]) /\ f[m + 1] = Unless(c, f[m], s[m + 1])
    BY <1>1, <1>a, <1>5, <2>1
  <2>3. m + 1 \in DOMAIN s /\ s[m + 1] \in CheckState
    BY <1>1, <2>1
  <2>4. CASE c \in s[m + 1].key
    BY <2>2, <2>4 DEF Unless
  <2>5. CASE c \notin s[m + 1].key
    <3> DEFINE u == f[m]
               v == Append(u, s[m + 1])
    <3>1. f[m + 1] = v /\ Good(u)
      BY <2>2, <2>5 DEF Unless
    <3> HIDE DEF u
    <3>2. /\ v \in Seq(CheckState) /\ Len(v) = Len(u) + 1
          /\ \A i \in 1..Len(u) : v[i] = u[i]
          /\ v[Len(u) + 1] = s[m + 1]
      BY <2>3, <3>1, AppendProperties
    <3>3. Len(u) \in Nat /\ DOMAIN u = 1..Len(u) /\ DOMAIN v = 1..Len(v)
      BY <3>1, <3>2, LenProperties
    <3> HIDE DEF v
    <3>4. ASSUME NEW i \in DOMAIN v
          PROVE  \E j \in DOMAIN s : v[i] = s[j] /\ c \notin s[j].key
      BY <2>3, <2>5, <3>1, <3>2, <3>3
    <3>5. QED
      BY <3>1, <3>2, <3>4
  <2>6. QED
    BY <2>4, <2>5
<1> HIDE DEF S, Good
<1>6. n \in S
  BY <1>1, <1>4, <1>5, ChecksWithout!Inductive
<1>7. QED
  BY <1>1, <1>3, <1>6 DEF S, Good

(* The first of some places of a list is one of them.                      *)
LEMMA FirstIn ==
  ASSUME NEW n \in Nat, NEW S \in SUBSET (1..n), S # {}
  PROVE  First(S) \in S /\ \A j \in S : First(S) <= j
<1>1. S \subseteq Nat
  OBVIOUS
<1>2. \E i \in S : \A j \in S : i <= j
  BY <1>1, ChecksWithout!Least
<1>3. QED
  BY <1>2 DEF First

(* Other checks, all of them about columns of the table.                   *)
LEMMA ChecksTabled ==
  ASSUME NEW t, Tabled(t), NEW s \in Seq(CheckState),
         \A i \in DOMAIN s : s[i].key \subseteq Made(t)
  PROVE  Tabled([t EXCEPT !.check = s])
<1> DEFINE u == [t EXCEPT !.check = s]
<1>1. Shaped(u) /\ u.col = t.col /\ u.check = s
  BY OtherChecks DEF Tabled, Shaped
<1> HIDE DEF u
<1>2. Made(u) = Made(t)
  BY <1>1 DEF Made
<1>3. LegalTable(u)
  BY <1>1, <1>2 DEF Tabled, LegalTable
<1>4. QED
  BY <1>1, <1>3, NotAborted DEF Tabled, u

LEMMA DropCheckTabled ==
  ASSUME NEW t, Tabled(t), NEW i \in DOMAIN t.check
  PROVE  Tabled(DropCheck(t, i))
<1> DEFINE s == t.check
           r == RemoveAt(s, i)
<1>1. s \in Seq(CheckState) /\ DOMAIN s = 1..Len(s) /\ Len(s) \in Nat
  BY LenProperties DEF Tabled
<1>2. /\ r \in Seq(CheckState) /\ Len(r) = Len(s) - 1
      /\ \A j \in 1..(Len(s) - 1) : r[j] = IF j < i THEN s[j] ELSE s[j + 1]
  BY <1>1, Removed
<1>3. DOMAIN r = 1..Len(r)
  BY <1>2, LenProperties
<1> HIDE DEF r
<1>4. ASSUME NEW j \in DOMAIN r PROVE r[j].key \subseteq Made(t)
  <2>1. j \in DOMAIN s /\ j + 1 \in DOMAIN s
    BY <1>1, <1>2, <1>3
  <2>2. r[j] = s[j] \/ r[j] = s[j + 1]
    BY <1>2, <1>3
  <2>3. QED
    BY <2>1, <2>2 DEF Tabled, LegalTable
<1>5. QED
  BY <1>2, <1>4, ChecksTabled DEF DropCheck, r

LEMMA DropFirstTabled ==
  ASSUME NEW t, Tabled(t), NEW old
  PROVE  DropFirstCheck(t, old) = Aborted \/ Tabled(DropFirstCheck(t, old))
<1>1. CASE t = Aborted \/ OwnChecks(t, old.id) = {}
  BY <1>1 DEF DropFirstCheck
<1>2. CASE ~(t = Aborted \/ OwnChecks(t, old.id) = {})
  <2> DEFINE i == First(OwnChecks(t, old.id))
  <2>1. i \in DOMAIN t.check
    <3>1. Len(t.check) \in Nat /\ DOMAIN t.check = 1..Len(t.check)
      BY LenProperties DEF Tabled
    <3>2. OwnChecks(t, old.id) \in SUBSET (1..Len(t.check)) /\ OwnChecks(t, old.id) # {}
      BY <1>2, <3>1 DEF OwnChecks
    <3>3. QED
      BY <3>1, <3>2, FirstIn
  <2>2. DropFirstCheck(t, old) \in {Aborted, DropCheck(t, i)}
    BY <1>2 DEF DropFirstCheck
  <2> HIDE DEF i
  <2>3. QED
    BY <2>1, <2>2, DropCheckTabled
<1>3. QED
  BY <1>1, <1>2

(* A new check, of columns that were found by their names.                 *)
LEMMA AddCheckTabled ==
  ASSUME NEW t, Tabled(t), NEW con \in Name \cup {Null}, NEW names \in SUBSET Name
  PROVE  AddCheck(t, con, names) = Aborted \/ Tabled(AddCheck(t, con, names))
<1> DEFINE k == [con |-> con, key |-> {At(t, n) : n \in names}]
           s == Append(t.check, k)
<1>1. SUFFICES ASSUME \A n \in names : Has(t, n)
               PROVE  Tabled([t EXCEPT !.check = s])
  BY DEF AddCheck
<1>2. {At(t, n) : n \in names} \subseteq Made(t)
  BY <1>1, NameFinds
<1>3. k \in CheckState /\ k.key \subseteq Made(t)
  BY <1>2 DEF CheckState, Made
<1> HIDE DEF k
<1>4. t.check \in Seq(CheckState) /\ Len(t.check) \in Nat /\ DOMAIN t.check = 1..Len(t.check)
  BY LenProperties DEF Tabled
<1>5. /\ s \in Seq(CheckState) /\ Len(s) = Len(t.check) + 1
      /\ \A i \in 1..Len(t.check) : s[i] = t.check[i]
      /\ s[Len(t.check) + 1] = k
  BY <1>3, <1>4, AppendProperties
<1>6. DOMAIN s = 1..Len(s)
  BY <1>5, LenProperties
<1> HIDE DEF s
<1>7. ASSUME NEW i \in DOMAIN s PROVE s[i].key \subseteq Made(t)
  <2>1. i \in 1..Len(t.check) \/ i = Len(t.check) + 1
    BY <1>4, <1>5, <1>6
  <2>2. QED
    BY <1>3, <1>4, <1>5, <2>1 DEF Tabled, LegalTable
<1>8. QED
  BY <1>5, <1>7, ChecksTabled

LEMMA CheckTabled ==
  ASSUME NEW t, Tabled(t), NEW old \in OldColumn, NEW p \in PatchBody, NEW seen
  PROVE  CheckSql(t, old, p, seen) = Aborted \/ Tabled(CheckSql(t, old, p, seen))
<1> DEFINE d == DropFirstCheck(t, old)
           a == AddCheck(d, old.name, p.check)
<1>1. d = Aborted \/ Tabled(d)
  BY DropFirstTabled
<1>2. CASE p.check \in {Undefined, Null}
  BY <1>1, <1>2 DEF CheckSql
<1>3. CASE p.check \notin {Undefined, Null}
  <2>1. p.check \in SUBSET Name /\ old.name \in Name
    BY <1>3 DEF PatchBody, OldColumn
  <2>2. CheckSql(t, old, p, seen) \in {Aborted, a}
    BY <1>3 DEF CheckSql
  <2>3. d = Aborted => a = Aborted
    BY DEF AddCheck
  <2> HIDE DEF d
  <2>4. d # Aborted => a = Aborted \/ Tabled(a)
    BY <1>1, <2>1, AddCheckTabled
  <2> HIDE DEF a
  <2>5. QED
    BY <2>2, <2>3, <2>4
<1>4. QED
  BY <1>2, <1>3

(* Every statement of an aborted transaction aborts.                       *)
LEMMA AbortedStays ==
  ASSUME NEW old, NEW p \in PatchBody, NEW seen
  PROVE  /\ NullableSql(Aborted, old, p) = Aborted
         /\ TypeSql(Aborted, old, p) = Aborted
         /\ DefaultSql(Aborted, old, p) = Aborted
         /\ IdentitySql(Aborted, old, p) = Aborted
         /\ UniqueSql(Aborted, old, p) = Aborted
         /\ CommentSql(Aborted, old, p) = Aborted
         /\ CheckSql(Aborted, old, p, seen) = Aborted
         /\ NameSql(Aborted, old, p) = Aborted
<1>1. NullableSql(Aborted, old, p) = Aborted
  BY DEF NullableSql, Alter, PatchBody, Optional
<1>2. TypeSql(Aborted, old, p) = Aborted
  BY DEF TypeSql, Alter
<1>3. DefaultSql(Aborted, old, p) = Aborted
  BY DEF DefaultSql, Alter
<1>4. IdentitySql(Aborted, old, p) = Aborted
  BY DEF IdentitySql, Alter
<1>5. UniqueSql(Aborted, old, p) = Aborted
  BY DEF UniqueSql
<1>6. CommentSql(Aborted, old, p) = Aborted
  BY DEF CommentSql, Alter
<1>7. CheckSql(Aborted, old, p, seen) = Aborted
  <2>1. DropFirstCheck(Aborted, old) = Aborted
    BY DEF DropFirstCheck
  <2>2. AddCheck(DropFirstCheck(Aborted, old), old.name, p.check) = Aborted
    BY <2>1 DEF AddCheck
  <2>3. QED
    BY <2>1, <2>2 DEF CheckSql
<1>8. NameSql(Aborted, old, p) = Aborted
  BY DEF NameSql, Alter
<1>9. QED
  BY <1>1, <1>2, <1>3, <1>4, <1>5, <1>6, <1>7, <1>8

(* The transaction of update().                                            *)
LEMMA UpdateTabled ==
  ASSUME NEW t, Tabled(t), NEW old \in OldColumn, NEW p \in PatchBody, NEW seen
  PROVE  UpdateSql(t, old, p, seen) = Aborted \/ Tabled(UpdateSql(t, old, p, seen))
<1> DEFINE Ok(u) == u = Aborted \/ Tabled(u)
           t1 == NullableSql(t, old, p)
           t2 == TypeSql(t1, old, p)
           t3 == DefaultSql(t2, old, p)
           t4 == IdentitySql(t3, old, p)
           t5 == UniqueSql(t4, old, p)
           t6 == CommentSql(t5, old, p)
           t7 == CheckSql(t6, old, p, seen)
           t8 == NameSql(t7, old, p)
<1>0. UpdateSql(t, old, p, seen) = t8
  BY DEF UpdateSql
<1>1. Ok(t1)
  BY NullableTabled
<1> HIDE DEF t1
<1>2. Ok(t2)
  BY <1>1, TypeTabled, AbortedStays
<1> HIDE DEF t2
<1>3. Ok(t3)
  BY <1>2, DefaultTabled, AbortedStays
<1> HIDE DEF t3
<1>4. Ok(t4)
  BY <1>3, IdentityTabled, AbortedStays
<1> HIDE DEF t4
<1>5. Ok(t5)
  BY <1>4, UniqueTabled, AbortedStays
<1> HIDE DEF t5
<1>6. Ok(t6)
  BY <1>5, CommentTabled, AbortedStays
<1> HIDE DEF t6
<1>7. Ok(t7)
  BY <1>6, CheckTabled, AbortedStays
<1> HIDE DEF t7
<1>8. Ok(t8)
  BY <1>7, NameTabled, AbortedStays
<1> HIDE DEF t8
<1>9. QED
  BY <1>0, <1>8

(* DROP COLUMN takes the checks that are about the column with it.         *)
LEMMA DropTabled ==
  ASSUME NEW t, Tabled(t), NEW n \in Name
  PROVE  IF Has(t, n) THEN Tabled(Drop(t, n)) ELSE Drop(t, n) = Aborted
<1>1. SUFFICES ASSUME Has(t, n)
               PROVE  LET c == At(t, n) IN
                      Tabled([col |-> [t.col EXCEPT ![c].name = Dropped],
                              check |-> Without(t.check, c)])
  BY DEF Drop, Tabled
<1> DEFINE c == At(t, n)
           d == [t.col[c] EXCEPT !.name = Dropped]
           s == Without(t.check, c)
           u == [col |-> [t.col EXCEPT ![c] = d], check |-> s]
<1>2. c \in Made(t) /\ c \in Column
  BY <1>1, NameFinds DEF Made
<1>3. d \in ColumnState /\ d.name = Dropped
  BY <1>2 DEF Tabled, Shaped, ColumnState
<1>4. /\ s \in Seq(CheckState)
      /\ \A i \in DOMAIN s : \E j \in DOMAIN t.check : s[i] = t.check[j] /\ c \notin t.check[j].key
  BY WithoutChecks DEF Tabled
<1>5. u.col = [t.col EXCEPT ![c] = d] /\ u.check = s
  OBVIOUS
<1>6. u = [col |-> u.col, check |-> u.check]
  OBVIOUS
<1>7. u = [col |-> [t.col EXCEPT ![c].name = Dropped], check |-> Without(t.check, c)]
  OBVIOUS
<1> HIDE DEF c, d, s, u
<1>8. /\ u.col \in [Column -> ColumnState] /\ u.col[c] = d
      /\ \A e \in Column \ {c} : u.col[e] = t.col[e]
  BY <1>2, <1>3, <1>5 DEF Tabled, Shaped
<1>9. Made(u) = Made(t) \ {c}
  BY <1>2, <1>3, <1>8, ColumnsAssumption DEF Made
<1>10. /\ \A e \in Made(u) : Legal(u.col[e])
       /\ \A e, f \in Made(u) : u.col[e].name = u.col[f].name => e = f
       /\ \A e, f \in Made(u) : u.col[e].pk /\ u.col[f].pk => e = f
  BY <1>8, <1>9 DEF Tabled, LegalTable, Made
<1>11. \A i \in DOMAIN u.check : u.check[i].key \subseteq Made(u)
  BY <1>4, <1>5, <1>9 DEF Tabled, LegalTable
<1>12. LegalTable(u)
  BY <1>10, <1>11 DEF LegalTable
<1>13. Shaped(u) /\ u.check \in Seq(CheckState)
  BY <1>4, <1>5, <1>6, <1>8 DEF Shaped
<1>14. Tabled(u)
  BY <1>12, <1>13, NotAborted DEF Tabled
<1>15. QED
  BY <1>7, <1>14 DEF c

(* ADD COLUMN makes a column of a number that was not used.                *)
LEMMA CreateTabled ==
  ASSUME NEW t, Tabled(t), NEW c \in Column, t.col[c].name = Unmade, NEW p \in PostBody
  PROVE  CreateSql(t, c, p) = Aborted \/ Tabled(CreateSql(t, c, p))
<1> DEFINE d == NewColumn(p)
           u == Put(t, c, d)
           a == AddCheck(u, ConName(t, p.name, p.check), p.check)
<1>1. SUFFICES ASSUME ~Has(t, p.name), Legal(d),
                      p.is_primary_key => \A e \in Made(t) : ~t.col[e].pk
               PROVE  CreateSql(t, c, p) = Aborted \/ Tabled(CreateSql(t, c, p))
  BY DEF CreateSql
<1>2. d \in ColumnState /\ d.name = p.name /\ d.pk = p.is_primary_key /\ p.name \in Name
  <2>1. Generation(p) \in Identity
    BY DEF Generation, PostBody, Optional, Identity
  <2>2. (p.is_nullable = FALSE \/ p.is_primary_key \/ p.is_identity) \in BOOLEAN
    OBVIOUS
  <2>3. QED
    BY <2>1, <2>2 DEF NewColumn, PostBody, Optional, ColumnState, Identity
<1> HIDE DEF d
<1>3. /\ Shaped(u) /\ u.check = t.check /\ u.col[c] = d
      /\ \A e \in Column \ {c} : u.col[e] = t.col[e]
  <2>1. Shaped(t)
    BY DEF Tabled
  <2>2. QED
    BY <1>2, <2>1, PutFields
<1>4. [t EXCEPT !.col[c] = d] = u
  BY DEF Put, Tabled, Shaped
<1> HIDE DEF u
<1>5. c \notin Made(t) /\ Made(u) = Made(t) \cup {c}
  BY <1>2, <1>3, ColumnsAssumption DEF Made
<1>6. \A e \in Made(u) : Legal(u.col[e])
  BY <1>1, <1>3, <1>5 DEF Tabled, LegalTable, Made
<1>7. \A e, f \in Made(u) : u.col[e].name = u.col[f].name => e = f
  BY <1>1, <1>2, <1>3, <1>5 DEF Tabled, LegalTable, Made, Has
<1>8. \A e, f \in Made(u) : u.col[e].pk /\ u.col[f].pk => e = f
  BY <1>1, <1>2, <1>3, <1>5 DEF Tabled, LegalTable, Made
<1>9. \A i \in DOMAIN u.check : u.check[i].key \subseteq Made(u)
  BY <1>3, <1>5 DEF Tabled, LegalTable
<1>10. Tabled(u)
  <2>1. LegalTable(u)
    BY <1>6, <1>7, <1>8, <1>9 DEF LegalTable
  <2>2. u.check \in Seq(CheckState)
    BY <1>3 DEF Tabled
  <2>3. QED
    BY <1>3, <2>1, <2>2, NotAborted DEF Tabled
<1>11. p.check # Undefined => a = Aborted \/ Tabled(a)
  <2>1. p.check # Undefined => p.check \in SUBSET Name
    BY DEF PostBody
  <2>2. ConName(t, p.name, p.check) \in Name \cup {Null}
    BY <1>2 DEF ConName
  <2>3. QED
    BY <1>10, <2>1, <2>2, AddCheckTabled
<1>12. CreateSql(t, c, p) = Aborted \/ CreateSql(t, c, p) = IF p.check = Undefined THEN u ELSE a
  BY <1>4 DEF CreateSql, d
<1>13. QED
  BY <1>10, <1>11, <1>12

(* Other sessions rename columns to names that differ.                     *)
LEMMA RenameTabled ==
  ASSUME NEW t, Tabled(t), NEW f \in [Made(t) -> Name], IsInjective(f)
  PROVE  Tabled([t EXCEPT !.col =
           [c \in Column |-> IF c \in Made(t) THEN [@[c] EXCEPT !.name = f[c]] ELSE @[c]]])
<1> DEFINE g == [c \in Column |-> IF c \in Made(t) THEN [t.col[c] EXCEPT !.name = f[c]] ELSE t.col[c]]
           u == [col |-> g, check |-> t.check]
<1>1. /\ u = [t EXCEPT !.col =
           [c \in Column |-> IF c \in Made(t) THEN [@[c] EXCEPT !.name = f[c]] ELSE @[c]]]
      /\ u.col = g /\ u.check = t.check /\ u = [col |-> u.col, check |-> u.check]
  BY DEF Tabled, Shaped
<1>2. ASSUME NEW c \in Made(t)
      PROVE  /\ g[c] \in ColumnState /\ g[c].name = f[c] /\ g[c].pk = t.col[c].pk
             /\ Legal(t.col[c]) => Legal(g[c])
  <2>1. c \in Column /\ t.col[c] \in ColumnState /\ f[c] \in Name
    BY DEF Tabled, Shaped, Made
  <2>2. g[c] = [t.col[c] EXCEPT !.name = f[c]]
    BY <2>1
  <2> HIDE DEF g
  <2>3. QED
    BY <2>1, <2>2 DEF ColumnState, Legal
<1>3. ASSUME NEW c \in Column, c \notin Made(t) PROVE g[c] = t.col[c] /\ g[c] \in ColumnState
  BY <1>3 DEF Tabled, Shaped
<1>4. g = [c \in Column |-> g[c]]
  OBVIOUS
<1> HIDE DEF g, u
<1>5. Shaped(u)
  BY <1>1, <1>2, <1>3, <1>4 DEF Shaped
<1>6. Made(u) = Made(t)
  BY <1>1, <1>2, <1>3 DEF Made
<1>7. \A c, d \in Made(u) : u.col[c].name = u.col[d].name => c = d
  BY <1>1, <1>2, <1>6 DEF IsInjective
<1>8. /\ \A c \in Made(u) : Legal(u.col[c])
      /\ \A c, d \in Made(u) : u.col[c].pk /\ u.col[d].pk => c = d
      /\ \A i \in DOMAIN u.check : u.check[i].key \subseteq Made(u)
  BY <1>1, <1>2, <1>6 DEF Tabled, LegalTable
<1>9. LegalTable(u)
  BY <1>7, <1>8 DEF LegalTable
<1>10. Tabled(u)
  BY <1>1, <1>5, <1>9, NotAborted DEF Tabled
<1>11. QED
  BY <1>1, <1>10

LEMMA ElsewhereTabled == ASSUME Tabled(table), Elsewhere PROVE Tabled(table')
<1>1. ASSUME NEW f \in [Made(table) -> Name], IsInjective(f),
             table' = [table EXCEPT !.col =
               [c \in Column |-> IF c \in Made(table) THEN [@[c] EXCEPT !.name = f[c]] ELSE @[c]]]
      PROVE  Tabled(table')
  BY <1>1, RenameTabled
<1>2. ASSUME NEW c \in Made(table), table' = Drop(table, table.col[c].name)
      PROVE  Tabled(table')
  <2>1. table.col[c].name \in Name /\ Has(table, table.col[c].name)
    BY DEF Made, Has
  <2>2. QED
    BY <1>2, <2>1, DropTabled
<1>3. ASSUME NEW c \in Made(table), NEW d \in ColumnState, Legal(d),
             d.name = table.col[c].name, d.pk = table.col[c].pk,
             table' = [table EXCEPT !.col[c] = d]
      PROVE  Tabled(table')
  <2>1. c \in Column /\ table' = Put(table, c, d)
    BY <1>3 DEF Made, Put, Tabled, Shaped
  <2>2. QED
    BY <1>3, <2>1, PutTabled
<1>4. ASSUME NEW c \in Made(table), NEW g \in Identity,
             Legal([table.col[c] EXCEPT !.identity = g]),
             table' = [table EXCEPT !.col[c].identity = g]
      PROVE  Tabled(table')
  <2> DEFINE d == [table.col[c] EXCEPT !.identity = g]
  <2>1. d \in ColumnState /\ d.name = table.col[c].name /\ d.pk = table.col[c].pk
    BY DEF Made, Tabled, Shaped, ColumnState
  <2>2. table' = [table EXCEPT !.col[c] = d] /\ Legal(d)
    BY <1>4
  <2> HIDE DEF d
  <2>3. QED
    BY <1>3, <2>1, <2>2
<1>5. ASSUME NEW c \in Made(table), NEW n \in 0..2, table' = [table EXCEPT !.col[c].uniq = n]
      PROVE  Tabled(table')
  <2> DEFINE d == [table.col[c] EXCEPT !.uniq = n]
  <2>1. table.col[c] \in ColumnState /\ Legal(table.col[c])
    BY DEF Made, Tabled, Shaped, LegalTable
  <2>2. d \in ColumnState /\ d.name = table.col[c].name /\ d.pk = table.col[c].pk /\ Legal(d)
    BY <2>1 DEF ColumnState, Legal
  <2>3. table' = [table EXCEPT !.col[c] = d]
    BY <1>5
  <2> HIDE DEF d
  <2>4. QED
    BY <1>3, <2>2, <2>3
<1>6. ASSUME NEW c \in Made(table),
             table' = [table EXCEPT !.check = Append(@, [con |-> Null, key |-> {c}])]
      PROVE  Tabled(table')
  <2> DEFINE k == [con |-> Null, key |-> {c}]
             q == table.check
             s == Append(q, k)
  <2>1. k \in CheckState /\ k.key \subseteq Made(table)
    BY DEF CheckState, Made
  <2> HIDE DEF k
  <2>2. q \in Seq(CheckState) /\ Len(q) \in Nat /\ DOMAIN q = 1..Len(q)
    BY LenProperties DEF Tabled
  <2>3. \A i \in DOMAIN q : q[i].key \subseteq Made(table)
    BY DEF Tabled, LegalTable
  <2>4. table' = [table EXCEPT !.check = s]
    BY <1>6 DEF k
  <2> HIDE DEF q
  <2>5. s \in Seq(CheckState) /\ \A i \in DOMAIN s : s[i].key \subseteq Made(table)
    <3>1. /\ s \in Seq(CheckState) /\ Len(s) = Len(q) + 1
          /\ \A i \in 1..Len(q) : s[i] = q[i]
          /\ s[Len(q) + 1] = k
      BY <2>1, <2>2, AppendProperties
    <3>2. DOMAIN s = 1..Len(s)
      BY <3>1, LenProperties
    <3> HIDE DEF s
    <3>3. QED
      BY <2>1, <2>2, <2>3, <3>1, <3>2
  <2> HIDE DEF s
  <2>6. QED
    BY <2>4, <2>5, ChecksTabled
<1>7. ASSUME NEW i \in DOMAIN table.check, table' = DropCheck(table, i)
      PROVE  Tabled(table')
  BY <1>7, DropCheckTabled
<1>8. QED
  BY <1>1, <1>2, <1>4, <1>5, <1>6, <1>7 DEF Elsewhere

-------------------------------------------------------------------------------
(* The type of the state, and what PATCH knows when nobody disturbs it:    *)
(* the column is as it was read.                                           *)
Undisturbed == req.at = "apply" /\ req.op = "update" /\ others = 0

Answers == {"none", "data", "missing", "aborted", "refused", "invalid"}

TableInv ==
  /\ ColumnsInv /\ Tabled(table)
  /\ answer \in Answers /\ others \in 0..MaxOthers
  /\ Undisturbed => req.id \in Made(table) /\ req.old = Read(req.id)

(* The table an aborted transaction leaves is the one there was.           *)
LEMMA CommitTabled ==
  ASSUME Tabled(table), answer \in Answers, NEW t, t = Aborted \/ Tabled(t), NEW at,
         NEW ok \in Answers, Commit(t, at, ok)
  PROVE  Tabled(table') /\ answer' \in Answers /\ others' = others
<1>1. CASE t = Aborted
  BY <1>1 DEF Commit, Answer, Answers
<1>2. CASE t # Aborted
  BY <1>2 DEF Commit, Answer
<1>3. QED
  BY <1>1, <1>2

LEMMA TableStep == ASSUME TableInv, [Next]_columnVars PROVE TableInv'
<1>0. ColumnsInv'
  BY NextInv DEF TableInv
<1>1. ASSUME Tabled(table'), answer' \in Answers, others' \in 0..MaxOthers, req'.at # "apply"
      PROVE  TableInv'
  BY <1>0, <1>1 DEF TableInv, Undisturbed, Tabled, Shaped, LegalTable, Made
<1>2. ASSUME UNCHANGED columnVars PROVE TableInv'
  BY <1>0, <1>2 DEF columnVars, TableInv, Undisturbed, Tabled, Shaped, LegalTable, Made, Read
<1>3. ASSUME NEW c \in Column, NEW op \in {"update", "remove"}, NEW p, Retrieve(op, c, p)
      PROVE  TableInv'
  <2>1. table' = table /\ others' = others
    BY <1>3 DEF Retrieve
  <2>2. CASE c \in Made(table)
    <3>1. /\ req' = [op |-> op, id |-> c, body |-> p, at |-> "apply", old |-> Read(c)]
          /\ answer' = answer
      BY <1>3, <2>2 DEF Retrieve
    <3>2. req'.id = c /\ req'.old = Read(c)
      BY <3>1
    <3>3. (req.id \in Made(table) /\ req.old = Read(req.id))'
      BY <2>1, <2>2, <3>2 DEF Read
    <3>4. Tabled(table')
      BY <2>1 DEF TableInv
    <3>5. QED
      BY <1>0, <2>1, <3>1, <3>3, <3>4 DEF TableInv
  <2>3. CASE c \notin Made(table)
    <3>1. req'.at = "done" /\ answer' = "missing"
      BY <1>3, <2>3 DEF Retrieve
    <3>2. QED
      BY <1>1, <2>1, <3>1 DEF TableInv, Answers
  <2>4. QED
    BY <2>2, <2>3
<1>4. ASSUME NEW p \in Bodies, RetrieveTable(p) PROVE TableInv'
  <2>1. table' = table /\ others' = others /\ req'.op = "create" /\ answer' \in Answers
    BY <1>4 DEF RetrieveTable, TableInv, Answers
  <2>2. QED
    BY <1>0, <2>1 DEF TableInv, Undisturbed, Tabled, Shaped, LegalTable, Made
<1>5. ASSUME Refuse \/ ReadBack PROVE TableInv'
  <2>1. /\ table' = table /\ others' = others /\ answer' \in Answers
        /\ req' = [req EXCEPT !.at = "done"] /\ req.at \in {"apply", "read"}
    BY <1>5 DEF Refuse, ReadBack, Answer, Answers
  <2>2. req'.at = "done"
    BY <2>1, KnowsStep DEF TableInv, ColumnsInv
  <2>3. QED
    BY <1>1, <2>1, <2>2 DEF TableInv
<1>6. ASSUME req.at = "apply", NEW t, t = Aborted \/ Tabled(t), NEW at \in {"read", "done"},
             NEW ok \in Answers, Commit(t, at, ok)
      PROVE  TableInv'
  <2>1. Tabled(table') /\ answer' \in Answers /\ others' = others
    BY <1>6, CommitTabled DEF TableInv
  <2>2. req' = [req EXCEPT !.at = "done"] \/ req' = [req EXCEPT !.at = at]
    BY <1>6 DEF Commit, Answer
  <2>3. req'.at # "apply"
    BY <1>6, <2>2, KnowsStep DEF TableInv, ColumnsInv
  <2>4. QED
    BY <1>1, <2>1, <2>3 DEF TableInv
<1>7. ASSUME Update PROVE TableInv'
  <2>1. PICK seen \in Namesakes \cup {Null} :
          Commit(UpdateSql(table, req.old, req.body, seen), "read", "none")
    BY <1>7 DEF Update
  <2> DEFINE t == UpdateSql(table, req.old, req.body, seen)
  <2>2. req.at = "apply" /\ req.old \in OldColumn /\ req.body \in PatchBody
    BY <1>7, Applying DEF Update, TableInv
  <2>3. t = Aborted \/ Tabled(t)
    BY <2>2, UpdateTabled DEF TableInv
  <2>4. Commit(t, "read", "none")
    BY <2>1
  <2> HIDE DEF t
  <2>5. QED
    BY <1>6, <2>2, <2>3, <2>4 DEF Answers
<1>8. ASSUME Create PROVE TableInv'
  <2>1. PICK c \in Column : /\ table.col[c].name = Unmade
                            /\ Commit(CreateSql(table, c, req.body), "read", "none")
    BY <1>8 DEF Create
  <2> DEFINE t == CreateSql(table, c, req.body)
  <2>2. req.at = "apply" /\ req.op = "create"
    BY <1>8 DEF Create
  <2>3. req.body \in PostBody
    BY <2>2, BodiesAssumption DEF TableInv, ColumnsInv, Knows
  <2>4. t = Aborted \/ Tabled(t)
    BY <2>1, <2>3, CreateTabled DEF TableInv
  <2>5. Commit(t, "read", "none")
    BY <2>1
  <2> HIDE DEF t
  <2>6. QED
    BY <1>6, <2>2, <2>4, <2>5 DEF Answers
<1>9. ASSUME DropColumn PROVE TableInv'
  <2> DEFINE t == Drop(table, req.old.name)
  <2>1. req.at = "apply" /\ req.op = "remove" /\ Commit(t, "done", "data")
    BY <1>9 DEF DropColumn
  <2>2. req.old.name \in Name
    BY <2>1 DEF TableInv, ColumnsInv, Knows, OldColumn
  <2>3. t = Aborted \/ Tabled(t)
    BY <2>2, DropTabled DEF TableInv
  <2> HIDE DEF t
  <2>4. QED
    BY <1>6, <2>1, <2>3 DEF Answers
<1>10. ASSUME Elsewhere PROVE TableInv'
  <2>1. Tabled(table')
    BY <1>10, ElsewhereTabled DEF TableInv
  <2>2. answer' = answer /\ others' = others + 1 /\ others < MaxOthers
    BY <1>10 DEF Elsewhere
  <2>3. others' \in 0..MaxOthers /\ others' # 0
    BY <2>2, ColumnsAssumption DEF TableInv
  <2>4. QED
    BY <1>0, <2>1, <2>2, <2>3 DEF TableInv, Undisturbed, Tabled, Shaped, LegalTable, Made
<1>11. QED
  BY <1>2, <1>3, <1>4, <1>5, <1>7, <1>8, <1>9, <1>10 DEF Next

LEMMA TableInit == Init => TableInv
<1> SUFFICES ASSUME Init PROVE TableInv
  OBVIOUS
<1>1. Shaped(table) /\ table.check \in Seq(CheckState) /\ LegalTable(table)
  <2>1. table \in Tables
    BY DEF Init
  <2>2. QED
    BY <2>1, BodiesAssumption DEF Shaped
<1>2. Tabled(table)
  BY <1>1, NotAborted DEF Tabled
<1>3. QED
  BY <1>2, InitInv, ColumnsAssumption DEF Init, TableInv, Answers, Undisturbed

THEOREM TableInvariant == Spec => []TableInv
BY TableInit, TableStep, PTL DEF Spec

(* The table stays one that Postgres can keep, whatever the requests and   *)
(* the other sessions do, and the state keeps its type.                    *)
THEOREM ColumnsTyped == Spec => []TypeOK
<1>1. TableInv => TypeOK
  BY DEF TableInv, ColumnsInv, Knows, Tabled, TypeOK, Answers, OldColumn
<1>2. QED
  BY <1>1, TableInvariant, PTL

-------------------------------------------------------------------------------
(* What an update does that nobody disturbs.                               *)

(* What old says of column id is what it is.                               *)
AsRead(t, id, old) ==
  /\ old \in OldColumn /\ old.id = id
  /\ old.name = t.col[id].name /\ old.identity = t.col[id].identity
  /\ old.unique <=> t.col[id].uniq > 0

(* The statements about the column, one after the other.                   *)
ColumnSql(t, old, p) ==
  CommentSql(UniqueSql(IdentitySql(DefaultSql(TypeSql(NullableSql(t, old, p), old, p),
             old, p), old, p), old, p), old, p)

ColumnOk(c, old, p) ==
  /\ NullableOk(c, p)
  /\ TypeOk(NullableOf(c, p), p)
  /\ DefaultOk(TypeOf(NullableOf(c, p), p), p)
  /\ IdentityOk(DefaultOf(TypeOf(NullableOf(c, p), p), p), old, p)

ColumnOf(c, old, p) ==
  CommentOf(UniqueOf(IdentityOf(DefaultOf(TypeOf(NullableOf(c, p), p), p), old, p), old, p), p)

LEMMA PutFound ==
  ASSUME NEW t, Tabled(t), NEW id \in Made(t), NEW d \in ColumnState, d.name = t.col[id].name
  PROVE  Found(Put(t, id, d), id, t.col[id].name) /\ Put(t, id, d).col[id] = d
<1> DEFINE u == Put(t, id, d)
<1>1. Shaped(t) /\ t.check \in Seq(CheckState) /\ id \in Column
  BY DEF Tabled, Made
<1>2. /\ Shaped(u) /\ u.check = t.check /\ u.col[id] = d
      /\ \A c \in Column \ {id} : u.col[c] = t.col[c]
  BY <1>1, PutFields
<1> HIDE DEF u
<1>3. u # Aborted
  BY <1>1, <1>2, NotAborted
<1>4. \A c \in Column : u.col[c].name = t.col[id].name => c = id
  BY <1>1, <1>2 DEF Tabled, LegalTable, Made
<1>5. QED
  BY <1>1, <1>2, <1>3, <1>4 DEF Found, u

LEMMA PutPut ==
  ASSUME NEW t, Shaped(t), NEW id \in Column, NEW d, NEW e
  PROVE  Put(Put(t, id, d), id, e) = Put(t, id, e)
<1>1. Put(t, id, d).col = [t.col EXCEPT ![id] = d] /\ Put(t, id, d).check = t.check
  BY DEF Put
<1>2. [[t.col EXCEPT ![id] = d] EXCEPT ![id] = e] = [t.col EXCEPT ![id] = e]
  BY DEF Shaped
<1>3. QED
  BY <1>1, <1>2 DEF Put

(* Together they are a function of the column, where each is allowed.      *)
LEMMA ColumnIs ==
  ASSUME NEW t, Tabled(t), NEW id \in Made(t), NEW old, AsRead(t, id, old), NEW p \in PatchBody
  PROVE  /\ ColumnSql(t, old, p) = IF ColumnOk(t.col[id], old, p)
                                   THEN Put(t, id, ColumnOf(t.col[id], old, p)) ELSE Aborted
         /\ ColumnOf(t.col[id], old, p) \in ColumnState
         /\ ColumnOf(t.col[id], old, p).name = old.name
<1> DEFINE c == t.col[id]
           d1 == NullableOf(c, p)
           d2 == TypeOf(d1, p)
           d3 == DefaultOf(d2, p)
           d4 == IdentityOf(d3, old, p)
           d5 == UniqueOf(d4, old, p)
           d6 == CommentOf(d5, p)
           t1 == NullableSql(t, old, p)
           t2 == TypeSql(t1, old, p)
           t3 == DefaultSql(t2, old, p)
           t4 == IdentitySql(t3, old, p)
           t5 == UniqueSql(t4, old, p)
           t6 == CommentSql(t5, old, p)
           At2 == NullableOk(c, p) /\ TypeOk(d1, p)
           At3 == At2 /\ DefaultOk(d2, p)
           At4 == At3 /\ IdentityOk(d3, old, p)
<1>0. /\ c \in ColumnState /\ c.name = old.name /\ id \in Column /\ Shaped(t)
      /\ Found(t, id, old.name) /\ old.id = id
  BY FoundMade DEF Tabled, Shaped, Made, AsRead
<1>a. ColumnSql(t, old, p) = t6 /\ (ColumnOk(c, old, p) <=> At4) /\ ColumnOf(c, old, p) = d6
  BY DEF ColumnSql, ColumnOk, ColumnOf
<1>b. ASSUME NEW d \in ColumnState, d.name = c.name
      PROVE  /\ Found(Put(t, id, d), id, old.name) /\ Put(t, id, d).col[id] = d
             /\ \A e : Put(Put(t, id, d), id, e) = Put(t, id, e)
  BY <1>0, <1>b, PutFound, PutPut
<1>1. d1 \in ColumnState /\ d1.name = c.name
  BY <1>0, NullableSets
<1>2. t1 = IF NullableOk(c, p) THEN Put(t, id, d1) ELSE Aborted
  BY <1>0, NullableIs
<1> HIDE DEF d1, t1
<1>3. d2 \in ColumnState /\ d2.name = c.name
  BY <1>1, TypeSets
<1>4. t2 = IF At2 THEN Put(t, id, d2) ELSE Aborted
  <2>1. CASE NullableOk(c, p)
    <3> DEFINE u == Put(t, id, d1)
    <3>1. Found(u, id, old.name) /\ u.col[id] = d1 /\ t1 = u
      BY <1>1, <1>2, <1>b, <2>1
    <3>2. \A e : Put(u, id, e) = Put(t, id, e)
      BY <1>1, <1>2, <1>b
    <3> HIDE DEF u
    <3>3. t2 = IF TypeOk(d1, p) THEN Put(u, id, d2) ELSE Aborted
      BY <3>1, <1>0, TypeIs
    <3>4. QED
      BY <2>1, <3>2, <3>3
  <2>2. CASE ~NullableOk(c, p)
    BY <1>2, <2>2, AbortedStays
  <2>3. QED
    BY <2>1, <2>2
<1> HIDE DEF d2, t2, At2
<1>5. d3 \in ColumnState /\ d3.name = c.name
  BY <1>3, DefaultSets
<1>6. t3 = IF At3 THEN Put(t, id, d3) ELSE Aborted
  <2>1. CASE At2
    <3> DEFINE u == Put(t, id, d2)
    <3>1. Found(u, id, old.name) /\ u.col[id] = d2 /\ t2 = u
      BY <1>3, <1>4, <1>b, <2>1
    <3>2. \A e : Put(u, id, e) = Put(t, id, e)
      BY <1>3, <1>4, <1>b
    <3> HIDE DEF u
    <3>3. t3 = IF DefaultOk(d2, p) THEN Put(u, id, d3) ELSE Aborted
      BY <3>1, <1>0, DefaultIs
    <3>4. QED
      BY <2>1, <3>2, <3>3
  <2>2. CASE ~At2
    BY <1>4, <2>2, AbortedStays
  <2>3. QED
    BY <2>1, <2>2
<1> HIDE DEF d3, t3, At3
<1>7. d4 \in ColumnState /\ d4.name = c.name
  <2> HIDE DEF c
  <2>1. QED
    BY <1>5, IdentitySets
<1>8. t4 = IF At4 THEN Put(t, id, d4) ELSE Aborted
  <2>1. CASE At3
    <3> DEFINE u == Put(t, id, d3)
    <3>1. Found(u, id, old.name) /\ u.col[id] = d3 /\ t3 = u
      BY <1>5, <1>6, <1>b, <2>1
    <3>2. \A e : Put(u, id, e) = Put(t, id, e)
      BY <1>5, <1>6, <1>b
    <3> HIDE DEF u
    <3>3. t4 = IF IdentityOk(d3, old, p) THEN Put(u, id, d4) ELSE Aborted
      BY <3>1, <1>0, IdentityIs
    <3>4. QED
      BY <2>1, <3>2, <3>3
  <2>2. CASE ~At3
    BY <1>6, <2>2, AbortedStays
  <2>3. QED
    BY <2>1, <2>2
<1> HIDE DEF d4, t4, At4
<1>9. d5 \in ColumnState /\ d5.name = c.name
  <2> HIDE DEF c
  <2>1. QED
    BY <1>7, UniqueSets
<1>10. t5 = IF At4 THEN Put(t, id, d5) ELSE Aborted
  <2>1. CASE At4
    <3> DEFINE u == Put(t, id, d4)
    <3>1. Found(u, id, old.name) /\ u.col[id] = d4 /\ t4 = u
      BY <1>7, <1>8, <1>b, <2>1
    <3>2. \A e : Put(u, id, e) = Put(t, id, e)
      BY <1>7, <1>8, <1>b
    <3> HIDE DEF u
    <3>3. t5 = Put(u, id, d5)
      BY <3>1, <1>0, UniqueIs
    <3>4. QED
      BY <2>1, <3>2, <3>3
  <2>2. CASE ~At4
    BY <1>8, <2>2, AbortedStays
  <2>3. QED
    BY <2>1, <2>2
<1> HIDE DEF d5, t5
<1>11. d6 \in ColumnState /\ d6.name = c.name
  BY <1>9, CommentSets
<1>12. t6 = IF At4 THEN Put(t, id, d6) ELSE Aborted
  <2>1. CASE At4
    <3> DEFINE u == Put(t, id, d5)
    <3>1. Found(u, id, old.name) /\ u.col[id] = d5 /\ t5 = u
      BY <1>9, <1>10, <1>b, <2>1
    <3>2. \A e : Put(u, id, e) = Put(t, id, e)
      BY <1>9, <1>10, <1>b
    <3> HIDE DEF u
    <3>3. t6 = Put(u, id, d6)
      BY <3>1, <1>0, CommentIs
    <3>4. QED
      BY <2>1, <3>2, <3>3
  <2>2. CASE ~At4
    BY <1>10, <2>2, AbortedStays
  <2>3. QED
    BY <2>1, <2>2
<1> HIDE DEF d6, t6, c
<1>13. QED
  BY <1>0, <1>a, <1>11, <1>12 DEF c

(* What they make of a column is what the body asks.                       *)
LEMMA ColumnAsked ==
  ASSUME NEW t, NEW id, NEW old, AsRead(t, id, old), NEW p \in PatchBody,
         t.col[id] \in ColumnState
  PROVE  LET c == t.col[id]
             d == ColumnOf(c, old, p)
         IN /\ d \in ColumnState /\ d.name = c.name
            /\ Asked(c, NameOf(d, p), p)
<1> DEFINE c == t.col[id]
           d1 == NullableOf(c, p)
           d2 == TypeOf(d1, p)
           d3 == DefaultOf(d2, p)
           d4 == IdentityOf(d3, old, p)
           d5 == UniqueOf(d4, old, p)
           d6 == CommentOf(d5, p)
           d7 == NameOf(d6, p)
<1>0. ColumnOf(c, old, p) = d6
  BY DEF ColumnOf
<1>c. c \in ColumnState /\ old.identity = c.identity /\ (old.unique <=> c.uniq > 0)
  BY DEF AsRead
<1> HIDE DEF c
<1>1. /\ d1 \in ColumnState
      /\ d1.notnull = ~Given(p.is_nullable, ~c.notnull)
      /\ d1.name = c.name /\ d1.type = c.type /\ d1.identity = c.identity
      /\ d1.default = c.default /\ d1.pk = c.pk /\ d1.uniq = c.uniq /\ d1.comment = c.comment
  BY <1>c, NullableSets
<1> HIDE DEF d1
<1>2. /\ d2 \in ColumnState
      /\ d2.type = Given(p.type, c.type)
      /\ d2.name = c.name /\ d2.notnull = d1.notnull /\ d2.identity = c.identity
      /\ d2.default = c.default /\ d2.pk = c.pk /\ d2.uniq = c.uniq /\ d2.comment = c.comment
  BY <1>1, TypeSets
<1> HIDE DEF d2
<1>3. /\ d3 \in ColumnState
      /\ d3.default = IF p.drop_default THEN "none" ELSE Given(p.default_value, c.default)
      /\ d3.name = c.name /\ d3.notnull = d1.notnull /\ d3.identity = c.identity
      /\ d3.type = d2.type /\ d3.pk = c.pk /\ d3.uniq = c.uniq /\ d3.comment = c.comment
  BY <1>2, DefaultSets
<1> HIDE DEF d3
<1>4. /\ d4 \in ColumnState
      /\ d4.identity = IF p.is_identity = FALSE THEN "none"
                       ELSE IF p.is_identity = TRUE \/ old.identity # "none"
                            THEN Generation(p) ELSE c.identity
      /\ d4.name = c.name /\ d4.notnull = d1.notnull /\ d4.default = d3.default
      /\ d4.type = d2.type /\ d4.pk = c.pk /\ d4.uniq = c.uniq /\ d4.comment = c.comment
  <2>1. /\ d4 \in ColumnState
        /\ d4.identity = IF p.is_identity = FALSE THEN "none"
                         ELSE IF p.is_identity = TRUE \/ old.identity # "none"
                              THEN Generation(p) ELSE d3.identity
        /\ d4.name = d3.name /\ d4.notnull = d3.notnull /\ d4.default = d3.default
        /\ d4.type = d3.type /\ d4.pk = d3.pk /\ d4.uniq = d3.uniq /\ d4.comment = d3.comment
    BY <1>3, IdentitySets, Zenon
  <2> HIDE DEF d4
  <2>2. QED
    BY <1>3, <2>1
<1> HIDE DEF d4
<1>5. /\ d5 \in ColumnState
      /\ d5.uniq = IF old.unique /\ p.is_unique = FALSE THEN 0
                   ELSE IF ~old.unique /\ p.is_unique = TRUE THEN c.uniq + 1 ELSE c.uniq
      /\ d5.name = c.name /\ d5.notnull = d1.notnull /\ d5.default = d3.default
      /\ d5.type = d2.type /\ d5.pk = c.pk /\ d5.identity = d4.identity
      /\ d5.comment = c.comment
  <2>1. /\ d5 \in ColumnState
        /\ d5.uniq = IF old.unique /\ p.is_unique = FALSE THEN 0
                     ELSE IF ~old.unique /\ p.is_unique = TRUE THEN d4.uniq + 1 ELSE d4.uniq
        /\ d5.name = d4.name /\ d5.notnull = d4.notnull /\ d5.default = d4.default
        /\ d5.type = d4.type /\ d5.pk = d4.pk /\ d5.identity = d4.identity
        /\ d5.comment = d4.comment
    BY <1>4, UniqueSets, Zenon
  <2> HIDE DEF d5
  <2>2. QED
    BY <1>4, <2>1
<1> HIDE DEF d5
<1>6. /\ d6 \in ColumnState
      /\ d6.comment = Given(p.comment, c.comment)
      /\ d6.name = c.name /\ d6.notnull = d1.notnull /\ d6.default = d3.default
      /\ d6.type = d2.type /\ d6.pk = c.pk /\ d6.identity = d4.identity /\ d6.uniq = d5.uniq
  BY <1>5, CommentSets
<1> HIDE DEF d6
<1>7. /\ d7.name = Given(p.name, c.name)
      /\ d7.comment = d6.comment /\ d7.notnull = d1.notnull /\ d7.default = d3.default
      /\ d7.type = d2.type /\ d7.pk = c.pk /\ d7.identity = d4.identity /\ d7.uniq = d5.uniq
  BY <1>6, NameSets
<1> HIDE DEF d7
<1>8. (d4.identity # "none") = Given(p.is_identity, c.identity # "none")
  <2>1. Generation(p) # "none"
    BY DEF Generation, PatchBody, Optional
  <2>2. CASE p.is_identity = FALSE
    BY <1>4, <2>2, BodiesAssumption DEF Given
  <2>3. CASE p.is_identity = TRUE
    BY <1>4, <2>1, <2>3, BodiesAssumption DEF Given
  <2>4. CASE p.is_identity = Undefined
    BY <1>c, <1>4, <2>1, <2>4, BodiesAssumption DEF Given
  <2>5. QED
    BY <2>2, <2>3, <2>4 DEF PatchBody, Optional
<1>9. (d5.uniq > 0) = Given(p.is_unique, c.uniq > 0)
  <2> DEFINE x == d5.uniq > 0
             y == Given(p.is_unique, c.uniq > 0)
  <2>0. c.uniq \in Nat
    BY <1>c DEF ColumnState
  <2>2. CASE p.is_unique = FALSE
    <3>1. d5.uniq = 0
      BY <1>c, <1>5, <2>0, <2>2
    <3>2. Given(p.is_unique, c.uniq > 0) = FALSE
      BY <2>2, BodiesAssumption DEF Given
    <3>3. x = FALSE /\ y = FALSE
      BY <3>1, <3>2
    <3> HIDE DEF x, y
    <3>4. x = y
      BY <3>3
    <3>5. QED
      BY <3>4 DEF x, y
  <2>3. CASE p.is_unique = TRUE
    <3>1. d5.uniq > 0
      <4>1. CASE c.uniq > 0
        BY <1>c, <1>5, <2>3, <4>1
      <4>2. CASE c.uniq = 0
        BY <1>c, <1>5, <2>3, <4>2
      <4>3. QED
        BY <2>0, <4>1, <4>2
    <3>2. Given(p.is_unique, c.uniq > 0) = TRUE
      BY <2>3, BodiesAssumption DEF Given
    <3>3. x = TRUE /\ y = TRUE
      BY <3>1, <3>2
    <3> HIDE DEF x, y
    <3>4. x = y
      BY <3>3
    <3>5. QED
      BY <3>4 DEF x, y
  <2>4. CASE p.is_unique = Undefined
    BY <1>c, <1>5, <2>0, <2>4, BodiesAssumption DEF Given
  <2>5. QED
    BY <2>2, <2>3, <2>4 DEF PatchBody, Optional
<1>10. Asked(c, d7, p)
  BY <1>1, <1>2, <1>3, <1>6, <1>7, <1>8, <1>9 DEF Asked
<1>11. QED
  BY <1>0, <1>6, <1>10 DEF c, d7

(* What is possible, and takes one PATCH, every statement allows.          *)
LEMMA ColumnAllowed ==
  ASSUME NEW t, NEW id, NEW old, AsRead(t, id, old), NEW p \in PatchBody,
         t.col[id] \in ColumnState, Legal(t.col[id]),
         Legal(Target(t.col[id], p)), ~NeedsTwo(t.col[id], p)
  PROVE  ColumnOk(t.col[id], old, p)
<1> DEFINE c == t.col[id]
           d1 == NullableOf(c, p)
           d2 == TypeOf(d1, p)
           d3 == DefaultOf(d2, p)
           e == Target(c, p)
<1>0. ColumnOk(c, old, p) <=> /\ NullableOk(c, p) /\ TypeOk(d1, p) /\ DefaultOk(d2, p)
                              /\ IdentityOk(d3, old, p)
  BY DEF ColumnOk
<1>c. c \in ColumnState /\ old.identity = c.identity /\ ~NeedsTwo(c, p) /\ Legal(e)
  BY DEF AsRead
<1>e. /\ e.type = Given(p.type, c.type) /\ e.notnull = ~Given(p.is_nullable, ~c.notnull)
      /\ e.default = IF p.drop_default THEN "none" ELSE Given(p.default_value, c.default)
      /\ p.is_identity = TRUE => e.identity = Generation(p)
      /\ e.pk = c.pk
  <2> HIDE DEF c
  <2>1. QED
    BY <1>c DEF Target, ColumnState
<1> HIDE DEF c, e
<1>1. /\ d1 \in ColumnState
      /\ d1.notnull = ~Given(p.is_nullable, ~c.notnull)
      /\ d1.name = c.name /\ d1.type = c.type /\ d1.identity = c.identity
      /\ d1.default = c.default /\ d1.pk = c.pk
  BY <1>c, NullableSets
<1> HIDE DEF d1
<1>2. /\ d2 \in ColumnState
      /\ d2.type = Given(p.type, c.type)
      /\ d2.notnull = d1.notnull /\ d2.identity = c.identity
      /\ d2.default = c.default /\ d2.pk = c.pk
  BY <1>1, TypeSets
<1> HIDE DEF d2
<1>3. /\ d3.default = IF p.drop_default THEN "none" ELSE Given(p.default_value, c.default)
      /\ d3.notnull = d1.notnull /\ d3.identity = c.identity /\ d3.type = d2.type
  BY <1>2, DefaultSets
<1> HIDE DEF d3
<1>4. NullableOk(c, p)
  BY <1>c, <1>e, BodiesAssumption DEF NullableOk, NeedsTwo, Legal, Given
<1>5. TypeOk(d1, p)
  BY <1>c, <1>1 DEF TypeOk, NeedsTwo
<1>6. DefaultOk(d2, p)
  BY <1>c, <1>e, <1>2 DEF DefaultOk, NeedsTwo, Legal, Given
<1>7. IdentityOk(d3, old, p)
  <2>1. Generation(p) # "none"
    BY DEF Generation, PatchBody, Optional
  <2>2. p.is_identity = TRUE => e.type = "int" /\ e.notnull /\ e.default = "none"
    BY <1>c, <1>e, <2>1 DEF Legal
  <2>3. d3.type = e.type /\ d3.notnull = e.notnull /\ d3.default = e.default
    BY <1>e, <1>1, <1>2, <1>3
  <2>4. QED
    BY <1>c, <1>3, <2>2, <2>3 DEF IdentityOk
<1>8. QED
  BY <1>0, <1>4, <1>5, <1>6, <1>7 DEF c

(* A list with one more, without it.                                       *)
LEMMA Appended ==
  ASSUME NEW S, NEW s \in Seq(S), NEW k \in S
  PROVE  /\ Append(s, k) \in Seq(S) /\ Front(Append(s, k)) = s /\ Last(Append(s, k)) = k
<1> DEFINE u == Append(s, k)
           n == Len(s)
           f == SubSeq(u, 1, Len(u) - 1)
<1>1. /\ u \in Seq(S) /\ Len(u) = n + 1 /\ n \in Nat
      /\ \A i \in 1..n : u[i] = s[i]
      /\ u[n + 1] = k
  BY AppendProperties, LenProperties
<1>2. Last(u) = k
  BY <1>1 DEF Last
<1>3. f = s
  <2>1. Len(u) - 1 = n /\ \A i \in 1..n : u[i] \in S
    BY <1>1, LenProperties
  <2> HIDE DEF u
  <2>2. /\ f \in Seq(S) /\ Len(f) = IF 1 <= n THEN n - 1 + 1 ELSE 0
        /\ \A i \in 1..(n - 1 + 1) : f[i] = u[1 + i - 1]
    BY <1>1, <2>1, SubSeqProperties
  <2> HIDE DEF f
  <2>3. Len(f) = n /\ \A i \in 1..n : f[i] = s[i]
    BY <1>1, <2>2
  <2>4. QED
    BY <1>1, <2>2, <2>3, SeqEqual
<1>4. QED
  BY <1>1, <1>2, <1>3 DEF Front

(* The checks that make way for the one the body has, and what they and    *)
(* the condition have to be for the statements to go through.              *)
Replaced(t, id, p) ==
  IF p.check = Undefined \/ OwnChecks(t, id) = {} THEN {} ELSE {First(OwnChecks(t, id))}

CheckOk(t, id, p) ==
  /\ \A i \in Replaced(t, id, p) : t.check[i].con \notin NeedsQuotes
  /\ p.check \notin {Undefined, Null} =>
       /\ p.check = {t.col[id].name}
       /\ \A i \in DOMAIN t.check \ Replaced(t, id, p) : t.check[i].con # t.col[id].name

(* The table r is t without them.                                          *)
Shortened(t, r, id, p) ==
  /\ Shaped(r) /\ r.col = t.col /\ r.check \in Seq(CheckState)
  /\ r.check = IF OwnChecks(t, id) = {} THEN t.check
               ELSE RemoveAt(t.check, First(OwnChecks(t, id)))
  /\ \A i \in DOMAIN r.check :
       \E j \in DOMAIN t.check \ Replaced(t, id, p) : r.check[i] = t.check[j]

LEMMA DropFirstIs ==
  ASSUME NEW t, Shaped(t), t # Aborted, t.check \in Seq(CheckState), NEW old, NEW p,
         p.check # Undefined, NEW id, id = old.id, NEW r, r = DropFirstCheck(t, old), r # Aborted
  PROVE  Shortened(t, r, id, p)
<1> DEFINE own == OwnChecks(t, id)
           s == t.check
<1>0. s \in Seq(CheckState) /\ Len(s) \in Nat /\ DOMAIN s = 1..Len(s)
  BY LenProperties
<1>1. CASE own = {}
  <2>1. r = t /\ Replaced(t, old.id, p) = {}
    BY <1>1 DEF DropFirstCheck, Replaced
  <2>2. QED
    BY <1>1, <2>1 DEF Shortened
<1>2. CASE own # {}
  <2> DEFINE i == First(own)
             q == RemoveAt(s, i)
  <2>1. i \in DOMAIN s
    <3>1. own \in SUBSET (1..Len(s))
      BY <1>0 DEF OwnChecks
    <3> HIDE DEF own
    <3>2. QED
      BY <1>0, <1>2, <3>1, FirstIn
  <2>2. r = [t EXCEPT !.check = q] /\ Replaced(t, old.id, p) = {i}
    BY <1>2 DEF DropFirstCheck, DropCheck, Replaced
  <2> HIDE DEF i
  <2>3. /\ q \in Seq(CheckState) /\ Len(q) = Len(s) - 1
        /\ \A j \in 1..(Len(s) - 1) : q[j] = IF j < i THEN s[j] ELSE s[j + 1]
    BY <1>0, <2>1, Removed
  <2>4. DOMAIN q = 1..Len(q)
    BY <2>3, LenProperties
  <2>5. Shaped(r) /\ r.col = t.col /\ r.check = q
    BY <2>2, OtherChecks DEF Shaped
  <2>6. ASSUME NEW j \in DOMAIN q PROVE \E k \in DOMAIN s \ {i} : q[j] = s[k]
    <3> HIDE DEF q, s
    <3>1. CASE j < i
      BY <1>0, <2>1, <2>3, <2>4, <3>1
    <3>2. CASE ~(j < i)
      <4>1. j + 1 \in DOMAIN s \ {i} /\ q[j] = s[j + 1]
        BY <1>0, <2>1, <2>3, <2>4, <3>2
      <4>2. QED
        BY <4>1
    <3>3. QED
      BY <3>1, <3>2
  <2>7. QED
    BY <1>2, <2>2, <2>3, <2>5, <2>6 DEF i, Shortened
<1>3. QED
  BY <1>1, <1>2

(* The statements about the check of a column that is found.               *)
LEMMA CheckIs ==
  ASSUME NEW t, NEW id, NEW old \in OldColumn, old.id = id, Found(t, id, old.name),
         t.check \in Seq(CheckState), NEW p \in PatchBody
  PROVE  LET r == CheckSql(t, old, p, Null) IN
         /\ r # Aborted =>
              Shaped(r) /\ r.col = t.col /\ r.check \in Seq(CheckState)
                /\ ChecksAsked(t, r, id, p)
         /\ CheckOk(t, id, p) => r # Aborted
<1> DEFINE r == CheckSql(t, old, p, Null)
           d == DropFirstCheck(t, old)
           a == AddCheck(d, old.name, p.check)
           own == OwnChecks(t, id)
<1>0. /\ Shaped(t) /\ t # Aborted /\ id \in Column /\ t.col[id].name = old.name
      /\ Undefined # Null
  BY BodiesAssumption DEF Found
<1>1. CASE p.check = Undefined
  <2>1. r = t
    BY <1>0, <1>1 DEF CheckSql
  <2>2. ChecksAsked(t, t, id, p)
    BY <1>1 DEF ChecksAsked
  <2>3. QED
    BY <1>0, <2>1, <2>2
<1>2. ASSUME p.check # Undefined, CheckOk(t, id, p) PROVE d # Aborted
  <2>1. CASE own = {}
    BY <1>0, <2>1 DEF DropFirstCheck
  <2>2. CASE own # {}
    <3>1. t.check[First(own)].con \notin NeedsQuotes
      BY <1>2, <2>2 DEF CheckOk, Replaced
    <3>2. d = DropCheck(t, First(own))
      BY <1>0, <2>2, <3>1 DEF DropFirstCheck
    <3>3. First(own) \in 1..Len(t.check)
      <4>1. Len(t.check) \in Nat /\ own \in SUBSET (1..Len(t.check))
        BY LenProperties DEF OwnChecks
      <4> HIDE DEF own
      <4>2. QED
        BY <2>2, <4>1, FirstIn
    <3> HIDE DEF own
    <3>4. RemoveAt(t.check, First(own)) \in Seq(CheckState)
      BY <3>3, Removed
    <3>5. /\ Shaped(DropCheck(t, First(own)))
          /\ DropCheck(t, First(own)).check = RemoveAt(t.check, First(own))
      BY <1>0, OtherChecks DEF DropCheck, Shaped
    <3>6. QED
      BY <3>2, <3>4, <3>5, NotAborted
  <2>3. QED
    BY <2>1, <2>2
<1>3. ASSUME p.check # Undefined, d # Aborted
      PROVE  /\ Shaped(d) /\ d.col = t.col /\ d.check \in Seq(CheckState)
             /\ d.check = IF own = {} THEN t.check ELSE RemoveAt(t.check, First(own))
             /\ \A i \in DOMAIN d.check :
                  \E j \in DOMAIN t.check \ Replaced(t, id, p) : d.check[i] = t.check[j]
  <2>1. d = DropFirstCheck(t, old)
    OBVIOUS
  <2> HIDE DEF d
  <2>2. Shortened(t, d, id, p)
    BY <1>0, <1>3, <2>1, DropFirstIs
  <2>3. QED
    BY <2>2 DEF Shortened
<1>4. CASE p.check = Null
  <2>1. r = d
    BY <1>0, <1>4 DEF CheckSql
  <2>2. d # Aborted => ChecksAsked(t, d, id, p)
    BY <1>0, <1>3, <1>4 DEF ChecksAsked
  <2> HIDE DEF d, r
  <2>3. QED
    BY <1>0, <1>2, <1>3, <1>4, <2>1, <2>2 DEF r
<1>5. CASE p.check \notin {Undefined, Null}
  <2>1. p.check \in SUBSET Name
    BY <1>5 DEF PatchBody
  <2>2. r = IF a = Aborted THEN Aborted
            ELSE IF Last(a.check).key = {id} THEN a ELSE Aborted
    BY <1>5 DEF CheckSql
  <2> DEFINE k == [con |-> old.name, key |-> {At(d, n) : n \in p.check}]
             s == Append(d.check, k)
  <2>3. a = IF /\ d # Aborted /\ \A n \in p.check : Has(d, n)
               /\ \A i \in DOMAIN d.check : d.check[i].con # old.name
            THEN [d EXCEPT !.check = s] ELSE Aborted
    BY ColumnsAssumption DEF AddCheck, OldColumn
  <2> HIDE DEF a, r
  <2>4. ASSUME d # Aborted, \A n \in p.check : Has(d, n)
        PROVE  /\ s \in Seq(CheckState) /\ Front(s) = d.check /\ Last(s) = k
               /\ Shaped([d EXCEPT !.check = s])
               /\ [d EXCEPT !.check = s].col = t.col
               /\ [d EXCEPT !.check = s].check = s
               /\ [d EXCEPT !.check = s] # Aborted
    <3>1. Shaped(d) /\ d.col = t.col /\ d.check \in Seq(CheckState)
      BY <1>3, <1>5, <2>4
    <3>2. k \in CheckState
      BY <2>4, AtColumn DEF CheckState, OldColumn
    <3> HIDE DEF k, d
    <3>3. s \in Seq(CheckState) /\ Front(s) = d.check /\ Last(s) = k
      BY <3>1, <3>2, Appended
    <3> HIDE DEF s
    <3> DEFINE u == [d EXCEPT !.check = s]
    <3>4. Shaped(u) /\ u.col = d.col
      BY <3>1, OtherChecks
    <3>5. u.check = s
      BY <3>1 DEF Shaped
    <3>6. u # Aborted
      BY <3>3, <3>4, <3>5, NotAborted
    <3>7. QED
      BY <3>1, <3>3, <3>4, <3>5, <3>6
  <2>5. ASSUME r # Aborted
        PROVE  Shaped(r) /\ r.col = t.col /\ r.check \in Seq(CheckState)
                 /\ ChecksAsked(t, r, id, p)
    <3>1. r = a /\ Last(a.check).key = {id} /\ a # Aborted
      BY <2>2, <2>5
    <3>2. d # Aborted /\ (\A n \in p.check : Has(d, n)) /\ a = [d EXCEPT !.check = s]
      BY <2>3, <3>1
    <3>3. /\ Shaped(r) /\ r.col = t.col /\ r.check = s
          /\ s \in Seq(CheckState) /\ Front(s) = d.check
      BY <2>4, <3>1, <3>2
    <3>4. d.check = IF own = {} THEN t.check ELSE RemoveAt(t.check, First(own))
      BY <1>3, <1>5, <3>2
    <3> HIDE DEF s, d
    <3>5. ChecksAsked(t, r, id, p)
      BY <1>5, <3>1, <3>3, <3>4 DEF ChecksAsked
    <3>6. QED
      BY <3>3, <3>5
  <2>6. ASSUME CheckOk(t, id, p) PROVE r # Aborted
    <3>1. d # Aborted
      BY <1>2, <1>5, <2>6
    <3>2. /\ d.col = t.col
          /\ \A i \in DOMAIN d.check :
               \E j \in DOMAIN t.check \ Replaced(t, id, p) : d.check[i] = t.check[j]
      BY <1>3, <1>5, <3>1
    <3>3. /\ p.check = {old.name}
          /\ \A j \in DOMAIN t.check \ Replaced(t, id, p) : t.check[j].con # old.name
      BY <1>0, <1>5, <2>6 DEF CheckOk
    <3>4. Has(d, old.name) /\ At(d, old.name) = id
      BY <1>0, <3>2 DEF Has, At, Found
    <3>5. \A i \in DOMAIN d.check : d.check[i].con # old.name
      BY <3>2, <3>3
    <3>6. \A n \in p.check : Has(d, n)
      BY <3>3, <3>4
    <3>7. a = [d EXCEPT !.check = s]
      BY <2>3, <3>1, <3>5, <3>6
    <3>8. k.key = {id}
      BY <3>3, <3>4
    <3> HIDE DEF k, d
    <3>9. a # Aborted /\ a.check = s /\ Last(s) = k
      BY <2>4, <3>1, <3>6, <3>7
    <3> HIDE DEF s
    <3>10. QED
      BY <2>2, <3>8, <3>9
  <2>7. QED
    BY <2>5, <2>6 DEF r
<1>6. QED
  BY <1>1, <1>4, <1>5

(* The update that turns t into u does what the body asks, and nothing     *)
(* that it does not ask.                                                   *)
Does(t, u, id, p) ==
  /\ Asked(t.col[id], u.col[id], p)
  /\ \A c \in Column \ {id} : u.col[c] = t.col[c]
  /\ ChecksAsked(t, u, id, p)

LEMMA UpdateIs ==
  ASSUME NEW t, Tabled(t), NEW id \in Made(t), NEW old, AsRead(t, id, old),
         NEW p \in PatchBody, NEW u, u = UpdateSql(t, old, p, Null)
  PROVE  /\ u # Aborted => Does(t, u, id, p)
         /\ Possible(t, id, p) => u # Aborted
<1> DEFINE c == t.col[id]
           d == ColumnOf(c, old, p)
           e == NameOf(d, p)
           ok == ColumnOk(c, old, p)
           v == ColumnSql(t, old, p)
           w == CheckSql(v, old, p, Null)
<1>1. u = NameSql(w, old, p)
  BY DEF UpdateSql, ColumnSql
<1>2. /\ Shaped(t) /\ t.check \in Seq(CheckState) /\ id \in Column /\ c \in ColumnState
      /\ Legal(c) /\ old \in OldColumn /\ old.id = id /\ old.name = c.name
  BY DEF Tabled, Shaped, LegalTable, Made, AsRead
<1>3. d \in ColumnState /\ d.name = c.name /\ Asked(c, e, p)
  BY <1>2, ColumnAsked
<1>4. v = IF ok THEN Put(t, id, d) ELSE Aborted
  BY ColumnIs
<1>5. Possible(t, id, p) => ok
  BY <1>2, ColumnAllowed DEF Possible
<1>6. e \in ColumnState
  BY <1>3, NameSets
<1> HIDE DEF d, e, ok
<1>7. CASE ~ok
  <2>1. v = Aborted
    BY <1>4, <1>7
  <2> HIDE DEF v
  <2>2. w = Aborted
    BY <2>1, AbortedStays
  <2> HIDE DEF w
  <2>3. u = Aborted
    BY <1>1, <2>2, AbortedStays
  <2>4. QED
    BY <1>5, <1>7, <2>3
<1>8. CASE ok
  <2>1. v = Put(t, id, d)
    BY <1>4, <1>8
  <2>2. Found(v, id, old.name)
    BY <1>2, <1>3, <2>1, PutFound
  <2>3. /\ Shaped(v) /\ v.check = t.check /\ v.col[id] = d
        /\ \A x \in Column \ {id} : v.col[x] = t.col[x]
    BY <1>2, <1>3, <2>1, PutFields
  <2>4. CheckOk(t, id, p) => CheckOk(v, id, p)
    BY <1>3, <2>3 DEF CheckOk, Replaced, OwnChecks
  <2> HIDE DEF v
  <2>5. /\ w # Aborted =>
             Shaped(w) /\ w.col = v.col /\ w.check \in Seq(CheckState)
               /\ ChecksAsked(v, w, id, p)
        /\ CheckOk(v, id, p) => w # Aborted
    BY <1>2, <2>2, <2>3, CheckIs
  <2> HIDE DEF w
  <2>6. Possible(t, id, p) => w # Aborted
    BY <2>4, <2>5 DEF Possible, CheckOk, Replaced
  <2>7. CASE w = Aborted
    <3>1. u = Aborted
      BY <1>1, <2>7, AbortedStays
    <3>2. QED
      BY <2>6, <2>7, <3>1
  <2>8. CASE w # Aborted
    <3>1. Shaped(w) /\ w.col = v.col /\ w.check \in Seq(CheckState)
      BY <2>5, <2>8
    <3>2. Found(w, id, old.name) /\ w.col[id] = d
      BY <2>2, <2>3, <2>8, <3>1 DEF Found
    <3>3. u = IF NameOk(w, d, p) THEN Put(w, id, e) ELSE Aborted
      BY <1>1, <3>2, NameIs DEF e
    <3> DEFINE r == Put(w, id, e)
    <3>4. /\ Shaped(r) /\ r.check = w.check /\ r.col[id] = e
          /\ \A x \in Column \ {id} : r.col[x] = w.col[x]
      BY <1>2, <1>6, <3>1, PutFields
    <3> HIDE DEF r
    <3>5. r # Aborted
      BY <3>1, <3>4, NotAborted
    <3>6. Does(t, r, id, p)
      <4>1. Asked(c, r.col[id], p)
        BY <1>3, <3>4
      <4>2. \A x \in Column \ {id} : r.col[x] = t.col[x]
        BY <2>3, <3>1, <3>4
      <4>3. ChecksAsked(v, w, id, p)
        BY <2>5, <2>8
      <4>4. ChecksAsked(t, r, id, p)
        BY <2>3, <3>4, <4>3 DEF ChecksAsked, OwnChecks
      <4>5. QED
        BY <4>1, <4>2, <4>4 DEF Does
    <3>7. Possible(t, id, p) => NameOk(w, d, p)
      <4>1. SUFFICES ASSUME Possible(t, id, p), p.name # Undefined, p.name # d.name,
                            NEW x \in Column, w.col[x].name = p.name
                     PROVE  FALSE
        BY DEF NameOk, Has
      <4>2. x # id /\ p.name \in Name
        BY <3>2, <4>1 DEF PatchBody, Optional
      <4>3. t.col[x].name = p.name
        BY <2>3, <3>1, <4>1, <4>2
      <4>4. x \in Made(t) \ {id}
        BY <4>2, <4>3 DEF Made
      <4>5. QED
        BY <4>1, <4>3, <4>4 DEF Possible
    <3>8. QED
      BY <3>3, <3>5, <3>6, <3>7 DEF r
  <2>9. QED
    BY <2>7, <2>8
<1>9. QED
  BY <1>7, <1>8

(* What is read of a column is what the update needs to know of it.        *)
LEMMA ReadIs ==
  ASSUME TableInv, Undisturbed
  PROVE  /\ Tabled(table) /\ req.id \in Made(table) /\ req.body \in PatchBody
         /\ AsRead(table, req.id, req.old)
<1>1. /\ req.id \in Made(table) /\ req.old = Read(req.id) /\ Tabled(table)
      /\ req.old \in OldColumn /\ req.body \in PatchBody
  BY Applying DEF TableInv, Undisturbed
<1>2. /\ req.old.id = req.id /\ req.old.name = table.col[req.id].name
      /\ req.old.identity = table.col[req.id].identity
      /\ req.old.unique <=> table.col[req.id].uniq > 0
  <2> DEFINE c == table.col[req.id]
             b == c.uniq > 0
  <2>1. b \in BOOLEAN
    OBVIOUS
  <2>2. req.old = [id |-> req.id, name |-> c.name, identity |-> c.identity, unique |-> b]
    BY <1>1 DEF Read
  <2> HIDE DEF b, c
  <2>3. /\ req.old.id = req.id /\ req.old.name = c.name /\ req.old.identity = c.identity
        /\ req.old.unique = b
    BY <2>2
  <2>4. req.old.unique <=> b
    BY <2>1, <2>3
  <2>5. QED
    BY <2>3, <2>4 DEF b, c
<1>3. QED
  BY <1>1, <1>2 DEF AsRead

(* A PATCH that nobody disturbs does all that its body asks, to any column *)
(* of any table, and nothing that the body does not mention: the eight     *)
(* statements of Columns.ts:356-369 compose.                               *)
THEOREM PatchesDone == ASSUME Namesakes = {} PROVE Spec => PatchDone
<1>1. TableInv /\ [Next]_columnVars =>
        [Committing /\ others = 0 =>
           /\ Asked(table.col[req.id], table'.col[req.id], req.body)
           /\ \A c \in Column \ {req.id} : table'.col[c] = table.col[c]
           /\ ChecksAsked(table, table', req.id, req.body)]_columnVars
  <2> SUFFICES ASSUME TableInv, [Next]_columnVars, Committing, others = 0
               PROVE  Does(table, table', req.id, req.body)
    BY DEF Does
  <2>1. UpdateSql(table, req.old, req.body, Null) # Aborted
          /\ table' = UpdateSql(table, req.old, req.body, Null)
    BY CommittingStep DEF TableInv
  <2>2. Undisturbed
    BY DEF Committing, Undisturbed
  <2>3. QED
    BY <2>1, <2>2, ReadIs, UpdateIs
<1>2. QED
  BY <1>1, TableInvariant, PTL DEF Spec, PatchDone

(* Who is answered that it was aborted is done, and nothing changes the    *)
(* table that aborted it.                                                  *)
AcceptInv ==
  /\ TableInv
  /\ answer = "aborted" => req.at = "done"
  /\ PatchAccepted

LEMMA AcceptStep ==
  ASSUME Namesakes = {}, AcceptInv, [Next]_columnVars PROVE AcceptInv'
<1>0. TableInv'
  BY TableStep DEF AcceptInv
<1>1. ASSUME answer' # "aborted" PROVE AcceptInv'
  BY <1>0, <1>1 DEF AcceptInv, PatchAccepted
<1>2. ASSUME UNCHANGED columnVars PROVE AcceptInv'
  BY <1>0, <1>2 DEF AcceptInv, PatchAccepted, columnVars, Possible, OwnChecks, Made
<1>3. ASSUME req.at # "done", answer' = answer PROVE AcceptInv'
  BY <1>1, <1>3 DEF AcceptInv
<1>4. ASSUME NEW op, NEW c, NEW p, Retrieve(op, c, p) PROVE AcceptInv'
  <2>1. answer' = "missing" \/ (req.at # "done" /\ answer' = answer)
    BY <1>4 DEF Retrieve
  <2>2. QED
    BY <1>1, <1>3, <2>1
<1>5. ASSUME NEW p, RetrieveTable(p) PROVE AcceptInv'
  <2>1. answer' = "invalid" \/ (req.at # "done" /\ answer' = answer)
    BY <1>5 DEF RetrieveTable
  <2>2. QED
    BY <1>1, <1>3, <2>1
<1>6. ASSUME NEW t, NEW at, NEW ok \in {"none", "data"}, Commit(t, at, ok), req.at = "apply",
             req.op = "update" /\ others = 0 /\ t = Aborted =>
               ~Possible(table, req.id, req.body)
      PROVE  AcceptInv'
  <2>1. CASE t # Aborted
    BY <1>1, <1>6, <2>1 DEF Commit
  <2>2. CASE t = Aborted
    <3>1. table' = table /\ req' = [req EXCEPT !.at = "done"] /\ others' = others
      BY <1>6, <2>2 DEF Commit, Answer
    <3>2. req'.at = "done"
      BY <3>1, KnowsStep DEF AcceptInv, TableInv, ColumnsInv
    <3>3. req'.op = req.op /\ (req.op = "update" => req'.id = req.id /\ req'.body = req.body)
      BY <1>6, <3>1 DEF AcceptInv, TableInv, ColumnsInv, Knows
    <3>4. PatchAccepted'
      <4>1. SUFFICES ASSUME req'.op = "update", others' = 0
                     PROVE  ~Possible(table', req'.id, req'.body)
        BY DEF PatchAccepted
      <4>2. ~Possible(table, req.id, req.body)
        BY <1>6, <2>2, <3>1, <3>3, <4>1
      <4>3. table' = table /\ req'.id = req.id /\ req'.body = req.body
        BY <3>1, <3>3, <4>1
      <4>4. QED
        BY <4>2, <4>3
    <3>5. QED
      BY <1>0, <3>2, <3>4 DEF AcceptInv
  <2>3. QED
    BY <2>1, <2>2
<1>7. ASSUME Update PROVE AcceptInv'
  <2> DEFINE t == UpdateSql(table, req.old, req.body, Null)
  <2>1. Commit(t, "read", "none") /\ req.at = "apply" /\ req.op = "update"
    BY <1>7 DEF Update
  <2>2. others = 0 /\ t = Aborted => ~Possible(table, req.id, req.body)
    BY <2>1, ReadIs, UpdateIs DEF AcceptInv, Undisturbed
  <2> HIDE DEF t
  <2>3. QED
    BY <1>6, <2>1, <2>2
<1>8. ASSUME Create PROVE AcceptInv'
  <2>1. PICK c \in Column : Commit(CreateSql(table, c, req.body), "read", "none")
    BY <1>8 DEF Create
  <2>2. req.at = "apply" /\ req.op = "create"
    BY <1>8 DEF Create
  <2>3. QED
    BY <1>6, <2>1, <2>2
<1>9. ASSUME DropColumn PROVE AcceptInv'
  <2>1. Commit(Drop(table, req.old.name), "done", "data") /\ req.at = "apply" /\ req.op = "remove"
    BY <1>9 DEF DropColumn
  <2>2. QED
    BY <1>6, <2>1
<1>10. ASSUME Refuse \/ ReadBack PROVE AcceptInv'
  BY <1>1, <1>10 DEF Refuse, ReadBack, Answer
<1>11. ASSUME Elsewhere PROVE AcceptInv'
  BY <1>3, <1>11 DEF Elsewhere
<1>12. QED
  BY <1>2, <1>4, <1>5, <1>7, <1>8, <1>9, <1>10, <1>11 DEF Next

(* A PATCH that nobody disturbs is aborted only when what it asks is no    *)
(* legal table, or is one of the cases NeedsTwo names: the order of the    *)
(* statements (Columns.ts:364-369) lets everything else through.           *)
THEOREM PatchesAccepted == ASSUME Namesakes = {} PROVE Spec => []PatchAccepted
<1>1. Init => AcceptInv
  BY TableInit DEF Init, AcceptInv, PatchAccepted
<1>2. AcceptInv /\ [Next]_columnVars => AcceptInv'
  BY AcceptStep
<1>3. AcceptInv => PatchAccepted
  BY DEF AcceptInv
<1>4. QED
  BY <1>1, <1>2, <1>3, PTL DEF Spec
===============================================================================
