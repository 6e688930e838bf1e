-------------------------------- MODULE Columns --------------------------------
(***************************************************************************)
(* src/lib/PostgresMetaColumns.ts over one table: create(), update() and   *)
(* remove() read the table or the column, then send one transaction made   *)
(* of statements that name what was read, then read the result back.       *)
(* Between those statements other sessions may change the table.           *)
(*                                                                         *)
(* Postgres is external: a statement of the transaction either changes the *)
(* table or aborts all of it.  A type is "int" or "text", a default the    *)
(* literal of one, a check the set of the columns its condition names.     *)
(***************************************************************************)
EXTENDS Naturals, Sequences, FiniteSets, SequencesExt

CONSTANTS
  Column,       \* the attribute numbers of the table
  Name,         \* the names columns can have
  Unmade,       \* the name of a column that was not added yet
  Dropped,      \* the name of a column that was dropped
  Undefined,    \* a property that the request body does not have
  Null,         \* null
  Aborted,      \* what an aborted transaction leaves
  NeedsQuotes,  \* the names that are not what they read as without quotes
  Namesakes,    \* keys of the checks of other tables named like ours
  Tables,       \* the tables a request may find
  Patches,      \* the bodies of PATCH
  Bodies,       \* the bodies of POST
  MaxOthers     \* bound on the changes other sessions make

ASSUME ColumnsAssumption ==
  /\ IsFiniteSet(Column) /\ Unmade \notin Name /\ Dropped \notin Name /\ Null \notin Name
  /\ NeedsQuotes \subseteq Name /\ Namesakes \subseteq SUBSET Column
  /\ MaxOthers \in Nat

VARIABLES
  table,   \* its columns and, in the order they were made, its checks
  req,     \* the request: its operation, id and body, where it is, what it read
  answer,  \* what it is answered
  others   \* how often other sessions changed the table

columnVars == <<table, req, answer, others>>

Identity == {"none", "BY DEFAULT", "ALWAYS"}
Made(t) == {c \in Column : t.col[c].name \in Name}

(* What Postgres guarantees of a column. *)
Legal(c) ==
  /\ c.identity # "none" => c.type = "int" /\ c.notnull /\ c.default = "none"
  /\ c.pk => c.notnull
  /\ c.default = "text" => c.type = "text"

LegalTable(t) ==
  /\ \A c \in Made(t) : Legal(t.col[c])
  /\ \A c, d \in Made(t) : t.col[c].name = t.col[d].name => c = d
  /\ \A c, d \in Made(t) : t.col[c].pk /\ t.col[d].pk => c = d
  /\ \A i \in DOMAIN t.check : t.check[i].key \subseteq Made(t)

(* A column, and the bodies of PATCH and POST.                             *)
ColumnState ==
  [name : Name \cup {Unmade, Dropped}, type : {"int", "text"}, notnull : BOOLEAN,
   identity : Identity, default : {"none", "int", "text"}, pk : BOOLEAN, uniq : Nat,
   comment : {Null, "text"}]

(* A check: its name, and the columns that its condition is about.         *)
CheckState == [con : Name \cup {Null}, key : SUBSET Column]

Optional(S) == {Undefined} \cup S

PatchBody ==
  [name : Optional(Name), type : Optional({"int", "text"}), drop_default : BOOLEAN,
   default_value : Optional({"int", "text"}), is_identity : Optional(BOOLEAN),
   identity_generation : Optional({"BY DEFAULT", "ALWAYS"}),
   is_nullable : Optional(BOOLEAN), is_unique : Optional(BOOLEAN),
   comment : Optional({"text"}), check : {Undefined, Null} \cup SUBSET Name]

PostBody ==
  [name : Name, type : {"int", "text"}, default_value : Optional({"int", "text"}),
   is_identity : BOOLEAN, identity_generation : Optional({"BY DEFAULT", "ALWAYS"}),
   is_nullable : Optional(BOOLEAN), is_primary_key : BOOLEAN, is_unique : BOOLEAN,
   comment : Optional({"text"}), check : {Undefined} \cup SUBSET Name]

ASSUME BodiesAssumption ==
  /\ Undefined \notin BOOLEAN \cup {Null}
  /\ Patches \subseteq PatchBody /\ Bodies \subseteq PostBody
  /\ Aborted \notin [col : [Column -> ColumnState], check : Seq(CheckState)]
  /\ \A t \in Tables :
       /\ t = [col |-> t.col, check |-> t.check]
       /\ t.col \in [Column -> ColumnState] /\ t.check \in Seq(CheckState)
       /\ LegalTable(t)

(* One type invariant for the module; a request that goes on knows its     *)
(* column.                                                                 *)
TypeOK ==
  /\ LegalTable(table)
  /\ req.at \in {"idle", "apply", "read", "done"}
  /\ req.at \in {"apply", "read"} /\ req.op # "create" => req.old.name \in Name
  /\ answer \in {"none", "data", "missing", "aborted", "refused", "invalid"}
  /\ others \in 0..MaxOthers

Init ==
  /\ table \in Tables
  /\ req = [op |-> "none", at |-> "idle"]
  /\ answer = "none" /\ others = 0

-------------------------------------------------------------------------------
(* The statements of Postgres.                                             *)

At(t, n) == CHOOSE c \in Column : t.col[c].name = n
Has(t, n) == \E c \in Column : t.col[c].name = n

(* ALTER COLUMN n: allowed when Ok of the column, which becomes New of it. *)
Alter(t, n, Ok(_), New(_)) ==
  IF t # Aborted /\ Has(t, n) /\ Ok(t.col[At(t, n)])
  THEN [t EXCEPT !.col[At(t, n)] = New(@)]
  ELSE Aborted

(* The checks that do not name column c. *)
Unless(c, kept, k) == IF c \in k.key THEN kept ELSE Append(kept, k)
Without(s, c) == FoldLeft(LAMBDA kept, k : Unless(c, kept, k), <<>>, s)

Drop(t, n) ==
  IF t # Aborted /\ Has(t, n)
  THEN [col |-> [t.col EXCEPT ![At(t, n)].name = Dropped],
        check |-> Without(t.check, At(t, n))]
  ELSE Aborted

(* ADD CONSTRAINT con CHECK, whose condition names the columns in names.   *)
(* Null is a name that Postgres picks, which is always free.               *)
AddCheck(t, con, names) ==
  IF /\ t # Aborted /\ \A n \in names : Has(t, n)
     /\ con = Null \/ \A i \in DOMAIN t.check : t.check[i].con # con
  THEN [t EXCEPT !.check = Append(@, [con |-> con, key |-> {At(t, n) : n \in names}])]
  ELSE Aborted

DropCheck(t, i) == [t EXCEPT !.check = RemoveAt(@, i)]

-------------------------------------------------------------------------------
(* The SQL of update(), from what was read (old) and the body (p).         *)

NullableSql(t, old, p) ==
  CASE p.is_nullable = Undefined -> t
    [] p.is_nullable = TRUE ->
         Alter(t, old.name, LAMBDA c : c.identity = "none" /\ ~c.pk,
                            LAMBDA c : [c EXCEPT !.notnull = FALSE])
    [] p.is_nullable = FALSE ->
         Alter(t, old.name, LAMBDA c : TRUE, LAMBDA c : [c EXCEPT !.notnull = TRUE])

(* SET DATA TYPE: identities are integers, and a default is cast only when *)
(* it can be without asking.                                               *)
TypeSql(t, old, p) ==
  IF p.type = Undefined THEN t
  ELSE Alter(t, old.name,
             LAMBDA c : /\ p.type = "text" => c.identity = "none"
                        /\ c.type = "text" /\ p.type = "int" => c.default = "none",
             LAMBDA c : [c EXCEPT !.type = p.type])

DefaultSql(t, old, p) ==
  CASE p.drop_default ->
         Alter(t, old.name, LAMBDA c : c.identity = "none",
                            LAMBDA c : [c EXCEPT !.default = "none"])
    [] ~p.drop_default /\ p.default_value = Undefined -> t
    [] OTHER ->
         Alter(t, old.name,
               LAMBDA c : c.identity = "none" /\ (p.default_value = "text" => c.type = "text"),
               LAMBDA c : [c EXCEPT !.default = p.default_value])

(* identity_generation has a default of its own, BY DEFAULT. *)
Generation(p) ==
  IF p.identity_generation = Undefined THEN "BY DEFAULT" ELSE p.identity_generation

IdentitySql(t, old, p) ==
  CASE p.is_identity = FALSE ->
         Alter(t, old.name, LAMBDA c : TRUE, LAMBDA c : [c EXCEPT !.identity = "none"])
    [] p.is_identity # FALSE /\ old.identity # "none" ->
         Alter(t, old.name, LAMBDA c : c.identity # "none",
                            LAMBDA c : [c EXCEPT !.identity = Generation(p)])
    [] p.is_identity = TRUE /\ old.identity = "none" ->
         Alter(t, old.name,
               LAMBDA c : /\ c.identity = "none" /\ c.notnull /\ c.default = "none"
                          /\ c.type = "int",
               LAMBDA c : [c EXCEPT !.identity = Generation(p)])
    [] OTHER -> t

(* Mutant: only one of the column's unique constraints is dropped.         *)
UniqueSqlFirstOnly(t, old, p) ==
  CASE t = Aborted -> Aborted
    [] t # Aborted /\ old.unique /\ p.is_unique = FALSE ->
         [t EXCEPT !.col[old.id].uniq = IF @ = 0 THEN 0 ELSE @ - 1]
    [] t # Aborted /\ ~old.unique /\ p.is_unique = TRUE ->
         Alter(t, old.name, LAMBDA c : TRUE, LAMBDA c : [c EXCEPT !.uniq = @ + 1])
    [] OTHER -> t

(* Mutant: the constraints of the column that has the name now are dropped.*)
UniqueSqlByName(t, old, p) ==
  CASE t = Aborted -> Aborted
    [] t # Aborted /\ old.unique /\ p.is_unique = FALSE ->
         Alter(t, old.name, LAMBDA c : TRUE, LAMBDA c : [c EXCEPT !.uniq = 0])
    [] t # Aborted /\ ~old.unique /\ p.is_unique = TRUE ->
         Alter(t, old.name, LAMBDA c : TRUE, LAMBDA c : [c EXCEPT !.uniq = @ + 1])
    [] OTHER -> t

(* The loop drops every constraint of the column's number; a constraint is *)
(* added by the column's name.                                             *)
UniqueSql(t, old, p) ==
  CASE t = Aborted -> Aborted
    [] t # Aborted /\ old.unique /\ p.is_unique = FALSE -> [t EXCEPT !.col[old.id].uniq = 0]
    [] t # Aborted /\ ~old.unique /\ p.is_unique = TRUE ->
         Alter(t, old.name, LAMBDA c : TRUE, LAMBDA c : [c EXCEPT !.uniq = @ + 1])
    [] OTHER -> t

CommentSql(t, old, p) ==
  IF p.comment = Undefined THEN t
  ELSE Alter(t, old.name, LAMBDA c : TRUE, LAMBDA c : [c EXCEPT !.comment = p.comment])

(* The checks of a column alone, by their places, the oldest first. *)
OwnChecks(t, c) == {i \in DOMAIN t.check : t.check[i].key = {c}}
First(S) == CHOOSE i \in S : \A j \in S : i <= j

(* DROP CONSTRAINT of the oldest of them; its name goes in without quotes. *)
DropFirstCheck(t, old) ==
  IF t = Aborted \/ OwnChecks(t, old.id) = {} THEN t
  ELSE LET i == First(OwnChecks(t, old.id)) IN
       IF t.check[i].con \in NeedsQuotes THEN Aborted ELSE DropCheck(t, i)

(* Mutant: the assertions on the key of the new constraint are left out.   *)
CheckSqlUnasserted(t, old, p, seen) ==
  CASE p.check = Undefined -> t
    [] p.check = Null -> DropFirstCheck(t, old)
    [] OTHER -> AddCheck(DropFirstCheck(t, old), old.name, p.check)

(* The assertions look the new constraint up by its name alone, so a       *)
(* constraint of another table may be the one that is seen.                *)
CheckSql(t, old, p, seen) ==
  CASE p.check = Undefined -> t
    [] p.check = Null -> DropFirstCheck(t, old)
    [] OTHER ->
         LET u == AddCheck(DropFirstCheck(t, old), old.name, p.check) IN
         IF u = Aborted THEN Aborted
         ELSE LET key == IF seen = Null THEN Last(u.check).key ELSE seen IN
              IF key = {old.id} THEN u ELSE Aborted

NameSql(t, old, p) ==
  IF p.name = Undefined \/ p.name = old.name THEN t
  ELSE Alter(t, old.name, LAMBDA c : ~Has(t, p.name), LAMBDA c : [c EXCEPT !.name = p.name])

(* Mutants: the statements in another order.                               *)
UpdateSqlIdentityFirst(t, old, p, seen) ==
  LET t1 == IdentitySql(t, old, p)
      t2 == DefaultSql(TypeSql(NullableSql(t1, old, p), old, p), old, p)
      t3 == CheckSql(CommentSql(UniqueSql(t2, old, p), old, p), old, p, seen)
  IN NameSql(t3, old, p)

(* "nameSql must be last. defaultValueSql must be after typeSql.           *)
(* identitySql must be after isNullableSql."                               *)
UpdateSql(t, old, p, seen) ==
  LET t1 == DefaultSql(TypeSql(NullableSql(t, old, p), old, p), old, p)
      t2 == CommentSql(UniqueSql(IdentitySql(t1, old, p), old, p), old, p)
  IN NameSql(CheckSql(t2, old, p, seen), old, p)

-------------------------------------------------------------------------------
(* The SQL of create(): ADD COLUMN on an attribute number that was never   *)
(* used, with the check as a constraint that Postgres names.               *)

ConName(t, n, names) ==
  IF names = {n} /\ \A i \in DOMAIN t.check : t.check[i].con # n THEN n ELSE Null

NewColumn(p) ==
  [name |-> p.name, type |-> p.type,
   notnull |-> p.is_nullable = FALSE \/ p.is_primary_key \/ p.is_identity,
   identity |-> IF p.is_identity THEN Generation(p) ELSE "none",
   default |-> IF p.default_value = Undefined THEN "none" ELSE p.default_value,
   pk |-> p.is_primary_key, uniq |-> IF p.is_unique THEN 1 ELSE 0,
   comment |-> IF p.comment = Undefined THEN Null ELSE p.comment]

CreateSql(t, c, p) ==
  IF /\ ~Has(t, p.name) /\ Legal(NewColumn(p))
     /\ p.is_nullable = TRUE => ~NewColumn(p).notnull
     /\ p.is_primary_key => \A d \in Made(t) : ~t.col[d].pk
  THEN LET u == [t EXCEPT !.col[c] = NewColumn(p)] IN
       IF p.check = Undefined THEN u ELSE AddCheck(u, ConName(t, p.name, p.check), p.check)
  ELSE Aborted

-------------------------------------------------------------------------------
(* The requests.                                                           *)

Answer(a) == /\ req' = [req EXCEPT !.at = "done"] /\ answer' = a

(* What retrieve({ id }) returns of a column that the SQL depends on.      *)
Read(c) ==
  [id |-> c, name |-> table.col[c].name, identity |-> table.col[c].identity,
   unique |-> table.col[c].uniq > 0]

(* Mutant: a column that is not there is not told apart.                   *)
RetrieveUnchecked(op, c, p) ==
  /\ req.at = "idle"
  /\ req' = [op |-> op, id |-> c, body |-> p, at |-> "apply", old |-> Read(c)]
  /\ UNCHANGED <<table, answer, others>>

(* update() and remove() read the column first.                            *)
Retrieve(op, c, p) ==
  /\ req.at = "idle"
  /\ IF c \in Made(table)
     THEN /\ req' = [op |-> op, id |-> c, body |-> p, at |-> "apply", old |-> Read(c)]
          /\ UNCHANGED answer
     ELSE /\ req' = [op |-> op, id |-> c, body |-> p, at |-> "done"]
          /\ answer' = "missing"
  /\ UNCHANGED <<table, others>>

(* create() reads the table, and refuses an identity with a default.       *)
RetrieveTable(p) ==
  /\ req.at = "idle"
  /\ IF p.is_identity /\ p.default_value # Undefined
     THEN /\ req' = [op |-> "create", body |-> p, at |-> "done"]
          /\ answer' = "invalid"
     ELSE /\ req' = [op |-> "create", body |-> p, at |-> "apply"]
          /\ UNCHANGED answer
  /\ UNCHANGED <<table, others>>

(* The transaction commits t, or is aborted and rolled back.               *)
Commit(t, at, ok) ==
  /\ IF t = Aborted THEN UNCHANGED table /\ Answer("aborted")
     ELSE /\ table' = t
          /\ req' = [req EXCEPT !.at = at] /\ answer' = ok
  /\ UNCHANGED others

Update ==
  /\ req.at = "apply" /\ req.op = "update"
  /\ \E seen \in Namesakes \cup {Null} :
       Commit(UpdateSql(table, req.old, req.body, seen), "read", "none")

Create ==
  /\ req.at = "apply" /\ req.op = "create"
  /\ \E c \in Column :
       /\ table.col[c].name = Unmade
       /\ Commit(CreateSql(table, c, req.body), "read", "none")

(* remove() answers what it read before.                                   *)
DropColumn ==
  /\ req.at = "apply" /\ req.op = "remove"
  /\ Commit(Drop(table, req.old.name), "done", "data")

(* The rows of the table, or an object that depends on it, do not allow    *)
(* the change.                                                             *)
Refuse ==
  /\ req.at = "apply"
  /\ Answer("refused")
  /\ UNCHANGED <<table, others>>

(* The result is read back: by id after update(), by name after create().  *)
ReadBack ==
  /\ req.at = "read"
  /\ Answer(IF \/ req.op = "update" /\ req.id \in Made(table)
               \/ req.op = "create" /\ Has(table, req.body.name)
            THEN "data" ELSE "missing")
  /\ UNCHANGED <<table, others>>

(* Other sessions: columns are renamed or dropped, identities and          *)
(* constraints come and go.                                                *)
Elsewhere ==
  /\ req.at \in {"apply", "read"} /\ others < MaxOthers
  /\ others' = others + 1
  /\ \/ \E f \in [Made(table) -> Name] :
          /\ IsInjective(f)
          /\ table' = [table EXCEPT !.col =
               [c \in Column |-> IF c \in Made(table) THEN [@[c] EXCEPT !.name = f[c]] ELSE @[c]]]
     \/ \E c \in Made(table) : table' = Drop(table, table.col[c].name)
     \/ \E c \in Made(table), g \in Identity :
          /\ Legal([table.col[c] EXCEPT !.identity = g])
          /\ table' = [table EXCEPT !.col[c].identity = g]
     \/ \E c \in Made(table), u \in 0..2 : table' = [table EXCEPT !.col[c].uniq = u]
     \/ \E c \in Made(table) :
          table' = [table EXCEPT !.check = Append(@, [con |-> Null, key |-> {c}])]
     \/ \E i \in DOMAIN table.check : table' = DropCheck(table, i)
  /\ UNCHANGED <<req, answer>>

Next ==
  \/ \E c \in Column, p \in Patches : Retrieve("update", c, p)
  \/ \E c \in Column : Retrieve("remove", c, Null)
  \/ \E p \in Bodies : RetrieveTable(p)
  \/ Update \/ Create \/ DropColumn \/ Refuse \/ ReadBack \/ Elsewhere

Spec == Init /\ [][Next]_columnVars

-------------------------------------------------------------------------------
(* Properties                                                              *)

Given(x, otherwise) == IF x = Undefined THEN otherwise ELSE x

(* What a PATCH asks of its column c.  The kind of identity is left to     *)
(* IdentityKept below.                                                     *)
Asked(c, d, p) ==
  /\ d.name = Given(p.name, c.name)
  /\ d.type = Given(p.type, c.type)
  /\ d.notnull = ~Given(p.is_nullable, ~c.notnull)
  /\ d.default = IF p.drop_default THEN "none" ELSE Given(p.default_value, c.default)
  /\ (d.identity # "none") = Given(p.is_identity, c.identity # "none")
  /\ (d.uniq > 0) = Given(p.is_unique, c.uniq > 0)
  /\ d.comment = Given(p.comment, c.comment)
  /\ d.pk = c.pk

(* The checks it leaves: the first one of the column alone makes way for   *)
(* the new one, the others stay.                                           *)
ChecksAsked(t, u, id, p) ==
  LET own == OwnChecks(t, id)
      kept == IF p.check = Undefined \/ own = {} THEN t.check ELSE RemoveAt(t.check, First(own))
  IN IF p.check \in {Undefined, Null} THEN u.check = kept
     ELSE /\ Front(u.check) = kept
          /\ Last(u.check).key = {id}

Committing == req.at = "apply" /\ req.op = "update" /\ req'.at = "read"

(* A PATCH that nobody disturbs does what its body asks, all of it, and    *)
(* nothing to what the body does not mention, the other columns included.  *)
PatchDone ==
  [][Committing /\ others = 0 =>
       /\ Asked(table.col[req.id], table'.col[req.id], req.body)
       /\ \A c \in Column \ {req.id} : table'.col[c] = table.col[c]
       /\ ChecksAsked(table, table', req.id, req.body)]_columnVars

(* The changes that take two PATCHes, since the statement that frees the   *)
(* column comes after the one that needs it (Columns.ts:364-369).          *)
NeedsTwo(c, p) ==
  \/ /\ c.identity # "none"
     /\ p.drop_default \/ p.default_value # Undefined \/ p.is_nullable = TRUE \/ p.type = "text"
  \/ c.default # "none" /\ c.type = "text" /\ p.type = "int"

(* The identity a column has after the PATCH, as the code has it.          *)
Target(c, p) ==
  [c EXCEPT !.type = Given(p.type, @), !.notnull = ~Given(p.is_nullable, ~@),
            !.default = IF p.drop_default THEN "none" ELSE Given(p.default_value, @),
            !.identity = CASE p.is_identity = FALSE -> "none"
                           [] p.is_identity = TRUE -> Generation(p)
                           [] OTHER -> @]

Possible(t, id, p) ==
  LET c == t.col[id]
      own == OwnChecks(t, id)
      dropped == IF p.check = Undefined \/ own = {} THEN {} ELSE {First(own)}
  IN /\ Legal(Target(c, p)) /\ ~NeedsTwo(c, p)
     /\ p.name # Undefined => \A d \in Made(t) \ {id} : t.col[d].name # p.name
     /\ \A i \in dropped : t.check[i].con \notin NeedsQuotes
     /\ p.check \notin {Undefined, Null} =>
          /\ p.check = {c.name}
          /\ \A i \in DOMAIN t.check \ dropped : t.check[i].con # c.name

(* A PATCH that nobody disturbs is aborted only when what it asks is not a *)
(* legal table, or is one of the known cases: the order of the statements  *)
(* gets everything else through (Columns.ts:367-369).                      *)
PatchAccepted ==
  answer = "aborted" /\ req.op = "update" /\ others = 0 =>
    ~Possible(table, req.id, req.body)

(* Whatever others did to the names meanwhile, the check an update adds is *)
(* about its own column and no other: "check condition cannot refer to     *)
(* other columns" (Columns.ts:349-353).                                    *)
CheckOwned ==
  [][Committing /\ req.body.check \notin {Undefined, Null} =>
       Last(table'.check).key = {req.id}]_columnVars

(* An update that makes a column not unique leaves no unique constraint on *)
(* it, however many there were and whatever its name is now.               *)
UniqueDropped ==
  [][Committing /\ req.body.is_unique = FALSE /\ req.old.unique =>
       table'.col[req.id].uniq = 0]_columnVars

(* What the comment at Columns.ts:246-253 says and the code does not do:   *)
(* with identity_generation undefined an identity is only "maybe" set, and *)
(* the branch at 260 leaves it alone.                                      *)
IdentityKept ==
  [][Committing /\ others = 0
       /\ req.body.is_identity # FALSE /\ req.body.identity_generation = Undefined =>
       table.col[req.id].identity = "none"
         \/ table'.col[req.id].identity = table.col[req.id].identity]_columnVars
===============================================================================
