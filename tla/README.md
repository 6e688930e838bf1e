# postgres-meta in TLA+

postgres-meta is an HTTP server that describes and changes a PostgreSQL
database. This directory holds TLA+ modules translated from its source, the TLC
configurations that check them on small instances, and proofs, checked by TLAPS,
of what can be proved for every instance. Paths are relative to the root of the
repository; `db.ts:104` is a line of `src/lib/db.ts`.

## 1. Inventory

| component | source | state | operations | interacts with |
|---|---|---|---|---|
| database handle | `src/lib/db.ts` | captured variable `pool`; pg-pool's clients and queue; `error` listeners | `init`, `query`, `end` | pg-pool, the server's sockets |
| request lifecycle | `src/server/routes/*`, `utils.ts`, `generators.ts` | the handler's position; one handle | one per route | handle, Fastify |
| format pool | `src/server/format-pool.ts`, `format-worker.js` | `pool`, `inFlight` | `format`, `destroyFormatPool` | piscina; TypeScript template; shutdown |
| columns | `PostgresMetaColumns.ts` | what `retrieve` read before the DDL | `list`, `retrieve`, `create`, `update`, `remove` | tables component, catalog |
| tables | `PostgresMetaTables.ts` | as columns | the same | catalog |
| publications | `PostgresMetaPublications.ts` | inside one DO block | the same; update may recreate | catalog |
| roles | `PostgresMetaRoles.ts` | as columns | the same; `config` ops | catalog |
| functions | `PostgresMetaFunctions.ts` | as columns | the same; update redefines, renames, moves | catalog |
| schemas, policies, triggers, extensions | the modules of those names | as columns | the same | catalog |
| privileges | `PostgresMetaColumnPrivileges.ts`, `...TablePrivileges.ts` | none | `list`, `grant`, `revoke`, then a re-read | catalog |
| catalog readers | views, materialized views, foreign tables, indexes, types, config, version | none | `list`, `retrieve` | catalog |
| relationships | `PostgresMetaRelationships.ts` and its two queries | the result of the first query during the second | `list`: keys expanded over view dependencies | catalog |
| server process | `server.ts`, `app.ts`, `admin-app.ts` | listening sockets; shutdown | routes, `closeWithGrace` | format pool, all requests |
| type generators | `src/server/templates/*`, `generators.ts`, `server.ts:37` | the lists read so far | ten queries, then one `apply` per language | nine `list()`s, format pool |
| parser, secrets, constants | `Parser.ts`, `secrets.ts`, ... | none | pure, or start-up only | libraries |

All of it runs on the one thread of Node.js. What is concurrent is the
environment: sockets, timers and promise callbacks between two awaits, the
worker threads of the format pool, and the other sessions of the database.

What is hard, and what makes each component correct:

* **Database handle.** A connection can fail before, while and after a statement
  is answered, and the stream error comes separately from the answer. `query()`
  and `end()` may interleave in any way. Correct: no query is handed an ended
  pool; a query's own answer is never replaced by an error of another
  connection; a session whose statement failed, perhaps inside an open
  transaction, is not used again; every query returns; an ended pool closes all
  its connections; no `error` event is uncaught.
* **Request lifecycle.** Handlers end their pool by hand and have no `finally`.
  Correct: every request is answered, with the verdicts of its own statements;
  it uses one connection; it leaves none behind.
* **Format pool.** A count that is incremented and decremented across an await,
  a timeout that races the answer, and a pool destroyed under its callers.
  Correct: the count is exact, load is shed exactly at the limit, and a call
  returns though every thread hangs.
* **Columns, and every operation that acts by name.** The object is read by id,
  the transaction names it, and other sessions act in between; the statements
  of an update must come in an order that lets each succeed. Correct: an
  undisturbed update does what was asked and nothing else; it is refused only
  for what cannot be done; a disturbed one does not move a constraint to another
  column.
* **Publications.** The id changes when the publication is recreated. Correct:
  the answer is about the publication that was updated, and what the body does
  not mention is kept.
* **Privileges and readers.** Several grants in one block, and an answer filtered
  by id, by name or by nothing. Correct: the answer is of what was asked for, and
  shows it done.
* **Server process.** A shutdown meets requests in the middle of a format call,
  clients that hang up, and a grace period. Correct: no client that waits loses
  its call to the shutdown, and a process that is told to end does.
* **Relationships.** Foreign keys expanded over views, views over views, several
  columns of a view from one column of a table, keys seen only in part. Correct:
  the list is every foreign key between every way to read its two sides.
* **Type generators.** Ten queries see the database at ten moments; types are
  looked up by name; each language has its own idea of a name. Correct: what is
  written refers to what is written, types and arguments are those of the
  database, the languages agree on what an Insert may leave out, and generation
  does not throw for ordinary databases.

## 2. Modules

```
Db  <-  Request             Admission  <==  FormatPool  <-  Shutdown       Columns
|       |                                   |               |              |
MCDb    MCRequest                           FormatProofs <- ShutdownProofs MCColumns
DbProofs <- RequestProofs                                   MCShutdown     ColumnsProofs

Catalog  <-  Tables, StoredFunctions, Roles, Publications, Named,
             Privileges, Readers  <-  Operations  <-  MCOperations, OperationsProofs

Introspection  <-  Relationships, TypescriptTemplate, GoTemplate <- PythonTemplate,
                   SwiftTemplate  <-  Generate  <-  MCGenerate, GenerateProofs
        (<- EXTENDS, <== refinement)

ListFolds: left folds, one step at a time (the lemma FoldSteps), for the proofs
```

### Db

The handle of `db.ts`. The closure's `pool` and the pools that were ended; for
each `query()` the pool it was given, the position of its statement in pg-pool
(`stmt`), the connection carrying it (`on`), and the promise that `db.ts` wraps
round it: `listening` (its one-shot `error` listener is still attached), `timer`
(a rejection is scheduled with `setTimeout`), `handled`, `result`.

* `CallQuery` is `query()` up to its first await: a temporary pool when the
  handle was ended, the listener, `pool.query`. `CallEnd` is `end()`: the handle
  is reset *before* the pool is ended. `Settle` is the `then`/`catch` of
  `pool.query` with everything that follows it up to the return.
* `ConnError` is an `error` event of the pool: every listener schedules its
  rejection and goes away; with no listener the exception is uncaught.
  `RejectStray` is that timer.
* `ConnectOk`, `ConnectFail`, `StatementOk`, `StatementError`, `GiveUp`,
  `IdleTimeout`, `ConnClosed` are pg-pool, the server and the network. They are
  external and say what `db.ts` may rely on: a client whose statement failed is
  removed (`release(err)`), a waiting item is served when a client is released,
  `end()` retires the idle clients at once and the others when they come back.
* `MicrotaskPending` gives promise callbacks precedence over timers and
  sockets; a stream error that is already on its way may come before them.

pg-pool serves its queue in order; here any waiting query may be next, which
allows more behaviours. The text of statements and errors, the type parsers and
the rewriting of the connection string are left out.

### Request

One HTTP request: `Db` driven by a handler that runs its statements one after
the other, stops at the first failure, calls `end()` and answers.
`RespondErrorWithoutEnd` is the error path of the generator routes, `Throw` an
exception out of the library (`PostgresMetaRoles.ts:241`). Which of these a route
has is `skips`, chosen in the first state and never changed, so that one run
covers all kinds of routes. `Outside` lets the network move only while the
handler does not hold the thread.

### FormatPool and Admission

`FormatPool` has the two module variables of `format-pool.ts` and the way of
each call: `Shed`, `Admit` (`inFlight++`, the pool made on first use, `run`),
`Start`/`Finish`/`Abort` in piscina, `Answer`/`Return` (the `finally`), and
`Destroy`. `Admission` is what callers are promised, in 30 lines: at most
`Bound` permits, refused exactly when all are held, each given back once.
`FormatPool` implements it (`Admits`), with the set of admitted calls as `held`.

### Shutdown

`FormatPool` inside the process of `server.ts`: each call belongs to one
`GET /generators/typescript`, whose client waits, hangs up or is answered
(`client`), and `phase` is how far the closing function of lines 164-176 is:
`Signal`, `Close` (`app.close()`, then `adminApp.close()`), `DestroyPool`,
`Exit`; `ForceExit` is the grace period of close-with-grace. fastify's `close()`
is external: it stops accepting and waits for the clients that are connected.
A handler whose client hung up is waited for by nobody, runs on, and may call
`format()` after the pool was destroyed, which makes another pool; that pool ends
with the process, because close-with-grace ends the process itself. The steps of
a format call are those of `FormatPool`, without change: the theorem
`ProcessImplementsPool` says that the process takes no others.

### Columns

`create()`, `update()` and `remove()` of `PostgresMetaColumns.ts` on one table.
`Retrieve` reads the column; `Update` is the whole transaction as the composition
of the eight statement builders in the order of lines 367-375
(`UpdateSql`), each a function from a table to a table or to `Aborted`;
`ReadBack` is the answer. `Elsewhere` is another session: renames (swaps
included), drops, changes of identity, of unique constraints and of checks.
The model looks columns up by name where the SQL does, and by number where it
does (the unique and check constraints). PostgreSQL's rules are external: which
`ALTER` a column allows (`Alter` with its condition) and what it guarantees of a
table (`LegalTable`, part of `TypeOK`). A type is `int` or `text`, a default the
literal of one, a check the set of columns its condition names: enough for the
conflicts among the properties (identity with default, type with default,
nullability with identity and primary key). `Refuse` is any refusal for the rows
of the table or its dependent objects. `seen` in `CheckSql` is the constraint
that the lookup by name finds: the new one, or one of the same name on another
table (`Namesakes`).

### Catalog, the modules of the object kinds, Operations

The other kinds of objects share a shape, which is `Catalog`: objects with an id,
a kind, a place in which the name is unique (a schema, a table, the database), a
name and attributes; statements as functions from a catalog to a catalog or to
`Aborted`; and the steps of a request, `Retrieve`, `Commit`, `ReadById`,
`ReadByName`, `Delete`. `Elsewhere` drops, renames or swaps objects. The SQL of
each kind is a module of its own:

* `Tables`: row level security, replica identity, primary key (looked up by the
  table's id, dropped by its name), comment, then the move, then the rename.
* `StoredFunctions`: `CREATE OR REPLACE` with the check that it met the function
  of the id, then the rename, then the move under the new name. The options that
  a new definition resets are one attribute, `strict`.
* `Roles`: the options, the config ops as a fold over the list of the body, the
  exceptions on an unknown op or an empty path, then the rename.
* `Publications`: the DO block, with `Recreate` when the publication goes between
  some tables and all tables. The id changes; `row` is the id that is answered.
* `Named`: schemas, policies, triggers and extensions.
* `Privileges`: `grant` and `revoke` on tables and on columns, each a fold of one
  statement per item, and the rows of the answer. An access control list is a set
  of [grantee, grantor, privilege, grantable] entries. The spelling of `public` is
  a set of names (`grantee.toLowerCase() === 'public'`).
* `Readers`: `GET` of one or all views, materialized views, foreign tables and
  indexes. A query is the set of its rows; the code takes any of them as the
  first, since the queries have no ORDER BY.

`Operations` puts them together: one request of any kind, and the other
sessions. The names of schemas and tables are places, not objects, so a rename
of the schema of a table is not among what others do; a swap with a table of
another schema has the same effect on the SQL.

### Introspection, Relationships, the templates, Generate

Type generation is in three layers.

* `Introspection` is what the nine `list()`s read: a database is a record of
  schemas, relations, types, functions and keys, and each list is the set that
  its SQL selects, with the schema filters of `helpers.ts` and what the role may
  see. A relation has the role's `access` to all of it and each column a `granted`
  of its own: tables are listed by any privilege (`SeesTable`), columns one by one
  (`SeesColumn`). Rows keep only what the generators use. A name is a sequence of
  words and separators, so that `formatFor...Name`, the array underscore and the
  quotes of PostgreSQL can be written down without characters: `Quote` is what
  `regnamespace::text` and `format_type()` make of a name with a dash or a dot, the
  two that stand for all that is quoted. `Prototype` is the name `constructor`, which
  stands for all that JavaScript's `in` finds in any `{}`. `HasDefault` keeps the misalignment of
  `functions.sql.ts:133-137`. `LegalDatabase` is what PostgreSQL keeps of a
  catalog: oids and names are unique, what is referred to exists, each key has
  columns of its table. It is external, and the only thing that the properties
  and the proofs may count on.
* `Relationships` is `PostgresMetaRelationships.ts`: the two queries and the
  expansion of lines 71-162. What the second query parses out of rewrite rules is
  taken as its result, the column that a view's column comes from; the recursion
  over views, the grouping by constraint name and the HAVING are modelled. Three of
  the queries' filters compare a schema as `regnamespace::text` (`PassesQuoted`), the
  others by `nspname`; where the two differ the lateral join has no rows and the
  columns of a key are null, here `<<>>`.
* `TypescriptTemplate`, `GoTemplate`, `PythonTemplate`, `SwiftTemplate` are what
  `apply()` makes of nine lists, whether or not they fit each other: the names
  declared, the names referred to, the columns that an Insert may leave out, and
  when `apply()` throws. Where the code takes the first of several rows the
  operators give the set of those it may take.
* `Generate` reads the lists one query after the other, as `getGeneratorMetadata`
  does for a route (`mode = "route"`: stops at the first error, and leaves its
  pool) or as `getTypeOutput` does for a process that only generates
  (`"process"`: nine at once on a pool of one connection, all awaited). `seen`
  keeps the database each query saw; `Elsewhere` renames, moves, drops, creates
  and revokes in between, where PostgreSQL lets it (`Changed` is those of
  `Statements` that leave a legal database). `Write` applies a template to `Lists`.

## 3. Runs

All runs let the system stop (`CHECK_DEADLOCK FALSE`): the callers make finitely
many calls and then nothing is left to do.

| run | instance | states | what it shows |
|---|---|---|---|
| `MCDb_races` | 3 queries, `MaxClients` 2 | 533 250 | queries race with each other, with `end()` and with failures |
| `MCRequest_answers` | 4 statements, `MaxClients` 2 | 69 074 | a request answers, with its own verdicts, and leaves nothing |
| `MCShutdown_format` | 3 requests, limit 2, 1 thread | 145 596 | exact count; implements `Admission`; calls return or the process ends; a shutdown spares the clients that wait |
| `MCColumns_patch` | 2 columns and room for a third; bodies of up to two properties; one change elsewhere | 1 191 220 | PATCH does what is asked, is accepted when possible, keeps to its column |
| `MCOperations_objects` | 13 kinds, one or two objects of a kind and room for a third, 2 names, 2 places; bodies of up to two properties or two grants; one change elsewhere | 1 620 424 | PATCH as for columns; a disturbed one changes one object; publications survive recreation; answers are of what was asked |
| `MCGenerate_lists` | 5 databases, 6 filters, both modes, one failing query, one change elsewhere, 4 languages | 346 334 | generated types |
| `MCDb_kill`, `MCDb_temporary`, `MCDb_uncaught`, `MCColumns_identity`, `MCColumns_namesake`, `MCOperations_foreign` | as above | | a counterexample each, see "Findings" |

Why the bounds are enough to meet the interesting cases:

* Two clients and three queries: one query waits while two run, two connections
  fail in either order, `end()` meets busy, idle and connecting clients, and a
  query follows `end()` into a temporary pool. A property of `Db` relates at most
  two queries and the pool. `MaxClients` is 1 in production
  (`constants.ts:69-76`); 2 shows more. `Query`, as set of connections too, needs
  no bound of its own.
* Four statements are more than any loop-free handler needs to reuse, lose and
  reopen its connection; the proofs cover any number.
* Three calls against a limit of two on one thread: one runs, one is queued, one
  is shed, and a call can come after the pool was destroyed. Pools destroyed and
  remade are named by calls.
* Columns: one column takes every legal combination of type, nullability,
  identity, default and primary key, or every number of unique and check
  constraints; bodies have up to two of the ten properties, with every value,
  since each ordering constraint among the statements is between two of them.
  `MaxOthers` = 1 change by others: any permutation of the names, or one drop, or
  one constraint.
* Operations: the object of the request has every combination of its attributes
  (tables: every key and replica identity), the other one every place it can
  have beside it. The room for a third is the publication that is made again, or
  the object of a POST. The order of two statements matters to no third. Two
  grants in a list meet the same relation or another, a column and its table, a
  grant option that others depend on; a third relation and column are not there.
* Generate: `Shop` has tables, views over a view, a composite with an enum in
  another schema, arrays, and functions with defaults, OUT arguments, row
  arguments and embeddings; `Pairs` composite keys seen whole, in part and twice,
  a view on either side, and a type named `constructor` in an array and as an
  attribute; `Namesakes` types, tables and keys that share names; `Dashed` a schema
  and a relation whose names are quoted, with privileges on one column of a table, or
  DELETE alone, or none, and a column of a type named `constructor`; `Corners` a
  schema that may not be used, one of another session, a foreign table whose row is
  an attribute, a view of `pg_catalog`, a materialized view in `information_schema`,
  and a schema, a type and a function named `constructor`. The filters include a
  schema, exclude one, do both at once, or ask for `pg_catalog`. The changes by
  others grant and revoke too.
  One change by others, since each query sees the database before or after it.

### Properties

| property | says |
|---|---|
| `NotRefused` (Db) | whatever the interleaving of `query()` and `end()`, no query is handed an ended pool |
| `FailedConnRetired` (Db) | a connection whose statement failed carries no other |
| `OwnOutcomeFirst` (Db) | an error of the pool becomes a query's answer only while its statement is unanswered; an answer stays |
| `EveryQueryReturns`, `EndedPoolDrains` (Db) | liveness of queries, and of the connections of an ended pool |
| `ServerSurvives`, `OwnVerdict`, `OneConnection` (Request) | a handler's sequence of statements hides the weaknesses of the handle: no uncaught error, its own verdicts, one connection |
| `AnswerReleases` (Request) | no connection is open once the answer is sent, on every way out but an exception |
| `EveryRequestAnswered`, `ConnectionsReleased` (Request) | liveness |
| `InFlightExact`, `NoCallOnDestroyed`, `Admits` (FormatPool) | the count is that of the calls in flight; no call is left on a destroyed pool; `Admission` is implemented |
| `ShutdownSparesCalls` (Shutdown) | only the call of a client that hung up is rejected by the destruction of the pool |
| `EveryFormatReturns` (Shutdown) | every admitted call returns, or the process ends; a process that began to close ends |
| `PatchDone` (Columns) | an undisturbed PATCH does all its body asks, and nothing else to any column |
| `PatchAccepted` (Columns) | an undisturbed PATCH is aborted only if what it asks is no legal table, or for the known reasons: the combinations with identity that need two PATCHes (the TODO at 361), text to int under a default, a check's name that needs quotes |
| `CheckOwned`, `UniqueDropped` (Columns) | constraints go to, and from, the column of the id, also when the names have changed since they were read |
| `UpdatesDone`, `UpdatesAccepted` (Operations) | the same as `PatchDone` and `PatchAccepted`, for every other kind: conjunctions of `TableDone`, `FunctionDone`, `RoleDone`, `NamedDone` and of their `...Accepted` |
| `OneObject` (Operations) | a PATCH changes one object only, though its names be stale |
| `RedefinesOwn` (StoredFunctions) | a definition goes to the function of the id or nowhere, whoever renames meanwhile |
| `PublicationKept` (Publications) | the publication under the answered id has all that the body asks and, from before, all it does not mention, recreated or not |
| `AnswersTrue` (Operations) | `PrivilegesShown`: the answer to a list of grants or revokes is of what they modified and shows them done. `RowsAsked`: the row of a GET is that of the id or name, with its own columns or definition; the exceptions of indexes and of pages of materialized views are written out |
| `TypescriptResolves` (Generate) | the TypeScript refers to nothing it does not declare, whatever other sessions did between the queries |
| `ColumnTypesRight` | the type written for a column is its own, unless another type can be mistaken for it by name (`Mistakable`) |
| `RelationshipsExact` | the relationships are those of the reference definition `AllRelationships`, when no two keys of one name reference one table, no key is out of column order, and no key is of an included schema whose name is quoted (`PlainKeys`) |
| `EmbedsDeclared` | a relationship or an embedding that is written names a relation and columns that are written, but for a table that the role has no privilege on and for columns that it has none on, unless two relations have one name when joined with a dot (`SameBucket`) |
| `ThrowsOnlyIf` | generation throws only in the cases it lists; types, functions and schemas named like members of `Object.prototype` are among them, in TypeScript and in Go |
| `InsertsAgree` | the four languages let an Insert leave out exactly the columns that PostgreSQL fills, of those the role has a privilege on |
| `DeclaredOnce` | no two declarations of Go, Python or Swift share a name, unless the database's names can be confused (`Confusable`), or Python borrows the name `Object` for a schema named `constructor` that is not listed |
| `OptionalArgs` | an argument is optional exactly when a call may leave it out, for functions whose inputs come first |
| `ReferencesResolve` | Python and Swift refer to names they declare, but for the cases it lists, `Object` for a type named `constructor` in Python among them |

The cases that a property excepts are what the code gets wrong or leaves open, at
the lines that its comment or a hazard of `PROJECT.json` names. The properties of
`Generate` from `ColumnTypesRight` on, `ThrowsOnlyIf` apart, are of generations
that no other session disturbed: between queries of one moment each, lists that do
not fit are unavoidable.

The modules of the handle, the requests, the pool, the process, the columns and the
catalog have one type invariant each (`TypeOK`, `RequestTypeOK`, `ShutdownTypeOK`); that of `Columns`
includes what PostgreSQL guarantees of a table, that of `Catalog` that names are unique.

### Fairness

* `Db`: a connection attempt ends, a running statement ends, a waiting query is
  given up or served, a closing socket closes. The code justifies it with
  `connectionTimeoutMillis` and `query_timeout` of `DEFAULT_POOL_CONFIG`
  (`constants.ts:69-76`); with `queryTimeoutSecs=0` (`utils.ts:36`) the second is
  gone and the liveness properties are not claimed. Promise and timer callbacks
  run. Nobody has to call `query()` or `end()`, and no error has to happen.
* `Request`: also pg-pool's `idleTimeoutMillis`, and the handler goes on.
* `Shutdown`: while the process lives the timeout signal of a call fires and its
  callbacks run (`FORMAT_TIMEOUT_MS`, `constants.ts:101`), and the grace timer of
  close-with-grace fires (`SHUTDOWN_GRACE_PERIOD_MS`, `constants.ts:112-113`). A
  thread that has a task need never finish, no client has to wait or hang up, and
  no signal has to come.
* `Columns`, `Operations` and `Generate` have safety properties only.

Weak fairness is enough everywhere: each fair action stays enabled until it or
an equivalent one happens.

### Findings

Disagreements between a comment and the code, each with a run whose
counterexample shows it:

1. `db.ts:236` names `end` without calling it, where the comment says the
   connection is killed (`MCDb_kill`).
2. A temporary pool is ended only if its query succeeds (`MCDb_temporary`,
   `db.ts:108`, `144`).
3. The `error` listeners are one-shot and shared: two connection errors in one
   turn leave the second uncaught (`MCDb_uncaught`, `db.ts:24`, `49`). `Request`
   shows that a sequential handler never gets there; nine queries at once, as in
   `server.ts:52`, can.
4. `GET /foreign-tables/:id` may answer any foreign table: the ids filter is given
   to the query of the columns only (`MCOperations_foreign`,
   `PostgresMetaForeignTables.ts:114`).
5. A PATCH of any property of an `ALWAYS` identity column makes it `BY DEFAULT`:
   the branch that would leave it alone cannot be taken (`MCColumns_identity`,
   `PostgresMetaColumns.ts:194`, `260`).
6. The assertions on a new check look the constraint up by name only
   (`MCColumns_namesake`, `PostgresMetaColumns.ts:345`).

The exceptions of the properties show more of the kind, without a doc that says
otherwise: an exception in the library skips `end()` (`PostgresMetaRoles.ts:241`; an
error *answer* without `end()` leaves nothing, which `AnswerReleases` shows), the
columns of a page of materialized views are limited with it, the definition and the
attributes of an index are joined by the wrong things, defaults shift when an OUT
argument comes before an input, foreign keys of one name are taken for one,
one-to-one is missed for keys out of column order, an included schema whose name needs
quotes has its foreign keys listed with null for their columns
(`sql/table_relationships.sql.ts:41`), an unusual name, schema or composite type
makes a whole generation throw, and a table is listed without the columns that the
role has no privilege on, so that an Insert may lack what PostgreSQL requires.

## 4. Proofs

TLAPS checks, for every value of the constants that the assumptions below allow:

| theorem | module | property |
|---|---|---|
| `DbTyped`, `NeverRefused`, `OwnOutcomeComesFirst`, `FailedConnIsRetired` | `DbProofs` | `TypeOK`, `NotRefused`, `OwnOutcomeFirst`, `FailedConnRetired` |
| `RequestTyped`, `ServerAlwaysSurvives`, `VerdictsAreOwn`, `AtMostOneConnection`, `AnswersReleaseConnections` | `RequestProofs` | `RequestTypeOK`, `ServerSurvives`, `OwnVerdict`, `OneConnection`, `AnswerReleases` |
| `FormatTyped`, `CountNeverDrifts`, `DestroyedPoolsEmpty`, `FormatAdmits` | `FormatProofs` | `TypeOK`, `InFlightExact`, `NoCallOnDestroyed`, `Admits` |
| `ProcessImplementsPool`, `ProcessAdmits`, `ShutdownTyped`, `ShutdownSpares` | `ShutdownProofs` | `Spec` of `FormatPool`, `Admits`, `ShutdownTypeOK`, `ShutdownSparesCalls` |
| `GenerateInvariant`, `ReferencesDeclared`, `TypescriptResolved`, `ColumnTypesAlwaysRight`, `AlwaysExact`, `EmbedsAlwaysDeclared`, `ThrowsAlwaysOnlyIf`, `InsertsAlwaysAgree`, `AlwaysDeclaredOnce`, `ArgsAlwaysOptional`, `AlwaysResolved` | `GenerateProofs` | `TypescriptResolves`, `ColumnTypesRight`, `RelationshipsExact`, `EmbedsDeclared`, `ThrowsOnlyIf`, `InsertsAgree`, `DeclaredOnce`, `OptionalArgs`, `ReferencesResolve` |
| `ColumnsTyped`, `PatchesDone`, `PatchesAccepted`, `UniquesAlwaysDropped`, `ChecksAlwaysOwned` | `ColumnsProofs` | `TypeOK`, `PatchDone`, `PatchAccepted`, `UniqueDropped`, `CheckOwned` |
| `OperationsInvariant`, `TypeCorrect`, `UpdatesAlwaysDone`, `AbortsJustified`, `AnswersAlwaysTrue`, `OneObjectOnly`, `AlwaysRedefinesOwn`, `PublicationsKept` | `OperationsProofs` | `TypeOK`, `UpdatesDone`, `UpdatesAccepted`, `AnswersTrue`, `OneObject`, `RedefinesOwn`, `PublicationKept` |

Assumptions, each evaluated by TLC in the runs:

* `DbAssumption`: a finite set of queries, distinct names for the main pool and
  for "none", `MaxClients` positive. `FormatAssumption`: the same for the pool.
* `ColumnsAssumption`, `CatalogAssumption`, `RolesAssumption`,
  `PrivilegesAssumption`: ids and columns are finite, and the markers (`Undefined`,
  `Null`, `NoKey`, ...) are no values.
* The bodies are what the schemas of `types.ts` let through: `BodiesAssumption` of
  `Columns` and of `Catalog`, `TableBodiesAssumption`, `RoleBodiesAssumption`,
  `PrivilegeBodiesAssumption`.
* The catalogs and tables to start from are ones that Postgres can hold:
  `BodiesAssumption` of `Columns`, `CatalogsAssumption` (names unique in their place,
  each object with the attributes of its kind), `PublicationsAssumption` (a
  publication of all tables lists none), `DatabasesAssumption` (`LegalDatabase`).

**Db.** `NotRefused` is not inductive. `DbInv` adds that the captured pool is
never ended (`HandleOpen`: `end()` drops the handle first, the hazard of the
comment at `db.ts:104`), that a temporary pool is ended only after its query has
started (`FreshTemporary`), that listeners and timers belong to queries that were
called, that a running statement has a connection, and that a handled statement
has an answer. The proof first reduces what serving pg-pool's queue can change
to `StartsWaiting`, then treats the seven network actions at once, then the
actions of `db.ts` one by one. `OwnOutcomeComesFirst` follows from the invariant
because only `Settle` and `RejectStray` write `result`.

`FailedConnIsRetired` has an invariant of its own, `Carried`: a query without a
connection opened none, one that was not called has none, a running statement has a
busy connection to itself, and a failed one has left a connection that is closing,
failing or closed. The third is what serving the queue could break; it does not,
because the clients it hands out are idle or new.

**Request.** `RequestInv` says that a request is sequential: at most one query is
outstanding (`Sequential`), nothing ever waits for a client (`NoneWaits`), at
most one connection is not closed (`OneConnection`), an outstanding query has its
listener attached (`PendingListens`), a timer is pending only for a query that
is already answered (`TimersLate`), and every connection that can still emit an
error has a listener that hears it (`Heard`). The last is why the one-shot
listeners suffice here and not in `Db`: the failure that removes the listener
also retires the only connection. `AnswersReleaseConnections` uses a second
invariant over `RequestInv`: once a statement failed no connection is open.

**FormatPool.** `FormatInv` relates the pool to the calls on it (a queued or
running call is on a pool that is not destroyed) and the count to the set of
admitted calls; the count changes with the set through `FS_AddElement` and
`FS_RemoveElement`. The refinement maps `Admit`, `Shed`, `Return` to `Enter`,
`Shed`, `Leave` and all else to a stutter.

**Shutdown.** `ProcessImplementsPool` takes each action to the action of
`FormatPool` in it, or to a stutter, so that the pool's theorems carry over.
`ShutdownSparesCalls` needs `ShutdownInv`: once the closing function is past `Close`
no client waits, and none arrives.

**Generate.** `ReferencesDeclared` is about the template alone: for *any* record of
nine sets, each reference that `Reference` yields is to a type or relation of a
listed schema that was found in its section, and that section is written for each
listed schema. No assumption relates the lists to each other or to a database, and
so `TypescriptResolved` holds whatever happens between the queries.

`GenerateInv` is inductive: every database that a query saw is legal, the queries
made are among the ten (so that a tenth one means all of them), and a generation
that threw had a reason in its lists. When nobody interfered, the lists are those
of one legal database (`UndisturbedLists`), and what is left to prove is about the
list operators and the templates:

* `AlwaysExact` compares what `list()` computes with the reference definition. The
  rows of `KeyColumns` that share table, name and side are those of one key
  (`FromRows`, `ToRows`, where `PlainKeys` is needed); the view shows as many of them
  as the key has columns only if it shows all (`WholeSide`); ordered by their place
  they are the key's columns (`OrderedSide`: a rising list of n numbers that has all
  up to n is 1 .. n, `OnlyOrder`); and the fold of `InColumnOrder` has exactly the
  columns it is asked for (`OrderedImage`), which makes `is_one_to_one` right. `PlainKeys` also gives that the
  filters on quoted names agree with the plain ones for the keys of the list. How a
  view's column comes from others is the same on both sides and is not opened.
* `EmbedsAlwaysDeclared`: a side of a relationship has its columns in the database
  (`SidesHaveColumns`), and a relation of a listed schema is in a list, with the
  columns that the role may see, unless it is a table without any privilege
  (`SideRelated`). That the key of two names is the relation's own needs
  `~ SameBucket` and no more. For a function, the relation is found by oid or by the row type
  that the function returns (`RelationReturned`, `EmbeddingNamed`).
* `ColumnTypesAlwaysRight`: taking underscores off finds the element's name, and a
  type that cannot be mistaken is the only candidate left in the first section that
  has the name. `AlwaysDeclaredOnce`: joined words that end in no operation, with an
  operation behind them, are different for different objects (`SuffixDecides`, by
  cancelling the last element). `AlwaysResolved` and `ThrowsAlwaysOnlyIf` follow a
  name to the list that has it, or to the reason why it has not: `LeftOut` shows that
  the only types that `types.list()` leaves out are rows of foreign tables, and
  `PassingListed` which schemas are not listed, and `KindListed` that a list asks for
  the system schemas only for materialized views.
* `InsertsAlwaysAgree` and `ArgsAlwaysOptional` compare the flags of a column, and the
  place of an argument among the inputs, with those of the database.

The attempts corrected the model. `ThrowsOnlyIf` did not hold of a filter that
asks for a schema of PostgreSQL, `ColumnTypesRight` not of a type named like a
built-in one, and `DeclaredOnce` not of a name that ends in an operation; the
properties name these cases, and `MCGenerate_lists` has the first. Databases
and statements that PostgreSQL would refuse are gone from the runs.

**Columns.** `TableInv` holds two things. `ColumnsInv`: the table keeps its columns
and the shape of its checks, and a request that goes on knows the column it began
with. `Tabled`: it is a table that Postgres can keep, and while nobody disturbs
an update, what was read is what there is. Each clause of `UpdateSql` has two
lemmas: what it keeps of a table, and what it makes of the column if it is not
aborted, and when it may be aborted. The checks are a list, from which `DROP COLUMN`
and `DROP CONSTRAINT` take elements by folds (`ListFolds`). For
`UniquesAlwaysDropped`: the unique constraints go before the comment, the check and
the name, so it remains to see that those leave `uniq` alone. For `PatchesDone`
the clauses are composed in the order of the code, which is where a clause could
undo or miss what another did: the name last, the default and the type around
`NullableSql`. `ChecksAlwaysOwned`, `PatchesDone` and `PatchesAccepted` assume
`Namesakes = {}`, no constraint of another table with a name used here: without
it `MCColumns_namesake` has a counterexample.

**Operations.** The proofs first say what the statements do, without a state:
`Does(o, u, i, ref, at)` is that catalog `u` is `o`, but for the object `i`, which is
found under `ref` and has the attributes `at`. `SetAttrDoes`, `RenameDoes`, `MoveDoes`,
`AddDoes`, `DropStored` and `RecreateDoes` say this of single statements;
`UpdateSqlDoes` composes them for every kind, in the order the code sends them:
the update is aborted only where `Impossible` says so, else one object has what the
body asks. The ops of a role's configuration and the items of a list of
grants or revokes are folds of any length. `FoldSteps` gives the catalogs between
their elements, and an induction (`ConfigDoes`, `PrivilegesFold`) shows that what
one element did the following ones keep: a later op on the same key prevails, a
later grant takes no privilege away.

`OperationsInv` is then inductive: the catalog is `Stored` (one that Postgres can
keep), a request on its way has its `Form` (an id, a body of its kind, an object
that was read), `Undisturbed` (what was read is what there is, as long as nobody
else acted), `PrivilegesMade` (a list that committed is fulfilled until it is
answered; other sessions only take relations away), `AbortSound` and `AnswersTrue`.
Without `Undisturbed` nothing could be said of an update by the names it read, and
without `PrivilegesMade` nothing of the rows that are read after the block. The other
sessions act at every point, and rename, move, swap and drop objects; so
`AlwaysRedefinesOwn`, `OneObjectOnly` and `PublicationsKept` say what holds of an
update that was disturbed.

Model-checked only: the liveness properties, for which TLAPS has no rule under
fairness. Every safety property of a passing run is proved.

## 5. Not modelled

* The parser, `secrets.ts`, the wording of errors and SQL, status codes, the
  connection string, Sentry, the hooks of `routes/index.ts`, the `config` and
  `version` readers: wrappers, declarations and text, with no state of their own.
* External, and modelled only by what the code relies on: PostgreSQL, pg-pool,
  piscina, fastify, close-with-grace.
* `db.ts`: the timeouts as session settings (127-135) and the positions of errors
  in the text of a statement (148-216).
* Operations: overloading of functions, memberships and passwords of roles, the
  columns in the answer about a table, schemas as objects that others rename while
  a table in them is updated; of privileges, role membership and which grantor
  PostgreSQL picks; offsets, and the schema filters of a list outside generation.
* Type generation: wording, order and formatting, the conflicts among overloads,
  the types of fields in Go, domains, keys of partitions (`conparentid`), the
  primary keys among the view dependencies (not used by `list()`), duplicate names
  in Swift property lists. `?included_schemas=` with an empty list element, which
  filters by the schema named "".

What could follow: the error positions as a pure function.
