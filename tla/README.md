# lightsql in TLA+

lightsql is an embeddable SQL database in Go: a versioned heap with snapshot
isolation, a write-ahead log, a PostgreSQL-flavoured parser, binder and executor,
and a `database/sql` driver over them. This directory holds specifications of
the parts where order, concurrency and failure decide correctness, the
configurations TLC checks them with, and proofs checked by TLAPS.

## The system

| Component | State it keeps | Operations | Talks to |
|---|---|---|---|
| `internal/storage`: `TxManager` | next id, status per id, active set, journal | `Begin`, `Commit`, `Abort`, `Status`, `Take`, `Horizon`, `SetJournal` | every heap asks it for outcomes |
| `internal/storage`: `Heap` | versions with `XMin`/`XMax`, next row id | `Insert`, `Load`, `Delete`, `Scan`, `Vacuum` | `TxManager` |
| `internal/storage`: `Tx` | level, snapshot, failed/done flags, journal, buffered records | `BeginTx`, `NextStatement`, `Fail`, `Log`, `LogNow`, `RenameLogged`, `ForgetLogged`, `Commit`, `Rollback` | manager, journal |
| `internal/wal` | the file, its handle, the directory lock, dirty and replayed flags | `Open`, `Replay`, `Write`, `Checkpoint`, `Close` | the file system, other processes |
| `internal/engine` | the history of schema statements, the log | `open`/`recover`, `withTx`, `run`, `Query`, `ExecBatch`, `Checkpoint`, `Close`, `OpenAt` | all of the above, the executor |
| `internal/catalog` | tables by name, columns, constraints, indexes, incoming references, sequences | DDL, row access, constraint and foreign key checks | heaps; the binder by callback |
| `internal/exec` | per statement: operator state, touched tables, versions acted on | INSERT, UPDATE, DELETE, referential actions, ON CONFLICT, query operators | catalog, storage |
| `internal/binder`, `internal/plan` | none (a plan holds `*Table` pointers) | syntax to plan | catalog |
| `internal/types`, `internal/builtin` | none | values, decimals, three-valued logic, casts, aggregates | |
| `internal/scanner`, `internal/parser`, `internal/ast`, `internal/token` | none | text to syntax | |
| `driver` | registry of instances; per connection its transaction | `Connect`, `BeginTx`, `Commit`, `Rollback`, `ResetSession`, `Drop` | engine |
| `cmd/lightsql`, `internal/features`, `compat` | shell state | terminal, documentation, parity tests | driver |

How they interact. Goroutines of `database/sql` each run one statement at a time
on one connection. A statement runs inside a transaction (its own when there is
none), reads the heap through a snapshot, writes versions stamped with its id,
and buffers one log record per row. Commit writes the buffer as one frame, then
marks the id committed. Schema statements change the catalog at once, add to the
engine's history and write their own frame at once. Closing checkpoints: history
and rows go to a new file that is renamed over the log. Opening replays it.

What is hard, and what would make each part correct:

* *Transactions.* Snapshots against concurrent begins and commits; two writers
  of one version; a statement that failed half way; vacuuming under a stale
  horizon. Correct: a transaction reads one instant (or one per statement), no
  update is lost, nothing a reader may need is discarded.
* *Log.* A crash at any system call, errors of any system call, two processes.
  Correct: what was acknowledged is recovered; what may be lost is a suffix; one
  opener at a time.
* *Engine.* Rows written at commit and schema at once, both by table name, while
  other connections run; checkpoints and Close while the database is in use;
  several restarts. Correct: the log can be replayed at every moment and yields
  the committed rows.
* *Catalog and executor.* Constraints judged over snapshots; cascades through
  cyclic foreign keys over versions scanned earlier; statements bound before a
  schema change. Correct: every constraint holds of the committed rows.
* *Driver.* Handles used after their transaction ended, pools, `Drop` while in
  use. Correct: a handle finishes only its own transaction.
* *Query operators and values.* Equality, hashing and ordering agree; joins,
  groups and set operations return what their definition says.

`PROJECT.json` lists every hazard at its line, with the properties that guard
it or why there is none yet.

## Modules

### SnapshotIsolation — the promise of `internal/storage`

A store of committed rows and a private view per transaction. No ids, no stamps.
Commit applies all writes at once; a row is deleted by at most one transaction
that does not abort.

### Storage — `txn.go`, `heap.go`, `tx.go`

One action is one critical section of `TxManager.mu` or `Heap.mu`. `BeginTx`
takes the manager's lock more than once and is two actions, `Begin` and
`BeginSnapshot`. A statement is `BeginQuery` or `BeginWrite` (both
`NextStatement`, the second with `CheckWritable`), any number of `Scan`s, then
one action per row: `Insert`, `Delete`, `DeleteConflict`. `Table.Update` is a
`Delete` into the phase `"replacing"` and an `Insert`. `EndStatement` and
`FailStatement` are the two ways through `withTx`. `Commit` has a parameter for
whether the journal accepted the records. `Vacuum` is given any horizon that was
current at some time. A version is its id: its values never change.

`Snapshot.committed`, `Version.Visible`, `Heap.deadTo` and the conflict test are
operators with the code's order of tests.

`SI` maps a state to `SnapshotIsolation`: the store is what a snapshot taken now
would see, a view is what the transaction's snapshot sees.

### Wal — `internal/wal`

A directory maps names to inodes, an inode holds frames and how many of them
have been flushed. Each system call of `Open`, `Replay`, `Write`, `Checkpoint` and
`Close` is an action, and an error of it another one with the code's error path.
`Kill` ends one process and may tear the frame it writes. `PowerFailure` keeps
what was flushed, any prefix of what was not, and any version of the directory
since the last one known to be durable. The file system is external to the
repository; `flush`, `dirOp` and `survives` are what `log.go` assumes of it.
`FsyncNames` says that flushing a file also flushes the entry that names it, as
journaling file systems do. `Open` flushes no directory, so where it is FALSE a
power failure can lose the name of a log that was just created, with everything
acknowledged in it.

### Engine — `persist.go`, `journal.go`, and the catalog's names

The log is a sequence of records; `Replayed` is `recover`: `Replay` folds `apply`,
one record, over the log, and `History` is what `rememberSchema` collects on the
way (`Kept`, which also filters a buffer in `ForgetLogged`). `Restart` is a crash, or a close, and the next `Open`. A connection's
transaction buffers records (`Tx.Log`), `Flush` and `Commit` are the halves of
`Tx.Commit`. A schema statement is three actions, as nothing is held between
them: catalog and buffer (`CreateTable`, `RenameTable` with `RenameLogged`,
`DropTable` with `ForgetLogged`), `RememberSchema`, `LogNow`. A checkpoint is
`CheckpointBegin` (the snapshot), `CheckpointSchema`, `CheckpointScan`,
`CheckpointInstall`; Close goes on with `DetachJournal` and `CloseLog`. Statements
on rows are one step each, since Storage has their interleavings, and a write of
the log is one step, since Wal has its crashes.

### Catalog and Statements — `catalog.go`, `exec.go`, `conflict.go`, the binding of both

A catalog is a value: the table a name refers to, and the `*Table` structs in
order of creation, so that a number stands for a pointer. A schema statement is
an operator from a catalog to the set of its outcomes, empty when it fails; a
constraint is an operator on the rows, a function on the positions of their
versions.

`Statements` runs them. The executor recurses through referential actions; here
a statement carries an *agenda*, the calls it has still to make. `Start` is
`NextStatement` (or an implicit transaction), the binding and the scan; each
`Step` makes the first call and puts what that call makes in turn in front of the
rest; `Finish` is the checks at the statement's end (`CheckTable` of the table
named and of those that actions wrote to) with `withTx` around them. The calls
are `row` (the body of the loop of `ExecUpdate` and `ExecDelete`, with
`applyRefActions`), `write` (the heap update that ends it), `child`
(`applyRefAction`), `remove`, and `store` (`ExecInsert`'s, with identity
sequences and ON CONFLICT). Since a call is a step, statements of different
connections interleave between rows. `execDDL` is a schema statement, and
`Restart` a crash and recovery, with `RestoreSequences` from the committed rows.

A behaviour belongs to one scenario, chosen in `Init`: a schema, its rows, the
statements that connections may run, and bounds. `Levels` is a chain of cascades
with a short cut, `Cycle` a table that refers to itself, `Diamond` a row at the
end of two paths, `Keys` has UPDATEs that collide on the way, partial indexes,
CHECK, ON CONFLICT and restarts, `Contended` two connections at once, `Changing`
schema statements between the others. In all but `Contended` a transaction
writes only while no other does (`alone`): constraints are judged over what one
transaction sees, and two that overlap can each be right and both be wrong
together; see *Seen while reading*.

The properties compare with definitions that have no order: `Doomed` is the
closure of the matched rows under ON DELETE CASCADE, `Moved` the rows after an
UPDATE, both functions of the rows there were when the statement began.
`Views` are the transactions that could read now, `FreshViews` those that could
start a statement now.

### Values, Numbers, Binding, Execution, Meaning, Queries — a SELECT

* `Values` is `internal/types`: kinds, `Compare`, `Hash`, three-valued logic,
  casts, and decimals in both representations, the word with its overflow checks
  (`decimal_value.go`) and the one without bounds (`decimal.go`). A float is a
  binary fraction of `FloatBits` bits and is rounded wherever the code rounds:
  `AsFloat` divides the rounded digits of a small decimal by a power of ten and
  rounds again, `Float64` rounds a quotient of `big.Float`s and then to a float,
  and float arithmetic rounds its exact result. The scale of a quotient is cut at
  `MaxScale`, past which `pow10` panics (`Panicked`). The widths are constants.
  `Numbers` states what everything else takes for granted of them.
* `Binding` is the binder for queries. The scopes the Go code points at and
  writes to are a stack that binding takes and gives back; names become ordinals
  and levels, aggregate calls and grouping keys positions in a group's row.
* `Execution` is the tree of operators. An operator is a record, and `Next` gives
  the operator after the call with what the call returned: scan, filter, the
  joins (all of them nested loops), aggregation, sort, DISTINCT, limit, set
  operations, and expressions with their subqueries over a stack of outer rows.
* `Meaning` is what a query means: names instead of ordinals, whole tables
  instead of cursors, no hashes, counts or marks, numbers compared by
  multiplying out. It takes from the code only the kinds
  of columns, casts, the rounding of a result to a float and the scale of a
  quotient, which `Numbers` is about.
* `Queries` composes them: `Begin` binds and builds, each `Pull` is one `Next` of
  the root. `Answers` says that the rows pulled are the rows meant, in the order
  promised, and that there is an error exactly where the query has no meaning. A
  behaviour may instead show one `value` of the sample, which then meets all
  others in the properties of `Numbers`.

Operators of these modules pass results on as parameters (a "bound" operator and
a "built" one behind it) where a LET would do. TLC evaluates an argument once
and measures a LET's body at every use, and the expressions are recursive.

### Configurations and variants

`MCWal` and `MCEngine` add symmetry for TLC, `MCStatements` the scenarios and
`MCQueries` the syntax of queries, their families and the tables. Definitions
commented `(variant)` are mutated forms, used by no specification: replacing the
definition they vary by them must break a property.

## Runs

| Run | What it asks | Bounds |
|---|---|---|
| `storage` | types; the inductive invariants of the manager and of the heap; lost updates; stability of snapshots; repeatable reads; vacuum; refinement of SnapshotIsolation | 3 ids (boot and two transactions), 3 rows, one recovered; vacuum between transactions |
| `storage_vacuum_unseen` (violated) | whether Vacuum may discard what a running snapshot sees | 3 ids, 2 rows, vacuum at any time |
| `wal` | acknowledged commits survive; losses are suffixes; one opener; the handle and the kept generation | 2 processes, 2 writes, 2 checkpoints, 2 crashes, every fault, both settings of fsync |
| `wal_dirsync` (violated) | the same guarantee when the directory cannot be flushed | 3 writes, no crash |
| `engine` | the log is always replayable and matches the running database | 2 connections, 2 transactions per opening, 2 tables, 3 schema statements, 2 rows, 1 restart, failing appends, quiet checkpoints |
| `engine_rename` (violated) | replay when a rename and another connection interleave | 2 connections |
| `engine_stale` (violated) | replay when a prepared INSERT outlives its table | 1 connection |
| `engine_checkpoint` (violated) | a commit during a checkpoint | 1 connection beside the checkpoint |
| `engine_sync` (violated) | an aborted transaction whose flush failed | 1 connection |
| `statements` | keys, references, NOT NULL, CHECK and identities hold of what can be read; incoming references and stored syntax agree with the tables; DELETE and UPDATE mean what their foreign keys say; statements end | 6 scenarios, 1 to 4 tables of up to 4 rows, 1 or 2 connections, 2 or 3 transactions after the boot one, 2 or 3 statements, 1 restart |
| `queries` | answers are the ones meant, with the columns announced; values order, hash, add and divide as they should | 357 queries on each of 4 databases of two tables with up to 4 rows; decimals of 25 digit strings and 4 scales around the ends of a word of 7 bits, with integers and floats of 4 bits |
| `queries_correlated` (violated) | whether a correlated subquery works wherever the outer row is named | 2 queries, the same databases |

Why the bounds are enough. In Storage every property relates at most two
transactions and a third that committed earlier (the boot transaction), and
three rows allow a recovered row, its replacement and an unrelated one. A
deletion that is rolled back and taken over by the other transaction fits. What
needs more transactions is proved for every number of them. In Wal, two
checkpoints give the generation that is kept a
predecessor, two crashes allow a crash after recovery from a crash, and two
writes are enough to order a loss. In Engine a schema statement can follow rows
of the same transaction, a second one can undo or repeat it, and one restart
followed by more work makes recovery's own results recoverable. Two connections
suffice because a third could only repeat what a second does to the first.
Every bound of these is a constant with a guard commented `bound`.

In Statements a bound belongs to its scenario. Two statements let one work on
what the other left, in one transaction or two, with a rollback or a failure
between; the chain has three levels, the cycle comes back to its start and the
diamond closes, which is every shape the set of versions seen has to deal with;
three statements let a schema change stand between two others.

In Queries the widths are small so that their ends are reached: a word holds -64
to 63 (`WordMax`), a small decimal has one digit behind the point
(`MaxSmallScale`), a quotient two significant digits (`MinSigDigits`) taken one at
a time (`DecDigits`) and at most three places (`MaxScale`, 1000 in the code), a
float four bits (`FloatBits`) and as many binary places (`FloatPlaces`), and a
`big.Float` seven (`GuardBits`). So 17 is no float, quotients lose digits to the
limit of places, and conversions round. With 64 bits and 18 digits TLC would never
overflow; the
code treats the widths as parameters in all but name, and `NumbersProofs` does so
in fact. Four rows with a NULL, a duplicate key and a key without partner give
every join, group and set operation a row for each of its branches, and each
table is empty in one of the databases. The 357 queries are every choice of the
parts of six families, not a sample.

`CHECK_DEADLOCK FALSE` stands in every configuration: when the bounded ids, rows
and crashes are used up the model stops, and so does a database nobody calls.

`engine` admits what the code handles: schema statements run while the other
connection is between transactions (`Alone`), statements are bound to current
tables (`Stale` FALSE), checkpoints find the database quiet. The three violated
engine runs lift one of these restrictions each, and `engine_sync` adds failing
flushes; lifting two would only give the shorter counterexample again.

`statements` keeps schema statements apart from rows that are not committed:
catalog changes take effect at once and for everybody (`execDDL` requires that
nothing is being written). What goes wrong when they overlap is `engine_rename`'s
and `engine_stale`'s matter for the log, and listed below for constraints.

Fairness. Only `Statements` has any: `WF_vars(Step(s) \/ Finish(s))` for every
connection s, that is, a statement that runs goes on running. The code justifies
it: a statement runs in its caller's goroutine and waits for nobody, since a
conflict is an error and no lock is held between rows. From it `StatementsEnd`
follows: whatever cycle its cascades lead through, a statement ends, because a
version is marked as seen before its own children are looked for. Connections are
not obliged to start, commit or roll back anything. The other modules assume no
fairness and state no liveness property: nothing in them runs in the background,
retries or waits. A query ends by construction of `Queries` (every pull shortens a
finite input), so no property says so.

## Findings

* **`storage_vacuum_unseen`.** `Horizon` is the lowest active id, but a snapshot
  excludes ids that have finished since. Begin 2, begin 3 with a snapshot
  excluding 2, let 2 delete a row and commit: the horizon is 3, the row goes,
  and 3 no longer reads it. Only tests call `Vacuum` today.
* **`wal_dirsync`.** A checkpoint whose `syncDir` fails leaves the log appending
  to the replaced inode.
* **`engine_rename`.** The catalog is renamed before the log knows; another
  connection's commit under the new name precedes the rename in the log, and the
  database does not open again.
* **`engine_stale`.** A prepared INSERT executed after DROP TABLE logs a row
  behind the drop; the database does not open again.
* **`engine_checkpoint`.** A commit between a checkpoint's snapshot and its
  rename is in the replaced log only. `Close` checkpoints before it detaches the
  journal.
* **`engine_sync`.** A frame whose flush failed is replayed, although its
  transaction aborted.

* **`queries_correlated`.** A subquery counts as correlated when the scope it was
  bound in was marked (`binder/expr.go:326`). The arms of a set operation and the
  arguments of an aggregate are bound in other scopes, so the mark is lost and
  the subquery fails with an internal error, where the README says that a
  correlated subquery works at any depth.

Seen while reading and not run.

*Storage, log and engine.* An INSERT can commit ahead of the CREATE of another
connection that its table came from; a CREATE between a checkpoint's copy of the
history and its listing of the tables leaves rows without their table; a
transaction begun after `Close` detached the journal commits in memory only; row
ids of deleted rows are reused after a restart (`heap.go:13` says never), which
`engine` shows to be harmless; a checkpoint that cannot link has already removed
`wal.old`; `Open` failing on the header keeps the directory locked until the
garbage collector runs.

*Statements.* Two concurrent transactions can each insert the same key, or one a
child and the other delete its parent: both commit. SET NOT NULL judges what its
transaction sees, CREATE UNIQUE INDEX no row at all, and ADD COLUMN's CHECK and
REFERENCES are not held against the stored rows (its CHECK is not even bound).
SET NULL and SET DEFAULT do not go on to the rows that refer to the child by the
columns they change, a self-referencing DELETE with SET DEFAULT ends without a
check, and CHECKs are not run on rows a cascade wrote. ON CONFLICT DO UPDATE
applies no referential action and may assign a GENERATED ALWAYS column. An UPDATE
of a table that refers to itself with ON UPDATE CASCADE can write a row twice,
and one that shifts keys (`id = id + 1`) can take a child with the wrong parent;
the version set marks a row as seen for all of its foreign keys at once. The
scenarios use none of these combinations; the properties fail for them.

*Queries.* Ordinals after a comma join followed by JOIN ... ON are positions in
the scope; USING with RIGHT and FULL joins gives NULL from the left copy of the
column; an outer reference inside a grouped query is resolved in the group;
`int IN (2.5)`, CASE and COALESCE over int and numeric round to int; set
operations over different numeric kinds compare unconverted; `2^3` is typed
bigint; abs and round of a numeric give a float; integer overflow wraps;
`Decimal.Int64` says it truncates and rounds. The families use none of these.

*Values.* Compare converts an int or a numeric that meets a float to a float, and
rounds. So `Compare` (`value.go:272`, "a total order over all values") is not
transitive over kinds: 2^53 and 2^53 + 1 are both equal to the float 2^53. And
"values comparing equal hash equally" (`value.go:376`) fails for the same pair,
since an int hashes its exact digits; for decimals that `AsFloat`, which rounds
twice, takes to another float than `Float64`, by which they hash; and possibly for
two equal decimals of different scales, one of them of more than 64 bits, whose
quotients are rounded at different precisions. A quotient has "at least sixteen
significant digits, never fewer places than either operand had"
(`decimal_parse.go:110`) only up to 1000 places: `1e-1000 / 1e100` gives 0, an
operand of more places may give a quotient with fewer, and with much more
(`1e-2000 / 1`) the exponent is negative and `pow10` panics, which nothing
recovers. The model does all of this: with four bits, 17 is equal to the float 16
and hashes apart. The properties of `Numbers` name the values they are about
(`Held`, `Unrounded`, `Columns`, and `MaxScale` in `DivisionNearest`), and without
these restrictions TLC finds `EqualHashAlike`, `CompareIsTotal` and the promise of
digits in `DivisionNearest` violated.

*Driver.* A handle holds its connection, not its transaction; cursors of READ
COMMITTED evaluate their subqueries lazily, with the snapshot of a later
statement; an autocommit query commits before its rows are read; a batch outside
a transaction commits statement by statement; nothing outside the tests calls
`Vacuum`.

## Proofs

`StorageProofs` proves, for every number of transactions and rows:

* `TypeCorrect`: `Spec => []TypeOK`
* `StorageInvariant`: `Spec => []StorageInv`
* `NoUpdateLost`: `Spec => []NoLostUpdate`
* `SnapshotAnswersStable`: `Spec => SnapshotsStable`

from `BoundsAssumption` only. `NoLostUpdate` is not inductive: that two
transactions were not both told they deleted a version follows from where the
version's stamp points, and a stamp may be overwritten once its owner aborted.
`StorageInv` adds what is missing. `ManagerInv` ties `next`, `status`, `active` and
`phase` together, so that a conflict test on a status says who is still running.
`Settled` says that every id a snapshot does not exclude has finished, so its
answers cannot change: this is where taking the snapshot under the manager's
lock is used. `StampInv` says that a reported deletion is still stamped unless
its transaction aborted. The proof has one lemma per conjunct and one step per
action under it; `OutcomesFinal` (ids only grow, an outcome is final) and
`SnapshotsRetaken` (a snapshot is kept or taken anew) serve several of them.

It goes on from there, to the heap and the abstract specification:

* `HeapInvariant`: `Spec => []HeapInv`
* `VacuumHarmless`: `Spec => VacuumKeepsCurrent`
* `ReadsRepeat`: `Vacuuming # "any"` implies `Spec => RepeatableReads`
* `Implements`: `Vacuuming # "any"` implies `Spec => ImplementsSnapshotIsolation`

`HeapInv` says what stamps mean. `StampsIssued`: a version whose insertion has not
committed is deleted by nobody but its own transaction; otherwise an aborted
insertion could leave a deletion behind, and a scan would not be the view plus
the transaction's own writes. `HeldInv`: a statement holds only rows that were its
own or committed, and drops them when it ends, which is what gives
`StampsIssued` its step at `Delete`. `Gone`: what Vacuum discarded is invisible
to every running transaction and to every later one, which needs the outcome of
its deleter to be final and every new snapshot to see it (`GoneStays`). With it
the mapping is one lemma per action. `StoreFixed`: nothing but a commit changes
the store, as what a running or aborted transaction stamped counts for nothing in
it. `ViewFixed`: a view moves only with its snapshot. `ScanReads`: a scan returns
the view, with the transaction's insertions and without its deletions.
`CommitRefines`: one change of one status moves the store by everything the
transaction wrote. The condition on `Vacuuming` cannot be dropped:
`storage_vacuum_unseen` is the counterexample.

`WalProofs` proves, for every number of processes, writes, checkpoints and
crashes, and every set of system calls that may fail:

* `TypeCorrect`: `Spec => []TypeOK`
* `OneOpenerAlways`: `Spec => []OneOpener`
* `WritesNamedLogAlways`: `Spec => []WritesNamedLog`
* `AckedRecoverableAlways`: `FsyncNames` implies `Spec => []AckedRecoverable`

from `WalAssumption`, by the invariant `WalInv`. That an acknowledged transaction
is recovered says nothing of the steps that could lose it, so `WalInv` follows it
through them. Whoever is past `Open` holds the lock (`LockInv`), so of all
processes one changes files: the lemma `OthersClosed` is what each case begins
with. That process holds what was acknowledged among the live rows (`AckedLive`),
appends behind frames that all decode (`Whole`), flushes the last frame
(`AtEnd`), and its checkpoint's new file describes all that is live before it gets
the log's name (`Described`). `DurableInv` is what a power failure needs: in
*every* version of the directory that may survive, the log's inode has each
acknowledged transaction in a flushed frame behind frames that decode. This is
where the order of the checkpoint's flushes counts: the file is flushed before it
is renamed, and both versions of the name lead to a log that has everything.
`DurableInv` and the handle's name hold while no flush of the directory has
failed; `wal_dirsync` shows why. Where `FsyncNames` is false the theorem is not
claimed, as a new log's name may be lost.

`DurabilityProofs` proves `GenerationAlwaysComplete`: `Spec => []GenerationComplete`,
with no condition on the file system or the faults. The property compares two
files, the log and the generation before it, and the invariant `GenInv` says where
each thing that was acknowledged may be. `OnPlatter`: a frame that carries something
acknowledged is flushed, in *whichever* file it is, so that linking a file under
`wal.old` keeps what it had. That needs `InFlight`, that the transaction on its way
to being acknowledged is in no frame but the last one of the log. `LiveLogged`: what
a process holds and was acknowledged is in the log, which a checkpoint is about to
make the previous generation; `Linked` and `Generation` say so of every version of
the directory a power failure may leave. A flush of the directory that fails
(`unsynced`) ends the promise, as the property says.

It also proves `LosesOnlySuffix`: `Spec => LosesSuffix`, again without a condition: with syncing off, and where a new log's name can be lost, recovery may find
less but never something without what was written before it. The invariant
`OrderInv` is stated over `Logs`, what recovery would find in each file. `Sorted`: the
frames of a file are in the order of the writes, so that whatever shrinks a file
(`Shrinks`: a truncation, a torn frame, pages that were not written back) loses an end of it
(`ShrinksDown`). `VersionInv`: a later version of the directory names a later
inode, and its log has nothing older than what an earlier version's log has and is
missing there (`Agree`); so going back to an earlier version loses an end as well
(`FollowEnds`). At the rename of a checkpoint the log is replaced by what is live:
`LiveAgrees` makes that comparable with every version, and `LiveFirst` says what the
log has beyond it, a transaction whose write was reported as failed, which is later
than all of it. `Covers` is about a handle left behind on an old inode after the
directory could not be flushed: what is appended there cannot overtake what the newer
log has, because the newer log has nothing more.

`NumbersProofs` proves all four properties of `Numbers`, for every width of words and
floats, every limit of the scale, every base and number of significant digits, and every
sample of values as the constructors make them (`SampleAssumption`, which TLC
evaluates for the sample of the run):

* `WordArithmeticExact`: `DecimalPathsAgree`, the fast paths of `decimal_value.go`
  (add, subtract, multiply, negate, remainder, compare) give what `decimal.go` gives
  without bounds. The checks after the fact are the hard part: that `x + y`
  overflowed exactly when the sign is wrong (`AddIsExact`) and that `x * y` did
  exactly when dividing by x does not give y back (`MulIsExact`), both from the fact
  that a wrapped result is off by a multiple of the modulus.
* `ColumnsAreOrdered`: `CompareIsTotal`. Two decimals compare alike at every scale
  that has room for both (`CmpAtAnyScale`), so three can be compared at one. In a
  column of one kind or of the exact kinds nothing is converted; numbers of all
  kinds that floats hold compare as they are (`EqualsCompareAlike`). Antisymmetry
  holds rounded or not, since what is compared are the same two floats
  (`CompareTurns`); transitivity across kinds does not, and is not claimed.
* `EqualsHashAlike`: `EqualHashAlike`, for values that are no numbers or are held by
  floats, and for exact numbers that are whole or of at most `GuardBits` bits. A
  number has one sequence of digits without zeros at their end (`StrippedOnce`), so
  equal numbers are both whole, and hash as that integer, or neither. If a float
  holds them the bits are those digits. If not, equal decimals must be rounded to
  the same float: equal fractions are rounded alike at one precision
  (`EqualsRoundedAlike`), and within `GuardBits` the precision is one
  (`PrecisionIsThere`).
* `QuotientsAreNearest`: `DivisionNearest`, for operands of at most `MaxScale` places.
  The leading digit to PostgreSQL's base is one of that base's and bounds the number
  from both sides (`LeadBounds`); that is why the scale wanted is enough for the
  significant digits (`EnoughPlaces`), in particular when the dividend's leading
  digit is the smaller one, and the scale is the one wanted below the limit
  (`PlacesWithinLimit`). One truncated place more, rounded, is the nearest
  (`QuotientIsNear`): the truncation cannot make a tie of what is not one.

The assumptions are `WidthsAssumption` and `PowersAssumption`, which states what the
provers do not know of `^` and TLC evaluates for the widths of the run. The last three
theorems have the same fact for all exponents as their hypothesis `PowersOfTen`
(`10^0 = 1` and `10^(n+1) = 10 * 10^n`), and the two about order and hashes also
`PowersOfTwo`, which is arithmetic and nothing about the code;
TLC cannot evaluate it, since it is about all numbers. What follows from it by
induction (powers are positive, grow and add up) is proved from the least number that
would fail.

`EngineProofs` proves, for every number of connections, tables, names, rows,
schema statements, checkpoints and restarts:

* `EngineTypes`: `Careful` implies `Spec => []TypeOK`
* `ReplayAlwaysRuns`: `Careful` implies `Spec => []ReplayOK`
* `HistoryAlwaysLogged`: `Careful` implies `Spec => []HistoryLogged`
* `RecoveryAlwaysMatches`: `Careful` and `"sync" \notin Faults` imply
  `Spec => []RecoveryMatches`
* `AbortedAlwaysStaysOut`: the same imply `Spec => []AbortedStaysOut`

from `EngineAssumption`. `Careful` is the conjunction of the three restrictions
that the run `engine` works under (`Alone`, no stale statement, no checkpoint beside
a transaction). None can be dropped, and neither can the one on `Faults`: each has
a violated run, `engine_rename`, `engine_stale`, `engine_checkpoint` and
`engine_sync`. Failing appends, and restarts in the middle of anything, are in.

The properties speak of a log between schema statements; the invariant `IInv` has
to say what is true inside one. A schema statement is in the catalog first, then
in the history, then in the log. `LogPlus` and `Hist` are the log and the history as
the statement on its way will leave them. `CatalogIsHistory`: replaying `Hist` makes
the very catalog there is, with the same numbers for the same tables.
`LogFollows`: the log can be replayed, and its own history is `Hist` until a write
fails, and never longer after. (So where the log's history *is* the engine's, no
statement is on its way: `HistoryAhead`.) `LogHolds`: where the two agree, replaying
the log gives the committed rows of every table that has a name, `Held`. That
needs to know what is still in buffers: `Buffered` says that a transaction's buffer
has one record for each insertion and deletion it made in a table that has a name,
under the table's present name, inserts ahead of deletes. It is what
`RenameLogged` and `ForgetLogged` preserve, and why appending the buffer moves the
replayed rows exactly as settling the transaction moves `Held` (`FlushRows`).
`Copied` follows a checkpoint from its snapshot to the installation of the file.
`LoggedSettled` says that every value in the log is of a settled transaction, from
which `AbortedStaysOut` follows, and `Numbered` and `RecordsNumbered` that an
identity or a value is used once. `Turns` is who may run beside whom. There is one
lemma per conjunct (`StepTurns` to `StepLogTyped`), one step per action under it.

`ReplayProofs` has the lemmas about `Replay`, `Kept` and `apply` for logs of any
length. An induction theorem with an operator for its parameter cannot be cited,
so induction is over a *set* of numbers (`UpTo`, from the least element of the
numbers that fail): a fold over a log is a function, it exists and is unique
(`ReplayHas`, `ReplayEnds`), and everything else is followed along its positions.
Replaying a concatenation is replaying twice (`ReplayConcat`). A log and its
history make the same tables (`HistoryMakesTables`), which is why a checkpoint may
write the history in the place of the log. What a frame of rows leaves
(`BatchRows`) is stated without order: the rows it does not touch and those it
inserts, less those it deletes.

`CatalogProofs` proves, for any names, tables, scenarios and connections:

* `ReferencesAlwaysAgree`: `Spec => []ReferencedByAgrees`
* `StoredSyntaxAlwaysResolves`: `NewColumnsOnly` implies `Spec => []StoredSyntaxResolves`

from `ScenariosAssumption`: a scenario's tables can be created, its statements name
tables with the names there are, and their lists are sequences. The lists that
parents keep (`AddReferencing`, `detach`) repeat what the children's foreign keys
say, and DROP TABLE trusts them: it refuses a table another one refers to by looking
at the table's own list alone. So the two are proved together. `CatInv` is
`CatalogShape` (a name leads to the table of that name, and everything that is
listed is a sequence) and `Agrees`; each kind of schema statement has a lemma,
`CreateTablePreserves` to `DropTablePreserves`, and each of the others is seen to put
tables in the place of tables with the same references (`Stands`). `DropTablePreserves`
is where `Agrees` is needed: what is in the list of a table that goes are tables that
go too, so no reference is left behind, and what `detach` takes out of the other
lists is exactly what went. `ReferencesAdded` is the converse, for CREATE TABLE with
references to itself and several to one parent, and for ADD COLUMN. A call of a
running statement changes at most the numbers of sequences (`CallPreserves`), a
restart rebuilds them (`RestoredPreserves`). `Resolves` is inductive on top of that:
RENAME COLUMN refuses what a CHECK or an index's predicate names, and nothing else
takes a column away. `NewColumnsOnly`, that the CHECK of an ADD COLUMN names the
column it adds, cannot be dropped: `bindAddColumn` stores the CHECK unbound, unlike
CREATE TABLE, and one that names a column that is not there would leave a table
nothing can be written to. The statements of the run satisfy it.

`StatementsProofs` proves, for the same constants:

* `HeapAndSessionsAgree`: `Spec => []TypeOK` of Statements
* `KeysAlwaysHold`: `Spec => ([]Orderly => []KeysHold)`
* `RowsAlwaysValid`: `NewColumnsOnly` and `NewColumnsFit` imply
  `Spec => ([]Sheltered => []RowsValid)`

from `ScenariosAssumption` and `RowsAssumption` (the rows a scenario begins with fit
its tables, satisfy their constraints and keep their keys; its connections are there). What `TypeOK` says of a
version and of a session is not inductive. An UPDATE writes a row computed one
or more calls earlier (`WriteCall` carries it), so the invariant `RowInv` has `AgendaOK`:
each call on a statement's agenda is for a table that is still there, what it writes
fits that table, a child row it names is either dealt with or still seen by the
transaction, and the statement's own calls come after all that cascades put in front
of them (`OwnLast`). `CallEffect` follows every kind of call, with its referential
actions and its ON CONFLICT: it takes at most one version, in one table, that nobody
else may take (`Touched`), and leaves an agenda that is right again. For the other
sessions this is enough: `WrittenSeen`, what an open transaction or anybody else sees
is what it saw. `SessionOK` says which transactions are a session's own and that one
in which nothing was written left no stamp (`Blank`), which is what lets an
isolation level take its snapshot anew. Schema changes are seen by the rows as
`Evolves` (tables only grow wider and keep what an older row reads) or `Indexed`.

`Orderly` is where the engine means keys to hold: a transaction writes only while no
other does (`alone`; `Contended`, in which two do and collide on rows before they
could on keys, is checked only), and no key has a column that ON DELETE SET DEFAULT gives a
value (`NoDefaults`). Neither can be dropped. Two transactions that insert one key
both commit. A DELETE has no check of the table it names, so a row of that table
that lets go of a deleted one takes a default another row may have. SET NULL needs
no check: `ReplacedApart`, a row with a NULL in a key is apart from any other.

`KeysHold` is not inductive: while a statement runs, what it sees has duplicates that
are found at its end, and it writes rows computed earlier from what is seen now. The
invariant `KeysInv` says it of positions in the heap, `Distinct`, and of what each
session sees (`Clean`): what is committed is distinct, and so is the snapshot a
session began with; a transaction that writes sees everything committed (`Known`),
and what it sees is distinct in every table but those it has still to check,
`Dirty`. A call takes a version away, lets go of a reference, or writes to a
table that the statement will check (`CallWrites`, `WritesClean`); the check at the end then leaves none (`AcceptedClean`,
`FinishKeys`), and a statement that fails undoes its transaction (`FailsKeys`). A
commit turns what the transaction sees into what everybody sees, which is why it
must see everything (`EndKeys`). DROP and ADD COLUMN keep what is distinct
(`FollowsDistinct`), and CREATE UNIQUE INDEX makes an index that counts only where
the rows agree with it (`IndexedDistinct`), since the engine does not look. A
restart keeps the committed versions in order (`KeptDistinct`).

`RowsValid` is about what a transaction would see that began a statement now, in
any isolation level and beside other writers. Its invariant, `ValidInv`, is about the
heap: every version that *lives*, whose writer has not aborted and that nobody who
committed took, satisfies NOT NULL and CHECK (`HeapFits`). That is more than what is
committed, since a writer that is still open may commit at any moment. A running
statement carries rows to be written later, which `runChecks` has passed
(`AgendaFits`); NOT NULL is checked again when they are written, so nothing has to be
remembered of it. `Held` says that whoever is open has a session that will end it;
without it a schema change, which waits for everybody who writes, could not tell
whose versions it has to judge. SET NOT NULL then judges exactly the living versions
(`DDLFits`), ADD COLUMN leaves their older part as it was, and the renames leave every
CHECK with the column it names. What a referential action writes is the child's row
with some columns of its foreign key replaced (`ActionsKeepChecks`).

The hypotheses are where the engine does not look, and each is needed.
`Sheltered` has two parts. `applyRefAction` writes a child's row after `checkRow` but
without its CHECKs, so no column with a CHECK may be one that ON UPDATE CASCADE or
SET DEFAULT gives a value to (`ChecksApart`; a NULL falsifies no CHECK, and SET NULL is
allowed). SET NOT NULL reads what its own transaction's snapshot sees, so it may
not run in a transaction of REPEATABLE READ or above beside another connection, whose
rows it would miss. `NewColumnsFit`: ADD COLUMN looks at no row, so its CHECKs must
pass on the value that older rows read in the new column. The scenarios of the run
satisfy all three, with foreign keys of each action and CHECKs on other columns.

Only model-checked: `KeysHold` beside another writer, the properties of Statements
about references, identities and the effect of a statement (`ReferencesHold`,
`IdentityDistinct`, `DeleteMeansClosure`, `UpdateFollows`, `OnConflictYields`), and
all of Queries.
Out of the prover's reach: liveness (`StatementsEnd`) and `ENABLED`; and the binder,
the executor and the meaning of queries, which are RECURSIVE operators over
syntax, in modules from which the prover has no access to its SMT backend.

## Plan

Done: `SnapshotIsolation`, `Storage`, `Wal`, `Engine`; `Catalog` and `Statements`;
`Values` to `Queries`; the proofs about Storage, Wal, Engine, Numbers,
Catalog and the type invariant, the keys and the row constraints of Statements.

Left, the behaviour that most can go wrong first:

1. `Engine` extended by ADD COLUMN with its `Missing` record, by the logging of
   indexes and column renames, and by `OpenAt`.
2. INSERT ... SELECT with its buffer, and `ExecBatch`.
3. `Driver`: connections, transaction handles, prepared statements, the registry
   and `Drop`, over an abstract engine and an external model of `database/sql`'s
   pool.
4. Proofs: the other properties of `Statements` that are about rows, beginning
   with `ReferencesHold`, which needs the same views as `KeysHold` and, of two
   tables at once, that no call leaves a child behind.

## Not modelled

* *Scanner, parser, syntax tree, printing, rendering, shell, feature list*:
  sequential text processing without shared state. The models begin at the
  syntax tree.
* *Driver*: its state changes in the order in which `database/sql`'s pool calls it,
  and the pool is not in this repository; a model would mostly be of the pool.
* *Error codes and wording*: an error is an outcome, its kind only where the
  program distinguishes it.
* *Values that are strings to the program*: JSON, bytea and temporal kinds, LIKE,
  text functions, parsing and printing of numbers. A text is its place in the
  order.
* *NaN, infinities, -0 and overflow of floats*, and the conversion of a float that
  is too large for a word, which is undefined in Go and modelled as on amd64.
* *Reuse of row buffers* by operators: rows are values.
* *Encoding of log records*: a frame either decodes or does not.
* *System views, parameters of statements, INSERT ... SELECT, `ExecBatch`,
  `OpenAt`, the `Missing` record of ADD COLUMN in the log.*

## Running

    tlc -config Storage.cfg Storage
    tlc -config Wal.cfg MCWal
    tlc -config Engine.cfg MCEngine
    tlc -config Statements.cfg MCStatements
    tlc -config Queries.cfg MCQueries
    tlapm StorageProofs.tla
    tlapm WalProofs.tla
    tlapm DurabilityProofs.tla
    tlapm ReplayProofs.tla
    tlapm EngineProofs.tla
    tlapm NumbersProofs.tla
    tlapm CatalogProofs.tla
    tlapm StatementsProofs.tla
