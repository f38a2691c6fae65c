# A TLA+ verification of gengis-mimi

gengis-mimi is a vector and text search service: a Rust engine that keeps
namespaces of documents in [SlateDB](https://slatedb.io), an LSM tree over an
object store, with a background index builder, an HTTP API, and a cluster mode
with leased shard owners and a gateway. This directory models the parts of it
that decide whether answers are right: what is durable when, which index a query
may trust, and which worker may serve. Line numbers refer to `src/src/*.rs`.

## The system

| Component | State it keeps | Operations | Hard part |
|---|---|---|---|
| Engine (`engine.rs`) | the rows of each namespace, `index_lock`, `schema_lock` | create, write, read, rebuild, clean up, delete, open, close | commits become durable later than they are handed over; builds, writes and deletions interleave; crashes between durable steps |
| Index generations (`index.rs`) | rows under `g/<ns>/<generation>/`, the pointer `i/<ns>` | build, publish, retire | built from an old snapshot, staged in parts |
| Queries (`search.rs`) | none; many reads of one snapshot | exact scan, filtered scan, clusters, BM25 | a batch in flight may land between two reads; old index rows of changed documents |
| Shard ownership (`cluster.rs`) | `coordination/owner.json`, each worker's observation, version and deadline | poll, conditional PUT, open, retire, admit | elapsed time only, pauses, late answers, fencing |
| Gateway (`cluster.rs`) | owner cache, database identities, `coordination/topology.json` | discover, forward once, merge listings | stale owners, lost answers, changed shards |
| Backup, restore, migration (`backup.rs`) | the format marker | stream a snapshot, restore, migrate v1 | interruption and resumption |
| HTTP API (`api.rs`) | request permits | admission, timeout, authorization | a timeout does not cancel a commit |
| Values, blocks, configuration, metrics, errors, CLI | none that others depend on | validation, encoding, counting | boundaries |

How they interact: an HTTP handler calls the engine. A write takes
`schema_lock`, reads a snapshot, hands one batch to SlateDB, and a detached task
keeps the lock until the batch is durable. The indexer takes `index_lock`, builds from a
snapshot without `schema_lock`, stages rows, and takes `schema_lock` for the
pointer and for each chunk of the cleanup. Deletion takes both locks to its end. A query holds
`schema_lock` only to take its snapshot. In a cluster, `run_worker` opens an
engine after it has won the lease, publishes it to the HTTP handlers, runs the
indexer on it, and retires it when the lease is lost; the gateway asks workers
which of them is ready.

What makes each part correct, in short: statistics equal the rows; a query
returns one durable revision exactly; a pointer never names a partial
generation; garbage is always marked and goes; an acknowledged write is durable
until its namespace is deleted; a deletion shows all at once and finishes; one worker admits at a
time, and it has seen every commit; service resumes after failures.
`PROJECT.json` lists the hazards, each at its line, with the properties that
cover it or the reason why none does yet.

## Modules

- **DocStore** - what clients of one namespace are promised: a configuration, a
  map from ids to documents, a revision; `Create`, `Write` and `Drop` are atomic.
- **Engine** - one namespace of one engine in detail (below).
- **Query** - EXTENDS Engine with the read path: functions of the rows a query's
  successive reads see.
- **Lease** - the workers of one shard and their lease object.
- **Gateway** - placement, discovery, the cached owner, the pinned topology, and
  forwarding over a network that loses messages. It takes from Lease that one
  worker of a database serves at a time.
- **Listing** - a client that pages through the namespaces of all shards.
- **Format** - the marker `meta/format` through opening, migration, export,
  download and restore; the commands of the CLI.
- **Admission** - permits, locks, detached tasks, deadlines and shutdown of one
  server, with all requests together. It knows of a commit only that it is in flight.
- **MCEngine**, **MCLease**, **MCGateway**, **MCFormat**, **MCAdmission** - the
  instances that TLC checks; Listing needs none.
- **EngineProofs** (types, the index), **EngineStoreProofs** (statistics, the mark,
  the refinement of DocStore), **QueryProofs**, **LeaseProofs**, **ListingProofs**,
  **GatewayProofs**, **AdmissionProofs**, **FormatProofs** - the theorems.

The modules meet at these seams. Engine assumes that commits run one at a time
under `schema_lock` through their durability, whoever disconnects; Admission shows it for
several handlers, tasks and the shutdown (`SnapshotsAreSettled`). Engine starts from an empty
prefix marked v2; Format shows when a prefix may be so marked, and that a migrated
one, or a restored one, has the rows on which Engine may be opened (`EngineMayOpen`). Gateway starts from
`OneOwner` and `NoStaleOwner` of Lease.

### Engine

`kv` is a record with the durable rows of the nine key families (`n s d v c i g
j z`; `engine.rs` 717-728 and the literal keys). The code's reads filter on
`DurabilityLevel::Remote`, so they see `kv` and nothing in flight. A commit is
two steps. A `...Commit` action computes the batch from `kv` and puts it into
`app` (a batch made under `schema_lock`) or `idx` (one made under `index_lock`
alone); the matching `...Durable` action applies it. `schemaLock` is free, held
by a request (`"app"`), or by the holder of `index_lock` (`"task"`). There is one `index_lock`, so
one record `task` describes its holder:

| `task.pc` | code |
|---|---|
| `build` | `build_index_inner` waits to take its snapshot (482) |
| `mark` | the snapshot is read, the generation built; `j/` is written (506-510) |
| `stage` | entries go out in batches, then the pointer (511-533) |
| `resume` | `resume_index_cleanup` has found `j/` (696-705) |
| `scan`, `tidy` | `cleanup_inner`: list, retire generations, delete change rows; then `j/` goes (535-594) |
| `delete`, `erase` | `delete_namespace`, `erase_namespace` (596-653) |

Data is cut down to what the properties tell apart. A document is an attribute
value and an optional vector; each of its two rows weighs one unit of `bytes`. A
generation is the set of documents it holds, staged in any parts: the code's
1 MiB batches are one way to split it. A fresh UUID is a generation that no row
and no pointer knows. Cleanup and erasure proceed by any non-empty chunks. The
retired generations are read when they are deleted, not when they are scanned:
only the holder of `index_lock` writes `g/`, so the two agree.

Failures: `TaskError` ends a build or cleanup at any of its awaits. `EraseError` does the
same to an erasure; a serving engine goes on, an opening one returns the error.
`Crash` keeps or loses each batch in flight, whole. `Close` is graceful.
`Reopen` finds `z/` and erases before it serves. `EraseErrors` turns
`EraseError` off, because it leads to the finding below.

The lock order (`index_lock` before `schema_lock`) is checked by TLC's deadlock
check, which the runs of Engine keep on, except `engine_ack`.

### Query

SlateDB snapshots pin a sequence number, but the durability filter is applied
when a read happens. A batch that was handed over before the snapshot and is not durable yet
can thus appear between two reads. `Views(landing)` gives each read of a query
the rows it sees when the batch lands before read `landing`; `VectorQuery`,
`TextQuery` and `Hydrated` are `search.rs` over those views. The properties
quantify over all filters, plans, terms and landings in every reachable state in
which a query may take its snapshot. They hold because a snapshot needs `schema_lock` and application commits
keep it until they are durable; what may still land is staging and cleanup
of rows that no published index refers to. All clusters are probed: fewer probes
are the approximation a user asked for. Scores are not modelled; the corpus count they
depend on is.

### Lease

One iteration of `run_worker` is `Tick` (retire, or start the renewal, or go to
read), `Get`, `Judge`, a conditional PUT served by the store, `Win` or `Lose`, and
`Settle`; `Close` is the second half of `retire`. The opening task fences and
finishes independently, so an open may outlive the lease it was started under. Clocks are the differences the
code compares; `Advance` moves all of them by one unit, and needs every worker
that is up to have nothing to do, except that a PUT whose answer is lost is
waited for until its timeout (`ttl / 3`, rounded up to a unit). `Pause` exempts a worker
from time for as long as it likes; this stands for stalled processes, slow stores and
slow locks. A PUT that was given up stays in `stray` and may land while the
object is still the one it expects. An ETag that nothing refers to may be
reused, which keeps the state space finite without a bound on time. Two details differ from the code's variables
and not from its behaviour: the observation of a worker is dropped when it wins
the lease (the code keeps it and clears it before reading it again), and a graceful
stop is a `Crash`.

### Gateway

A request is one record per client: `owner` (look at the cache), `probe` (ask one worker
after the other), `insert`, `send`, `wait`. `wire` is its message on the way to a worker
and back, and `task` the worker that has its write to commit, since `engine.rs` writes in a
detached task (302-390): the write commits before or after the deadline of `admit`, an error or a lost
connection ends its request, also while its worker steps down. A worker that serves runs a request, or refuses it
when it has no slot left; a standby refuses it, a stopped process
breaks the connection; a transport error may also come for a message that is still
under way. An answer is `ok`, `refused` (a 5xx before the request was served), `failed` (a 5xx of a request that
was served: a client can seldom tell the two apart, and `docs/api.md` calls the outcome of such errors unknown),
`unsent` (refused by the gateway itself) or `unknown`. `SubmittedOnce` claims that nothing is committed for
`refused` and `unsent` only. `discover` before `insert`
and the dating of the entry at its insertion are steps of their own, because the worker may change
between them; so is each shard of the discovery when a gateway starts. `config` is what an operator starts a gateway
with: the right shards, one shard forgotten, or two exchanged.

Workers may come back with the wrong database at any moment they are down. Discovery turns them away, but nothing looks
at the identity again: the owner is trusted for a second (395-399), the body is then awaited without a limit (480),
and the request is sent (490) and served whatever database is there by now. A write can therefore reach a worker that
was given another database after it was discovered. The model has that behaviour. `home` records for
each commit the identity its worker had answered at discovery beside the database it went to, and `PlacementStable` says that
two commits of a namespace are in one database unless one of them is of such a worker (`Repointed`); the window
itself is listed as a hazard that no property excludes.

### Listing

Names are numbers in the order of their bytes. Each shard is read at a moment of its
own, with creations and deletions between, and `Merge` is the gateway's answer. `kept` and
`ever` are history for the properties.

### Format

`kv` has a row or `None` for each key of two namespaces, in the order of a scan;
`pc` and `goal` are the process that has the database open, one at a time. Commits await their
durability and nothing runs beside them, so each is one step and `Crash` may
come between any two. `Start` enumerates all v1 databases, the empty
prefix and one that is something else. `Batch` is the 128 documents of a migration batch;
restore's 1 MiB batches are any split. `promise` is what clients may rely on: what
the v1 database held, then each acknowledged upsert, then what was exported. The
checksum is a flag of the file.

### Admission

`queue` holds each mutex's FIFO, its head being the holder; `slots` are the query permits, counted
until the last share is dropped; request permits are the handlers themselves. `job` is the task or blocking
batch that a handler spawned and that goes on when the handler is dropped, by `Timeout`
or `Disconnect`. `commits` are those in flight, `torn` the snapshots taken meanwhile. `Stop` to `Close` is the end
of `main`: drain, stop the indexer, take both locks.

## Runs and bounds

| Run | Bounds | Shows |
|---|---|---|
| `engine_safety` | 2 ids, 2 documents (one without vector), 3 revisions, 2 units of bytes, 1 failure | `TypeOK`, `StatsExact`, `OverlayExact`, `PublishedGenerationComplete` |
| `engine_recovery` | 2 revisions, 1 document at a time, 2 failures, erasures may fail | `CountersNeverWrap`, `GarbageIsMarked`, `IndexInv`, `OnlyErasureLosesAcked` |
| `engine_store` | 2 revisions, 2 units of bytes, 2 failures, erasures do not fail | `AckedIsDurable`; Engine implements DocStore |
| `engine_liveness` | 1 id, 2 revisions, 1 failure | `IndexCatchesUp`, `GarbageIsCollected`, `DeletionFinishes` |
| `query` | 2 ids, 2 revisions, 2 units of bytes, 1 failure, erasures may fail | `VectorQueryExact`, `TextQueryExact` |
| `engine_ack` | 1 revision, 2 failures, erasures may fail | `AckedIsDurable` is violated: the finding |
| `lease_safety` | 2 workers, lease times 3 and 4, 2 failures | `TypeOK`, `OneOwner`, `NoStaleOwner` |
| `lease_liveness` | the same, 1 failure | `ServiceSettles` |
| `format` | 2 namespaces with 3 documents that differ by their vector, batches of 2, 1 upsert or creation, 2 failures | `TypeOK`, `NothingLost`, `EngineMayOpen` (with `StatsRebuilt`), `BackupIsOneRevision`, `BackupNotOverwritten`, `RestoreIsAllOrNothing`, `RestoreNeedsEmpty`, `MigrationFinishes` |
| `gateway` | 3 workers, 2 databases, 2 requests at a time, 1 fault | `TypeOK`, `SubmittedOnce`, `PlacementStable`, `ServiceIsFound` |
| `listing` | 2 shards, 5 names, pages of 1 and 2, 2 changes during a listing | `PagesAscend`, `NoneSkipped`, `PagesAreFull` |
| `admission` | any 3 different of 6 kinds of request, 2 request permits, 1 query permit | `TypeOK`, `WorkIsBounded`, `SnapshotsAreSettled`, `ClosedQuietly`, `PermitsReturn`, `Drains` |

Why these bounds are enough to be interesting: two ids make a write and a
cleanup of different documents meet, and a chunk be a proper part; two revisions
give a change row below and one above a watermark, and a document written before
and after the listing of the cleaner; two failures allow a crash in the recovery
from another one. There are `MaxFaults + 2` generations (one published, one per interrupted
build, one being built), so freshness never blocks a build; `engine_ack` has
fewer and does not need them. The deadlock check is off in `engine_ack`, whose builds may run out of
generations, and where the system really stops: `format` (an unrecognized keyspace is refused for good), `listing`
(a listing ends) and `admission` (the server stops).
Generations are symmetric in the safety runs; the liveness runs use no symmetry.
Two units of bytes are two documents without vector or one with a vector, so the quota refuses
real requests; `engine_liveness` has three. In `engine_recovery` the quota of documents is one, and each
revision may still write, replace or delete either of them. The leases of 3 and 4 units give the two workers
different patience; four ETags are enough for two workers and two failures, since one that nothing refers to is reused.
The theorems below remove all of these bounds from every safety property.

In `format` one namespace is larger than a batch, so a migration can be interrupted inside one, and the
other starts a batch of its own. In `gateway` one shard has a standby; a fault is a lost
message, a disconnect, an error or deadline of a worker, a saturated worker, or a stop of a worker or gateway, and one of them is
enough for a commit whose answer is lost or is an error, for a stale owner, or for a worker that comes back with another database. In `listing` five names and two changes let a
name appear or vanish on either side of the cursor between the reads of two shards; `ListingProofs`
removes these bounds. In `admission` the third request finds a
permit taken, and three with the indexer and the shutdown are five parties at two
locks.

## Fairness

Engine: weak fairness for what has no competitor (a batch becomes durable, an
erasure proceeds, a supervisor reopens the process). Strong fairness for what
waits for `schema_lock` or `index_lock`, since tokio's `Mutex` is a FIFO queue and other
holders always release it, and for the indexer, whose timer keeps ticking.
Requests, builds by clients, deletions and failures are under no obligation to
occur. `IndexCatchesUp` holds since failures are bounded: an index that fails at every build
does not catch up, and the code retries for ever.

Gateway: the gateway, the network and the workers go on with requests they have,
and time passes; operators, clients and takeovers are under no obligation, and `ServiceIsFound` has
them as its premises. Format: a command that runs goes on, and an interrupted
migration is run again. Admission: deadlines fire, tasks and batches run to
their end, and a commit settles or fails; nothing is assumed of clients, so `Drains` supposes
that export streams end (axum waits for them for ever otherwise).

Lease: weak fairness for each worker's loop, for the store, for an open that was
not disturbed, for restart and resumption, and for time.

## Proofs

TLAPS proves every safety invariant that the runs check, every action property, and
the refinement of DocStore, for every value of the constants. The assumptions are named in the modules: `None` is none of
the values it stands beside, the sets that are counted are finite, bounds are
numbers, and what Init and the code presuppose of the constants (below). A theorem's module is that of its component:

| Module | Theorems (each `Spec => []...` or `Spec => ...`) |
|---|---|
| EngineProofs | `TypeInvariant`, `IndexInvariant`, `OverlayIsExact`, `PublishedIsComplete` |
| EngineStoreProofs | `StatsAreExact`, `CountersHold`, `GarbageStaysMarked`, `AckedFallsToErasure`, `StepsAreStoreSteps`, `RowsStayFit`; with `~EraseErrors`: `AcknowledgedIsDurable`, `EngineImplementsStore`; from any fit rows: `OpenedStaysSafe` |
| QueryProofs | `VectorQueriesAreExact`, `TextQueriesAreExact`; from any fit rows: `OpenedQueriesAreExact` |
| LeaseProofs | `LeaseType`, `LeaseOneOwner`, `LeaseNoStaleOwner` |
| ListingProofs | `ListingType`, `ListingAscends`, `ListingSkipsNone`, `ListingPagesFull` |
| GatewayProofs | `GatewayType`, `WritesAreSubmittedOnce`, `PlacementIsStable` |
| AdmissionProofs | `AdmissionType`, `WorkStaysBounded`, `SnapshotsStaySettled`, `DatabaseClosesQuietly` |
| FormatProofs | `FormatInvariant`, `FormatType`, `NothingIsLost`, `StatsAreRebuilt`, `BackupsAreOneRevision`, `BackupsAreKept`, `RestoresAreAtomic`, `RestoresNeedEmpty`, `EnginesMayOpen` |

**The index.** `OverlayExact` speaks of durable rows only and is not inductive: it says nothing
of the batch that is about to land, nor of the generation being staged.
`IndexInv` therefore speaks of `Outcomes`, every set of rows the batches in flight may
leave: in each, the published index is exact up to its watermark (`IndexExact`),
the content a builder carries agrees with the documents unchanged since its snapshot and
only its own generation is being staged (`BuildExact`), and a cleaner works for the
published index (`CleanExact`). `LockInv` says which batch may be in flight
under which lock; it makes the two batches disjoint. With this, a commit
is the only step where something has to be shown: a durable step, a crash or an error
selects one of the outcomes. The central lemmas are `WriteExact` (a
request keeps all three, because it writes a change row above every
watermark), `PublishExact`, and `ForgetChangesExact` (the re-read
under `schema_lock` makes it safe to drop a change row).

**The store.** `InFlight` says what a batch under `schema_lock` can be: a creation, a write with the statistics
of the rows as they are now, a publication, a cleanup of change rows, an
intent or a part of an erasure. From it follows that whatever lands keeps `Counted`
(counters equal to the rows, or above them while a namespace is erased), which gives
`StatsExact` and `CountersNeverWrap`. `MarkInv` adds to the mark what the cleaner still owes:
until it removes `j/`, a crash leaves the mark; when it does, it has listed every row that is garbage, in every outcome.
`StoreInv` says that a deletion intent is never there while requests are served
and that the acknowledged revision is in the rows. It needs the hypothesis
`~EraseErrors`: without it the statement is false, which is the finding below. No other theorem has it.

What holds without it is stated step by step. `AbsentInv` says that an erasure that has
ended leaves no document and no revision under the name, and no acknowledgement either. With it, `StepsAreStoreSteps` maps
every step that finds no `z/` to one step of DocStore or to none, and
`AckedFallsToErasure` shows that a step that takes an acknowledged revision out of the rows finds `z/` in
place. `EngineImplementsStore` is the first of the two together with `StoreInv`.

**Opening.** The theorems above start from an empty prefix. `RowsFit` says what rows an engine may be opened on,
and `OpenSpec` starts there instead, with nothing in flight: `OpenedStaysSafe` shows that every property without
the hypothesis holds from then on, by the same steps, for the conjunction of the invariants (`SafeInv`).
`RowsStayFit` says that an engine leaves such rows behind whenever it stops, and `EnginesMayOpen` that
creation, migration and restore make them (see Format).
Some results are theorems only, with no run of their own: `TypeOK` of Listing, `RowsFit`, most of whose conjuncts the runs check one by one,
`StepsImplementStore`, which the runs check as `ImplementsStore` where no erasure fails, and what follows from `OpenSpec`.
`StatsRebuilt` is checked as a part of `EngineMayOpen`.

**Queries.** A snapshot is taken when nobody holds `schema_lock`, so by `LockInv` only index rows can
land between its reads, and by `IndexInv` the published index is exact
before and after they land (`ViewsPinned`). The plans are then compared with the
rows case by case; the corpus count is the arithmetic of two disjoint sets of documents.

**Lease.** For any workers, ETags, lease times (with a longest) and number of
faults. `OneOwner` is far from inductive. `LeaseInv` adds, in this
order: what each place of the loop implies (`LoopOK`); that the ETag of a PUT under
way has been seen by nobody (`Unborn`); where the object comes from
(`WrittenOK`); that whoever claims the lease, by an unexpired deadline or by a PUT
answered in time, is named by the object and no other PUT can replace it
(`ClaimOK`); that no observer has observed the object for longer than its
holder has used of its time (`AgeOK`); and that an engine opened under the
current lease has every commit, and no request of another can commit
(`ServeOK`). The heart is `JudgeCore`: a standby sends its PUT only when the TTL it
read has passed, which `AgeOK` makes impossible while anyone claims.

**Listing.** For any shards, finite sets of names, page sizes and churn. The invariant
says of each page answered so far that it holds the shard's first names above
the cursor; the lemmas `Smallest`, `FirstFull`, `FirstCount` and `MergedPage` are about the
`k` smallest members of a finite set.

**Gateway.** For any configurations with finitely many shards (at least one), any digests, of which
two shards of a configuration never share one for a name (`GatewayConfigs`, `GatewayDigests`, `GatewayPlaces`), and
workers that are configured for some database (`GatewayPoints`). `Once` relates a
request, its message and its task: nothing is committed before it is served, a task has not committed yet, and
whoever knows an outcome (`ok`, `refused`, `unsent`) has no message and no task left that could change it.
`Placed` says that a gateway that is up expects the pinned identities, and that the identity answered by every owner it caches,
every worker it has chosen and the worker of every message, task and commit is the pinned one of the namespace; the pin never changes.
What database the worker has by then is not part of it, and cannot be.

**Admission.** For any number of requests of any kinds and any numbers of permits. `Base` is the
account of the two queues: a party is in a mutex's queue exactly if it waits for it or holds it, once, and who
holds it is first. On it stand `PermitsOK` (whoever searches, streams or scores has a slot), `SettledOK` (while the
database is open, the commits in flight are those of the tasks that hold `schema_lock`) and `StoppedOK` (the order of the shutdown).

**Format.** For any documents, namespaces, scan order, batch size and number of requests and
crashes (`FormatOrder`: every document's namespace is among the namespaces). `Inv` has a part per command.
`MigOK` is the one that `NothingLost` needs: a document of the namespace being migrated is not yet taken,
waits in the batch with its vector, or is converted in the rows (`BatchOK`), so that a batch on top of the rows changes nothing that
clients read (`Flushed`); and the running statistics count the documents taken so far with the vectors
clients read (`CountsOK`), wherever a resumed migration finds those. `StreamOK` and `OutputOK` say
that what was sent is a part of one whole database (`Whole`: typed rows, no orphans, exact statistics); `FillOK` says
that a prefix being restored has the file's rows but for those still to be written.

`EnginesMayOpen` joins Format to Engine. `Served` is module Engine over the rows of one name, and
`EngineMayOpen` asks its initial condition `Opened` of every name of a database marked v2, those without a namespace
included, besides `StatsRebuilt`. `LegalInv`, the second half of `FormatInvariant`, says that statistics belong to a namespace that exists
(creation writes none, and a new name must count from zero, as `stats_at` does) and that a change row
never carries revision 0, for the rows, the export under way and the backup, and that a migration only
visits namespaces that exist. The step to the engine's counters is that of `ServedCounts`, for every set of
generations (`ServedIsOpened`); a parametrised instance has its own copy of `Cardinality`, which `ServedCardinality` identifies with the library's.

**Checked by TLC only**: what is about liveness or fairness (`IndexCatchesUp`, `GarbageIsCollected`,
`DeletionFinishes`, `ServiceSettles`, `ServiceIsFound`, `MigrationFinishes`, `PermitsReturn`, `Drains`), which the prover does not
cover, and the absence of deadlock.

## Finding

`delete_namespace` commits its intent and then erases. If the erasure fails in a
serving engine, the intent stays while `create_namespace` (250) and `write` do
not look at it. The name can be used again, its writes are acknowledged, and the next
open erases them (151-159). Run `engine_ack` shows it: a deletion of a name that is absent, a failed erase,
create, an acknowledged write, a crash, an erase.
The README promises that GM "acknowledges writes after durable storage commits
them", and the comment at 605 that the intent "hides the namespace
immediately and is resumed on reopen before accepting requests".
`engine_recovery` and `query` keep that path enabled: what the other properties
promise of such a namespace is stated there (counters do not wrap; the index
properties are claimed only where no deletion is under way). That the erasure is the only way
to lose an acknowledged write, then as always, is `OnlyErasureLosesAcked`; that such an engine is still the document
store wherever no intent is left is the theorem `StepsAreStoreSteps`.

## Not modelled

- Scores, top-k retention, clustering and tokenizing: computation on one snapshot,
  without state that another step reads.
- Authorization, routing, decoding and validation of requests: stateless checks before
  anything in these modules begins.
- Several namespaces in one engine: they share only the two locks, held longer.
  Directory locks of the local store: one process per prefix is SlateDB's fence
  in Lease and taken for granted in Format.
- SlateDB's own compaction; torn or corrupt rows; the encodings of vectors, keys
  and backup records, with their checksums.
- Configuration, metrics and error texts, which keep no state others depend on.
- In Lease, the requests inside the engine are one step, an aborted open leaves
  nothing behind, and clocks run at the same rate. In Gateway, the workers' own protocol
  is reduced to what Lease shows of it.

## Plan

Done: Engine with DocStore, Query, Lease, Gateway, Listing, Format, Admission, proofs of
every safety property of theirs, and the seam from Format to Engine. What a next step could add:

1. The seam from Admission to Engine: that Admission's steps on `schema_lock` and `index_lock` are those Engine
   assumes, with several namespaces behind the same two locks.
2. Deletion and published indexes in Format, so that a backup of an indexed database is covered by
   `EngineMayOpen` too: its rows are then those of `RowsFit` by `RowsStayFit`, which today is an argument and not a theorem.
