------------------------------- MODULE Format -------------------------------
(***************************************************************************)
(* The storage format of one database prefix (engine.rs initialize_format, *)
(* backup.rs, the CLI commands of main.rs): the row meta/format says what  *)
(* the other rows are, and every command decides from it.  A v1 database is*)
(* migrated in place, a served database is exported while it is written, a *)
(* backup is restored into an empty prefix, and the process may be killed  *)
(* at every step.                                                          *)
(*                                                                         *)
(* Each commit awaits its durability before the next step, and a command   *)
(* is alone with the database, so a commit is one step: a crash before or  *)
(* after it is the batch lost or kept.  Rows are a function from keys      *)
(* <<family, name>> to values, None where there is no row.                 *)
(***************************************************************************)
EXTENDS Integers, Sequences, FiniteSets

CONSTANTS
    Order,      \* the documents <<namespace, id>>, in the order of scans
    Spaces,     \* the namespaces, in the order of scans
    Attrs,      \* attribute values of documents
    Vectors,    \* vectors of documents
    None,       \* no row, no vector, no file
    Batch,      \* documents of one migration batch: 128 in the code
    MaxWrites,  \* bound on the requests of clients
    MaxFaults   \* bound on crashes, broken streams and damaged files

DocKeys == {Order[i] : i \in DOMAIN Order}
SpaceKeys == {Spaces[i] : i \in DOMAIN Spaces}

ASSUME FormatOrder == /\ Order \in Seq(DocKeys) /\ Spaces \in Seq(SpaceKeys) /\ Spaces # <<>>
                      /\ \A k \in DocKeys : k[1] \in SpaceKeys
ASSUME FormatBounds == /\ Batch \in Nat \ {0}
                       /\ MaxWrites \in Nat /\ MaxFaults \in Nat

VARIABLES
    kv,         \* the durable rows of the prefix
    pc,         \* what the process with the database open is doing
    goal,       \* why it was started: "serve", "restore" or "exit"
    mig,        \* the position of migrate_v1
    fill,       \* the keys restore has still to write, in the order of the file
    stream,     \* the export in progress: its snapshot and its position
    output,     \* the backup file under its requested name, or None
    promise,    \* the documents clients may rely on (for the properties)
    writes,
    faults

vars == <<kv, pc, goal, mig, fill, stream, output, promise, writes, faults>>

-----------------------------------------------------------------------------
(* Rows.                                                                   *)

FormatKey == <<"m", "format">>
Family(f, names) == [i \in DOMAIN names |-> <<f, names[i]>>]
KeyOrder == Family("c", Order) \o Family("d", Order) \o <<FormatKey>>
            \o Family("n", Spaces) \o Family("s", Spaces) \o Family("v", Order)
Keys == {KeyOrder[i] : i \in DOMAIN KeyOrder}

NoRows == [key \in Keys |-> None]
Over(rows, old) == [key \in Keys |-> IF rows[key] = None THEN old[key] ELSE rows[key]]
Only(part, rows) == [key \in Keys |-> IF key \in part THEN rows[key] ELSE None]
Present(rows) == {key \in Keys : rows[key] # None}
With(rows, key, value) == [rows EXCEPT ![key] = value]

Docs == [attr : Attrs, vector : Vectors \cup {None}]
Weight(row) == IF row = None THEN 0 ELSE 1      \* one unit of bytes per row
Stats == [revision : Nat, documents : Int, bytes : Int, pending : Int]
NoStats == [revision |-> 0, documents |-> 0, bytes |-> 0, pending |-> 0]
StatsAt(rows, n) == IF rows[<<"s", n>>] = None THEN NoStats ELSE rows[<<"s", n>>]

Markers == {"v1", "migrating", "restoring", "v2"}
Values == Docs \cup Vectors \cup Nat \cup Stats \cup Markers \cup {"schema"}

(* A backup: its rows, whether the file is undamaged, and the documents of *)
(* the database it was taken from.                                         *)
Files == [rows : [Keys -> Values \cup {None}], sound : BOOLEAN,
          of : [DocKeys -> Docs \cup {None}]]
ASSUME FormatNone == None \notin Values \cup Files \cup Attrs

(* What clients read: the vector is in the document (v1) or in its own row.*)
Content(rows) ==
    [k \in DocKeys |->
        LET doc == rows[<<"d", k>>]
        IN  IF rows[<<"n", k[1]>>] = None \/ doc = None THEN None
            ELSE [doc EXCEPT !.vector = IF @ # None THEN @ ELSE rows[<<"v", k>>]]]
NoContent == Content(NoRows)

(* A v1 database: namespaces, and documents with their vectors inside.     *)
LegacyRows(docs) ==
    [key \in Keys |->
        IF key = FormatKey THEN "v1"
        ELSE IF key[1] = "n" THEN "schema"
        ELSE IF key[1] = "d" THEN docs[key[2]] ELSE None]

NoMigration == [spaces |-> {}, docs |-> {}, space |-> None, batch |-> NoRows,
                count |-> 0, stats |-> NoStats]
NoStream == [rows |-> NoRows, sent |-> 0, of |-> None, got |-> NoRows]
Idle == mig = NoMigration /\ fill = {}

Start(rows) ==
    /\ kv = rows
    /\ promise = Content(rows)
    /\ pc = "down" /\ goal = "exit"
    /\ Idle
    /\ stream = NoStream
    /\ output = None
    /\ writes = 0 /\ faults = 0

(* The prefix is empty, holds a v1 database, or something else.            *)
Init ==
    \/ Start(NoRows)
    \/ Start(With(NoRows, <<"n", Spaces[1]>>, "schema"))
    \/ \E docs \in [DocKeys -> Docs \cup {None}] : Start(LegacyRows(docs))

Fault == faults < MaxFaults /\ faults' = faults + 1

-----------------------------------------------------------------------------
(* Opening (initialize_format) and the commands.                           *)

Opened(g) == IF g = "exit" THEN "down" ELSE IF g = "serve" THEN "serving" ELSE "check"

(* Mutant: any marker but a v1 one passes for a database.                  *)
OpenMarked(g) ==
    /\ kv[FormatKey] \notin {None} \cup {"v1", "migrating"}
    /\ pc' = Opened(g) /\ UNCHANGED kv
OpenReady(g) ==
    /\ kv[FormatKey] = "v2"
    /\ pc' = Opened(g) /\ UNCHANGED kv

OpenEmpty(g) ==
    /\ Present(kv) = {}
    /\ kv' = With(kv, FormatKey, "v2")
    /\ pc' = Opened(g)

(* Markers that an explicit migration accepts.  Mutant: a v1 database only.*)
MigratableOnce == {"v1"}
Migratable == {"v1", "migrating"}

OpenLegacy(g) ==
    /\ kv[FormatKey] \in Migratable
    /\ pc' = "mark" /\ UNCHANGED kv

(* Every other prefix is refused and nothing changes; the Migrate command  *)
(* is the goal "exit" with migrate set.                                    *)
Open(g, migrate) ==
    /\ pc = "down"
    /\ goal' = g
    /\ OpenReady(g) \/ OpenEmpty(g) \/ (migrate /\ OpenLegacy(g))
    /\ UNCHANGED <<mig, fill, stream, output, promise, writes, faults>>

-----------------------------------------------------------------------------
(* migrate_v1: a document and its vector part in one batch, the statistics *)
(* are rebuilt, and the marker follows all namespaces.                     *)

MarkMigrating ==
    /\ pc = "mark"
    /\ kv' = With(kv, FormatKey, "migrating")
    /\ mig' = [NoMigration EXCEPT !.spaces = {n \in SpaceKeys : kv[<<"n", n>>] # None}]
    /\ pc' = "namespaces"
    /\ UNCHANGED <<goal, fill, stream, output, promise, writes, faults>>

(* What a scan in this order yields next.                                  *)
IsNext(order, left, x) ==
    \E i \in DOMAIN order : x = order[i] /\ \A j \in 1 .. i - 1 : order[j] \notin left

NextNamespace ==
    /\ pc = "namespaces"
    /\ \E n \in mig.spaces :
          /\ IsNext(Spaces, mig.spaces, n)
          /\ mig' = [NoMigration EXCEPT
                        !.spaces = mig.spaces \ {n}, !.space = n,
                        !.docs = {k \in DocKeys : k[1] = n /\ kv[<<"d", k>>] # None},
                        !.stats = [NoStats EXCEPT !.revision = 1]]
    /\ pc' = "documents"
    /\ UNCHANGED <<kv, goal, fill, stream, output, promise, writes, faults>>

(* The rows of one converted document.  Mutant: the vector is left out.    *)
ConvertedBare(k) ==
    [NoRows EXCEPT ![<<"d", k>>] = [kv[<<"d", k>>] EXCEPT !.vector = None], ![<<"c", k>>] = 1]
Converted(k) ==
    [NoRows EXCEPT ![<<"d", k>>] = [kv[<<"d", k>>] EXCEPT !.vector = None],
                   ![<<"v", k>>] = kv[<<"d", k>>].vector,
                   ![<<"c", k>>] = 1]

(* The vector to count.  Mutant: a document without an inline vector, as   *)
(* resumption meets it, is taken to have none.                             *)
VectorOfInlineOnly(k) == kv[<<"d", k>>].vector
VectorOf(k) == LET inline == kv[<<"d", k>>].vector
               IN  IF inline # None THEN inline ELSE kv[<<"v", k>>]

Counted(stats, k) ==
    [stats EXCEPT !.documents = @ + 1, !.pending = @ + 1,
                  !.bytes = @ + 1 + Weight(VectorOf(k))]

ConvertDocument ==
    /\ pc = "documents"
    /\ \E k \in mig.docs :
          LET batch == Over(Converted(k), mig.batch)
              full == mig.count + 1 = Batch
          IN  /\ IsNext(Order, mig.docs, k)
              /\ mig' = [mig EXCEPT !.docs = @ \ {k}, !.stats = Counted(@, k),
                                    !.batch = IF full THEN NoRows ELSE batch,
                                    !.count = IF full THEN 0 ELSE @ + 1]
              /\ kv' = IF full THEN Over(batch, kv) ELSE kv
    /\ UNCHANGED <<pc, goal, fill, stream, output, promise, writes, faults>>

FinishNamespace ==
    /\ pc = "documents" /\ mig.docs = {}
    /\ kv' = Over(With(mig.batch, <<"s", mig.space>>, mig.stats), kv)
    /\ mig' = [NoMigration EXCEPT !.spaces = mig.spaces]
    /\ pc' = "namespaces"
    /\ UNCHANGED <<goal, fill, stream, output, promise, writes, faults>>

FinishMigration ==
    /\ pc = "namespaces" /\ mig.spaces = {}
    /\ kv' = With(kv, FormatKey, "v2")
    /\ mig' = NoMigration
    /\ pc' = Opened(goal)
    /\ UNCHANGED <<goal, fill, stream, output, promise, writes, faults>>

-----------------------------------------------------------------------------
(* A served database: clients create namespaces and upsert documents       *)
(* (Engine has the whole of it).                                           *)

Client == pc = "serving" /\ writes < MaxWrites /\ writes' = writes + 1

Create(n) ==
    /\ Client
    /\ kv[<<"n", n>>] = None
    /\ kv' = With(kv, <<"n", n>>, "schema")
    /\ UNCHANGED <<pc, goal, mig, fill, stream, output, promise, faults>>

Upsert(k, doc) ==
    LET n == k[1]
        old == kv[<<"d", k>>]
        stats == StatsAt(kv, n)
        total == [revision |-> stats.revision + 1,
                  documents |-> stats.documents + 1 - Weight(old),
                  bytes |-> stats.bytes + 1 + Weight(doc.vector)
                              - Weight(old) - Weight(kv[<<"v", k>>]),
                  pending |-> stats.pending + 1 - Weight(kv[<<"c", k>>])]
    IN  /\ Client
        /\ kv[<<"n", n>>] # None
        /\ kv' = [kv EXCEPT ![<<"d", k>>] = [doc EXCEPT !.vector = None],
                            ![<<"v", k>>] = doc.vector,
                            ![<<"c", k>>] = total.revision,
                            ![<<"s", n>>] = total]
        /\ promise' = [promise EXCEPT ![k] = doc]
        /\ UNCHANGED <<pc, goal, mig, fill, stream, output, faults>>

-----------------------------------------------------------------------------
(* Export and download: the server streams a pinned snapshot, the client   *)
(* collects it in a file of its own and links that file to the requested   *)
(* name once it is verified.                                               *)

Exporting == stream # NoStream

(* The rows a stream reads.  Mutant: the rows of the moment.               *)
SourceLive == kv
Source == stream.rows

ExportBegin ==
    /\ pc = "serving" /\ ~Exporting
    /\ stream' = [rows |-> kv, sent |-> 0, of |-> Content(kv), got |-> NoRows]
    /\ UNCHANGED <<kv, pc, goal, mig, fill, output, promise, writes, faults>>

(* Some of the next rows arrive.                                           *)
ExportRows(upto) ==
    /\ Exporting /\ pc = "serving"
    /\ upto \in stream.sent + 1 .. Len(KeyOrder)
    /\ LET part == {KeyOrder[i] : i \in stream.sent + 1 .. upto}
       IN  stream' = [stream EXCEPT !.sent = upto, !.got = Over(Only(part, Source), @)]
    /\ UNCHANGED <<kv, pc, goal, mig, fill, output, promise, writes, faults>>

(* The footer and the link.  Mutant: the file replaces an older backup.    *)
LinkReplaces(file) == output' = file
Link(file) == output' = IF output = None THEN file ELSE output

Downloaded ==
    /\ Exporting /\ stream.sent = Len(KeyOrder)
    /\ Link([rows |-> stream.got, sound |-> TRUE, of |-> stream.of])
    /\ stream' = NoStream
    /\ UNCHANGED <<kv, pc, goal, mig, fill, promise, writes, faults>>

(* The connection breaks or the file does not verify: it is removed.       *)
DownloadFails ==
    /\ Exporting /\ Fault
    /\ stream' = NoStream
    /\ UNCHANGED <<kv, pc, goal, mig, fill, output, promise, writes>>

(* A file is damaged at rest; restore holds a lock on it while it reads.   *)
Damage ==
    /\ output # None /\ output.sound /\ pc # "fill" /\ Fault
    /\ output' = [output EXCEPT !.sound = FALSE]
    /\ UNCHANGED <<kv, pc, goal, mig, fill, stream, promise, writes>>

-----------------------------------------------------------------------------
(* restore.                                                                *)

Verified(file) == file # None /\ file.sound /\ file.rows[FormatKey] = "v2"

(* Mutant: only the documents count.                                       *)
EmptyOfDocuments(rows) == \A k \in DocKeys : rows[<<"c", k>>] = None
Empty(rows) == Present(rows) = {FormatKey}

Stop ==
    /\ pc \in {"serving", "check"}
    /\ pc' = "down"
    /\ stream' = NoStream
    /\ UNCHANGED <<kv, goal, mig, fill, output, promise, writes, faults>>

RestoreBegin ==
    /\ pc = "check"
    /\ Verified(output) /\ Empty(kv)
    /\ kv' = With(kv, FormatKey, "restoring")
    /\ fill' = Present(output.rows) \ {FormatKey}
    /\ pc' = "fill"
    /\ UNCHANGED <<goal, mig, stream, output, promise, writes, faults>>

Filled(part) == Over(Only(part, output.rows), kv)

(* A full batch, of the next rows of the file; the code fills batches of   *)
(* one MiB.                                                                *)
RestoreBatch(upto) ==
    LET part == {key \in fill : \E i \in 1 .. upto : KeyOrder[i] = key}
    IN  /\ pc = "fill" /\ part # {}
        /\ kv' = Filled(part)
        /\ fill' = fill \ part
        /\ UNCHANGED <<pc, goal, mig, stream, output, promise, writes, faults>>

(* The last batch takes what is left and the marker.  Mutant: only the     *)
(* marker, the batch being cleared first.                                  *)
LastBatchEmpty == With(kv, FormatKey, "v2")
LastBatch == With(Filled(fill), FormatKey, "v2")

RestoreEnd ==
    /\ pc = "fill"
    /\ kv' = LastBatch
    /\ fill' = {}
    /\ promise' = output.of
    /\ pc' = "down"
    /\ UNCHANGED <<goal, mig, stream, output, writes, faults>>

-----------------------------------------------------------------------------
(* The environment.                                                        *)

Crash ==
    /\ pc # "down" /\ Fault
    /\ pc' = "down"
    /\ mig' = NoMigration /\ fill' = {} /\ stream' = NoStream
    /\ UNCHANGED <<kv, goal, output, promise, writes>>

(* The operator turns to an empty prefix, as the guide tells to restore.   *)
NewPrefix ==
    /\ pc = "down" /\ output # None
    /\ kv[FormatKey] \in {"v2", "restoring"}
    /\ kv' = NoRows
    /\ promise' = NoContent
    /\ UNCHANGED <<pc, goal, mig, fill, stream, output, writes, faults>>

Migration == MarkMigrating \/ NextNamespace \/ ConvertDocument \/ FinishNamespace \/ FinishMigration

Next ==
    \/ \E g \in {"serve", "restore", "exit"}, migrate \in BOOLEAN : Open(g, migrate)
    \/ Migration
    \/ \E n \in SpaceKeys : Create(n)
    \/ \E k \in DocKeys, doc \in Docs : Upsert(k, doc)
    \/ ExportBegin
    \/ \E upto \in 1 .. Len(KeyOrder) : ExportRows(upto)
    \/ Downloaded \/ DownloadFails \/ Damage
    \/ RestoreBegin
    \/ \E upto \in 1 .. Len(KeyOrder) : RestoreBatch(upto)
    \/ RestoreEnd
    \/ Stop \/ Crash \/ NewPrefix

(* A command goes on, and the operator runs migrate again after a crash.   *)
Fairness ==
    /\ WF_vars(Migration)
    /\ WF_vars(kv[FormatKey] = "migrating" /\ Open("exit", TRUE))

Spec == Init /\ [][Next]_vars /\ Fairness

-----------------------------------------------------------------------------
(* Properties.                                                             *)

(* Type correctness, and that a command in progress agrees with the marker:*)
(* what is served is marked v2, what is being migrated or restored is      *)
(* marked so.                                                              *)
TypeOK ==
    /\ pc \in {"down", "mark", "namespaces", "documents", "serving", "check", "fill"}
    /\ goal \in {"serve", "restore", "exit"}
    /\ kv[FormatKey] \in Markers \cup {None}
    /\ \A k \in DocKeys : /\ kv[<<"d", k>>] \in Docs \cup {None}
                          /\ kv[<<"v", k>>] \in Vectors \cup {None}
                          /\ kv[<<"c", k>>] \in Nat \cup {None}
    /\ promise \in [DocKeys -> Docs \cup {None}]
    /\ pc \in {"serving", "check"} => kv[FormatKey] = "v2"
    /\ pc \in {"namespaces", "documents"} => kv[FormatKey] = "migrating"
    /\ fill # {} => pc = "fill"
    /\ pc = "fill" => kv[FormatKey] = "restoring"
    /\ Exporting => pc = "serving"

(* The documents with their vectors survive migration, however often it is *)
(* interrupted, and everything else that leaves the prefix readable or     *)
(* resumable (backup.rs:105-157).                                          *)
NothingLost == kv[FormatKey] # "restoring" => Content(kv) = promise

(* A database marked v2 has no vector left inside a document, a change row *)
(* for every document that is not indexed, and the statistics its rows     *)
(* add up to: the quotas are decided from them (backup.rs:119-149).        *)
StatsFit(rows, n) ==
    LET docs == {k \in DocKeys : k[1] = n /\ rows[<<"d", k>>] # None}
        vectors == {k \in docs : rows[<<"v", k>>] # None}
        pending == {k \in DocKeys : k[1] = n /\ rows[<<"c", k>>] # None}
        stats == StatsAt(rows, n)
    IN  /\ \A k \in docs : rows[<<"d", k>>].vector = None
        /\ pending = docs
        /\ \A k \in pending : rows[<<"c", k>>] <= stats.revision
        /\ stats.documents = Cardinality(docs)
        /\ stats.pending = Cardinality(pending)
        /\ stats.bytes = Cardinality(docs) + Cardinality(vectors)
StatsRebuilt ==
    kv[FormatKey] = "v2" => \A n \in SpaceKeys : kv[<<"n", n>>] # None => StatsFit(kv, n)

(* The rows of one namespace, as module Engine has them.  Nothing here     *)
(* builds an index or deletes a namespace, so those families have no rows. *)
DocsIn(n) == {k \in DocKeys : k[1] = n}
RowsIn(n, gens) ==
    LET none == [k \in DocsIn(n) |-> None]
    IN  [n |-> kv[<<"n", n>>],
         s |-> StatsAt(kv, n),
         d |-> [k \in DocsIn(n) |-> IF kv[<<"d", k>>] = None THEN None ELSE kv[<<"d", k>>].attr],
         v |-> [k \in DocsIn(n) |-> kv[<<"v", k>>]],
         c |-> [k \in DocsIn(n) |-> IF kv[<<"c", k>>] = None THEN 0 ELSE kv[<<"c", k>>]],
         i |-> None, g |-> [gen \in gens |-> none], j |-> FALSE, z |-> FALSE]

(* The engine of that namespace, before it opens; its limits do not matter.*)
Served(n, gens) == INSTANCE Engine WITH
    Ids <- DocsIn(n), Vecs <- Vectors, Schemas <- {"schema"}, Gens <- gens,
    Documents <- [attr : Attrs, vec : Vectors \cup {None}],
    MaxRevision <- 0, MaxDocuments <- 0, MaxBytes <- 0, MaxPending <- 0,
    EraseErrors <- TRUE,
    kv <- RowsIn(n, gens),
    app <- [family \in {} |-> None], idx <- [family \in {} |-> None],
    schemaLock <- "free",
    task <- [pc |-> "idle", gen |-> None, revision |-> 0,
             content |-> [k \in DocsIn(n) |-> None], stale |-> {}],
    indexer <- "waiting", mode <- "down", ack <- 0, faults <- 0

(* A database marked v2 is one that module Engine may open, whichever of   *)
(* creation, migration and restore made it: for every name, there or not,  *)
(* the rows are fit, so what Engine shows of its own rows holds for them.  *)
EngineMayOpen ==
    /\ StatsRebuilt
    /\ kv[FormatKey] = "v2" => \A n \in SpaceKeys : Served(n, {1})!Opened

(* A backup that verifies holds one revision of the database it was        *)
(* streamed from, the one of the moment its snapshot was taken, whatever   *)
(* was written meanwhile (backup.rs:17-57).                                *)
BackupIsOneRevision ==
    output # None => /\ output.rows[FormatKey] = "v2"
                     /\ Content(output.rows) = output.of

(* A backup, once it has its name, is never replaced (backup.rs:254-255).  *)
BackupNotOverwritten ==
    [][output # None => output' # None /\ output'.rows = output.rows]_output

(* A prefix that is being restored becomes readable in one step, and holds *)
(* the whole of the backup then; an interrupted restore stays closed until *)
(* the prefix is given up (backup.rs:59-98, engine.rs:179-182).            *)
RestoreIsAllOrNothing ==
    [][kv[FormatKey] = "restoring" => kv'[FormatKey] = "restoring" \/ kv' = output.rows
                                       \/ kv' = NoRows]_kv

(* A restore never writes into a prefix that holds any row of a database   *)
(* (backup.rs:63-72).                                                      *)
RestoreNeedsEmpty ==
    [][kv[FormatKey] # "restoring" /\ kv'[FormatKey] = "restoring"
         => \A key \in Keys : kv[key] # None => key = FormatKey]_kv

(* A migration that was begun ends, if it is run again after a crash.      *)
MigrationFinishes == kv[FormatKey] = "migrating" ~> kv[FormatKey] = "v2"
=============================================================================
