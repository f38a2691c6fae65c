------------------------------- MODULE Engine -------------------------------
(***************************************************************************)
(* The life of one namespace inside one `Engine` (src/src/engine.rs): the  *)
(* rows it keeps in SlateDB, the application requests that change them,    *)
(* the index builder and cleaner, namespace deletion, and the crashes and  *)
(* errors between their durable steps.                                     *)
(*                                                                         *)
(* A namespace owns nine key families, and `kv` holds their durable rows:  *)
(*   n  the namespace configuration     s  the statistics row              *)
(*   d  document attributes             v  document vectors                *)
(*   c  change rows: the revision that last touched a document             *)
(*   i  the published index             g  the rows of index generations   *)
(*   j  "index cleanup is owed"         z  "deletion is under way"         *)
(*                                                                         *)
(* A commit is two steps: the batch is handed to SlateDB (the ...Commit    *)
(* actions), and later it is durable (the ...Durable actions).  Reads use  *)
(* DurabilityLevel::Remote, so they see `kv` alone.  Application commits   *)
(* and the index pointer travel in `app`, under schema_lock; the rows only *)
(* the holder of index_lock writes travel in `idx`.                        *)
(***************************************************************************)
EXTENDS Integers, FiniteSets

CONSTANTS Ids,            \* document identifiers
          Attrs, Vecs,    \* encoded attributes and encoded vectors
          Documents,      \* the documents that requests carry
          Schemas,        \* namespace configurations
          Gens,           \* index generations (UUIDs in the code)
          None,           \* an absent row
          MaxRevision,    \* u64::MAX in the code: the last revision
          MaxDocuments, MaxBytes, MaxPending,  \* the namespace quotas
          MaxFaults,      \* bound: crashes, shutdowns and errors of one run
          EraseErrors     \* whether a read may fail while a namespace is erased

ASSUME NoneAssumption ==
    /\ None \notin Attrs \cup Vecs \cup Schemas \cup Gens
    /\ None \notin [attr : Attrs, vec : Vecs \cup {None}]
    /\ None \notin [gen : Gens, revision : Nat, ids : SUBSET Ids]
ASSUME DocumentsAssumption == Documents \subseteq [attr : Attrs, vec : Vecs \cup {None}]
ASSUME IdsAssumption == IsFiniteSet(Ids)
ASSUME BoundsAssumption ==
    /\ {MaxRevision, MaxDocuments, MaxBytes, MaxPending, MaxFaults} \subseteq Nat
    /\ EraseErrors \in BOOLEAN

VARIABLES kv,          \* the durable rows, by family
          app, idx,    \* batches handed to SlateDB and not durable yet
          schemaLock,  \* "free", or who holds it: "app" (a request) or "task"
          task,        \* what the holder of index_lock is doing
          indexer,     \* what the periodic indexer chose after reading stats
          mode,        \* "down", "opening" or "serving"
          ack,         \* the highest revision acknowledged to a client
          faults       \* disruptions so far, up to MaxFaults
vars == <<kv, app, idx, schemaLock, task, indexer, mode, ack, faults>>

-----------------------------------------------------------------------------
\* Rows.

Docs   == [attr : Attrs, vec : Vecs \cup {None}]
Stats  == [revision : Nat, documents : Int, bytes : Int, pending : Int]
Status == [gen : Gens, revision : Nat, ids : SUBSET Ids]
NoStats   == [revision |-> 0, documents |-> 0, bytes |-> 0, pending |-> 0]
NoContent == [id \in Ids |-> None]
NoChanges == [id \in Ids |-> 0]
Families  == {"n", "s", "d", "v", "c", "i", "g", "j", "z"}

\* A WriteBatch is the families it rewrites, with their new rows.
Nothing == [family \in {} |-> None]
Apply(k, batch) == [f \in Families |-> IF f \in DOMAIN batch THEN batch[f] ELSE k[f]]

Doc(k, id) == IF k.d[id] = None THEN None ELSE [attr |-> k.d[id], vec |-> k.v[id]]
Content(k) == [id \in Ids |-> Doc(k, id)]

\* The ids that have a row in a family, and the rows of index generations.
Rows(family)  == {id \in Ids : family[id] # None}
Changed(k)    == {id \in Ids : k.c[id] # 0}
Generated(k)  == {row \in Gens \X Ids : k.g[row[1]][row[2]] # None}
Removed(family, S) == [id \in Ids |-> IF id \in S THEN None ELSE family[id]]
Dropped(g, S) ==
    [gen \in Gens |-> [id \in Ids |-> IF <<gen, id>> \in S THEN None ELSE g[gen][id]]]

Idle == [pc |-> "idle", gen |-> None, revision |-> 0, content |-> NoContent, stale |-> {}]
Pcs  == {"idle", "build", "mark", "stage", "resume", "scan", "tidy", "delete", "erase"}

EmptyRows == [n |-> None, s |-> NoStats, d |-> NoContent, v |-> NoContent, c |-> NoChanges,
              i |-> None, g |-> [gen \in Gens |-> NoContent], j |-> FALSE, z |-> FALSE]

Init ==
    /\ kv = EmptyRows
    /\ app = Nothing /\ idx = Nothing
    /\ schemaLock = "free"
    /\ task = Idle
    /\ indexer = "waiting"
    /\ mode = "serving"
    /\ ack = 0
    /\ faults = 0

-----------------------------------------------------------------------------
\* Application requests: lock schema_lock, read, hand over one batch, and keep
\* the lock until the batch is durable, whatever becomes of the caller.

Serving    == mode = "serving"
SchemaFree == schemaLock = "free"

\* A second create with the same configuration is a read; one with another is
\* refused (Error::Conflict).
CreateCommit(schema) ==
    /\ Serving /\ SchemaFree
    /\ kv.n = None
    /\ app' = [n |-> schema]
    /\ schemaLock' = "app"
    /\ UNCHANGED <<kv, idx, task, indexer, mode, ack, faults>>

\* Mutant: the vector of a replaced document stays in `bytes`.
StatsKeepOldVector(k, request) ==
    LET touched == DOMAIN request
        old     == {id \in touched : k.d[id] # None}
        new     == {id \in touched : request[id] # None}
    IN  [revision  |-> k.s.revision + 1,
         documents |-> k.s.documents - Cardinality(old) + Cardinality(new),
         bytes     |-> k.s.bytes - Cardinality(old) + Cardinality(new)
                         + Cardinality({id \in new : request[id].vec # None}),
         pending   |-> k.s.pending + Cardinality({id \in touched : k.c[id] = 0})]

\* The statistics after a request, from the rows it replaces. A row is one
\* unit of `bytes`: the vector of an old document counts only with it.
StatsAfter(k, request) ==
    LET touched == DOMAIN request
        old     == {id \in touched : k.d[id] # None}
        new     == {id \in touched : request[id] # None}
    IN  [revision  |-> k.s.revision + 1,
         documents |-> k.s.documents - Cardinality(old) + Cardinality(new),
         bytes     |-> k.s.bytes
                         - Cardinality(old) - Cardinality({id \in old : k.v[id] # None})
                         + Cardinality(new) + Cardinality({id \in new : request[id].vec # None}),
         pending   |-> k.s.pending + Cardinality({id \in touched : k.c[id] = 0})]

WithinQuota(stats) ==
    /\ stats.documents <= MaxDocuments
    /\ stats.bytes <= MaxBytes
    /\ stats.pending <= MaxPending

\* Mutant: the document is stored without taking its vector out.
BatchKeepsVectorInline(k, request) ==
    [s |-> StatsAfter(k, request),
     d |-> [id \in Ids |-> IF id \in DOMAIN request THEN request[id] ELSE k.d[id]],
     c |-> [id \in Ids |-> IF id \in DOMAIN request THEN k.s.revision + 1 ELSE k.c[id]]]

\* A request maps each document it touches to its new value, None for a delete.
WriteBatch(k, request) ==
    LET touched == DOMAIN request
        row(id) == request[id]
    IN  [s |-> StatsAfter(k, request),
         d |-> [id \in Ids |-> IF id \notin touched THEN k.d[id]
                               ELSE IF row(id) = None THEN None ELSE row(id).attr],
         v |-> [id \in Ids |-> IF id \notin touched THEN k.v[id]
                               ELSE IF row(id) = None THEN None ELSE row(id).vec],
         c |-> [id \in Ids |-> IF id \in touched THEN k.s.revision + 1 ELSE k.c[id]]]

Requests == UNION {[touched -> Documents \cup {None}] : touched \in SUBSET Ids \ {{}}}

\* Mutant: the client is answered before await_durable.
WriteAcksEarly(request) ==
    /\ Serving /\ SchemaFree
    /\ kv.n # None
    /\ kv.s.revision < MaxRevision
    /\ WithinQuota(StatsAfter(kv, request))
    /\ app' = WriteBatch(kv, request)
    /\ schemaLock' = "app"
    /\ ack' = kv.s.revision + 1
    /\ UNCHANGED <<kv, idx, task, indexer, mode, faults>>

WriteCommit(request) ==
    /\ Serving /\ SchemaFree
    /\ kv.n # None
    /\ kv.s.revision < MaxRevision
    /\ WithinQuota(StatsAfter(kv, request))
    /\ app' = WriteBatch(kv, request)
    /\ schemaLock' = "app"
    /\ UNCHANGED <<kv, idx, task, indexer, mode, ack, faults>>

\* Durable: the guard is dropped and the client has its answer.
RequestDurable ==
    /\ schemaLock = "app"
    /\ kv' = Apply(kv, app)
    /\ app' = Nothing
    /\ schemaLock' = "free"
    /\ ack' = IF "s" \in DOMAIN app THEN app.s.revision ELSE ack
    /\ UNCHANGED <<idx, task, indexer, mode, faults>>

-----------------------------------------------------------------------------
\* The index builder (build_index_inner), under index_lock. It shares its lock
\* with the cleaner and with deletion, so one `task` describes all three.

Goto(pc) == task' = [task EXCEPT !.pc = pc]

IdxDurable ==
    /\ idx # Nothing
    /\ kv' = Apply(kv, idx)
    /\ idx' = Nothing
    /\ UNCHANGED <<app, schemaLock, indexer, mode, ack, faults>>

\* Hand over a batch of rows only the holder of index_lock writes, once the
\* batch before it is durable.
IdxCommit(batch) ==
    /\ idx = Nothing /\ schemaLock # "task"
    /\ idx' = batch
    /\ UNCHANGED <<kv, app, schemaLock, task, indexer, mode, ack, faults>>

\* Hand over a batch under schema_lock, held until the batch is durable.
TaskCommit(batch) ==
    /\ idx = Nothing
    /\ SchemaFree
    /\ app' = batch
    /\ schemaLock' = "task"
    /\ UNCHANGED <<kv, idx, indexer, mode, ack, faults>>

TaskDurable ==
    /\ schemaLock = "task" /\ app # Nothing
    /\ kv' = Apply(kv, app)
    /\ app' = Nothing
    /\ UNCHANGED <<idx, indexer, mode, faults>>

\* rebuild_index, called by a client at any time.
BuildLock ==
    /\ Serving
    /\ task.pc = "idle"
    /\ Goto("build")
    /\ UNCHANGED <<kv, app, idx, schemaLock, indexer, mode, ack, faults>>

\* The snapshot the generation is built from. The generation is a fresh UUID:
\* no row, pointer or builder knows it.
BuildSnapshot(gen) ==
    /\ task.pc = "build"
    /\ SchemaFree
    /\ kv.n # None
    /\ kv.g[gen] = NoContent
    /\ kv.i # None => kv.i.gen # gen
    /\ task' = [pc |-> "mark", gen |-> gen, revision |-> kv.s.revision,
                content |-> Content(kv), stale |-> {}]
    /\ UNCHANGED <<kv, app, idx, schemaLock, indexer, mode, ack, faults>>

\* The namespace is gone (or was never there): Error::NotFound.
BuildRefused ==
    /\ task.pc = "build"
    /\ SchemaFree
    /\ kv.n = None
    /\ task' = Idle
    /\ UNCHANGED <<kv, app, idx, schemaLock, indexer, mode, ack, faults>>

MarkCommit == task.pc = "mark" /\ IdxCommit([j |-> TRUE])
MarkDurable == task.pc = "mark" /\ IdxDurable /\ Goto("stage")

\* Entries of the generation that are still to be written; they go out in
\* batches of about 1 MiB, here any non-empty part of what is left.
Unstaged == {id \in Ids : task.content[id] # None /\ kv.g[task.gen][id] = None}

StageCommit(part) ==
    /\ task.pc = "stage"
    /\ part # {} /\ part \subseteq Unstaged
    /\ IdxCommit([g |-> [kv.g EXCEPT ![task.gen] =
                     [id \in Ids |-> IF id \in part THEN task.content[id] ELSE @[id]]]])
StageDurable == task.pc = "stage" /\ IdxDurable /\ UNCHANGED task

\* Mutant: the last, partial batch of entries is never written.
PublishUnstaged ==
    /\ task.pc = "stage"
    /\ TaskCommit([i |-> [gen |-> task.gen, revision |-> task.revision,
                          ids |-> Rows(task.content)]])
    /\ UNCHANGED task

PublishCommit ==
    /\ task.pc = "stage"
    /\ Unstaged = {}
    /\ TaskCommit([i |-> [gen |-> task.gen, revision |-> task.revision,
                          ids |-> Rows(task.content)]])
    /\ UNCHANGED task
PublishDurable ==
    /\ task.pc = "stage"
    /\ TaskDurable
    /\ schemaLock' = "free"
    /\ Goto("scan")
    /\ UNCHANGED ack

-----------------------------------------------------------------------------
\* The cleaner (cleanup_inner), run by a build after it publishes and by
\* resume_index_cleanup, with `task.gen` and `task.revision` the active index.

\* The change rows at or below the watermark are listed from a snapshot; they
\* are read again under schema_lock before they go.
CleanScan ==
    /\ task.pc = "scan"
    /\ SchemaFree
    /\ task' = [task EXCEPT !.pc = "tidy",
                            !.stale = {id \in Changed(kv) : kv.c[id] <= task.revision}]
    /\ UNCHANGED <<kv, app, idx, schemaLock, indexer, mode, ack, faults>>

\* Rows of every other generation. Only the holder of index_lock writes g/, so
\* what the scan lists is what is there.
Retired == {row \in Generated(kv) : row[1] # task.gen}

RetireCommit(part) ==
    /\ task.pc = "tidy"
    /\ part # {} /\ part \subseteq Retired
    /\ IdxCommit([g |-> Dropped(kv.g, part)])
RetireDurable ==
    /\ task.pc = "tidy" /\ "g" \in DOMAIN idx
    /\ IdxDurable
    /\ UNCHANGED task

\* Mutant: the listed rows go without being read again.
CleanUnchecked(part) ==
    /\ task.pc = "tidy"
    /\ Retired = {}
    /\ part # {} /\ part \subseteq task.stale
    /\ TaskCommit([c |-> [id \in Ids |-> IF id \in part THEN 0 ELSE kv.c[id]],
                   s |-> [kv.s EXCEPT !.pending = @ - Cardinality(part)]])
    /\ task' = [task EXCEPT !.stale = @ \ part]

\* Mutant: every listed row is counted, deleted or not.
CleanOvercounts(part) ==
    LET gone == {id \in part : kv.c[id] # 0 /\ kv.c[id] <= task.revision}
    IN  /\ task.pc = "tidy"
        /\ Retired = {}
        /\ part # {} /\ part \subseteq task.stale
        /\ TaskCommit([c |-> [id \in Ids |-> IF id \in gone THEN 0 ELSE kv.c[id]],
                       s |-> [kv.s EXCEPT !.pending = @ - Cardinality(part)]])
        /\ task' = [task EXCEPT !.stale = @ \ part]

\* A listed row is deleted only if it still is at or below the watermark.
CleanCommit(part) ==
    LET gone == {id \in part : kv.c[id] # 0 /\ kv.c[id] <= task.revision}
    IN  /\ task.pc = "tidy"
        /\ Retired = {}
        /\ part # {} /\ part \subseteq task.stale
        /\ TaskCommit([c |-> [id \in Ids |-> IF id \in gone THEN 0 ELSE kv.c[id]],
                       s |-> [kv.s EXCEPT !.pending = @ - Cardinality(gone)]])
        /\ task' = [task EXCEPT !.stale = @ \ part]
CleanDurable ==
    /\ task.pc = "tidy"
    /\ TaskDurable
    /\ schemaLock' = "free"
    /\ UNCHANGED <<task, ack>>

\* Mutant: the mark goes while old generations are still there.
UnmarkEarly ==
    /\ task.pc = "tidy"
    /\ IdxCommit([j |-> FALSE])

UnmarkCommit ==
    /\ task.pc = "tidy"
    /\ Retired = {} /\ task.stale = {}
    /\ IdxCommit([j |-> FALSE])
UnmarkDurable ==
    /\ task.pc = "tidy" /\ "j" \in DOMAIN idx
    /\ IdxDurable
    /\ task' = Idle

-----------------------------------------------------------------------------
\* The periodic indexer (run_indexer): it lists the namespaces, reads the
\* statistics of each, and acts on them later, when index_lock is its own.

IndexerTick ==
    /\ Serving /\ SchemaFree
    /\ indexer = "waiting"
    /\ kv.n # None
    /\ indexer' = "listed"
    /\ UNCHANGED <<kv, app, idx, schemaLock, task, mode, ack, faults>>

\* Mutants: a single pending document is overlooked; only pending
\* documents are looked at, never the cleanup mark.
StatsOverlookOne ==
    /\ Serving /\ SchemaFree
    /\ indexer = "listed"
    /\ indexer' = IF kv.n # None /\ kv.s.pending > 1 THEN "rebuild" ELSE "resume"
    /\ UNCHANGED <<kv, app, idx, schemaLock, task, mode, ack, faults>>
StatsNeverResume ==
    /\ Serving /\ SchemaFree
    /\ indexer = "listed"
    /\ indexer' = IF kv.n # None /\ kv.s.pending > 0 THEN "rebuild" ELSE "waiting"
    /\ UNCHANGED <<kv, app, idx, schemaLock, task, mode, ack, faults>>

\* The statistics of a namespace deleted since are an error, taken for none.
IndexerStats ==
    /\ Serving /\ SchemaFree
    /\ indexer = "listed"
    /\ indexer' = IF kv.n # None /\ kv.s.pending > 0 THEN "rebuild" ELSE "resume"
    /\ UNCHANGED <<kv, app, idx, schemaLock, task, mode, ack, faults>>

IndexerRebuild ==
    /\ Serving
    /\ indexer = "rebuild" /\ task.pc = "idle"
    /\ indexer' = "waiting"
    /\ Goto("build")
    /\ UNCHANGED <<kv, app, idx, schemaLock, mode, ack, faults>>

\* resume_index_cleanup finishes what an interrupted build or cleanup left.
IndexerResume ==
    /\ Serving
    /\ indexer = "resume" /\ task.pc = "idle"
    /\ indexer' = "waiting"
    /\ IF kv.j THEN Goto("resume") ELSE UNCHANGED task
    /\ UNCHANGED <<kv, app, idx, schemaLock, mode, ack, faults>>

ResumeSnapshot ==
    /\ task.pc = "resume"
    /\ SchemaFree
    /\ task' = [task EXCEPT !.pc = "scan",
                            !.gen = IF kv.i = None THEN None ELSE kv.i.gen,
                            !.revision = IF kv.i = None THEN 0 ELSE kv.i.revision]
    /\ UNCHANGED <<kv, app, idx, schemaLock, indexer, mode, ack, faults>>

-----------------------------------------------------------------------------
\* Deletion (delete_namespace, erase_namespace): index_lock, then schema_lock,
\* both held until the last row is gone.

DeleteLock ==
    /\ Serving
    /\ task.pc = "idle"
    /\ Goto("delete")
    /\ UNCHANGED <<kv, app, idx, schemaLock, indexer, mode, ack, faults>>

\* Mutant: the intent does not remove the namespace row.
IntentKeepsNamespace ==
    /\ task.pc = "delete"
    /\ TaskCommit([z |-> TRUE])
    /\ UNCHANGED task

IntentCommit ==
    /\ task.pc = "delete"
    /\ TaskCommit([n |-> None, z |-> TRUE])
    /\ UNCHANGED task
IntentDurable ==
    /\ task.pc = "delete"
    /\ TaskDurable
    /\ ack' = 0
    /\ Goto("erase")
    /\ UNCHANGED schemaLock

\* The erasing task hands over one more batch under the locks it holds.
EraseCommit(batch) ==
    /\ task.pc = "erase" /\ app = Nothing
    /\ app' = batch
    /\ UNCHANGED <<kv, idx, schemaLock, task, indexer, mode, ack, faults>>

\* Families go in the order d, v, c, g, each in chunks.
EraseDocuments(part) ==
    /\ part # {} /\ part \subseteq Rows(kv.d)
    /\ EraseCommit([d |-> Removed(kv.d, part)])
EraseVectors(part) ==
    /\ Rows(kv.d) = {}
    /\ part # {} /\ part \subseteq Rows(kv.v)
    /\ EraseCommit([v |-> Removed(kv.v, part)])
EraseChanges(part) ==
    /\ Rows(kv.d) = {} /\ Rows(kv.v) = {}
    /\ part # {} /\ part \subseteq Changed(kv)
    /\ EraseCommit([c |-> [id \in Ids |-> IF id \in part THEN 0 ELSE kv.c[id]]])
EraseGenerations(part) ==
    /\ Rows(kv.d) = {} /\ Rows(kv.v) = {} /\ Changed(kv) = {}
    /\ part # {} /\ part \subseteq Generated(kv)
    /\ EraseCommit([g |-> Dropped(kv.g, part)])
EraseDurable ==
    /\ task.pc = "erase" /\ "z" \notin DOMAIN app
    /\ TaskDurable
    /\ UNCHANGED <<schemaLock, task, ack>>

\* The pointer, the statistics and both markers go last, in one batch.
ForgetCommit ==
    /\ Rows(kv.d) = {} /\ Rows(kv.v) = {} /\ Changed(kv) = {} /\ Generated(kv) = {}
    /\ EraseCommit([i |-> None, s |-> NoStats, z |-> FALSE, j |-> FALSE])
ForgetDurable ==
    /\ task.pc = "erase" /\ "z" \in DOMAIN app
    /\ TaskDurable
    /\ schemaLock' = "free"
    /\ task' = Idle
    /\ UNCHANGED ack

-----------------------------------------------------------------------------
\* Errors, crashes, shutdown, and opening again.

Disrupt == faults < MaxFaults /\ faults' = faults + 1

\* A failed read or commit ends the task with `?`, and its guards drop.
TaskError ==
    /\ task.pc \notin {"idle", "erase"}
    /\ idx = Nothing /\ schemaLock # "task"
    /\ Disrupt
    /\ task' = Idle
    /\ UNCHANGED <<kv, app, idx, schemaLock, indexer, mode, ack>>

\* The same while erasing. A serving engine goes on; `open` returns the error.
EraseError ==
    /\ EraseErrors
    /\ task.pc = "erase" /\ app = Nothing
    /\ Disrupt
    /\ task' = Idle
    /\ schemaLock' = "free"
    /\ mode' = IF mode = "opening" THEN "down" ELSE mode
    /\ UNCHANGED <<kv, app, idx, indexer, ack>>

\* The process is gone. Each batch in flight is in the WAL or lost, whole.
Crash ==
    /\ mode # "down"
    /\ Disrupt
    /\ kv' \in {kv, Apply(kv, app), Apply(kv, idx), Apply(Apply(kv, app), idx)}
    /\ ack' = IF kv'.n = None THEN 0 ELSE ack
    /\ app' = Nothing /\ idx' = Nothing
    /\ schemaLock' = "free"
    /\ task' = Idle
    /\ indexer' = "waiting"
    /\ mode' = "down"

\* A graceful close waits for both locks.
Close ==
    /\ Serving /\ SchemaFree
    /\ task.pc = "idle"
    /\ Disrupt
    /\ indexer' = "waiting"
    /\ mode' = "down"
    /\ UNCHANGED <<kv, app, idx, schemaLock, task, ack>>

\* Mutant: opening does not look for interrupted deletions.
ReopenIgnoresIntent ==
    /\ mode = "down"
    /\ mode' = "opening"
    /\ UNCHANGED <<kv, app, idx, schemaLock, task, indexer, ack, faults>>

\* Opening resumes a deletion whose intent is durable before it serves. No
\* lock is taken: the engine is not shared yet.
Reopen ==
    /\ mode = "down"
    /\ mode' = "opening"
    /\ IF kv.z THEN Goto("erase") /\ schemaLock' = "task"
               ELSE UNCHANGED <<task, schemaLock>>
    /\ UNCHANGED <<kv, app, idx, indexer, ack, faults>>
OpenDone ==
    /\ mode = "opening" /\ task.pc = "idle"
    /\ mode' = "serving"
    /\ UNCHANGED <<kv, app, idx, schemaLock, task, indexer, ack, faults>>

-----------------------------------------------------------------------------
Request ==
    \/ \E schema \in Schemas : CreateCommit(schema)
    \/ \E request \in Requests : WriteCommit(request)
Build ==
    \/ \E gen \in Gens : BuildSnapshot(gen)
    \/ BuildRefused \/ MarkCommit \/ MarkDurable
    \/ \E part \in SUBSET Ids : StageCommit(part)
    \/ StageDurable \/ PublishCommit \/ PublishDurable
Clean ==
    \/ ResumeSnapshot \/ CleanScan
    \/ \E part \in SUBSET Retired : RetireCommit(part)
    \/ RetireDurable
    \/ \E part \in SUBSET Ids : CleanCommit(part)
    \/ CleanDurable \/ UnmarkCommit \/ UnmarkDurable
Erase ==
    \/ \E part \in SUBSET Ids : EraseDocuments(part) \/ EraseVectors(part) \/ EraseChanges(part)
    \/ \E part \in SUBSET Generated(kv) : EraseGenerations(part)
    \/ EraseDurable \/ ForgetCommit \/ ForgetDurable
Indexer == IndexerTick \/ IndexerStats \/ IndexerRebuild \/ IndexerResume

Next ==
    \/ Request \/ RequestDurable
    \/ BuildLock \/ Build \/ Clean \/ Indexer
    \/ DeleteLock \/ IntentCommit \/ IntentDurable \/ Erase
    \/ TaskError \/ EraseError \/ Crash \/ Close \/ Reopen \/ OpenDone

Spec == Init /\ [][Next]_vars

\* SlateDB answers every commit and a supervisor restarts the process: weak
\* fairness. What waits for schema_lock or index_lock gets it in turn, tokio's
\* Mutex being a FIFO queue, and the indexer's timer keeps ticking: strong
\* fairness. The steps joined here exclude one another.
Fairness ==
    /\ WF_vars(RequestDurable \/ IntentDurable \/ Erase \/ Reopen \/ OpenDone)
    /\ SF_vars(Build \/ Clean \/ IntentCommit)
    /\ SF_vars(Indexer)
FairSpec == Spec /\ Fairness

-----------------------------------------------------------------------------
\* Properties.

RowType == [n |-> Schemas \cup {None},
            s |-> Stats,
            d |-> [Ids -> Attrs \cup {None}],
            v |-> [Ids -> Vecs \cup {None}],
            c |-> [Ids -> Nat],
            i |-> Status \cup {None},
            g |-> [Gens -> [Ids -> Docs \cup {None}]],
            j |-> BOOLEAN,
            z |-> BOOLEAN]
RowsOK(rows) ==
    /\ DOMAIN rows \subseteq Families
    /\ \A family \in DOMAIN rows : rows[family] \in RowType[family]
TaskOK ==
    /\ task \in [pc : Pcs, gen : Gens \cup {None}, revision : Nat,
                content : [Ids -> Docs \cup {None}], stale : SUBSET Ids]
    /\ task.pc \in {"mark", "stage"} => task.gen \in Gens

\* Types: the durable rows and the batches in flight are well formed, and
\* index_lock alone covers no family but the generations and their mark.
TypeOK ==
    /\ DOMAIN kv = Families /\ RowsOK(kv)
    /\ RowsOK(app)
    /\ RowsOK(idx) /\ DOMAIN idx \subseteq {"g", "j"}
    /\ TaskOK
    /\ schemaLock \in {"free", "app", "task"}
    /\ indexer \in {"waiting", "listed", "rebuild", "resume"}
    /\ mode \in {"down", "opening", "serving"}
    /\ ack \in Nat
    /\ faults \in 0 .. MaxFaults

\* The statistics row counts exactly the rows that are durable with it, after
\* any mix of requests, cleanups and crashes: `write` and `cleanup_inner` add
\* to and subtract from it, and never recount. Nor is a vector left without
\* its document.
StatsExact == ~kv.z =>
    /\ kv.s.documents = Cardinality(Rows(kv.d))
    /\ kv.s.bytes = Cardinality(Rows(kv.d)) + Cardinality(Rows(kv.v))
    /\ kv.s.pending = Cardinality(Changed(kv))
    /\ Rows(kv.v) \subseteq Rows(kv.d)

\* The unsigned subtractions of `write` and `cleanup_inner` cannot wrap, not
\* even in a namespace created over a half-erased one: no counter is ever
\* below the rows it may still be decremented for.
CountersNeverWrap ==
    /\ kv.s.documents >= Cardinality(Rows(kv.d))
    /\ kv.s.bytes >= Cardinality(Rows(kv.d)) + Cardinality(Rows(kv.v) \cap Rows(kv.d))
    /\ kv.s.pending >= Cardinality(Changed(kv))

\* A query answers from the published generation for every document without a
\* change row above the watermark. For each of those the generation agrees with
\* the document rows, whatever was written during the build and its cleanup.
OverlayExact == (~kv.z /\ kv.i # None) =>
    \A id \in Ids : kv.c[id] <= kv.i.revision => kv.g[kv.i.gen][id] = Doc(kv, id)

\* "The engine publishes their pointer only after every block is durable"
\* (index.rs): the generation holds every row its status counts and no other,
\* also for documents changed since; text_query subtracts those old rows.
PublishedGenerationComplete == (~kv.z /\ kv.i # None) =>
    {id \in Ids : kv.g[kv.i.gen][id] # None} = kv.i.ids

\* What an interrupted build, cleanup or crash leaves behind is always marked:
\* a row of another generation, or a change row the index covers, without j/
\* would never be collected.
GarbageIsMarked == (~kv.z /\ ~kv.j) =>
    /\ \A row \in Generated(kv) : kv.i # None /\ kv.i.gen = row[1]
    /\ \A id \in Changed(kv) : kv.i = None \/ kv.c[id] > kv.i.revision

\* An acknowledged write is durable until the namespace is deleted: the rows a
\* client can read never fall back behind a revision it was told of.
AckedIsDurable == (Serving /\ kv.n # None) => ack <= kv.s.revision

\* Nothing but an erasure under way takes an acknowledged write back: also where
\* erasures fail and names are created over what they leave (the finding), every
\* step that loses one finds the deletion intent z/ in place.
Acked == kv.n # None => ack <= kv.s.revision
OnlyErasureLosesAcked == [][Acked /\ ~Acked' => kv.z]_vars

\* The invariant behind OverlayExact and PublishedGenerationComplete. It speaks of
\* every set of rows the batches in flight may leave, so a commit is where work is
\* done and a durable step or a crash only picks one of them.
Outcomes == {kv, Apply(kv, app), Apply(kv, idx), Apply(Apply(kv, app), idx)}

\* Who may have which batch in flight.
LockInv ==
    /\ schemaLock = "free" => app = Nothing
    /\ schemaLock = "app" => DOMAIN app \subseteq {"n", "s", "d", "v", "c"}
    /\ schemaLock = "task" => task.pc \in {"stage", "tidy", "delete", "erase"}
    /\ idx # Nothing => task.pc \in {"mark", "stage", "tidy"} /\ schemaLock # "task"
    /\ (schemaLock = "task" /\ task.pc = "stage") =>
          app = [i |-> [gen |-> task.gen, revision |-> task.revision, ids |-> Rows(task.content)]]
    /\ (schemaLock = "task" /\ task.pc = "delete") => Apply(kv, app).z
    /\ task.pc = "erase" => schemaLock = "task" /\ kv.z
    /\ mode = "down" => idx = Nothing /\ schemaLock = "free" /\ task.pc = "idle"

\* The published index is exact up to its watermark, and no newer than the rows.
IndexExact(k) == ~k.z =>
    /\ \A id \in Ids : k.c[id] <= k.s.revision
    /\ k.i # None =>
          /\ k.i.revision <= k.s.revision
          /\ {id \in Ids : k.g[k.i.gen][id] # None} = k.i.ids
          /\ \A id \in Ids : k.c[id] <= k.i.revision => k.g[k.i.gen][id] = Doc(k, id)

\* A builder's content is exact up to its revision, and only it is being staged.
BuildExact(k) == (~k.z /\ task.pc \in {"mark", "stage"}) =>
    /\ task.revision <= k.s.revision
    /\ \A id \in Ids : k.c[id] <= task.revision => task.content[id] = Doc(k, id)
    /\ \A id \in Ids : k.g[task.gen][id] \in {None, task.content[id]}
    /\ (k.i # None /\ k.i.gen = task.gen) =>
          task.pc = "stage" /\ k.g[task.gen] = task.content

\* A cleaner works for the index that is published.
CleanExact(k) == (~k.z /\ task.pc \in {"scan", "tidy"}) =>
    IF k.i = None THEN task.revision = 0
                  ELSE task.gen = k.i.gen /\ task.revision = k.i.revision

IndexInv ==
    /\ LockInv
    /\ \A k \in Outcomes : IndexExact(k) /\ BuildExact(k) /\ CleanExact(k)

\* Rows on which an engine may be opened: what a crash leaves, a backup holds and
\* a migration makes. Whatever has happened, statistics, index and marks are what
\* the next process relies on, and an absent namespace has nothing to show.
RowsFit ==
    /\ kv = [family \in Families |-> kv[family]] /\ RowsOK(kv)
    /\ IndexExact(kv) /\ StatsExact /\ CountersNeverWrap /\ GarbageIsMarked
    /\ (kv.n = None /\ ~kv.z) => kv.d = NoContent /\ kv.s.revision = 0

\* A process that is about to open such rows, and all that follows.
Opened ==
    /\ RowsFit
    /\ app = Nothing /\ idx = Nothing
    /\ schemaLock = "free"
    /\ task = Idle
    /\ indexer = "waiting"
    /\ mode = "down"
    /\ ack = 0
    /\ faults = 0
OpenSpec == Opened /\ [][Next]_vars

\* What clients see of the rows: an absent namespace hides whatever is left.
Store == INSTANCE DocStore WITH
    ns   <- kv.n,
    docs <- IF kv.n = None THEN NoContent ELSE Content(kv),
    rev  <- IF kv.n = None THEN 0 ELSE kv.s.revision

\* The engine implements the abstract store: whatever is interrupted, a client
\* sees whole writes, in revision order, and whole deletions; building, staging,
\* publishing and cleaning change nothing it can read.
ImplementsStore == Store!Spec

\* The same with failed erasures: every step that finds no deletion intent is a
\* create, a write or a deletion of the store, whole, or shows nothing; a name
\* whose erasure has ended starts over, empty and at revision 0.
StepsImplementStore == [][~kv.z => [Store!Next]_(Store!vars)]_vars

\* "New writes remain in c/ and are overlaid" only until the indexer gets to
\* them: every durable revision is eventually in the published index, through
\* failed builds and restarts, unless the namespace is deleted.
IndexCatchesUp == \A r \in 1 .. MaxRevision :
    (kv.n # None /\ kv.s.revision = r)
        ~> (kv.n = None \/ (kv.i # None /\ kv.i.revision >= r))

\* Garbage an interrupted build or cleanup left is collected, and its mark goes.
GarbageIsCollected == kv.j ~> ~kv.j

\* A deletion whose intent is durable finishes, before or after a restart.
DeletionFinishes == kv.z ~> ~kv.z
=============================================================================
