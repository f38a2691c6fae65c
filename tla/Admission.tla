----------------------------- MODULE Admission -----------------------------
(***************************************************************************)
(* Who holds what in a server that runs one Engine: the permits of the     *)
(* HTTP layer and of queries, the two mutexes of the engine, the tasks and *)
(* blocking batches that outlive the request that started them, deadlines, *)
(* clients that go away, and the orderly shutdown.                         *)
(*                                                                         *)
(* What requests read and write is Engine and Query; here a commit is only *)
(* in flight or not.  The kinds of request stand for those that lock alike:*)
(* "read" (get, list, stats, status), "query" (a text search is one without*)
(* a blocking batch), "export", "write" (also create, and delete of a      *)
(* document), "rebuild", and "delete" (of a namespace, its batches counted *)
(* as one commit).                                                         *)
(***************************************************************************)
EXTENDS Naturals, Sequences, FiniteSets

CONSTANTS Requests,     \* the requests of one life of the server
          Indexer,      \* the periodic indexer (engine.rs run_indexer)
          Closer,       \* the shutdown (engine.rs close)
          Mixes,        \* what the requests may be, together
          MaxRequests,  \* handlers at a time: 64 in the code
          MaxQueries    \* server.max_concurrent_queries

ASSUME AdmissionParties == Indexer # Closer /\ {Indexer, Closer} \cap Requests = {}
ASSUME AdmissionKinds ==
    Mixes \subseteq [Requests -> {"read", "query", "export", "write", "rebuild", "delete"}]
ASSUME AdmissionLimits == {MaxRequests, MaxQueries} \subseteq Nat \ {0}

Parties == Requests \cup {Indexer}
Locks   == {"index", "schema"}

VARIABLES
    kind,     \* what each request asks
    pc,       \* where its handler is
    job,      \* what the task or batch it spawned is doing
    slots,    \* the requests with a query permit that is not dropped yet
    queue,    \* the mutexes: tokio's are fair, the first in the queue holds it
    commits,  \* the parties whose commit is handed over and not durable
    torn,     \* the parties whose snapshot was taken while a commit was in flight
    db,       \* SlateDB: "open", "failed" or "closed"
    server    \* "serving", "draining", "stopping", "closing" or "closed"

vars == <<kind, pc, job, slots, queue, commits, torn, db, server>>

Init ==
    /\ \E mix \in Mixes :
          kind = [p \in Parties |-> IF p = Indexer THEN "rebuild" ELSE mix[p]]
    /\ pc = [p \in Parties |-> "idle"]
    /\ job = [p \in Parties |-> "none"]
    /\ slots = {} /\ commits = {} /\ torn = {}
    /\ queue = [l \in Locks |-> <<>>]
    /\ db = "open"
    /\ server = "serving"

\* A handler between its admission and its response headers.
Handling == {"index", "schema", "reading", "awaiting"}
Admitted == {r \in Requests : pc[r] \in Handling}

Slotted   == {"query", "export"}
Reading   == Slotted \cup {"read"}
Commits   == {"write", "delete"}
FirstLock(k) == IF k \in {"rebuild", "delete"} THEN "index" ELSE "schema"

Waits(q, p, l) == [q EXCEPT ![l] = Append(@, p)]
\* A party is in a queue once, or not at all.
Queued(s, p)   == \E i \in DOMAIN s : s[i] = p
Removed(s, p)  == IF ~Queued(s, p) THEN s
                  ELSE LET at == CHOOSE i \in DOMAIN s : s[i] = p
                       IN  SubSeq(s, 1, at - 1) \o SubSeq(s, at + 1, Len(s))
Without(q, p)  == [l \in DOMAIN q |-> Removed(q[l], p)]
Leaves(q, p, l) == [q EXCEPT ![l] = Tail(@)]
Holds(p, l) == queue[l] # <<>> /\ Head(queue[l]) = p

-----------------------------------------------------------------------------
(* Admission.  A handler runs up to its first lock without an await.       *)

\* Mutant: a query does not look at the query permits.
SlotFreeAlways == TRUE
SlotFree == Cardinality(slots) < MaxQueries

(* Error::Busy, without a queue, when either kind of permit is out.        *)
Admit(r) ==
    /\ server = "serving" /\ pc[r] = "idle"
    /\ \/ /\ Cardinality(Admitted) < MaxRequests
          /\ kind[r] \in Slotted => SlotFree
          /\ pc' = [pc EXCEPT ![r] = FirstLock(kind[r])]
          /\ slots' = slots \cup (IF kind[r] \in Slotted THEN {r} ELSE {})
          /\ queue' = Waits(queue, r, FirstLock(kind[r]))
       \/ /\ Cardinality(Admitted) >= MaxRequests \/ (kind[r] \in Slotted /\ ~SlotFree)
          /\ pc' = [pc EXCEPT ![r] = "done"]
          /\ UNCHANGED <<slots, queue>>
    /\ UNCHANGED <<kind, job, commits, torn, db, server>>

\* Mutant: score_rows does not take a share of the permit.
OutlivesNever(r) == FALSE

\* A blocking batch holds a share of the permit of its query.
Outlives(r) == job[r] = "scoring"

\* Mutant: the guard stays with the handler, and is dropped with it.
GuardsLeftNone(r) == Without(queue, r)

\* Dropping a handler drops its place in a queue and the guards it holds; a
\* task that was spawned keeps those that were moved into it.
GuardsLeft(r) == IF job[r] = "none" THEN Without(queue, r) ELSE queue

(* The handler ends: with its response, at the deadline, or because the    *)
(* client went away.                                                       *)
Ends(r) ==
    /\ pc' = [pc EXCEPT ![r] = IF r = Indexer THEN "idle" ELSE "done"]
    /\ slots' = IF Outlives(r) THEN slots ELSE slots \ {r}
    /\ queue' = GuardsLeft(r)
    /\ torn' = torn \ {r}

Timeout(r) ==
    /\ pc[r] \in Handling
    /\ Ends(r)
    /\ UNCHANGED <<kind, job, commits, db, server>>

(* Also the end of an export: its body has been sent, or nobody reads it.  *)
Disconnect(r) ==
    /\ pc[r] \in Handling \cup {"streaming"}
    /\ Ends(r)
    /\ UNCHANGED <<kind, job, commits, db, server>>

-----------------------------------------------------------------------------
(* Reads and queries.                                                      *)

\* Mutant: the snapshot does not ask whether the database is still open.
ReadyAlways == TRUE
\* check_ready
Ready == db = "open"

Looks(p) == torn' = IF commits = {} THEN torn ELSE torn \cup {p}

(* The snapshot holds schema_lock for as long as it takes.                 *)
Snapshot(r) ==
    /\ pc[r] = "schema" /\ kind[r] \in Reading /\ Holds(r, "schema")
    /\ Ready
    /\ Looks(r)
    /\ queue' = Leaves(queue, r, "schema")
    /\ pc' = [pc EXCEPT ![r] = "reading"]
    /\ UNCHANGED <<kind, job, slots, commits, db, server>>

(* The database is not available, or the request turns out to be invalid.  *)
Refuse(r) ==
    /\ \/ pc[r] = "schema" /\ kind[r] \in Reading /\ Holds(r, "schema") /\ ~Ready
       \/ pc[r] = "reading"
    /\ Ends(r)
    /\ UNCHANGED <<kind, job, commits, db, server>>

Score(r) ==
    /\ pc[r] = "reading" /\ kind[r] = "query"
    /\ pc' = [pc EXCEPT ![r] = "awaiting"]
    /\ job' = [job EXCEPT ![r] = "scoring"]
    /\ UNCHANGED <<kind, slots, queue, commits, torn, db, server>>

\* Mutant: a batch whose query is gone does not give its share back.
ScoredLeaks(r) ==
    /\ job[r] = "scoring"
    /\ job' = [job EXCEPT ![r] = "none"]
    /\ pc' = [pc EXCEPT ![r] = IF @ = "awaiting" THEN "reading" ELSE @]
    /\ UNCHANGED <<kind, slots, queue, commits, torn, db, server>>

Scored(r) ==
    /\ job[r] = "scoring"
    /\ job' = [job EXCEPT ![r] = "none"]
    /\ \/ /\ pc[r] = "awaiting"
          /\ pc' = [pc EXCEPT ![r] = "reading"]
          /\ UNCHANGED slots
       \/ /\ pc[r] # "awaiting"
          /\ slots' = slots \ {r}
          /\ UNCHANGED pc
    /\ UNCHANGED <<kind, queue, commits, torn, db, server>>

Answer(r) ==
    /\ pc[r] = "reading" /\ kind[r] # "export"
    /\ Ends(r)
    /\ UNCHANGED <<kind, job, commits, db, server>>

(* The response of an export is its stream: the deadline no longer counts, *)
(* the request permit is back, and the query permit moves into the stream. *)
Stream(r) ==
    /\ pc[r] = "reading" /\ kind[r] = "export"
    /\ pc' = [pc EXCEPT ![r] = "streaming"]
    /\ UNCHANGED <<kind, job, slots, queue, commits, torn, db, server>>

-----------------------------------------------------------------------------
(* Commits, rebuilds and deletions: the handler waits for the locks, and   *)
(* moves them into a task it then waits for.                               *)

LockSchema(r) ==
    /\ pc[r] = "index" /\ kind[r] = "delete" /\ Holds(r, "index")
    /\ pc' = [pc EXCEPT ![r] = "schema"]
    /\ queue' = Waits(queue, r, "schema")
    /\ UNCHANGED <<kind, job, slots, commits, torn, db, server>>

SpawnCommit(r) ==
    /\ pc[r] = "schema" /\ kind[r] \in Commits /\ Holds(r, "schema")
    /\ pc' = [pc EXCEPT ![r] = "awaiting"]
    /\ job' = [job EXCEPT ![r] = "run"]
    /\ UNCHANGED <<kind, slots, queue, commits, torn, db, server>>

(* The first thing a build does is to take a snapshot.                     *)
SpawnRebuild(p) ==
    /\ pc[p] = "index" /\ kind[p] = "rebuild" /\ Holds(p, "index")
    /\ pc' = [pc EXCEPT ![p] = "awaiting"]
    /\ job' = [job EXCEPT ![p] = "look"]
    /\ queue' = Waits(queue, p, "schema")
    /\ UNCHANGED <<kind, slots, commits, torn, db, server>>

Look(p) ==
    /\ job[p] = "look" /\ Holds(p, "schema")
    /\ Ready
    /\ Looks(p)
    /\ job' = [job EXCEPT ![p] = "build"]
    /\ queue' = Leaves(queue, p, "schema")
    /\ UNCHANGED <<kind, pc, slots, commits, db, server>>

(* Built and staged; the pointer is published under schema_lock.           *)
Publish(p) ==
    /\ job[p] = "build"
    /\ job' = [job EXCEPT ![p] = "run"]
    /\ queue' = Waits(queue, p, "schema")
    /\ UNCHANGED <<kind, pc, slots, commits, torn, db, server>>

Commit(p) ==
    /\ job[p] = "run" /\ Holds(p, "schema")
    /\ Ready
    /\ job' = [job EXCEPT ![p] = "commit"]
    /\ commits' = commits \cup {p}
    /\ UNCHANGED <<kind, pc, slots, queue, torn, db, server>>

TaskEnds(p) ==
    /\ job' = [job EXCEPT ![p] = "none"]
    /\ queue' = Without(queue, p)

Durable(p) ==
    /\ job[p] = "commit"
    /\ TaskEnds(p)
    /\ commits' = commits \ {p}
    /\ UNCHANGED <<kind, pc, slots, torn, db, server>>

(* A conflict, a missing namespace, a quota, or a database that is gone.   *)
TaskFails(p) ==
    /\ \/ job[p] \in {"look", "run"} /\ Holds(p, "schema")
       \/ job[p] = "build"
    /\ TaskEnds(p)
    /\ UNCHANGED <<kind, pc, slots, commits, torn, db, server>>

(* await_durable fails, for a commit or while a build is staged, when      *)
(* SlateDB has closed itself: it is fenced, or an error of the store was   *)
(* fatal.  The outcome of the commit is unknown.                           *)
DbFails(p) ==
    /\ job[p] \in {"build", "commit"}
    /\ db' = "failed"
    /\ TaskEnds(p)
    /\ UNCHANGED <<kind, pc, slots, commits, torn, server>>

(* The handler is still there to hear of the end of its task.              *)
Joined(p) ==
    /\ pc[p] = "awaiting" /\ job[p] = "none"
    /\ Ends(p)
    /\ UNCHANGED <<kind, job, commits, db, server>>

-----------------------------------------------------------------------------
(* The indexer, and the end of the server (main.rs).                       *)

Tick ==
    /\ server \in {"serving", "draining"} /\ pc[Indexer] = "idle"
    /\ pc' = [pc EXCEPT ![Indexer] = "index"]
    /\ queue' = Waits(queue, Indexer, "index")
    /\ UNCHANGED <<kind, job, slots, commits, torn, db, server>>

(* SIGTERM: axum accepts no more and waits for the connections it has,     *)
Stop ==
    /\ server = "serving"
    /\ server' = "draining"
    /\ UNCHANGED <<kind, pc, job, slots, queue, commits, torn, db>>

(* then the indexer is stopped: it finishes the build it waits for,        *)
Drained ==
    /\ server = "draining"
    /\ \A r \in Requests : pc[r] \in {"idle", "done"}
    /\ server' = "stopping"
    /\ UNCHANGED <<kind, pc, job, slots, queue, commits, torn, db>>

IndexerStopped ==
    /\ server = "stopping" /\ pc[Indexer] = "idle"
    /\ server' = "closing"
    /\ UNCHANGED <<kind, pc, job, slots, queue, commits, torn, db>>

\* Mutant: close takes the locks the other way round.
CloseOrderReversed == <<"schema", "index">>
\* Mutant: close only waits for the commit that is running.
CloseOrderSchema == <<"schema">>
\* and the database is closed under both locks.
CloseOrder == <<"index", "schema">>

Locked == {i \in DOMAIN CloseOrder : Holds(Closer, CloseOrder[i])}

CloseLock ==
    /\ server = "closing"
    /\ \E i \in DOMAIN CloseOrder :
          /\ \A j \in DOMAIN CloseOrder : j < i => j \in Locked
          /\ ~Queued(queue[CloseOrder[i]], Closer)
          /\ queue' = Waits(queue, Closer, CloseOrder[i])
    /\ UNCHANGED <<kind, pc, job, slots, commits, torn, db, server>>

Close ==
    /\ server = "closing" /\ Locked = DOMAIN CloseOrder
    /\ db' = "closed" /\ server' = "closed"
    /\ queue' = Without(queue, Closer)
    /\ UNCHANGED <<kind, pc, job, slots, commits, torn>>

-----------------------------------------------------------------------------
Handler(p) ==
    \/ Snapshot(p) \/ Refuse(p) \/ Score(p) \/ Answer(p) \/ Stream(p)
    \/ LockSchema(p) \/ SpawnCommit(p) \/ SpawnRebuild(p) \/ Joined(p)
Work(p) == Look(p) \/ Publish(p) \/ Commit(p) \/ Durable(p) \/ TaskFails(p) \/ DbFails(p)
Shutdown == Drained \/ IndexerStopped \/ CloseLock \/ Close

Next ==
    \/ \E r \in Requests : Admit(r) \/ Timeout(r) \/ Disconnect(r) \/ Scored(r)
    \/ \E p \in Parties : Handler(p) \/ Work(p)
    \/ Tick \/ Stop \/ Shutdown

(* The timer of a deadline fires, tasks and batches are run to their end,  *)
(* SlateDB settles every commit one way or the other.  Nothing is assumed  *)
(* of clients: a stream may be read for ever.                              *)
Fairness ==
    /\ \A r \in Requests : WF_vars(Timeout(r)) /\ WF_vars(Scored(r))
    /\ \A p \in Parties : WF_vars(Handler(p)) /\ WF_vars(Work(p))
    /\ WF_vars(Shutdown)

Spec == Init /\ [][Next]_vars /\ Fairness

-----------------------------------------------------------------------------
(* Properties.                                                             *)

(* The types, and the capacity of both kinds of permit (api.rs:80,         *)
(* engine.rs:143).                                                         *)
TypeOK ==
    /\ kind \in [Parties -> {"read", "query", "export", "write", "rebuild", "delete"}]
    /\ pc \in [Parties -> Handling \cup {"idle", "streaming", "done"}]
    /\ job \in [Parties -> {"none", "scoring", "look", "build", "run", "commit"}]
    /\ \A l \in Locks : queue[l] \in Seq(Parties \cup {Closer})
    /\ slots \subseteq Requests /\ commits \subseteq Parties /\ torn \subseteq Parties
    /\ db \in {"open", "failed", "closed"}
    /\ server \in {"serving", "draining", "stopping", "closing", "closed"}
    /\ Cardinality(Admitted) <= MaxRequests
    /\ Cardinality(slots) <= MaxQueries

(* max_concurrent_queries bounds the searches, the blocking batches and    *)
(* the export streams that exist at a time, those of callers that have     *)
(* gone away included (search.rs:84, docs/operations.md:27).               *)
Searching == {r \in Requests : \/ pc[r] \in Handling /\ kind[r] \in Slotted
                               \/ pc[r] = "streaming"
                               \/ job[r] = "scoring"}
WorkIsBounded == Cardinality(Searching) <= MaxQueries

(* A snapshot never sees a commit in flight, so that the reads of a query  *)
(* cannot disagree, though the writer may be gone or its commit have       *)
(* failed; and commits are in flight one at a time (engine.rs:222,         *)
(* docs/architecture.md:19).                                               *)
SnapshotsAreSettled ==
    /\ torn = {}
    /\ db = "open" => Cardinality(commits) <= 1

(* The database is closed when nothing that was admitted still uses it: a  *)
(* task whose client is gone is waited for (engine.rs:197).                *)
ClosedQuietly ==
    db = "closed" => \A p \in Parties : job[p] \in {"none", "scoring"}

(* Every permit comes back: a handler ends or becomes a stream, and the    *)
(* query permit of a handler that has ended is dropped (api.rs:83,         *)
(* search.rs:84).                                                          *)
Owing(r) == pc[r] \in Handling \/ (pc[r] = "done" /\ r \in slots)
PermitsReturn ==
    \A r \in Requests : Owing(r) ~> (pc[r] = "streaming" \/ (pc[r] = "done" /\ r \notin slots))

(* A server that is told to stop does, if its streams end, in whatever     *)
(* order handlers, tasks, the indexer and the shutdown queue for the locks *)
(* (engine.rs:198, main.rs:170).                                           *)
Drains ==
    []<>(\A r \in Requests : pc[r] # "streaming")
        => (server = "draining" ~> server = "closed")
=============================================================================
