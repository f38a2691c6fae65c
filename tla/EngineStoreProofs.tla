-------------------------- MODULE EngineStoreProofs --------------------------
(***************************************************************************)
(* What is in the durable rows of module Engine, for every value of its    *)
(* constants: the statistics count them, garbage is marked, and what a     *)
(* client can read is what module DocStore promises.                       *)
(*                                                                         *)
(* The batch under schema_lock is the only one that changes documents,     *)
(* vectors, change rows or statistics; InFlight says what it can be.  The  *)
(* durable rows only ever change by such a batch landing, whole, with or   *)
(* without a crash, so each property is shown for the batches of InFlight. *)
(***************************************************************************)
EXTENDS EngineProofs

USE NoneAssumption, DocumentsAssumption, IdsAssumption, BoundsAssumption

-----------------------------------------------------------------------------
\* The batch under schema_lock.

\* Change rows that go, and the statistics without them (cleanup_inner).
Uncovers(k, part) ==
    [c |-> [id \in Ids |-> IF id \in part THEN 0 ELSE k.c[id]],
     s |-> [k.s EXCEPT !.pending = @ - Cardinality(part)]]

\* A chunk of one family (erase_namespace), and what goes with the last batch.
Erasure(k, batch) ==
    \/ \E part \in SUBSET Ids : batch = [d |-> Removed(k.d, part)]
    \/ \E part \in SUBSET Ids : batch = [v |-> Removed(k.v, part)]
    \/ \E part \in SUBSET Ids : batch = [c |-> [id \in Ids |-> IF id \in part THEN 0 ELSE k.c[id]]]
    \/ DOMAIN batch = {"g"}
Forgotten == [i |-> None, s |-> NoStats, z |-> FALSE, j |-> FALSE]
Bare(k) == Rows(k.d) = {} /\ Rows(k.v) = {} /\ Changed(k) = {} /\ Generated(k) = {}

RequestInFlight ==
    \/ \E schema \in Schemas : app = [n |-> schema] /\ kv.n = None
    \/ \E request \in Requests : app = WriteBatch(kv, request) /\ kv.n # None
TaskInFlight ==
    \/ task.pc = "stage" /\ DOMAIN app = {"i"}
    \/ task.pc = "tidy" /\ \E part \in SUBSET Changed(kv) : app = Uncovers(kv, part)
    \/ task.pc = "delete" /\ app = [n |-> None, z |-> TRUE]
    \/ task.pc = "erase" /\ app = Nothing
    \/ task.pc = "erase" /\ Erasure(kv, app)
    \/ task.pc = "erase" /\ app = Forgotten /\ Bare(kv)
InFlight ==
    /\ schemaLock = "app" => RequestInFlight
    /\ schemaLock = "task" => TaskInFlight

\* The same rows in every family a request or the cleaner reads.
SameTable(k, l) ==
    /\ k.n = l.n /\ k.s = l.s /\ k.d = l.d /\ k.v = l.v /\ k.c = l.c /\ k.z = l.z

\* A batch of index rows leaves the table alone.
LEMMA IdxKeepsTable ==
    ASSUME TypeOK, NEW k
    PROVE  SameTable(Apply(k, idx), k)
<1>1. DOMAIN idx \subseteq {"g", "j"}
  BY DEF TypeOK
<1> QED
  BY <1>1 DEF Apply, Families, SameTable

\* A batch of a request is read off the table alone.
LEMMA RequestKept ==
    ASSUME RequestInFlight, SameTable(kv', kv), app' = app
    PROVE  RequestInFlight'
<1>1. \A request : WriteBatch(kv', request) = WriteBatch(kv, request)
  BY DEF SameTable, WriteBatch, StatsAfter
<1>2. CASE \E schema \in Schemas : app = [n |-> schema] /\ kv.n = None
  BY <1>2 DEF RequestInFlight, SameTable
<1>3. CASE \E request \in Requests : app = WriteBatch(kv, request) /\ kv.n # None
  BY <1>1, <1>3 DEF RequestInFlight, SameTable
<1> QED
  BY <1>2, <1>3 DEF RequestInFlight

\* A step that moves no batch of the table, and a task only while it holds none.
LEMMA KeepsInFlight ==
    ASSUME InFlight, SameTable(kv', kv), UNCHANGED <<app, schemaLock>>,
           schemaLock # "task" \/ UNCHANGED <<kv, task>>
    PROVE  InFlight'
<1>1. CASE schemaLock = "task"
  BY <1>1 DEF InFlight, TaskInFlight, Erasure, Bare
<1>2. CASE schemaLock # "task"
  BY <1>2, RequestKept DEF InFlight
<1> QED
  BY <1>1, <1>2

LEMMA RequestFlight ==
    ASSUME TypeOK, IndexInv, InFlight, Request \/ RequestDurable
    PROVE  InFlight'
<1>1. CASE \E schema \in Schemas : CreateCommit(schema)
  BY <1>1 DEF CreateCommit, InFlight, RequestInFlight
<1>2. CASE \E request \in Requests : WriteCommit(request)
  <2> PICK request \in Requests : WriteCommit(request)
    BY <1>2
  <2>1. app' = WriteBatch(kv, request) /\ kv' = kv /\ kv.n # None /\ schemaLock' = "app"
    BY DEF WriteCommit
  <2>2. RequestInFlight'
    BY <2>1 DEF RequestInFlight
  <2> QED
    BY <2>1, <2>2 DEF InFlight
<1>3. CASE RequestDurable
  BY <1>3 DEF RequestDurable, InFlight
<1> QED
  BY <1>1, <1>2, <1>3 DEF Request

LEMMA BuildFlight ==
    ASSUME TypeOK, IndexInv, InFlight, BuildLock \/ Build
    PROVE  InFlight'
<1>0. LockInv
  BY DEF IndexInv
<1>1. CASE BuildLock \/ BuildRefused \/ \E gen \in Gens : BuildSnapshot(gen)
  <2>1. schemaLock # "task" /\ UNCHANGED <<kv, app, schemaLock>>
    BY <1>0, <1>1, Quiet DEF BuildLock, BuildRefused, BuildSnapshot
  <2> QED
    BY <2>1, KeepsInFlight DEF SameTable
<1>2. CASE MarkCommit \/ \E part \in SUBSET Ids : StageCommit(part)
  <2>1. schemaLock # "task" /\ UNCHANGED <<kv, app, schemaLock>>
    BY <1>2 DEF MarkCommit, StageCommit, IdxCommit
  <2> QED
    BY <2>1, KeepsInFlight DEF SameTable
<1>3. CASE MarkDurable \/ StageDurable
  <2>1. IdxDurable
    BY <1>3 DEF MarkDurable, StageDurable
  <2>2. schemaLock # "task" /\ UNCHANGED <<app, schemaLock>> /\ kv' = Apply(kv, idx)
    BY <2>1, <1>0 DEF IdxDurable, LockInv
  <2> QED
    BY <2>2, IdxKeepsTable, KeepsInFlight
<1>4. CASE PublishCommit
  <2> DEFINE status == [gen |-> task.gen, revision |-> task.revision, ids |-> Rows(task.content)]
  <2>1. app' = [i |-> status] /\ task' = task /\ task.pc = "stage" /\ schemaLock' = "task"
    BY <1>4 DEF PublishCommit, TaskCommit
  <2>2. DOMAIN app' = {"i"}
    BY <2>1
  <2> QED
    BY <2>1, <2>2 DEF InFlight, TaskInFlight
<1>5. CASE PublishDurable
  BY <1>5 DEF PublishDurable, InFlight
<1> QED
  BY <1>1, <1>2, <1>3, <1>4, <1>5 DEF Build

LEMMA CleanFlight ==
    ASSUME TypeOK, IndexInv, InFlight, Clean
    PROVE  InFlight'
<1>0. LockInv
  BY DEF IndexInv
<1>1. CASE ResumeSnapshot \/ CleanScan
  <2>1. schemaLock # "task" /\ UNCHANGED <<kv, app, schemaLock>>
    BY <1>0, <1>1, Quiet DEF ResumeSnapshot, CleanScan
  <2> QED
    BY <2>1, KeepsInFlight DEF SameTable
<1>2. CASE UnmarkCommit \/ \E part \in SUBSET Retired : RetireCommit(part)
  <2>1. schemaLock # "task" /\ UNCHANGED <<kv, app, schemaLock>>
    BY <1>2 DEF UnmarkCommit, RetireCommit, IdxCommit
  <2> QED
    BY <2>1, KeepsInFlight DEF SameTable
<1>3. CASE RetireDurable \/ UnmarkDurable
  <2>1. IdxDurable
    BY <1>3 DEF RetireDurable, UnmarkDurable
  <2>2. schemaLock # "task" /\ UNCHANGED <<app, schemaLock>> /\ kv' = Apply(kv, idx)
    BY <2>1, <1>0 DEF IdxDurable, LockInv
  <2> QED
    BY <2>2, IdxKeepsTable, KeepsInFlight
<1>4. CASE \E part \in SUBSET Ids : CleanCommit(part)
  <2> PICK part \in SUBSET Ids : CleanCommit(part)
    BY <1>4
  <2> DEFINE gone == {id \in part : kv.c[id] # 0 /\ kv.c[id] <= task.revision}
  <2>1. app' = Uncovers(kv, gone) /\ schemaLock' = "task" /\ kv' = kv
    BY DEF CleanCommit, TaskCommit, Uncovers
  <2>2. task'.pc = "tidy"
    BY DEF CleanCommit, TypeOK, TaskOK
  <2>3. gone \in SUBSET Changed(kv)
    BY DEF Changed
  <2>4. \E some \in SUBSET Changed(kv') : app' = Uncovers(kv', some)
    BY <2>1, <2>3
  <2> QED
    BY <2>1, <2>2, <2>4 DEF InFlight, TaskInFlight
<1>5. CASE CleanDurable
  BY <1>5 DEF CleanDurable, InFlight
<1> QED
  BY <1>1, <1>2, <1>3, <1>4, <1>5 DEF Clean

LEMMA DeleteFlight ==
    ASSUME TypeOK, IndexInv, InFlight, DeleteLock \/ IntentCommit \/ IntentDurable
    PROVE  InFlight'
<1>0. LockInv
  BY DEF IndexInv
<1>1. CASE DeleteLock
  <2>1. schemaLock # "task" /\ UNCHANGED <<kv, app, schemaLock>>
    BY <1>0, <1>1, Quiet DEF DeleteLock
  <2> QED
    BY <2>1, KeepsInFlight DEF SameTable
<1>2. CASE IntentCommit
  BY <1>2 DEF IntentCommit, TaskCommit, InFlight, TaskInFlight
<1>3. CASE IntentDurable
  <2>1. task'.pc = "erase" /\ app' = Nothing
    BY <1>3, GotoPc DEF IntentDurable, TaskDurable
  <2>2. schemaLock' = "task"
    BY <1>3 DEF IntentDurable, TaskDurable
  <2> QED
    BY <2>1, <2>2 DEF InFlight, TaskInFlight
<1> QED
  BY <1>1, <1>2, <1>3

LEMMA EraseFlight ==
    ASSUME TypeOK, IndexInv, InFlight, Erase
    PROVE  InFlight'
<1>0. LockInv
  BY DEF IndexInv
<1>1. ASSUME NEW batch, EraseCommit(batch),
             Erasure(kv, batch) \/ (batch = Forgotten /\ Bare(kv))
      PROVE  InFlight'
  <2>1. /\ task' = task /\ kv' = kv /\ app' = batch /\ task.pc = "erase"
        /\ schemaLock' = schemaLock /\ schemaLock = "task"
    BY <1>0, <1>1 DEF EraseCommit, LockInv
  <2>2. Erasure(kv', app') \/ (app' = Forgotten /\ Bare(kv'))
    BY <1>1, <2>1
  <2>3. TaskInFlight'
    BY <2>1, <2>2 DEF TaskInFlight
  <2> QED
    BY <2>1, <2>3 DEF InFlight
<1>2. CASE \E part \in SUBSET Ids : EraseDocuments(part) \/ EraseVectors(part) \/ EraseChanges(part)
  BY <1>1, <1>2 DEF EraseDocuments, EraseVectors, EraseChanges, Erasure
<1>3. CASE \E part \in SUBSET Generated(kv) : EraseGenerations(part)
  BY <1>1, <1>3 DEF EraseGenerations, Erasure
<1>4. CASE ForgetCommit
  BY <1>1, <1>4 DEF ForgetCommit, Forgotten, Bare
<1>5. CASE EraseDurable
  BY <1>5 DEF EraseDurable, TaskDurable, InFlight, TaskInFlight
<1>6. CASE ForgetDurable
  BY <1>6 DEF ForgetDurable, InFlight
<1> QED
  BY <1>2, <1>3, <1>4, <1>5, <1>6 DEF Erase

LEMMA OtherFlight ==
    ASSUME TypeOK, IndexInv, InFlight,
           \/ Indexer
           \/ TaskError \/ EraseError \/ Crash \/ Close \/ Reopen \/ OpenDone
    PROVE  InFlight'
<1>0. LockInv
  BY DEF IndexInv
<1>1. CASE Indexer
  <2>1. UNCHANGED <<kv, app, schemaLock>>
    BY <1>1 DEF Indexer, IndexerTick, IndexerStats, IndexerRebuild, IndexerResume
  <2>2. schemaLock # "task" \/ task' = task
    BY <1>0, <1>1, Quiet DEF Indexer, IndexerTick, IndexerStats, IndexerRebuild, IndexerResume
  <2> QED
    BY <2>1, <2>2, KeepsInFlight DEF SameTable
<1>2. CASE TaskError
  BY <1>2, KeepsInFlight DEF TaskError, SameTable
<1>3. CASE EraseError \/ Crash
  BY <1>3 DEF EraseError, Crash, InFlight
<1>4. CASE Close \/ OpenDone
  BY <1>4, KeepsInFlight DEF Close, OpenDone, SameTable
<1>5. CASE Reopen
  <2>1. app' = Nothing /\ schemaLock = "free"
    BY <1>0, <1>5 DEF Reopen, LockInv
  <2>2. CASE kv.z
    <3>1. task'.pc = "erase" /\ schemaLock' = "task"
      BY <1>5, <2>2, GotoPc DEF Reopen
    <3> QED
      BY <2>1, <3>1 DEF InFlight, TaskInFlight
  <2>3. CASE ~kv.z
    BY <1>5, <2>1, <2>3 DEF Reopen, InFlight
  <2> QED
    BY <2>2, <2>3
<1> QED
  BY <1>1, <1>2, <1>3, <1>4, <1>5

LEMMA FlightStep ==
    ASSUME TypeOK, IndexInv, InFlight, [Next]_vars
    PROVE  InFlight'
<1>1. CASE UNCHANGED vars
  BY <1>1, KeepsInFlight DEF vars, SameTable
<1>2. CASE Next
  BY <1>2, RequestFlight, BuildFlight, CleanFlight, DeleteFlight, EraseFlight, OtherFlight DEF Next
<1> QED
  BY <1>1, <1>2

LEMMA InitFlight == Init => InFlight
  BY DEF Init, InFlight

\* The batches that may land in the table, and what is known where they do.
LEMMA FlightKinds ==
    ASSUME TypeOK, IndexInv, InFlight
    PROVE  \/ app = Nothing
           \/ schemaLock = "app" /\ \E schema \in Schemas : app = [n |-> schema] /\ kv.n = None
           \/ schemaLock = "app" /\ \E request \in Requests :
                 app = WriteBatch(kv, request) /\ kv.n # None
           \/ task.pc = "stage" /\ DOMAIN app = {"i"}
           \/ task.pc = "tidy" /\ \E part \in SUBSET Changed(kv) : app = Uncovers(kv, part)
           \/ task.pc = "delete" /\ app = [n |-> None, z |-> TRUE]
           \/ task.pc = "erase" /\ kv.z /\ Erasure(kv, app)
           \/ task.pc = "erase" /\ app = Forgotten /\ Bare(kv)
<1>1. LockInv
  BY DEF IndexInv
<1>2. CASE schemaLock = "app"
  BY <1>2 DEF InFlight, RequestInFlight
<1>3. CASE schemaLock = "task"
  BY <1>1, <1>3 DEF InFlight, TaskInFlight, LockInv
<1>4. CASE schemaLock \notin {"app", "task"}
  BY <1>1, <1>4 DEF LockInv, TypeOK
<1> QED
  BY <1>2, <1>3, <1>4

\* A step leaves the durable rows alone or lands batches that were in flight.
LEMMA RowsStep ==
    ASSUME TypeOK, [Next]_vars
    PROVE  kv' \in Outcomes
<1>1. CASE kv' = kv
  BY <1>1 DEF Outcomes
<1>2. CASE kv' = Apply(kv, app) \/ kv' = Apply(kv, idx)
  BY <1>2 DEF Outcomes
<1>3. CASE Crash
  BY <1>3 DEF Crash, Outcomes
<1>4. CASE Request \/ RequestDurable \/ BuildLock \/ Build
  BY <1>1, <1>2, <1>4 DEF Request, RequestDurable, BuildLock, Build, CreateCommit, WriteCommit,
     BuildSnapshot, BuildRefused, MarkCommit, MarkDurable, StageCommit, StageDurable,
     PublishCommit, PublishDurable, IdxCommit, IdxDurable, TaskCommit, TaskDurable
<1>5. CASE Clean \/ Indexer
  BY <1>1, <1>2, <1>5 DEF Clean, Indexer, ResumeSnapshot, CleanScan, RetireCommit, RetireDurable,
     CleanCommit, CleanDurable, UnmarkCommit, UnmarkDurable, IndexerTick, IndexerStats,
     IndexerRebuild, IndexerResume, IdxCommit, IdxDurable, TaskCommit, TaskDurable
<1>6. CASE DeleteLock \/ IntentCommit \/ IntentDurable \/ Erase
  BY <1>1, <1>2, <1>6 DEF DeleteLock, IntentCommit, IntentDurable, Erase, EraseDocuments,
     EraseVectors, EraseChanges, EraseGenerations, EraseDurable, ForgetCommit, ForgetDurable,
     EraseCommit, TaskCommit, TaskDurable
<1>7. CASE TaskError \/ EraseError \/ Close \/ Reopen \/ OpenDone \/ UNCHANGED vars
  BY <1>1, <1>7 DEF TaskError, EraseError, Close, Reopen, OpenDone, vars
<1> QED
  BY <1>3, <1>4, <1>5, <1>6, <1>7 DEF Next

\* To the table, a step is nothing or the landing of the batch under schema_lock.
LEMMA TableStep ==
    ASSUME TypeOK, [Next]_vars
    PROVE  SameTable(kv', kv) \/ SameTable(kv', Apply(kv, app))
<1>1. kv' \in {kv, Apply(kv, app), Apply(kv, idx), Apply(Apply(kv, app), idx)}
  BY RowsStep DEF Outcomes
<1>2. SameTable(Apply(kv, idx), kv) /\ SameTable(Apply(Apply(kv, app), idx), Apply(kv, app))
  BY IdxKeepsTable
<1> QED
  BY <1>1, <1>2 DEF SameTable

-----------------------------------------------------------------------------
\* The statistics count the rows.

\* The counters are never below the rows, and equal to them unless the
\* namespace is being erased.
Counted(k) ==
    /\ k.s.documents >= Cardinality(Rows(k.d))
    /\ k.s.bytes >= Cardinality(Rows(k.d)) + Cardinality(Rows(k.v) \cap Rows(k.d))
    /\ k.s.pending >= Cardinality(Changed(k))
    /\ ~k.z => /\ k.s.documents = Cardinality(Rows(k.d))
               /\ k.s.bytes = Cardinality(Rows(k.d)) + Cardinality(Rows(k.v) \cap Rows(k.d))
               /\ k.s.pending = Cardinality(Changed(k))
               /\ Rows(k.v) \subseteq Rows(k.d)

\* R is A without the members O and with the others N.
Replaces(R, A, O, N) ==
    /\ A \in SUBSET Ids /\ O \in SUBSET A /\ N \in SUBSET Ids
    /\ N \cap (A \ O) = {} /\ R = (A \ O) \cup N

LEMMA CountReplaced ==
    ASSUME NEW R, NEW A, NEW O, NEW N, Replaces(R, A, O, N)
    PROVE  Cardinality(R) = Cardinality(A) - Cardinality(O) + Cardinality(N)
<1> PICK kept : kept = A \ O
  OBVIOUS
<1>1. IsFiniteSet(A) /\ IsFiniteSet(N) /\ IsFiniteSet(kept)
  BY FS_Subset DEF Replaces
<1>2. Cardinality(kept \cup N) = Cardinality(kept) + Cardinality(N) - Cardinality(kept \cap N)
  BY <1>1, FS_Union
<1>3. Cardinality(kept) = Cardinality(A) - Cardinality(A \cap O)
  BY <1>1, FS_Difference
<1>4. R = kept \cup N /\ kept \cap N = {} /\ A \cap O = O
  BY DEF Replaces
<1>5. Cardinality(kept \cap N) = 0
  BY <1>4, FS_EmptySet
<1>6. Cardinality(A \cap O) = Cardinality(O) /\ Cardinality(kept \cup N) = Cardinality(R)
  BY <1>4
<1>7. Cardinality(kept) \in Nat /\ Cardinality(N) \in Nat
  BY <1>1, FS_CardinalityType
<1> QED
  BY <1>2, <1>3, <1>5, <1>6, <1>7

LEMMA CountMonotone ==
    ASSUME NEW A \in SUBSET Ids, NEW B \in SUBSET A
    PROVE  Cardinality(B) <= Cardinality(A)
  BY FS_Subset

LEMMA CountedTable ==
    ASSUME NEW k, NEW l, SameTable(k, l), Counted(l)
    PROVE  Counted(k)
  BY DEF SameTable, Counted, Changed

\* A write moves each counter by what it does to the rows.
LEMMA WriteCounted ==
    ASSUME NEW k, DOMAIN k = Families, RowsOK(k), Counted(k), NEW request \in Requests
    PROVE  Counted(Apply(k, WriteBatch(k, request)))
<1> DEFINE T     == DOMAIN request
           D     == Rows(k.d)
           B     == Rows(k.v) \cap Rows(k.d)
           oldD  == D \cap T
           oldB  == B \cap T
           new   == {id \in T : request[id] # None}
           newv  == {id \in new : request[id].vec # None}
           fresh == {id \in T : k.c[id] = 0}
           s2    == StatsAfter(k, request)
<1> PICK batch : batch = WriteBatch(k, request)
  OBVIOUS
<1> PICK l : l = Apply(k, batch)
  OBVIOUS
<1>1. /\ T \subseteq Ids /\ \A id \in T : request[id] \in Documents \cup {None}
      /\ \A id \in new : request[id].attr # None
  BY DEF Requests
<1>2. /\ k.s \in Stats /\ k.c \in [Ids -> Nat]
      /\ k.d \in [Ids -> Attrs \cup {None}] /\ k.v \in [Ids -> Vecs \cup {None}]
  BY RowTypes
<1>3. /\ l.s = s2 /\ l.z = k.z
      /\ l.d = batch.d /\ l.v = batch.v /\ l.c = batch.c
  <2>1. DOMAIN batch = {"s", "d", "v", "c"} /\ batch.s = s2
    BY WriteFields
  <2> HIDE DEF s2
  <2> QED
    BY <2>1 DEF Apply, Families
<1>4. Rows(l.d) = (D \ T) \cup new
  <2>1. ASSUME NEW id \in Ids
        PROVE  l.d[id] # None <=> IF id \in T THEN id \in new ELSE id \in D
    BY <1>1, <1>3, WriteFields DEF Rows
  <2>2. D \subseteq Ids /\ new \subseteq T /\ Rows(l.d) \subseteq Ids
    BY DEF Rows
  <2> HIDE DEF T, D, new
  <2> QED
    BY <1>1, <2>1, <2>2 DEF Rows
<1>5. Rows(l.v) = (Rows(k.v) \ T) \cup newv
  <2>1. ASSUME NEW id \in Ids
        PROVE  l.v[id] # None <=> IF id \in T THEN id \in newv ELSE id \in Rows(k.v)
    BY <1>1, <1>3, WriteFields DEF Rows
  <2>2. Rows(k.v) \subseteq Ids /\ newv \subseteq T /\ Rows(l.v) \subseteq Ids
    BY DEF Rows
  <2> HIDE DEF T, new, newv
  <2> QED
    BY <1>1, <2>1, <2>2 DEF Rows
<1>6. Rows(l.v) \cap Rows(l.d) = (B \ T) \cup newv
  BY <1>4, <1>5
<1>7. Changed(l) = Changed(k) \cup fresh
  <2>1. k.s.revision + 1 # 0
    BY <1>2 DEF Stats
  <2>2. ASSUME NEW id \in Ids
        PROVE  l.c[id] # 0 <=> id \in T \/ k.c[id] # 0
    BY <1>1, <1>3, <2>1, WriteFields
  <2> HIDE DEF T
  <2> QED
    BY <1>1, <2>2 DEF Changed, fresh
<1>8. /\ s2.documents = k.s.documents - Cardinality(oldD) + Cardinality(new)
      /\ s2.bytes = k.s.bytes - Cardinality(oldD) - Cardinality(oldB)
                      + Cardinality(new) + Cardinality(newv)
      /\ s2.pending = k.s.pending + Cardinality(fresh)
  <2>1. {id \in T : k.d[id] # None} = oldD
    BY <1>1 DEF Rows
  <2>2. {id \in oldD : k.v[id] # None} = oldB
    BY DEF Rows
  <2> QED
    BY <2>1, <2>2 DEF StatsAfter
<1>9. /\ Replaces(Rows(l.d), D, oldD, new)
      /\ Replaces(Rows(l.v) \cap Rows(l.d), B, oldB, newv)
      /\ Replaces(Changed(l), Changed(k), {}, fresh)
  <2>1. D \in SUBSET Ids /\ B \in SUBSET Ids /\ Changed(k) \in SUBSET Ids
    BY DEF Rows, Changed
  <2>2. Replaces(Rows(l.d), D, oldD, new)
    BY <2>1, <1>1, <1>4 DEF Replaces
  <2>3. Replaces(Rows(l.v) \cap Rows(l.d), B, oldB, newv)
    BY <2>1, <1>1, <1>6 DEF Replaces
  <2>4. Replaces(Changed(l), Changed(k), {}, fresh)
    BY <2>1, <1>1, <1>7 DEF Replaces, Changed
  <2> QED
    BY <2>2, <2>3, <2>4
<1>90. /\ D \in SUBSET Ids /\ B \in SUBSET Ids /\ Changed(k) \in SUBSET Ids
       /\ oldD \in SUBSET Ids /\ oldB \in SUBSET Ids
       /\ new \in SUBSET Ids /\ newv \in SUBSET Ids /\ fresh \in SUBSET Ids
  BY <1>1 DEF Rows, Changed
<1> HIDE DEF T, D, B, oldD, oldB, new, newv, fresh, s2
<1>10. /\ Cardinality(Rows(l.d)) = Cardinality(D) - Cardinality(oldD) + Cardinality(new)
       /\ Cardinality(Rows(l.v) \cap Rows(l.d)) =
            Cardinality(B) - Cardinality(oldB) + Cardinality(newv)
       /\ Cardinality(Changed(l)) = Cardinality(Changed(k)) - Cardinality({}) + Cardinality(fresh)
  BY <1>9, CountReplaced
<1>11. /\ Cardinality(D) \in Nat /\ Cardinality(oldD) \in Nat /\ Cardinality(new) \in Nat
       /\ Cardinality(B) \in Nat /\ Cardinality(oldB) \in Nat /\ Cardinality(newv) \in Nat
       /\ Cardinality(Changed(k)) \in Nat /\ Cardinality(fresh) \in Nat
       /\ Cardinality({}) = 0
  BY <1>90, CountType, FS_EmptySet
<1>12. k.s.documents \in Int /\ k.s.bytes \in Int /\ k.s.pending \in Int
  BY <1>2 DEF Stats
<1>13. /\ k.s.documents >= Cardinality(D)
       /\ k.s.bytes >= Cardinality(D) + Cardinality(B)
       /\ k.s.pending >= Cardinality(Changed(k))
       /\ ~k.z => /\ k.s.documents = Cardinality(D)
                  /\ k.s.bytes = Cardinality(D) + Cardinality(B)
                  /\ k.s.pending = Cardinality(Changed(k))
                  /\ Rows(k.v) \subseteq D
  BY DEF Counted, D, B
<1>14. ~l.z => Rows(l.v) \subseteq Rows(l.d)
  BY <1>3, <1>4, <1>5, <1>13 DEF newv
<1>15. Counted(l)!1 /\ Counted(l)!2 /\ Counted(l)!3
  BY <1>3, <1>8, <1>10, <1>11, <1>12, <1>13
<1>16. ~l.z => /\ l.s.documents = Cardinality(Rows(l.d))
               /\ l.s.bytes = Cardinality(Rows(l.d)) + Cardinality(Rows(l.v) \cap Rows(l.d))
               /\ l.s.pending = Cardinality(Changed(l))
  BY <1>3, <1>8, <1>10, <1>11, <1>12, <1>13
<1> QED
  BY <1>14, <1>15, <1>16 DEF Counted

\* What the cleaner takes off `pending` is the number of change rows that go.
LEMMA UncoversCounted ==
    ASSUME NEW k, DOMAIN k = Families, RowsOK(k), Counted(k), NEW part \in SUBSET Changed(k)
    PROVE  Counted(Apply(k, Uncovers(k, part)))
<1> PICK l : l = Apply(k, Uncovers(k, part))
  OBVIOUS
<1>1. /\ l.d = k.d /\ l.v = k.v /\ l.z = k.z
      /\ l.c = Uncovers(k, part).c /\ l.s = Uncovers(k, part).s
  BY DEF Apply, Uncovers, Families
<1>2. k.s \in Stats
  BY RowTypes
<1>3. /\ l.s.documents = k.s.documents /\ l.s.bytes = k.s.bytes
      /\ l.s.pending = k.s.pending - Cardinality(part)
  BY <1>1, <1>2 DEF Uncovers, Stats
<1>4. Replaces(Changed(l), Changed(k), part, {})
  BY <1>1 DEF Uncovers, Changed, Replaces
<1>5. /\ Cardinality(Changed(l)) = Cardinality(Changed(k)) - Cardinality(part) + Cardinality({})
      /\ Cardinality({}) = 0
  BY <1>4, CountReplaced, FS_EmptySet
<1>6. Cardinality(Changed(k)) \in Nat /\ Cardinality(part) \in Nat /\ k.s.pending \in Int
  BY <1>2, CountType DEF Changed, Stats
<1> QED
  BY <1>1, <1>3, <1>5, <1>6 DEF Counted

\* While a namespace is erased its counters stay behind, above what is left.
LEMMA ErasureCounted ==
    ASSUME NEW k, DOMAIN k = Families, RowsOK(k), Counted(k), k.z, NEW batch, Erasure(k, batch)
    PROVE  Counted(Apply(k, batch))
<1> PICK l : l = Apply(k, batch)
  OBVIOUS
<1>1. k.s \in Stats
  BY RowTypes
<1>2. l.s = k.s /\ l.z = k.z
  BY DEF Apply, Erasure, Families
<1>3. /\ Rows(l.d) \in SUBSET Rows(k.d)
      /\ Rows(l.v) \cap Rows(l.d) \in SUBSET (Rows(k.v) \cap Rows(k.d))
      /\ Changed(l) \in SUBSET Changed(k)
  <2>1. CASE \E part \in SUBSET Ids : batch = [d |-> Removed(k.d, part)]
    BY <2>1 DEF Apply, Families, Removed, Rows, Changed
  <2>2. CASE \E part \in SUBSET Ids : batch = [v |-> Removed(k.v, part)]
    BY <2>2 DEF Apply, Families, Removed, Rows, Changed
  <2>3. CASE \E part \in SUBSET Ids :
               batch = [c |-> [id \in Ids |-> IF id \in part THEN 0 ELSE k.c[id]]]
    BY <2>3 DEF Apply, Families, Rows, Changed
  <2>4. CASE DOMAIN batch = {"g"}
    BY <2>4 DEF Apply, Families, Rows, Changed
  <2> QED
    BY <2>1, <2>2, <2>3, <2>4 DEF Erasure
<1>4. Rows(k.d) \in SUBSET Ids /\ (Rows(k.v) \cap Rows(k.d)) \in SUBSET Ids
      /\ Changed(k) \in SUBSET Ids
  BY DEF Rows, Changed
<1>5. /\ Cardinality(Rows(l.d)) <= Cardinality(Rows(k.d))
      /\ Cardinality(Rows(l.v) \cap Rows(l.d)) <= Cardinality(Rows(k.v) \cap Rows(k.d))
      /\ Cardinality(Changed(l)) <= Cardinality(Changed(k))
  BY <1>3, <1>4, CountMonotone
<1>6. /\ Cardinality(Rows(k.d)) \in Nat /\ Cardinality(Rows(k.v) \cap Rows(k.d)) \in Nat
      /\ Cardinality(Changed(k)) \in Nat
      /\ Cardinality(Rows(l.d)) \in Nat /\ Cardinality(Rows(l.v) \cap Rows(l.d)) \in Nat
      /\ Cardinality(Changed(l)) \in Nat
  BY <1>4, CountType DEF Rows, Changed
<1>7. k.s.documents \in Int /\ k.s.bytes \in Int /\ k.s.pending \in Int
  BY <1>1 DEF Stats
<1>8. l.z
  BY <1>2
<1> QED
  BY <1>2, <1>5, <1>6, <1>7, <1>8 DEF Counted

\* Whichever batch lands, the counters are right after it.
LEMMA LandingCounted ==
    ASSUME TypeOK, IndexInv, InFlight, Counted(kv)
    PROVE  Counted(Apply(kv, app))
<1> PICK l : l = Apply(kv, app)
  OBVIOUS
<1>0. DOMAIN kv = Families /\ RowsOK(kv)
  BY DEF TypeOK
<1>1. CASE app = Nothing
  <2>1. SameTable(l, kv)
    BY <1>1 DEF SameTable, Apply, Nothing, Families
  <2> QED
    BY <2>1, CountedTable
<1>2. CASE \E schema \in Schemas : app = [n |-> schema] /\ kv.n = None
  <2>1. l.s = kv.s /\ l.d = kv.d /\ l.v = kv.v /\ l.c = kv.c /\ l.z = kv.z
    BY <1>2 DEF Apply, Families
  <2> QED
    BY <2>1 DEF Counted, Changed
<1>3. CASE \E request \in Requests : app = WriteBatch(kv, request) /\ kv.n # None
  BY <1>0, <1>3, WriteCounted
<1>4. CASE DOMAIN app = {"i"}
  <2>1. SameTable(l, kv)
    BY <1>4 DEF SameTable, Apply, Families
  <2> QED
    BY <2>1, CountedTable
<1>5. CASE \E part \in SUBSET Changed(kv) : app = Uncovers(kv, part)
  BY <1>0, <1>5, UncoversCounted
<1>6. CASE app = [n |-> None, z |-> TRUE]
  <2>1. l.s = kv.s /\ l.d = kv.d /\ l.v = kv.v /\ l.c = kv.c /\ l.z = TRUE
    BY <1>6 DEF Apply, Families
  <2> QED
    BY <2>1 DEF Counted, Changed
<1>7. CASE kv.z /\ Erasure(kv, app)
  BY <1>0, <1>7, ErasureCounted
<1>8. CASE app = Forgotten /\ Bare(kv)
  <2>1. l.s = NoStats /\ l.d = kv.d /\ l.v = kv.v /\ l.c = kv.c
    BY <1>8 DEF Apply, Families, Forgotten
  <2>2. Rows(l.d) = {} /\ Rows(l.v) = {} /\ Changed(l) = {} /\ (Rows(l.v) \cap Rows(l.d)) = {}
    BY <1>8, <2>1 DEF Bare, Changed
  <2> QED
    BY <2>1, <2>2, FS_EmptySet DEF Counted, NoStats
<1> QED
  BY <1>1, <1>2, <1>3, <1>4, <1>5, <1>6, <1>7, <1>8, FlightKinds

LEMMA InitCounted == Init => Counted(kv)
<1> SUFFICES ASSUME Init PROVE Counted(kv)
  OBVIOUS
<1>1. kv.s = NoStats /\ kv.d = NoContent /\ kv.v = NoContent /\ kv.c = NoChanges
  BY DEF Init, EmptyRows
<1>2. Rows(kv.d) = {} /\ Rows(kv.v) = {} /\ Changed(kv) = {} /\ (Rows(kv.v) \cap Rows(kv.d)) = {}
  BY <1>1 DEF Rows, Changed, NoContent, NoChanges
<1> QED
  BY <1>1, <1>2, FS_EmptySet DEF Counted, NoStats

\* Only the batches of InFlight are ever handed over under schema_lock.
THEOREM FlightInvariant == Spec => []InFlight
<1>1. TypeOK /\ IndexInv /\ InFlight /\ [Next]_vars => InFlight'
  BY FlightStep
<1> QED
  BY <1>1, InitFlight, TypeInvariant, IndexInvariant, PTL DEF Spec

LEMMA CountedStep ==
    ASSUME TypeOK, IndexInv, InFlight, Counted(kv), [Next]_vars
    PROVE  Counted(kv')
  BY TableStep, LandingCounted, CountedTable

\* No counter is below the rows it counts, and each is exact unless a namespace is
\* being erased.
THEOREM CountedInvariant == Spec => []Counted(kv)
<1>1. TypeOK /\ IndexInv /\ InFlight /\ Counted(kv) /\ [Next]_vars => Counted(kv)'
  BY CountedStep
<1> QED
  BY <1>1, InitCounted, TypeInvariant, IndexInvariant, FlightInvariant, PTL DEF Spec

\* The statistics row is exact, and no vector outlives its document: write and
\* cleanup_inner may adjust it instead of recounting.
THEOREM StatsAreExact == Spec => []StatsExact
<1>1. Counted(kv) => StatsExact
  <2> SUFFICES ASSUME Counted(kv), ~kv.z PROVE StatsExact
    BY DEF StatsExact
  <2>1. Rows(kv.v) \subseteq Rows(kv.d)
    BY DEF Counted
  <2>2. (Rows(kv.v) \cap Rows(kv.d)) = Rows(kv.v)
    BY <2>1
  <2> QED
    BY <2>2 DEF Counted, StatsExact
<1> QED
  BY <1>1, CountedInvariant, PTL

\* The unsigned subtractions of write and cleanup_inner never wrap.
THEOREM CountersHold == Spec => []CountersNeverWrap
<1>1. Counted(kv) => CountersNeverWrap
  BY DEF Counted, CountersNeverWrap
<1> QED
  BY <1>1, CountedInvariant, PTL

-----------------------------------------------------------------------------
\* What is left behind is marked.

LEMMA RowsInvariant == Spec => []RowsFun
<1>1. TypeOK /\ IndexInv /\ RowsFun /\ [Next]_vars => RowsFun'
  BY IndexStep
<1> QED
  BY <1>1, InitExact, TypeInvariant, IndexInvariant, PTL DEF Spec

\* Without j/ there is nothing to collect (GarbageIsMarked, of any rows).
Marked(k) == (~k.z /\ ~k.j) =>
    /\ \A row \in Generated(k) : k.i # None /\ k.i.gen = row[1]
    /\ \A id \in Changed(k) : k.i = None \/ k.c[id] > k.i.revision

\* Every change row the cleaner has to look at is still on its list.
Listed(k) == ~k.z => \A id \in Changed(k) : k.c[id] <= task.revision => id \in task.stale

\* The batches of the index task: a mark set, a mark taken away, or index rows.
IdxInFlight == idx # Nothing =>
    \/ task.pc = "mark" /\ idx = [j |-> TRUE]
    \/ task.pc = "tidy" /\ idx = [j |-> FALSE]
    \/ task.pc \in {"stage", "tidy"} /\ DOMAIN idx = {"g"}
Working == {"stage", "resume", "scan", "tidy"}
CleanOwed   == task.pc \in Working => kv.j
Unpublished == (task.pc \in {"scan", "tidy"} /\ kv.i = None /\ ~kv.z) => task.gen = None
ListKept    == task.pc = "tidy" => /\ Listed(Apply(kv, app))
                                   /\ schemaLock # "task" => Listed(kv)
AllMarked   == \A k \in Outcomes : Marked(k)
MarkInv     == IdxInFlight /\ CleanOwed /\ Unpublished /\ ListKept /\ AllMarked

LEMMA InitMark == Init => MarkInv
<1> SUFFICES ASSUME Init PROVE MarkInv
  OBVIOUS
<1>1. Outcomes = {kv}
  BY InitExact, FewOutcomes DEF Init
<1>2. kv.c = NoChanges /\ kv.g = [gen \in Gens |-> NoContent]
  BY DEF Init, EmptyRows
<1>3. Changed(kv) = {} /\ Generated(kv) = {}
  BY <1>2 DEF Changed, Generated, NoChanges, NoContent
<1>4. task.pc = "idle" /\ idx = Nothing
  BY DEF Init, Idle
<1> QED
  BY <1>1, <1>3, <1>4 DEF MarkInv, IdxInFlight, CleanOwed, Unpublished, ListKept, AllMarked,
     Marked, Working

\* A batch without change rows and deletion marker keeps the list.
LEMMA ListedRows ==
    ASSUME NEW k, NEW l, k.c = l.c, k.z = l.z
    PROVE  Listed(k) <=> Listed(l)
  BY DEF Listed, Changed

\* No row changes, and the task is not at work or does not move.
LEMMA RowsStay ==
    ASSUME MarkInv, UNCHANGED <<kv, app, idx>>, idx = Nothing \/ task' = task,
           (task' = task /\ schemaLock' = schemaLock) \/ task'.pc \notin Working
    PROVE  MarkInv'
<1>1. Outcomes' = Outcomes
  BY DEF Outcomes
<1> QED
  BY <1>1 DEF MarkInv, IdxInFlight, CleanOwed, Unpublished, ListKept, AllMarked,
     Marked, Working, Listed

\* A batch is handed over under schema_lock.
LEMMA AppMarked ==
    ASSUME TypeOK, LockInv, RowsFun, MarkInv, NEW batch,
           app = Nothing, app' = batch, UNCHANGED <<kv, idx>>,
           DOMAIN batch \cap DOMAIN idx = {},
           \A k \in Outcomes : Marked(Apply(k, batch))
    PROVE  AllMarked'
<1>1. Outcomes' = Outcomes \cup {Apply(k, batch) : k \in Outcomes}
  BY AppCommits
<1> QED
  BY <1>1 DEF MarkInv, AllMarked, Marked

\* A write raises what it touches above every watermark.
LEMMA WriteMarked ==
    ASSUME NEW k, DOMAIN k = Families, RowsOK(k), IndexExact(k), Marked(k),
           NEW request \in Requests
    PROVE  Marked(Apply(k, WriteBatch(k, request)))
<1> PICK l : l = Apply(k, WriteBatch(k, request))
  OBVIOUS
<1>1. /\ l.i = k.i /\ l.g = k.g /\ l.z = k.z /\ l.j = k.j
      /\ l.c = WriteBatch(k, request).c
  BY DEF Apply, WriteBatch, Families
<1>2. \A id \in Ids : l.c[id] = k.c[id] \/ l.c[id] = k.s.revision + 1
  BY <1>1 DEF WriteBatch
<1>3. k.s \in Stats /\ k.i \in Status \cup {None} /\ k.c \in [Ids -> Nat]
  BY RowTypes
<1>4. k.s.revision \in Nat /\ (k.i # None => k.i.revision \in Nat)
  BY <1>3 DEF Stats, Status
<1>5. (~k.z /\ k.i # None) => k.i.revision <= k.s.revision
  BY DEF IndexExact
<1>6. Generated(l) = Generated(k)
  BY <1>1 DEF Generated
<1> QED
  BY <1>1, <1>2, <1>3, <1>4, <1>5, <1>6 DEF Marked, Changed

\* ... and so above what the cleaner may take away.
LEMMA WriteListed ==
    ASSUME NEW k, DOMAIN k = Families, RowsOK(k), IndexExact(k), CleanExact(k), Listed(k),
           NEW request \in Requests, task.pc = "tidy", task.revision \in Nat
    PROVE  Listed(Apply(k, WriteBatch(k, request)))
<1> PICK l : l = Apply(k, WriteBatch(k, request))
  OBVIOUS
<1>1. l.z = k.z /\ l.c = WriteBatch(k, request).c
  BY DEF Apply, WriteBatch, Families
<1>2. \A id \in Ids : l.c[id] = k.c[id] \/ l.c[id] = k.s.revision + 1
  BY <1>1 DEF WriteBatch
<1>3. k.s \in Stats /\ k.c \in [Ids -> Nat]
  BY RowTypes
<1>4. k.s.revision \in Nat
  BY <1>3 DEF Stats
<1>5. ~k.z => task.revision <= k.s.revision
  BY <1>4 DEF IndexExact, CleanExact
<1> QED
  BY <1>1, <1>2, <1>3, <1>4, <1>5 DEF Listed, Changed

LEMMA RequestMark ==
    ASSUME TypeOK, RowsFun, IndexInv, InFlight, MarkInv, Request \/ RequestDurable
    PROVE  MarkInv'
<1>0. LockInv /\ \A k \in Outcomes : IndexExact(k) /\ CleanExact(k) /\ Marked(k)
  BY DEF IndexInv, MarkInv, AllMarked
<1>1. CASE \E schema \in Schemas : CreateCommit(schema)
  <2> PICK schema \in Schemas : CreateCommit(schema)
    BY <1>1
  <2> DEFINE batch == [n |-> schema]
  <2>1. /\ app = Nothing /\ app' = batch /\ UNCHANGED <<kv, idx, task>>
        /\ schemaLock = "free" /\ schemaLock' = "app"
    BY <1>0 DEF CreateCommit, LockInv, SchemaFree
  <2>2. DOMAIN batch \cap DOMAIN idx = {}
    BY DEF TypeOK
  <2>3. \A k \in Outcomes : Marked(Apply(k, batch))
    <3> TAKE k \in Outcomes
    <3> PICK l : l = Apply(k, batch)
      OBVIOUS
    <3>1. l.c = k.c /\ l.g = k.g /\ l.i = k.i /\ l.z = k.z /\ l.j = k.j
      BY DEF Apply, Families
    <3> QED
      BY <3>1, <1>0 DEF Marked, Generated, Changed
  <2>4. Apply(kv, batch).c = kv.c /\ Apply(kv, batch).z = kv.z
    BY DEF Apply, Families
  <2> HIDE DEF batch
  <2>5. AllMarked'
    BY <1>0, <2>1, <2>2, <2>3, AppMarked
  <2>6. ListKept'
    BY <2>1, <2>4, ListedRows DEF MarkInv, ListKept, Listed
  <2> QED
    BY <2>1, <2>5, <2>6 DEF MarkInv, IdxInFlight, CleanOwed, Unpublished
<1>2. CASE \E request \in Requests : WriteCommit(request)
  <2> PICK request \in Requests : WriteCommit(request)
    BY <1>2
  <2> DEFINE batch == WriteBatch(kv, request)
  <2>1. /\ app = Nothing /\ app' = batch /\ UNCHANGED <<kv, idx, task>>
        /\ schemaLock = "free" /\ schemaLock' = "app"
    BY <1>0 DEF WriteCommit, LockInv, SchemaFree
  <2>2. DOMAIN batch \cap DOMAIN idx = {}
    BY DEF TypeOK, WriteBatch
  <2>3. \A k \in Outcomes : Marked(Apply(k, batch))
    <3> TAKE k \in Outcomes
    <3>1. Outcomes = {kv, Apply(kv, idx)}
      BY <2>1, FewOutcomes
    <3>2. WriteBatch(k, request) = batch
      BY <3>1, SameWrite
    <3>3. DOMAIN k = Families /\ RowsOK(k)
      BY OutcomesType
    <3> HIDE DEF batch
    <3> QED
      BY <1>0, <3>2, <3>3, WriteMarked
  <2>4. task.pc = "tidy" => Listed(Apply(kv, batch))
    <3>1. kv \in Outcomes /\ DOMAIN kv = Families /\ RowsOK(kv) /\ task.revision \in Nat
      BY DEF Outcomes, TypeOK, TaskOK
    <3>2. task.pc = "tidy" => Listed(kv)
      BY <2>1 DEF MarkInv, ListKept
    <3> QED
      BY <1>0, <3>1, <3>2, WriteListed
  <2> HIDE DEF batch
  <2>5. AllMarked'
    BY <1>0, <2>1, <2>2, <2>3, AppMarked
  <2>6. ListKept'
    BY <2>1, <2>4 DEF MarkInv, ListKept, Listed
  <2> QED
    BY <2>1, <2>5, <2>6 DEF MarkInv, IdxInFlight, CleanOwed, Unpublished
<1>3. CASE RequestDurable
  <2> PICK l : l = Apply(kv, app)
    OBVIOUS
  <2>1. /\ kv' = l /\ app' = Nothing /\ UNCHANGED <<idx, task>>
        /\ DOMAIN app \subseteq {"n", "s", "d", "v", "c"}
    BY <1>0, <1>3 DEF RequestDurable, LockInv
  <2>2. l.i = kv.i /\ l.z = kv.z /\ l.j = kv.j
    BY <2>1 DEF Apply, Families
  <2>3. Apply(kv', app') = kv'
    BY <2>1, ApplyNothing
  <2>4. Outcomes' \subseteq Outcomes
    BY <2>1, AppLands
  <2>5. ListKept'
    BY <2>1, <2>3 DEF MarkInv, ListKept, Listed
  <2>6. AllMarked'
    BY <1>0, <2>4 DEF AllMarked, Marked
  <2> QED
    BY <2>1, <2>2, <2>5, <2>6 DEF MarkInv, IdxInFlight, CleanOwed, Unpublished
<1> QED
  BY <1>1, <1>2, <1>3 DEF Request

\* Index rows are handed over: under a mark they change nothing, and the mark
\* itself is only ever too early.
LEMMA IdxMarked ==
    ASSUME TypeOK, RowsFun, IndexInv, MarkInv, NEW batch, IdxCommit(batch),
           \/ task.pc = "mark" /\ batch = [j |-> TRUE]
           \/ task.pc = "tidy" /\ batch = [j |-> FALSE]
              /\ \A k \in {kv, Apply(kv, app)} : Marked(Apply(k, batch))
           \/ task.pc \in {"stage", "tidy"} /\ DOMAIN batch = {"g"}
    PROVE  MarkInv'
<1>0. LockInv /\ AllMarked
  BY DEF IndexInv, MarkInv
<1>1. /\ idx = Nothing /\ idx' = batch /\ schemaLock # "task"
      /\ UNCHANGED <<kv, app, task, schemaLock>>
  BY DEF IdxCommit
<1>2. Outcomes = {kv, Apply(kv, app)}
      /\ Outcomes' = Outcomes \cup {Apply(k, batch) : k \in Outcomes}
  BY <1>1, IdxCommits, FewOutcomes
<1>3. \A k \in Outcomes : Marked(Apply(k, batch))
  <2>1. CASE task.pc = "mark" /\ batch = [j |-> TRUE]
    <3>1. \A k : Apply(k, batch).j
      BY <2>1 DEF Apply, Families
    <3> QED
      BY <3>1 DEF Marked
  <2>2. CASE task.pc = "tidy" /\ batch = [j |-> FALSE]
    BY <2>2, <1>2
  <2>3. CASE task.pc \in {"stage", "tidy"} /\ DOMAIN batch = {"g"}
    <3>1. kv.j
      BY <2>3 DEF MarkInv, CleanOwed, Working
    <3>2. "j" \notin DOMAIN app
      BY <1>0, <1>1, NothingType DEF LockInv, TypeOK
    <3>3. \A k \in Outcomes : k.j
      BY <1>2, <3>1, <3>2 DEF Apply, Families
    <3>4. \A k \in Outcomes : Apply(k, batch).j
      BY <2>3, <3>3 DEF Apply, Families
    <3> QED
      BY <3>4 DEF Marked
  <2> QED
    BY <2>1, <2>2, <2>3
<1>4. AllMarked'
  BY <1>0, <1>1, <1>2, <1>3 DEF AllMarked, Marked
<1>5. ListKept'
  BY <1>1 DEF MarkInv, ListKept, Listed
<1> QED
  BY <1>1, <1>4, <1>5 DEF MarkInv, IdxInFlight, CleanOwed, Unpublished

\* Index rows land.
LEMMA IdxLanded ==
    ASSUME TypeOK, IndexInv, MarkInv, IdxDurable,
           \/ task.pc = "mark" /\ Goto("stage")
           \/ task.pc = "stage" /\ task' = task
           \/ task.pc = "tidy" /\ "g" \in DOMAIN idx /\ task' = task
           \/ task.pc = "tidy" /\ task' = Idle
    PROVE  MarkInv'
<1>0. LockInv /\ AllMarked
  BY DEF IndexInv, MarkInv
<1> PICK l : l = Apply(kv, idx)
  OBVIOUS
<1>1. /\ idx # Nothing /\ idx' = Nothing /\ kv' = l /\ UNCHANGED <<app, schemaLock>>
      /\ DOMAIN idx \subseteq {"g", "j"} /\ schemaLock # "task"
  BY <1>0 DEF IdxDurable, TypeOK, LockInv
<1>2. l.c = kv.c /\ l.z = kv.z /\ l.i = kv.i
  BY <1>1 DEF Apply, Families
<1>3. AllMarked'
  <2>1. Outcomes' \subseteq Outcomes
    BY <1>0, IdxLands
  <2> QED
    BY <1>0, <2>1 DEF AllMarked, Marked
<1>4. task'.pc \in Working => kv'.j
  <2>1. CASE task.pc = "mark" /\ Goto("stage")
    <3>1. idx = [j |-> TRUE]
      BY <1>1, <2>1 DEF MarkInv, IdxInFlight
    <3> QED
      BY <1>1, <3>1 DEF Apply, Families
  <2>2. CASE task.pc = "stage" /\ task' = task
    <3>1. kv.j /\ DOMAIN idx = {"g"}
      BY <1>1, <2>2 DEF MarkInv, IdxInFlight, CleanOwed, Working
    <3> QED
      BY <1>1, <3>1 DEF Apply, Families
  <2>3. CASE task.pc = "tidy" /\ "g" \in DOMAIN idx /\ task' = task
    <3>1. kv.j /\ DOMAIN idx = {"g"}
      BY <1>1, <2>3 DEF MarkInv, IdxInFlight, CleanOwed, Working
    <3> QED
      BY <1>1, <3>1 DEF Apply, Families
  <2>4. CASE task' = Idle
    BY <2>4 DEF Idle, Working
  <2> QED
    BY <2>1, <2>2, <2>3, <2>4
<1>5. task'.pc \in {"scan", "tidy"} => task' = task
  BY GotoPc DEF Idle
<1>6. ListKept'
  <2>1. Apply(l, app).c = Apply(kv, app).c /\ Apply(l, app).z = Apply(kv, app).z
    BY <1>2 DEF Apply, Families
  <2> QED
    BY <1>1, <1>2, <1>5, <2>1 DEF MarkInv, ListKept, Listed, Changed
<1> QED
  BY <1>1, <1>2, <1>3, <1>4, <1>5, <1>6 DEF MarkInv, IdxInFlight, CleanOwed, Unpublished

LEMMA BuildMark ==
    ASSUME TypeOK, RowsFun, IndexInv, InFlight, MarkInv, BuildLock \/ Build
    PROVE  MarkInv'
<1>0. LockInv
  BY DEF IndexInv
<1>1. CASE BuildLock \/ BuildRefused \/ \E gen \in Gens : BuildSnapshot(gen)
  <2>1. idx = Nothing /\ UNCHANGED <<kv, app, idx>>
    BY <1>0, <1>1, Quiet DEF BuildLock, BuildRefused, BuildSnapshot
  <2>2. task'.pc \notin Working
    BY <1>1, GotoPc DEF BuildLock, BuildRefused, BuildSnapshot, Idle, Working
  <2> QED
    BY <2>1, <2>2, RowsStay
<1>2. CASE MarkCommit
  BY <1>2, IdxMarked DEF MarkCommit
<1>3. CASE MarkDurable \/ StageDurable
  BY <1>3, IdxLanded DEF MarkDurable, StageDurable
<1>4. CASE \E part \in SUBSET Ids : StageCommit(part)
  <2> PICK part \in SUBSET Ids : StageCommit(part)
    BY <1>4
  <2> PICK batch : batch = [g |-> [kv.g EXCEPT ![task.gen] =
                     [id \in Ids |-> IF id \in part THEN task.content[id] ELSE @[id]]]]
    OBVIOUS
  <2>1. task.pc = "stage" /\ IdxCommit(batch) /\ DOMAIN batch = {"g"}
    BY DEF StageCommit
  <2> QED
    BY <2>1, IdxMarked
<1>5. CASE PublishCommit
  <2> PICK status : status = [gen |-> task.gen, revision |-> task.revision,
                              ids |-> Rows(task.content)]
    OBVIOUS
  <2> DEFINE batch == [i |-> status]
  <2>1. /\ app = Nothing /\ app' = batch /\ UNCHANGED <<kv, idx, task>>
        /\ schemaLock' = "task" /\ task.pc = "stage" /\ idx = Nothing
    BY <1>0, <1>5 DEF PublishCommit, TaskCommit, LockInv, SchemaFree
  <2>2. DOMAIN batch \cap DOMAIN idx = {}
    BY DEF TypeOK
  <2>3. \A k \in Outcomes : Marked(Apply(k, batch))
    <3>1. Outcomes = {kv} /\ kv.j
      BY <2>1, FewOutcomes DEF MarkInv, CleanOwed, Working
    <3>2. Apply(kv, batch).j
      BY <3>1 DEF Apply, Families
    <3> QED
      BY <3>1, <3>2 DEF Marked
  <2> HIDE DEF batch
  <2>4. AllMarked'
    BY <1>0, <2>1, <2>2, <2>3, AppMarked
  <2> QED
    BY <2>1, <2>4 DEF MarkInv, IdxInFlight, CleanOwed, Unpublished, ListKept
<1>6. CASE PublishDurable
  <2> PICK l : l = Apply(kv, app)
    OBVIOUS
  <2>1. /\ kv' = l /\ app' = Nothing /\ UNCHANGED idx /\ Goto("scan")
        /\ task.pc = "stage" /\ schemaLock = "task"
    BY <1>6 DEF PublishDurable, TaskDurable
  <2>2. app = [i |-> [gen |-> task.gen, revision |-> task.revision, ids |-> Rows(task.content)]]
    BY <1>0, <2>1 DEF LockInv
  <2>3. l.i = [gen |-> task.gen, revision |-> task.revision, ids |-> Rows(task.content)]
        /\ l.j = kv.j
    BY <2>2 DEF Apply, Families
  <2>4. l.i # None
    BY <2>1, <2>3 DEF Status, Rows, TypeOK, TaskOK
  <2>5. kv.j
    BY <2>1 DEF MarkInv, CleanOwed, Working
  <2>6. task'.pc = "scan" /\ idx = Nothing
    BY <1>0, <2>1, GotoPc DEF LockInv
  <2>7. AllMarked'
    BY <2>1, AppLands DEF MarkInv, AllMarked, Marked
  <2> QED
    BY <2>1, <2>3, <2>4, <2>5, <2>6, <2>7 DEF MarkInv, IdxInFlight, CleanOwed, Unpublished, ListKept
<1> QED
  BY <1>1, <1>2, <1>3, <1>4, <1>5, <1>6 DEF Build

\* The mark goes when nothing is left to collect: every index row is of the
\* published generation, and every change row is above its watermark.
LEMMA UnmarkIsDue ==
    ASSUME TypeOK, IndexInv, MarkInv, UnmarkCommit,
           NEW k \in {kv, Apply(kv, app)}
    PROVE  Marked(Apply(k, [j |-> FALSE]))
<1>0. LockInv /\ k \in Outcomes
  BY DEF IndexInv, Outcomes
<1> PICK l : l = Apply(k, [j |-> FALSE])
  OBVIOUS
<1>1. l.c = k.c /\ l.g = k.g /\ l.i = k.i /\ l.z = k.z
  BY DEF Apply, Families
<1>2. /\ task.pc = "tidy" /\ Retired = {} /\ task.stale = {} /\ schemaLock # "task"
  BY DEF UnmarkCommit, IdxCommit
<1>3. k.g = kv.g /\ k.i = kv.i /\ k.z = kv.z
  <2>1. DOMAIN app \subseteq {"n", "s", "d", "v", "c"}
    BY <1>0, <1>2, NothingType DEF LockInv, TypeOK
  <2> QED
    BY <2>1 DEF Apply, Families
<1>4. Listed(k)
  BY <1>2 DEF MarkInv, ListKept
<1>5. \A row \in Generated(k) : row[1] = task.gen /\ row[1] \in Gens
  BY <1>2, <1>3 DEF Retired, Generated
<1>6. CleanExact(k)
  BY <1>0 DEF IndexInv
<1>7. CASE k.z
  BY <1>1, <1>7 DEF Marked
<1>8. CASE ~k.z /\ k.i = None
  <2>1. task.gen = None
    BY <1>2, <1>3, <1>8 DEF MarkInv, Unpublished
  <2>2. Generated(k) = {}
    BY <2>1, <1>5
  <2> QED
    BY <2>2, <1>1, <1>8 DEF Marked, Generated
<1>9. CASE ~k.z /\ k.i # None
  <2>1. task.gen = k.i.gen /\ task.revision = k.i.revision
    BY <1>2, <1>6, <1>9 DEF CleanExact
  <2>2. \A id \in Changed(k) : ~(k.c[id] <= k.i.revision)
    BY <2>1, <1>2, <1>4, <1>9 DEF Listed
  <2>3. k.c \in [Ids -> Nat] /\ k.i.revision \in Nat
    BY <1>0, <1>9, OutcomesType, RowTypes DEF Status
  <2>4. \A id \in Changed(k) : k.c[id] > k.i.revision
    BY <2>2, <2>3 DEF Changed
  <2>5. Generated(l) = Generated(k) /\ Changed(l) = Changed(k)
    BY <1>1 DEF Generated, Changed
  <2>6. \A row \in Generated(l) : l.i # None /\ l.i.gen = row[1]
    BY <2>1, <2>5, <1>1, <1>5, <1>9
  <2>7. \A id \in Changed(l) : l.c[id] > l.i.revision
    BY <2>4, <2>5, <1>1
  <2> QED
    BY <2>6, <2>7 DEF Marked
<1> QED
  BY <1>7, <1>8, <1>9

LEMMA CleanMark ==
    ASSUME TypeOK, RowsFun, IndexInv, InFlight, MarkInv, Clean
    PROVE  MarkInv'
<1>0. LockInv
  BY DEF IndexInv
<1>1. CASE ResumeSnapshot
  <2>1. idx = Nothing /\ UNCHANGED <<kv, app, idx>> /\ kv.j
    BY <1>0, <1>1, Quiet DEF ResumeSnapshot, MarkInv, CleanOwed, Working
  <2>2. task'.pc = "scan" /\ task'.gen = IF kv.i = None THEN None ELSE kv.i.gen
    BY <1>1 DEF ResumeSnapshot, TypeOK, TaskOK
  <2>3. AllMarked'
    BY <2>1 DEF MarkInv, AllMarked, Marked, Outcomes
  <2> QED
    BY <2>1, <2>2, <2>3 DEF MarkInv, IdxInFlight, CleanOwed, Unpublished, ListKept
<1>2. CASE CleanScan
  <2>1. /\ idx = Nothing /\ app = Nothing /\ UNCHANGED <<kv, app, idx, schemaLock>>
        /\ kv.j /\ task.pc = "scan"
    BY <1>0, <1>2, Quiet DEF CleanScan, MarkInv, CleanOwed, Working
  <2>2. /\ task'.pc = "tidy" /\ task'.gen = task.gen /\ task'.revision = task.revision
        /\ task'.stale = {id \in Changed(kv) : kv.c[id] <= task.revision}
    BY <1>2 DEF CleanScan, TypeOK, TaskOK
  <2>3. AllMarked'
    BY <2>1 DEF MarkInv, AllMarked, Marked, Outcomes
  <2>4. Apply(kv, app) = kv
    BY <2>1 DEF RowsFun
  <2>5. Listed(kv)'
    BY <2>1, <2>2 DEF Listed
  <2>6. ListKept'
    BY <2>1, <2>4, <2>5 DEF ListKept, Listed
  <2> QED
    BY <2>1, <2>2, <2>3, <2>6 DEF MarkInv, IdxInFlight, CleanOwed, Unpublished
<1>3. CASE \E part \in SUBSET Retired : RetireCommit(part)
  <2> PICK part \in SUBSET Retired : RetireCommit(part)
    BY <1>3
  <2> PICK batch : batch = [g |-> Dropped(kv.g, part)]
    OBVIOUS
  <2>1. task.pc = "tidy" /\ IdxCommit(batch) /\ DOMAIN batch = {"g"}
    BY DEF RetireCommit
  <2> QED
    BY <2>1, IdxMarked
<1>4. CASE RetireDurable \/ UnmarkDurable
  BY <1>4, IdxLanded DEF RetireDurable, UnmarkDurable
<1>5. CASE UnmarkCommit
  <2>1. task.pc = "tidy" /\ IdxCommit([j |-> FALSE])
    BY <1>5 DEF UnmarkCommit
  <2> QED
    BY <1>5, <2>1, UnmarkIsDue, IdxMarked
<1>6. CASE \E part \in SUBSET Ids : CleanCommit(part)
  <2> PICK part \in SUBSET Ids : CleanCommit(part)
    BY <1>6
  <2> DEFINE gone == {id \in part : kv.c[id] # 0 /\ kv.c[id] <= task.revision}
  <2> PICK batch : batch = Uncovers(kv, gone)
    OBVIOUS
  <2>1. /\ app = Nothing /\ idx = Nothing /\ app' = batch /\ UNCHANGED <<kv, idx>>
        /\ schemaLock # "task" /\ schemaLock' = "task" /\ task.pc = "tidy"
    BY <1>0 DEF CleanCommit, TaskCommit, LockInv, SchemaFree, Uncovers
  <2>2. /\ task'.pc = "tidy" /\ task'.gen = task.gen /\ task'.revision = task.revision
        /\ task'.stale = task.stale \ part
    BY <2>1 DEF CleanCommit, TypeOK, TaskOK
  <2>3. kv.j /\ Listed(kv)
    BY <2>1 DEF MarkInv, CleanOwed, Working, ListKept
  <2>4. AllMarked'
    <3>1. DOMAIN batch \cap DOMAIN idx = {}
      BY <2>1, NothingType
    <3>2. Outcomes = {kv}
      BY <2>1, FewOutcomes
    <3>3. Apply(kv, batch).j
      BY <2>3 DEF Apply, Families, Uncovers
    <3>4. \A k \in Outcomes : Marked(Apply(k, batch))
      BY <3>2, <3>3 DEF Marked
    <3> QED
      BY <1>0, <2>1, <3>1, <3>4, AppMarked
  <2>5. ListKept'
    <3> PICK l : l = Apply(kv, batch)
      OBVIOUS
    <3>1. l.z = kv.z /\ \A id \in Ids : l.c[id] = IF id \in gone THEN 0 ELSE kv.c[id]
      BY DEF Apply, Families, Uncovers
    <3>2. Listed(l)'
      BY <2>2, <2>3, <3>1 DEF Listed, Changed
    <3> QED
      BY <2>1, <3>2 DEF ListKept, Listed
  <2> QED
    BY <2>1, <2>2, <2>3, <2>4, <2>5 DEF MarkInv, IdxInFlight, CleanOwed, Unpublished
<1>7. CASE CleanDurable
  <2> PICK l : l = Apply(kv, app)
    OBVIOUS
  <2>1. /\ kv' = l /\ app' = Nothing /\ UNCHANGED <<idx, task>> /\ task.pc = "tidy"
        /\ schemaLock = "task" /\ idx = Nothing
    BY <1>0, <1>7 DEF CleanDurable, TaskDurable, LockInv
  <2>2. DOMAIN app = {"c", "s"}
    BY <2>1 DEF InFlight, TaskInFlight, Uncovers
  <2>3. l.i = kv.i /\ l.z = kv.z /\ l.j = kv.j
    BY <2>2 DEF Apply, Families
  <2>4. Apply(kv', app') = kv'
    BY <2>1, ApplyNothing
  <2>5. AllMarked'
    BY <2>1, AppLands DEF MarkInv, AllMarked, Marked
  <2>6. ListKept'
    BY <2>1, <2>4 DEF MarkInv, ListKept, Listed
  <2> QED
    BY <2>1, <2>3, <2>5, <2>6 DEF MarkInv, IdxInFlight, CleanOwed, Unpublished
<1> QED
  BY <1>1, <1>2, <1>3, <1>4, <1>5, <1>6, <1>7 DEF Clean

\* The batches of a deletion: the marker is there until all rows are gone.
LEMMA DeletionMarked ==
    ASSUME TypeOK, RowsFun, IndexInv, MarkInv, NEW batch,
           task.pc \in {"delete", "erase"},
           app = Nothing, app' = batch, UNCHANGED <<kv, idx, task>>,
           \/ batch = [n |-> None, z |-> TRUE]
           \/ kv.z /\ "z" \notin DOMAIN batch
           \/ batch = Forgotten /\ Bare(kv)
    PROVE  MarkInv'
<1>0. LockInv
  BY DEF IndexInv
<1>1. idx = Nothing
  BY <1>0 DEF LockInv
<1>2. Outcomes = {kv}
  BY <1>1, FewOutcomes
<1> PICK l : l = Apply(kv, batch)
  OBVIOUS
<1>3. Marked(l)
  <2>1. CASE batch = [n |-> None, z |-> TRUE]
    <3>1. l.z = TRUE
      BY <2>1 DEF Apply, Families
    <3> QED
      BY <3>1 DEF Marked
  <2>2. CASE kv.z /\ "z" \notin DOMAIN batch
    <3>1. l.z = kv.z
      BY <2>2 DEF Apply, Families
    <3> QED
      BY <2>2, <3>1 DEF Marked
  <2>3. CASE batch = Forgotten /\ Bare(kv)
    <3>1. l.c = kv.c /\ l.g = kv.g
      BY <2>3 DEF Apply, Families, Forgotten
    <3>2. Changed(l) = {} /\ Generated(l) = {}
      BY <2>3, <3>1 DEF Bare, Changed, Generated
    <3> QED
      BY <3>2 DEF Marked
  <2> QED
    BY <2>1, <2>2, <2>3
<1>4. DOMAIN batch \cap DOMAIN idx = {}
  BY <1>1, NothingType
<1>5. AllMarked'
  BY <1>0, <1>2, <1>3, <1>4, AppMarked
<1> QED
  BY <1>1, <1>5 DEF MarkInv, IdxInFlight, CleanOwed, Unpublished, ListKept, Working

LEMMA DeleteMark ==
    ASSUME TypeOK, RowsFun, IndexInv, InFlight, MarkInv,
           DeleteLock \/ IntentCommit \/ IntentDurable \/ Erase
    PROVE  MarkInv'
<1>0. LockInv
  BY DEF IndexInv
<1>1. CASE DeleteLock
  <2>1. idx = Nothing /\ UNCHANGED <<kv, app, idx>> /\ task'.pc = "delete"
    BY <1>0, <1>1, Quiet, GotoPc DEF DeleteLock
  <2> QED
    BY <2>1, RowsStay DEF Working
<1>2. CASE IntentCommit
  <2>1. /\ app = Nothing /\ app' = [n |-> None, z |-> TRUE] /\ UNCHANGED <<kv, idx, task>>
        /\ task.pc = "delete"
    BY <1>0, <1>2 DEF IntentCommit, TaskCommit, LockInv, SchemaFree
  <2> QED
    BY <2>1, DeletionMarked
<1>3. CASE IntentDurable \/ EraseDurable \/ ForgetDurable
  <2>1. /\ kv' = Apply(kv, app) /\ app' = Nothing /\ idx' = idx
        /\ task.pc \in {"delete", "erase"}
    BY <1>3 DEF IntentDurable, EraseDurable, ForgetDurable, TaskDurable
  <2>2. task'.pc \in {"erase", "idle"} /\ idx = Nothing
    BY <1>0, <1>3, <2>1, GotoPc DEF IntentDurable, EraseDurable, ForgetDurable, Idle, LockInv
  <2>3. AllMarked'
    BY <2>1, AppLands DEF MarkInv, AllMarked, Marked
  <2> QED
    BY <2>1, <2>2, <2>3 DEF MarkInv, IdxInFlight, CleanOwed, Unpublished, ListKept, Working
<1>4. ASSUME NEW batch, EraseCommit(batch),
             "z" \notin DOMAIN batch \/ (batch = Forgotten /\ Bare(kv))
      PROVE  MarkInv'
  <2>1. /\ app = Nothing /\ app' = batch /\ UNCHANGED <<kv, idx, task>>
        /\ task.pc = "erase" /\ kv.z
    BY <1>0, <1>4 DEF EraseCommit, LockInv
  <2> QED
    BY <1>4, <2>1, DeletionMarked
<1>5. CASE \E part \in SUBSET Ids : EraseDocuments(part) \/ EraseVectors(part) \/ EraseChanges(part)
  BY <1>4, <1>5 DEF EraseDocuments, EraseVectors, EraseChanges
<1>6. CASE \E part \in SUBSET Generated(kv) : EraseGenerations(part)
  BY <1>4, <1>6 DEF EraseGenerations
<1>7. CASE ForgetCommit
  BY <1>4, <1>7 DEF ForgetCommit, Forgotten, Bare
<1> QED
  BY <1>1, <1>2, <1>3, <1>5, <1>6, <1>7 DEF Erase

LEMMA OtherMark ==
    ASSUME TypeOK, RowsFun, IndexInv, InFlight, MarkInv,
           \/ Indexer \/ UNCHANGED vars
           \/ TaskError \/ EraseError \/ Crash \/ Close \/ Reopen \/ OpenDone
    PROVE  MarkInv'
<1>0. LockInv
  BY DEF IndexInv
<1>1. CASE IndexerTick \/ IndexerStats \/ OpenDone \/ UNCHANGED vars
  BY <1>1, RowsStay DEF IndexerTick, IndexerStats, OpenDone, vars
<1>2. CASE IndexerRebuild
  <2>1. idx = Nothing /\ UNCHANGED <<kv, app, idx>> /\ task'.pc = "build"
    BY <1>0, <1>2, Quiet, GotoPc DEF IndexerRebuild
  <2> QED
    BY <2>1, RowsStay DEF Working
<1>3. CASE IndexerResume
  <2>1. CASE kv.j
    <3>1. idx = Nothing /\ UNCHANGED <<kv, app, idx>> /\ task'.pc = "resume"
      BY <1>0, <1>3, <2>1, Quiet, GotoPc DEF IndexerResume
    <3> QED
      BY <2>1, <3>1 DEF MarkInv, IdxInFlight, CleanOwed, Unpublished, ListKept, AllMarked,
         Marked, Outcomes
  <2>2. CASE ~kv.j
    BY <1>3, <2>2, RowsStay DEF IndexerResume
  <2> QED
    BY <2>1, <2>2
<1>4. CASE TaskError \/ EraseError \/ Close
  <2>1. idx = Nothing /\ UNCHANGED <<kv, app, idx>> /\ task'.pc = "idle"
    BY <1>0, <1>4, Quiet DEF TaskError, EraseError, Close, Idle, LockInv
  <2> QED
    BY <2>1, RowsStay DEF Working
<1>5. CASE Crash
  <2>1. kv' \in Outcomes /\ app' = Nothing /\ idx' = Nothing /\ task'.pc = "idle"
    BY <1>5 DEF Crash, Outcomes, Idle
  <2>2. kv' = Apply(kv', Nothing)
    BY <2>1, ApplyNothing DEF Outcomes, RowsFun
  <2>3. Outcomes' = {kv'}
    BY <2>1, <2>2 DEF Outcomes
  <2> QED
    BY <2>1, <2>3 DEF MarkInv, IdxInFlight, CleanOwed, Unpublished, ListKept, AllMarked,
       Marked, Working
<1>6. CASE Reopen
  <2>1. idx = Nothing /\ UNCHANGED <<kv, app, idx>>
    BY <1>0, <1>6 DEF Reopen, LockInv
  <2>2. (task' = task /\ schemaLock' = schemaLock) \/ task'.pc = "erase"
    BY <1>6, GotoPc DEF Reopen
  <2> QED
    BY <2>1, <2>2, RowsStay DEF Working
<1> QED
  BY <1>1, <1>2, <1>3, <1>4, <1>5, <1>6 DEF Indexer

LEMMA MarkStep ==
    ASSUME TypeOK, RowsFun, IndexInv, InFlight, MarkInv, [Next]_vars
    PROVE  MarkInv'
  BY RequestMark, BuildMark, CleanMark, DeleteMark, OtherMark DEF Next

\* MarkInv is an invariant: a generation is marked before its first row, and the
\* mark goes after the last row to collect.
THEOREM MarkInvariant == Spec => []MarkInv
<1>1. TypeOK /\ RowsFun /\ IndexInv /\ InFlight /\ MarkInv /\ [Next]_vars => MarkInv'
  BY MarkStep
<1> QED
  BY <1>1, InitMark, TypeInvariant, RowsInvariant, IndexInvariant, FlightInvariant, PTL DEF Spec

\* What an interrupted build, cleanup or crash leaves behind carries j/, so
\* resume_index_cleanup finds it.
THEOREM GarbageStaysMarked == Spec => []GarbageIsMarked
<1>1. MarkInv => GarbageIsMarked
  BY DEF MarkInv, AllMarked, Outcomes, Marked, GarbageIsMarked
<1> QED
  BY <1>1, MarkInvariant, PTL

-----------------------------------------------------------------------------
\* What a client can read, whether or not erasures fail.

\* A namespace that is absent and not being erased has no document and no
\* revision, and nobody holds an acknowledgement of an absent one.
Empty(k) == (k.n = None /\ ~k.z) => k.d = NoContent /\ k.s.revision = 0
Unacked == kv.n = None => ack = 0
AbsentInv == Empty(kv) /\ Unacked

\* The last batch of an erasure finds no document and takes the statistics
\* along; no other batch takes z/ away.
LEMMA LandingEmpty ==
    ASSUME TypeOK, IndexInv, InFlight, Empty(kv)
    PROVE  Empty(Apply(kv, app))
<1> PICK l : l = Apply(kv, app)
  OBVIOUS
<1>0. kv.s \in Stats /\ kv.d \in [Ids -> Attrs \cup {None}]
  <2>1. DOMAIN kv = Families /\ RowsOK(kv)
    BY DEF TypeOK
  <2> QED
    BY <2>1, RowTypes
<1>1. CASE app = Nothing \/ (task.pc = "stage" /\ DOMAIN app = {"i"})
  <2>1. SameTable(l, kv)
    BY <1>1 DEF SameTable, Apply, Nothing, Families
  <2> QED
    BY <2>1 DEF SameTable, Empty
<1>2. CASE \E schema \in Schemas : app = [n |-> schema]
  <2>1. l.n # None
    BY <1>2 DEF Apply, Families
  <2> QED
    BY <2>1 DEF Empty
<1>3. CASE \E request \in Requests : app = WriteBatch(kv, request) /\ kv.n # None
  <2>1. l.n # None
    BY <1>3 DEF Apply, Families, WriteBatch
  <2> QED
    BY <2>1 DEF Empty
<1>4. CASE \E part \in SUBSET Changed(kv) : app = Uncovers(kv, part)
  <2> PICK part \in SUBSET Changed(kv) : app = Uncovers(kv, part)
    BY <1>4
  <2>1. l.n = kv.n /\ l.z = kv.z /\ l.d = kv.d /\ l.s = Uncovers(kv, part).s
    BY DEF Apply, Families, Uncovers
  <2>2. l.s.revision = kv.s.revision
    BY <1>0, <2>1 DEF Uncovers, Stats
  <2> QED
    BY <2>1, <2>2 DEF Empty
<1>5. CASE app = [n |-> None, z |-> TRUE]
  <2>1. l.z = TRUE
    BY <1>5 DEF Apply, Families
  <2> QED
    BY <2>1 DEF Empty
<1>6. CASE kv.z /\ Erasure(kv, app)
  <2>1. l.z = kv.z
    BY <1>6 DEF Apply, Families, Erasure
  <2> QED
    BY <1>6, <2>1 DEF Empty
<1>7. CASE app = Forgotten /\ Bare(kv)
  <2>1. l.s = NoStats /\ l.d = kv.d
    BY <1>7 DEF Apply, Families, Forgotten
  <2>2. \A id \in Ids : kv.d[id] = None
    BY <1>7 DEF Bare, Rows
  <2>3. kv.d = NoContent
    BY <1>0, <2>2 DEF NoContent
  <2> QED
    BY <2>1, <2>3 DEF Empty, NoStats
<1> QED
  BY <1>1, <1>2, <1>3, <1>4, <1>5, <1>6, <1>7, FlightKinds

\* A request leaves its namespace there, at the revision it acknowledges.
LEMMA LandingRequest ==
    ASSUME TypeOK, IndexInv, InFlight, schemaLock = "app"
    PROVE  LET l == Apply(kv, app)
           IN  /\ l.n # None /\ l.z = kv.z
               /\ \/ kv.n = None /\ l.s = kv.s /\ "s" \notin DOMAIN app
                  \/ kv.n # None /\ l.s.revision = kv.s.revision + 1 /\ "s" \in DOMAIN app
               /\ "s" \in DOMAIN app => app.s.revision = l.s.revision
<1> PICK l : l = Apply(kv, app)
  OBVIOUS
<1>1. CASE \E schema \in Schemas : app = [n |-> schema] /\ kv.n = None
  <2> PICK schema \in Schemas : app = [n |-> schema] /\ kv.n = None
    BY <1>1
  <2>1. l.n = schema /\ l.z = kv.z /\ l.s = kv.s
    BY DEF Apply, Families
  <2>2. DOMAIN app = {"n"} /\ schema # None
    OBVIOUS
  <2> QED
    BY <2>1, <2>2
<1>2. CASE \E request \in Requests : app = WriteBatch(kv, request) /\ kv.n # None
  <2> PICK request \in Requests : app = WriteBatch(kv, request) /\ kv.n # None
    BY <1>2
  <2>1. DOMAIN app = {"s", "d", "v", "c"} /\ app.s = StatsAfter(kv, request)
    BY DEF WriteBatch
  <2>2. l.n = kv.n /\ l.z = kv.z /\ l.s = app.s
    BY <2>1 DEF Apply, Families
  <2>3. app.s.revision = kv.s.revision + 1
    BY <2>1 DEF StatsAfter
  <2> QED
    BY <2>1, <2>2, <2>3
<1> QED
  BY <1>1, <1>2 DEF InFlight, RequestInFlight

\* What a step does to the acknowledgements.
LEMMA AckStep ==
    ASSUME TypeOK, IndexInv, InFlight, [Next]_vars
    PROVE  \/ RequestDurable
           \/ ack' = 0
           \/ ack' = ack /\ (kv'.n = None => kv.n = None)
<1>0. LockInv
  BY DEF IndexInv
<1>1. CASE kv' = kv /\ ack' = ack
  BY <1>1
<1>2. CASE IdxDurable
  BY <1>2, IdxKeepsTable DEF IdxDurable, SameTable
<1>3. CASE PublishDurable \/ CleanDurable \/ EraseDurable \/ ForgetDurable
  <2>1. kv' = Apply(kv, app) /\ ack' = ack /\ "n" \notin DOMAIN app
    BY <1>0, <1>3 DEF PublishDurable, CleanDurable, EraseDurable, ForgetDurable, TaskDurable,
       InFlight, TaskInFlight, Uncovers, Erasure, Forgotten, LockInv
  <2> QED
    BY <2>1 DEF Apply, Families
<1>4. CASE IntentDurable
  BY <1>4 DEF IntentDurable
<1>5. CASE Crash
  BY <1>5 DEF Crash
<1>6. CASE Request \/ BuildLock \/ Build
  BY <1>1, <1>2, <1>3, <1>6 DEF Request, BuildLock, Build, CreateCommit, WriteCommit,
     BuildSnapshot, BuildRefused, MarkCommit, MarkDurable, StageCommit, StageDurable,
     PublishCommit, IdxCommit, TaskCommit
<1>7. CASE Clean \/ Indexer
  BY <1>1, <1>2, <1>3, <1>7 DEF Clean, Indexer, ResumeSnapshot, CleanScan, RetireCommit,
     RetireDurable, CleanCommit, UnmarkCommit, UnmarkDurable, IndexerTick, IndexerStats,
     IndexerRebuild, IndexerResume, IdxCommit, TaskCommit
<1>8. CASE DeleteLock \/ IntentCommit \/ Erase
  BY <1>1, <1>3, <1>8 DEF DeleteLock, IntentCommit, Erase, EraseDocuments, EraseVectors,
     EraseChanges, EraseGenerations, ForgetCommit, EraseCommit, TaskCommit
<1>9. CASE TaskError \/ EraseError \/ Close \/ Reopen \/ OpenDone \/ UNCHANGED vars
  BY <1>1, <1>9 DEF TaskError, EraseError, Close, Reopen, OpenDone, vars
<1> QED
  BY <1>4, <1>5, <1>6, <1>7, <1>8, <1>9 DEF Next

LEMMA AbsentStep ==
    ASSUME TypeOK, IndexInv, InFlight, AbsentInv, [Next]_vars
    PROVE  AbsentInv'
<1>1. Empty(kv')
  <2>1. Empty(Apply(kv, app))
    BY LandingEmpty DEF AbsentInv
  <2> QED
    BY <2>1, TableStep DEF AbsentInv, Empty, SameTable
<1>2. CASE RequestDurable
  <2>1. schemaLock = "app" /\ kv' = Apply(kv, app)
    BY <1>2 DEF RequestDurable
  <2>2. kv'.n # None
    BY <2>1, LandingRequest
  <2> QED
    BY <1>1, <2>2 DEF AbsentInv, Unacked
<1>3. CASE ack' = 0 \/ (ack' = ack /\ (kv'.n = None => kv.n = None))
  BY <1>1, <1>3 DEF AbsentInv, Unacked
<1> QED
  BY <1>2, <1>3, AckStep

\* An erasure that ends leaves nothing behind that a namespace of the same name
\* could show, and no acknowledgement outlives its namespace.
THEOREM AbsentInvariant == Spec => []AbsentInv
<1>1. Init => AbsentInv
  BY DEF Init, EmptyRows, AbsentInv, Empty, Unacked, NoStats
<1>2. TypeOK /\ IndexInv /\ InFlight /\ AbsentInv /\ [Next]_vars => AbsentInv'
  BY AbsentStep
<1> QED
  BY <1>1, <1>2, TypeInvariant, IndexInvariant, FlightInvariant, PTL DEF Spec

\* Only the batches of an erasure, which find z/ in place, set a revision back.
LEMMA LandingAcked ==
    ASSUME TypeOK, IndexInv, InFlight, ~kv.z
    PROVE  LET l == Apply(kv, app)
           IN  \/ l.n = None \/ l.s.revision = kv.s.revision
               \/ l.s.revision = kv.s.revision + 1
<1> PICK l : l = Apply(kv, app)
  OBVIOUS
<1>0. kv.s \in Stats /\ LockInv
  <2>1. DOMAIN kv = Families /\ RowsOK(kv) /\ LockInv
    BY DEF TypeOK, IndexInv
  <2> QED
    BY <2>1, RowTypes
<1>1. CASE schemaLock = "app"
  BY <1>1, LandingRequest
<1>2. CASE app = Nothing \/ (task.pc = "stage" /\ DOMAIN app = {"i"})
  <2>1. l.s = kv.s
    BY <1>2 DEF Apply, Nothing, Families
  <2> QED
    BY <2>1
<1>3. CASE \E part \in SUBSET Changed(kv) : app = Uncovers(kv, part)
  <2> PICK part \in SUBSET Changed(kv) : app = Uncovers(kv, part)
    BY <1>3
  <2>1. l.s = Uncovers(kv, part).s
    BY DEF Apply, Families, Uncovers
  <2>2. l.s.revision = kv.s.revision
    BY <1>0, <2>1 DEF Uncovers, Stats
  <2> QED
    BY <2>2
<1>4. CASE app = [n |-> None, z |-> TRUE]
  <2>1. l.n = None
    BY <1>4 DEF Apply, Families
  <2> QED
    BY <2>1
<1>5. CASE task.pc = "erase"
  BY <1>0, <1>5 DEF LockInv
<1> QED
  BY <1>1, <1>2, <1>3, <1>4, <1>5, FlightKinds

\* An acknowledgement that holds is kept by every step that finds no intent.
LEMMA AckedSteps ==
    ASSUME TypeOK, IndexInv, InFlight, AbsentInv, TypeOK', [Next]_vars
    PROVE  Acked /\ ~Acked' => kv.z
<1> SUFFICES ASSUME Acked, ~kv.z, kv'.n # None
             PROVE  ack' <= kv'.s.revision
  BY DEF Acked
<1>0. kv.s.revision \in Nat /\ kv'.s.revision \in Nat /\ ack \in Nat
  <2>1. DOMAIN kv = Families /\ RowsOK(kv) /\ DOMAIN kv' = Families /\ RowsOK(kv') /\ ack \in Nat
    BY DEF TypeOK
  <2>2. kv.s \in Stats /\ kv'.s \in Stats
    BY <2>1, RowTypes
  <2> QED
    BY <2>1, <2>2 DEF Stats
<1>1. ack <= kv.s.revision
  BY <1>0 DEF Acked, AbsentInv, Unacked
<1>2. ack <= kv'.s.revision
  <2>1. SameTable(kv', kv) \/ SameTable(kv', Apply(kv, app))
    BY TableStep
  <2>2. kv'.s.revision = kv.s.revision \/ kv'.s.revision = kv.s.revision + 1
    BY <2>1, LandingAcked DEF SameTable
  <2> QED
    BY <1>0, <1>1, <2>2
<1>3. CASE RequestDurable
  <2>1. /\ schemaLock = "app" /\ kv' = Apply(kv, app)
        /\ ack' = IF "s" \in DOMAIN app THEN app.s.revision ELSE ack
    BY <1>3 DEF RequestDurable
  <2>2. ack' = kv'.s.revision \/ ack' = ack
    BY <2>1, LandingRequest
  <2> QED
    BY <1>0, <1>2, <2>2
<1> QED
  BY <1>0, <1>2, <1>3, AckStep

\* Where erasures fail, too, an acknowledged write is only ever lost to one: the
\* step that takes it back finds the deletion intent in place.
THEOREM AckedFallsToErasure == Spec => OnlyErasureLosesAcked
<1>1. TypeOK /\ IndexInv /\ InFlight /\ AbsentInv /\ TypeOK' /\ [Next]_vars
        => [Acked /\ ~Acked' => kv.z]_vars
  BY AckedSteps
<1> QED
  BY <1>1, TypeInvariant, IndexInvariant, FlightInvariant, AbsentInvariant, PTL
     DEF Spec, OnlyErasureLosesAcked

\* Rows that agree on the configuration, the documents and the revision look the
\* same to a client, and so do any rows of two absent namespaces.
LEMMA Unseen ==
    ASSUME \/ kv'.n = None /\ kv.n = None
           \/ kv'.n = kv.n /\ kv'.d = kv.d /\ kv'.v = kv.v /\ kv'.s.revision = kv.s.revision
    PROVE  UNCHANGED Store!vars
  BY DEF Store!vars, Content, Doc

\* A step that finds no deletion intent is one of the store, or nothing a client
\* can see.
LEMMA StoreSteps ==
    ASSUME TypeOK, IndexInv, InFlight, AbsentInv, ~kv.z, [Next]_vars
    PROVE  Store!Next \/ UNCHANGED Store!vars
<1> PICK l : l = Apply(kv, app)
  OBVIOUS
<1>0. kv.s \in Stats /\ LockInv /\ Empty(kv)
  <2>1. DOMAIN kv = Families /\ RowsOK(kv) /\ LockInv
    BY DEF TypeOK, IndexInv
  <2> QED
    BY <2>1, RowTypes DEF AbsentInv
<1>1. CASE SameTable(kv', kv)
  BY <1>1, Unseen DEF SameTable
<1>2. ASSUME SameTable(kv', l)
      PROVE  Store!Next \/ UNCHANGED Store!vars
  <2>1. CASE app = Nothing \/ (task.pc = "stage" /\ DOMAIN app = {"i"})
    <3>1. SameTable(l, kv)
      BY <2>1 DEF SameTable, Apply, Nothing, Families
    <3> QED
      BY <1>2, <3>1, Unseen DEF SameTable
  <2>2. CASE schemaLock = "app" /\ \E schema \in Schemas : app = [n |-> schema] /\ kv.n = None
    <3> PICK schema \in Schemas : app = [n |-> schema] /\ kv.n = None
      BY <2>2
    <3>2. kv'.n = schema /\ kv'.d = kv.d /\ kv'.s = kv.s
      BY <1>2 DEF SameTable, Apply, Families
    <3>3. kv.d = NoContent /\ kv.s.revision = 0 /\ kv'.n # None
      BY <1>0, <3>2 DEF Empty
    <3>4. Content(kv') = NoContent
      BY <3>2, <3>3 DEF Content, Doc, NoContent
    <3>5. Store!Create(schema)
      BY <3>2, <3>3, <3>4 DEF Store!Create
    <3> QED
      BY <3>5 DEF Store!Next
  <2>3. CASE \E request \in Requests : app = WriteBatch(kv, request) /\ kv.n # None
    <3> PICK request \in Requests : app = WriteBatch(kv, request) /\ kv.n # None
      BY <2>3
    <3>1. /\ DOMAIN request \subseteq Ids
          /\ \A id \in DOMAIN request : request[id] \in Documents \cup {None}
          /\ request \in Store!Requests
      BY DEF Requests, Store!Requests
    <3>2. /\ kv'.n = kv.n /\ kv'.s = StatsAfter(kv, request)
          /\ kv'.d = app.d /\ kv'.v = app.v
      BY <1>2 DEF SameTable, Apply, Families, WriteBatch
    <3>3. kv'.s.revision = kv.s.revision + 1
      BY <3>2 DEF StatsAfter
    <3>4. ASSUME NEW id \in Ids
          PROVE  Doc(kv', id) = IF id \in DOMAIN request THEN request[id] ELSE Content(kv)[id]
      <4>1. CASE id \notin DOMAIN request
        <5>1. kv'.d[id] = kv.d[id] /\ kv'.v[id] = kv.v[id]
          BY <3>2, <4>1 DEF WriteBatch
        <5> QED
          BY <4>1, <5>1 DEF Doc, Content
      <4>2. CASE id \in DOMAIN request /\ request[id] = None
        BY <3>2, <4>2 DEF WriteBatch, Doc
      <4>3. CASE id \in DOMAIN request /\ request[id] # None
        <5>1. kv'.d[id] = request[id].attr /\ kv'.v[id] = request[id].vec
          BY <3>2, <4>3 DEF WriteBatch
        <5>2. request[id] \in [attr : Attrs, vec : Vecs \cup {None}]
          BY <3>1, <4>3
        <5>3. request[id] = [attr |-> request[id].attr, vec |-> request[id].vec]
              /\ request[id].attr # None
          BY <5>2
        <5> QED
          BY <4>3, <5>1, <5>3 DEF Doc
      <4> QED
        BY <4>1, <4>2, <4>3
    <3>5. Content(kv') =
            [id \in Ids |-> IF id \in DOMAIN request THEN request[id] ELSE Content(kv)[id]]
      BY <3>4 DEF Content
    <3>6. Store!Write(request)
      BY <3>2, <3>3, <3>5 DEF Store!Write
    <3> QED
      BY <3>1, <3>6 DEF Store!Next
  <2>4. CASE \E part \in SUBSET Changed(kv) : app = Uncovers(kv, part)
    <3> PICK part \in SUBSET Changed(kv) : app = Uncovers(kv, part)
      BY <2>4
    <3>1. /\ kv'.n = kv.n /\ kv'.d = kv.d /\ kv'.v = kv.v /\ kv'.s = Uncovers(kv, part).s
      BY <1>2 DEF SameTable, Apply, Families, Uncovers
    <3>2. kv'.s.revision = kv.s.revision
      BY <1>0, <3>1 DEF Uncovers, Stats
    <3> QED
      BY <3>1, <3>2, Unseen
  <2>5. CASE app = [n |-> None, z |-> TRUE]
    <3>1. kv'.n = None
      BY <1>2, <2>5 DEF SameTable, Apply, Families
    <3>2. Store!Drop
      BY <3>1 DEF Store!Drop, Store!NoDocs, NoContent
    <3> QED
      BY <3>2 DEF Store!Next
  <2>6. CASE task.pc = "erase"
    BY <1>0, <2>6 DEF LockInv
  <2> QED
    BY <2>1, <2>2, <2>3, <2>4, <2>5, <2>6, FlightKinds
<1> QED
  BY <1>1, <1>2, TableStep

\* Failed erasures or not, a client sees whole creates, writes and deletions for as
\* long as no deletion intent stands.
THEOREM StepsAreStoreSteps == Spec => StepsImplementStore
<1>1. TypeOK /\ IndexInv /\ InFlight /\ AbsentInv /\ [Next]_vars
        => [~kv.z => [Store!Next]_(Store!vars)]_vars
  BY StoreSteps
<1> QED
  BY <1>1, TypeInvariant, IndexInvariant, FlightInvariant, AbsentInvariant, PTL
     DEF Spec, StepsImplementStore

-----------------------------------------------------------------------------
\* All of it holds of any process that opens rows like these, and leaves rows
\* like these.

SafeInv ==
    /\ TypeOK /\ RowsFun /\ IndexInv /\ InFlight
    /\ Counted(kv) /\ MarkInv /\ AbsentInv

LEMMA SafeStep ==
    ASSUME SafeInv, [Next]_vars
    PROVE  SafeInv'
<1>1. TypeOK' /\ RowsFun' /\ IndexInv' /\ InFlight'
  BY TypeStep, IndexStep, FlightStep DEF SafeInv
<1>2. Counted(kv') /\ MarkInv' /\ AbsentInv'
  BY CountedStep, MarkStep, AbsentStep DEF SafeInv
<1> QED
  BY <1>1, <1>2 DEF SafeInv

LEMMA CountedIs ==
    ASSUME StatsExact, CountersNeverWrap PROVE Counted(kv)
<1>1. ~kv.z => Rows(kv.v) \cap Rows(kv.d) = Rows(kv.v)
  BY DEF StatsExact
<1> QED
  BY <1>1 DEF StatsExact, CountersNeverWrap, Counted

\* A process that has done nothing yet satisfies every part for want of batches.
LEMMA OpenedIsSafe == Opened => SafeInv
<1> SUFFICES ASSUME Opened PROVE SafeInv
  OBVIOUS
<1>0. /\ RowsFit /\ app = Nothing /\ idx = Nothing /\ task = Idle /\ task.pc = "idle"
      /\ schemaLock = "free" /\ mode = "down" /\ ack = 0
  BY DEF Opened, Idle
<1>1. DOMAIN kv = Families /\ RowsFun
  <2>1. kv = [family \in Families |-> kv[family]]
    BY <1>0 DEF RowsFit
  <2>2. Apply(kv, Nothing) = [family \in Families |-> kv[family]]
    BY DEF Apply, Nothing
  <2> QED
    BY <2>1, <2>2 DEF RowsFun
<1>2. TypeOK
  <2>1. TaskOK
    BY <1>0 DEF TaskOK, Idle, Pcs, NoContent
  <2> QED
    BY <1>0, <1>1, <2>1, NothingType DEF TypeOK, Opened, RowsFit
<1>3. Outcomes = {kv}
  BY <1>0, <1>1, FewOutcomes
<1>4. IndexInv
  <2>1. BuildExact(kv) /\ CleanExact(kv) /\ IndexExact(kv)
    BY <1>0 DEF BuildExact, CleanExact, RowsFit
  <2>2. LockInv
    BY <1>0 DEF LockInv
  <2> QED
    BY <1>3, <2>1, <2>2 DEF IndexInv
<1>5. InFlight
  BY <1>0 DEF InFlight
<1>6. Counted(kv)
  BY <1>0, CountedIs DEF RowsFit
<1>7. MarkInv
  <2>1. Marked(kv)
    BY <1>0 DEF RowsFit, GarbageIsMarked, Marked
  <2> QED
    BY <1>0, <1>3, <2>1 DEF MarkInv, IdxInFlight, CleanOwed, Unpublished, ListKept, AllMarked,
       Working
<1>8. AbsentInv
  BY <1>0 DEF RowsFit, AbsentInv, Empty, Unacked
<1> QED
  BY <1>1, <1>2, <1>4, <1>5, <1>6, <1>7, <1>8 DEF SafeInv

\* Every state property of the runs, and rows that may be opened again.
LEMMA SafeIs ==
    ASSUME SafeInv
    PROVE  /\ StatsExact /\ CountersNeverWrap /\ OverlayExact
           /\ PublishedGenerationComplete /\ GarbageIsMarked /\ RowsFit
<1>1. IndexExact(kv)
  BY DEF SafeInv, IndexInv, Outcomes
<1>2. OverlayExact /\ PublishedGenerationComplete
  BY <1>1 DEF IndexExact, OverlayExact, PublishedGenerationComplete
<1>3. StatsExact /\ CountersNeverWrap
  <2>1. Counted(kv)
    BY DEF SafeInv
  <2>2. ~kv.z => Rows(kv.v) \cap Rows(kv.d) = Rows(kv.v)
    BY <2>1 DEF Counted
  <2> QED
    BY <2>1, <2>2 DEF Counted, StatsExact, CountersNeverWrap
<1>4. GarbageIsMarked
  BY DEF SafeInv, MarkInv, AllMarked, Outcomes, Marked, GarbageIsMarked
<1>5. kv = [family \in Families |-> kv[family]] /\ RowsOK(kv)
  <2>1. Apply(kv, Nothing) = [family \in Families |-> kv[family]]
    BY DEF Apply, Nothing
  <2> QED
    BY <2>1 DEF SafeInv, RowsFun, TypeOK
<1>6. (kv.n = None /\ ~kv.z) => kv.d = NoContent /\ kv.s.revision = 0
  BY DEF SafeInv, AbsentInv, Empty
<1> QED
  BY <1>1, <1>2, <1>3, <1>4, <1>5, <1>6 DEF RowsFit

\* What a crash leaves or a backup holds can always be opened: at every moment the
\* durable rows are fit.
THEOREM RowsStayFit == Spec => []RowsFit
<1>1. TypeOK /\ RowsFun /\ IndexInv /\ InFlight /\ Counted(kv) /\ MarkInv /\ AbsentInv => RowsFit
  BY SafeIs DEF SafeInv
<1> QED
  BY <1>1, TypeInvariant, RowsInvariant, IndexInvariant, FlightInvariant, CountedInvariant,
     MarkInvariant, AbsentInvariant, PTL

\* An engine opened on any fit rows, with an index or without, is as safe as one
\* that started with none: the theorems above do not depend on where it began.
THEOREM OpenedStaysSafe ==
    OpenSpec => /\ []TypeOK /\ []IndexInv
                /\ []StatsExact /\ []CountersNeverWrap
                /\ []OverlayExact /\ []PublishedGenerationComplete /\ []GarbageIsMarked
                /\ []RowsFit
                /\ OnlyErasureLosesAcked /\ StepsImplementStore
<1>1. SafeInv /\ [Next]_vars => SafeInv'
  BY SafeStep
<1>2. SafeInv => /\ TypeOK /\ IndexInv /\ StatsExact /\ CountersNeverWrap /\ OverlayExact
                 /\ PublishedGenerationComplete /\ GarbageIsMarked /\ RowsFit
  <2>1. SafeInv => TypeOK /\ IndexInv
    BY DEF SafeInv
  <2> QED
    BY <2>1, SafeIs
<1>3. SafeInv /\ SafeInv' /\ [Next]_vars => [Acked /\ ~Acked' => kv.z]_vars
  BY AckedSteps DEF SafeInv
<1>4. SafeInv /\ [Next]_vars => [~kv.z => [Store!Next]_(Store!vars)]_vars
  BY StoreSteps DEF SafeInv
<1> QED
  BY OpenedIsSafe, <1>1, <1>2, <1>3, <1>4, PTL
     DEF OpenSpec, OnlyErasureLosesAcked, StepsImplementStore

-----------------------------------------------------------------------------
\* What a client can read when no erasure fails. One that does, in a serving
\* engine (EraseErrors), breaks these properties, so they are proved without it.

\* A client was told of no revision that the rows do not have, and what is being
\* erased is hidden.
Sound(k, acked) ==
    /\ k.z => k.n = None /\ acked = 0
    /\ acked <= k.s.revision
EraseGuarded == kv.z => task.pc = "erase" \/ mode = "down"
StoreInv == ~EraseErrors => Sound(kv, ack) /\ EraseGuarded

\* No request is in flight while a namespace is erased.
LEMMA RequestsWait ==
    ASSUME IndexInv, EraseGuarded, schemaLock = "app"
    PROVE  ~kv.z
  BY DEF EraseGuarded, IndexInv, LockInv

LEMMA SoundTable ==
    ASSUME NEW k, NEW l, NEW acked, SameTable(k, l), Sound(l, acked)
    PROVE  Sound(k, acked)
  BY DEF SameTable, Sound

\* Whichever batch lands, the rows stay sound; an intent takes the
\* acknowledgements with it.
LEMMA LandingSound ==
    ASSUME TypeOK, IndexInv, InFlight, Sound(kv, ack), EraseGuarded
    PROVE  LET l == Apply(kv, app)
           IN  /\ Sound(l, IF l.z /\ ~kv.z THEN 0 ELSE ack)
               /\ schemaLock = "app" => Sound(l, l.s.revision) /\ ~l.z
<1> PICK l : l = Apply(kv, app)
  OBVIOUS
<1>0. /\ kv.s \in Stats /\ kv.d \in [Ids -> Attrs \cup {None}] /\ ack \in Nat
      /\ kv.s.revision \in Nat /\ LockInv
  <2>1. DOMAIN kv = Families /\ RowsOK(kv) /\ ack \in Nat /\ LockInv
    BY DEF TypeOK, IndexInv
  <2> QED
    BY <2>1, RowTypes DEF Stats
<1>1. CASE schemaLock = "app"
  <2>1. ~kv.z
    BY <1>1, RequestsWait
  <2>2. CASE \E schema \in Schemas : app = [n |-> schema] /\ kv.n = None
    <3>1. l.n # None /\ l.z = kv.z /\ l.s = kv.s
      BY <2>2 DEF Apply, Families
    <3> QED
      BY <1>0, <2>1, <3>1 DEF Sound
  <2>3. CASE \E request \in Requests : app = WriteBatch(kv, request) /\ kv.n # None
    <3> PICK request \in Requests : app = WriteBatch(kv, request) /\ kv.n # None
      BY <2>3
    <3>1. l.n = kv.n /\ l.z = kv.z /\ l.s = StatsAfter(kv, request)
      BY DEF Apply, Families, WriteBatch
    <3>2. l.s.revision = kv.s.revision + 1
      BY <3>1 DEF StatsAfter
    <3> QED
      BY <1>0, <2>1, <3>1, <3>2 DEF Sound
  <2> QED
    BY <1>1, <2>2, <2>3 DEF InFlight, RequestInFlight
<1>2. CASE schemaLock # "app"
  <2>1. CASE app = Nothing \/ (task.pc = "stage" /\ DOMAIN app = {"i"})
    <3>1. SameTable(l, kv)
      BY <2>1 DEF SameTable, Apply, Nothing, Families
    <3>2. l.z = kv.z
      BY <3>1 DEF SameTable
    <3> QED
      BY <1>2, <3>1, <3>2, SoundTable
  <2>2. CASE \E part \in SUBSET Changed(kv) : app = Uncovers(kv, part)
    <3> PICK part \in SUBSET Changed(kv) : app = Uncovers(kv, part)
      BY <2>2
    <3>1. l.n = kv.n /\ l.z = kv.z /\ l.d = kv.d /\ l.s = Uncovers(kv, part).s
      BY DEF Apply, Families, Uncovers
    <3>2. l.s.revision = kv.s.revision
      BY <1>0, <3>1 DEF Uncovers, Stats
    <3> QED
      BY <1>2, <3>1, <3>2 DEF Sound
  <2>3. CASE app = [n |-> None, z |-> TRUE]
    <3>1. l.n = None /\ l.z = TRUE /\ l.s = kv.s
      BY <2>3 DEF Apply, Families
    <3> QED
      BY <1>0, <1>2, <3>1 DEF Sound
  <2>4. CASE kv.z /\ Erasure(kv, app)
    <3>1. l.n = kv.n /\ l.z = kv.z /\ l.s = kv.s
      BY <2>4 DEF Apply, Families, Erasure
    <3> QED
      BY <1>2, <2>4, <3>1 DEF Sound
  <2>5. CASE task.pc = "erase" /\ app = Forgotten /\ Bare(kv)
    <3>1. l.z = FALSE /\ l.s = NoStats
      BY <2>5 DEF Apply, Families, Forgotten
    <3>2. kv.z /\ ack = 0
      BY <1>0, <2>5 DEF LockInv, Sound
    <3> QED
      BY <1>2, <3>1, <3>2 DEF Sound, NoStats
  <2> QED
    BY <1>2, <2>1, <2>2, <2>3, <2>4, <2>5, FlightKinds
<1> QED
  BY <1>1, <1>2

LEMMA StoreStep ==
    ASSUME TypeOK, IndexInv, InFlight, StoreInv, TypeOK', [Next]_vars
    PROVE  StoreInv'
<1> SUFFICES ASSUME ~EraseErrors PROVE (Sound(kv, ack) /\ EraseGuarded)'
  BY DEF StoreInv
<1>0. /\ Sound(kv, ack) /\ EraseGuarded /\ LockInv
      /\ \A acked : Sound(Apply(kv, idx), acked) <=> Sound(kv, acked)
      /\ Apply(kv, idx).z = kv.z
  <2>1. SameTable(Apply(kv, idx), kv)
    BY IdxKeepsTable
  <2> QED
    BY <2>1 DEF StoreInv, SameTable, Sound, IndexInv
<1>1. CASE UNCHANGED <<kv, ack>> /\ EraseGuarded'
  BY <1>0, <1>1
<1>2. CASE IdxDurable /\ task'.pc # "erase"
  <2>1. kv' = Apply(kv, idx) /\ ack' = ack /\ task.pc # "erase" /\ mode' = mode
    BY <1>0, <1>2 DEF IdxDurable, LockInv
  <2> QED
    BY <1>0, <2>1 DEF EraseGuarded
<1>3. CASE RequestDurable
  <2>1. schemaLock = "app" /\ kv' = Apply(kv, app)
        /\ ack' = IF "s" \in DOMAIN app THEN app.s.revision ELSE ack
    BY <1>3 DEF RequestDurable
  <2>2. "s" \in DOMAIN app => app.s.revision = Apply(kv, app).s.revision
    BY DEF Apply, Families
  <2>3. Sound(kv', ack') /\ ~kv'.z
    BY <1>0, <2>1, <2>2, LandingSound
  <2> QED
    BY <2>3 DEF EraseGuarded
<1>4. CASE PublishDurable \/ CleanDurable \/ EraseDurable \/ ForgetDurable
  <2>1. /\ kv' = Apply(kv, app) /\ ack' = ack /\ mode' = mode
        /\ DOMAIN app \subseteq {"i", "c", "s", "d", "v", "g"} \/ app = Forgotten
    BY <1>0, <1>4 DEF PublishDurable, CleanDurable, EraseDurable, ForgetDurable, TaskDurable,
       InFlight, TaskInFlight, Uncovers, Erasure, LockInv
  <2>2. kv'.z => kv.z
    BY <2>1 DEF Apply, Families, Forgotten
  <2>3. Sound(kv', ack')
    BY <1>0, <2>1, <2>2, LandingSound
  <2>4. kv'.z => (task'.pc = "erase" \/ mode' = "down")
    <3>1. CASE EraseDurable
      BY <3>1 DEF EraseDurable
    <3>2. CASE PublishDurable \/ CleanDurable
      BY <1>0, <2>1, <2>2, <3>2 DEF PublishDurable, CleanDurable, EraseGuarded
    <3>3. CASE ForgetDurable
      <4>1. app = Forgotten
        BY <1>0, <3>3 DEF ForgetDurable, TaskDurable, InFlight, TaskInFlight, Erasure, LockInv
      <4> QED
        BY <2>1, <4>1 DEF Apply, Families, Forgotten
    <3> QED
      BY <1>4, <3>1, <3>2, <3>3
  <2> QED
    BY <2>3, <2>4 DEF EraseGuarded
<1>5. CASE IntentDurable
  <2>1. /\ kv' = Apply(kv, app) /\ ack' = 0 /\ task'.pc = "erase"
        /\ app = [n |-> None, z |-> TRUE]
    BY <1>0, <1>5, GotoPc DEF IntentDurable, TaskDurable, InFlight, TaskInFlight, LockInv
  <2>2. kv'.z = TRUE /\ kv'.n = None /\ kv'.s = kv.s
    BY <2>1 DEF Apply, Families
  <2>3. 0 <= kv.s.revision
    BY <1>0 DEF Sound, TypeOK, RowsOK, RowType, Families, Stats
  <2> QED
    BY <2>1, <2>2, <2>3 DEF Sound, EraseGuarded
<1>6. CASE Crash
  <2> PICK l : l = Apply(kv, app)
    OBVIOUS
  <2>1. /\ kv' \in {kv, l, Apply(kv, idx), Apply(l, idx)}
        /\ ack' = IF kv'.n = None THEN 0 ELSE ack
        /\ mode' = "down"
    BY <1>6 DEF Crash
  <2>2. SameTable(kv', kv) \/ SameTable(kv', l)
    BY <2>1, IdxKeepsTable DEF SameTable
  <2> DEFINE acked == IF kv'.z /\ ~kv.z THEN 0 ELSE ack
  <2>3. Sound(kv', acked)
    <3>1. CASE SameTable(kv', kv)
      <4>1. kv'.z = kv.z
        BY <3>1 DEF SameTable
      <4> QED
        BY <1>0, <3>1, <4>1, SoundTable
    <3>2. CASE SameTable(kv', l)
      <4>1. kv'.z = l.z
        BY <3>2 DEF SameTable
      <4>2. Sound(l, acked)
        BY <1>0, <4>1, LandingSound
      <4> QED
        BY <3>2, <4>2, SoundTable
    <3> QED
      BY <2>2, <3>1, <3>2
  <2>4. Sound(kv', 0)
    <3>1. DOMAIN kv' = Families /\ RowsOK(kv') /\ ack \in Nat
      BY DEF TypeOK
    <3>2. kv'.s.revision \in Nat /\ acked \in Nat
      BY <3>1, RowTypes DEF Stats
    <3> QED
      BY <2>3, <3>2 DEF Sound
  <2>5. CASE kv'.n = None
    BY <2>1, <2>4, <2>5 DEF EraseGuarded
  <2>6. CASE kv'.n # None
    <3>1. ack' = ack /\ acked = ack
      BY <2>1, <2>3, <2>6 DEF Sound
    <3> QED
      BY <2>1, <2>3, <3>1 DEF EraseGuarded
  <2> QED
    BY <2>5, <2>6
<1>7. CASE Request \/ BuildLock \/ Indexer \/ DeleteLock \/ TaskError \/ UNCHANGED vars
  <2>1. UNCHANGED <<kv, ack, mode>> /\ (task' = task \/ task.pc # "erase")
    BY <1>7 DEF Request, BuildLock, Indexer, DeleteLock, TaskError, vars, CreateCommit, WriteCommit,
       IndexerTick, IndexerStats, IndexerRebuild, IndexerResume
  <2> QED
    BY <1>0, <1>1, <2>1 DEF EraseGuarded
<1>8. CASE Build
  <2>1. CASE MarkDurable \/ StageDurable
    <3>1. IdxDurable /\ task'.pc = "stage"
      BY <2>1, GotoPc DEF MarkDurable, StageDurable
    <3> QED
      BY <1>2, <3>1
  <2>2. CASE BuildRefused \/ MarkCommit \/ PublishCommit \/ (\E gen \in Gens : BuildSnapshot(gen))
             \/ \E part \in SUBSET Ids : StageCommit(part)
    <3>1. UNCHANGED <<kv, ack, mode>> /\ task.pc # "erase"
      BY <2>2 DEF BuildRefused, MarkCommit, PublishCommit, BuildSnapshot, StageCommit, IdxCommit,
         TaskCommit
    <3> QED
      BY <1>0, <1>1, <3>1 DEF EraseGuarded
  <2> QED
    BY <1>4, <1>8, <2>1, <2>2 DEF Build
<1>9. CASE Clean
  <2>1. CASE RetireDurable \/ UnmarkDurable
    <3>1. IdxDurable /\ task'.pc # "erase"
      BY <2>1 DEF RetireDurable, UnmarkDurable, Idle
    <3> QED
      BY <1>2, <3>1
  <2>2. CASE ResumeSnapshot \/ CleanScan \/ UnmarkCommit \/ (\E part \in SUBSET Ids : CleanCommit(part))
             \/ \E part \in SUBSET Retired : RetireCommit(part)
    <3>1. UNCHANGED <<kv, ack, mode>> /\ task.pc # "erase"
      BY <2>2 DEF ResumeSnapshot, CleanScan, UnmarkCommit, CleanCommit, RetireCommit, IdxCommit,
         TaskCommit
    <3> QED
      BY <1>0, <1>1, <3>1 DEF EraseGuarded
  <2> QED
    BY <1>4, <1>9, <2>1, <2>2 DEF Clean
<1>10. CASE IntentCommit
  BY <1>0, <1>1, <1>10 DEF IntentCommit, TaskCommit, EraseGuarded
<1>11. CASE Erase
  <2>1. CASE ForgetCommit \/ (\E part \in SUBSET Ids : EraseDocuments(part) \/ EraseVectors(part)
                                                       \/ EraseChanges(part))
             \/ \E part \in SUBSET Generated(kv) : EraseGenerations(part)
    <3>1. UNCHANGED <<kv, ack, mode, task>>
      BY <2>1 DEF ForgetCommit, EraseDocuments, EraseVectors, EraseChanges, EraseGenerations,
         EraseCommit
    <3> QED
      BY <1>0, <1>1, <3>1 DEF EraseGuarded
  <2> QED
    BY <1>4, <1>11, <2>1 DEF Erase
<1>12. CASE EraseError
  BY <1>12 DEF EraseError
<1>13. CASE Close \/ OpenDone
  <2>1. UNCHANGED <<kv, ack, task>> /\ task.pc = "idle" /\ mode # "down"
    BY <1>13 DEF Close, OpenDone, Serving
  <2>2. ~kv.z
    BY <1>0, <2>1 DEF EraseGuarded
  <2> QED
    BY <1>1, <2>1, <2>2 DEF EraseGuarded
<1>14. CASE Reopen
  <2>1. UNCHANGED <<kv, ack>> /\ (kv.z => task'.pc = "erase")
    BY <1>14, GotoPc DEF Reopen
  <2> QED
    BY <1>1, <2>1 DEF EraseGuarded
<1> QED
  BY <1>3, <1>5, <1>6, <1>7, <1>8, <1>9, <1>10, <1>11, <1>12, <1>13, <1>14 DEF Next

\* If no erasure fails in a serving engine, nothing is served over a deletion intent,
\* and what was acknowledged is in the rows.
THEOREM StoreInvariant == Spec => []StoreInv
<1>1. Init => StoreInv
  <2> SUFFICES ASSUME Init PROVE StoreInv
    OBVIOUS
  <2>1. kv.s = NoStats /\ kv.d = NoContent /\ kv.z = FALSE /\ ack = 0
    BY DEF Init, EmptyRows
  <2> QED
    BY <2>1 DEF StoreInv, Sound, EraseGuarded, NoStats
<1>2. TypeOK /\ IndexInv /\ InFlight /\ StoreInv /\ TypeOK' /\ [Next]_vars => StoreInv'
  BY StoreStep
<1> QED
  BY <1>1, <1>2, TypeInvariant, IndexInvariant, FlightInvariant, PTL DEF Spec

\* An acknowledged write is there as long as its namespace, through any crash:
\* the batch was durable before the client had its answer.
THEOREM AcknowledgedIsDurable == ASSUME ~EraseErrors PROVE Spec => []AckedIsDurable
<1>1. StoreInv => AckedIsDurable
  BY DEF StoreInv, Sound, AckedIsDurable
<1> QED
  BY <1>1, StoreInvariant, PTL

\* With no failed erasure, what is being erased is hidden, and stays so.
LEMMA StoreRefines ==
    ASSUME TypeOK, IndexInv, InFlight, AbsentInv, StoreInv, ~EraseErrors, [Next]_vars
    PROVE  Store!Next \/ UNCHANGED Store!vars
<1>1. CASE ~kv.z
  BY <1>1, StoreSteps
<1>2. CASE kv.z
  <2> PICK l : l = Apply(kv, app)
    OBVIOUS
  <2>1. kv.n = None /\ schemaLock # "app"
    BY <1>2, RequestsWait DEF StoreInv, Sound
  <2>2. ASSUME app = Nothing \/ (task.pc = "stage" /\ DOMAIN app = {"i"})
         PROVE  l.n = None
    BY <2>1, <2>2 DEF Apply, Nothing, Families
  <2>3. ASSUME \E part \in SUBSET Changed(kv) : app = Uncovers(kv, part)
         PROVE  l.n = None
    BY <2>1, <2>3 DEF Apply, Uncovers, Families
  <2>4. ASSUME app = [n |-> None, z |-> TRUE]
         PROVE  l.n = None
    BY <2>4 DEF Apply, Families
  <2>5. ASSUME Erasure(kv, app) \/ app = Forgotten
         PROVE  l.n = None
    BY <2>1, <2>5 DEF Apply, Families, Erasure, Forgotten
  <2>6. l.n = None
    BY <2>1, <2>2, <2>3, <2>4, <2>5, FlightKinds
  <2>7. kv'.n = None
    BY <2>1, <2>6, TableStep DEF SameTable
  <2> QED
    BY <2>1, <2>7, Unseen
<1> QED
  BY <1>1, <1>2

\* The engine implements DocStore: every crash, build, cleanup and half-done
\* erasure shows as whole creates, writes and deletions, or not at all.
THEOREM EngineImplementsStore == ASSUME ~EraseErrors PROVE Spec => ImplementsStore
<1>1. Init => Store!Init
  <2> SUFFICES ASSUME Init PROVE Store!Init
    OBVIOUS
  <2>1. kv.n = None
    BY DEF Init, EmptyRows
  <2> QED
    BY <2>1 DEF Store!Init, Store!NoDocs, NoContent
<1>2. TypeOK /\ IndexInv /\ InFlight /\ AbsentInv /\ StoreInv /\ [Next]_vars
        => [Store!Next]_(Store!vars)
  BY StoreRefines
<1> QED
  BY <1>1, <1>2, TypeInvariant, IndexInvariant, FlightInvariant, AbsentInvariant,
     StoreInvariant, PTL DEF Spec, ImplementsStore, Store!Spec
=============================================================================
