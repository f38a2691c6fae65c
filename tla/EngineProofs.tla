---------------------------- MODULE EngineProofs ----------------------------
(***************************************************************************)
(* Theorems about module Engine, for every value of its constants: it is   *)
(* well typed, and the published index is exact.  IndexInv of module       *)
(* Engine is inductive, and implies OverlayExact and                       *)
(* PublishedGenerationComplete.                                            *)
(***************************************************************************)
EXTENDS Engine, FiniteSetTheorems, TLAPS

USE NoneAssumption, DocumentsAssumption, IdsAssumption, BoundsAssumption

-----------------------------------------------------------------------------
\* Lemmas about rows and batches.

\* A well-formed batch applied to well-formed rows gives well-formed rows.
LEMMA ApplyType ==
    ASSUME NEW k, DOMAIN k = Families, RowsOK(k), NEW batch, RowsOK(batch)
    PROVE  /\ DOMAIN Apply(k, batch) = Families
           /\ RowsOK(Apply(k, batch))
  BY DEF Apply, RowsOK

\* The empty batch is well formed and changes nothing of type.
LEMMA NothingType == RowsOK(Nothing) /\ DOMAIN Nothing = {}
  BY DEF Nothing, RowsOK

\* Counts of documents are integers.
LEMMA CountType == \A S \in SUBSET Ids : Cardinality(S) \in Nat
  BY FS_Subset, FS_CardinalityType

\* The four families a write has, and the row of each document in them.
LEMMA WriteFields ==
    ASSUME NEW k, NEW request, NEW b, b = WriteBatch(k, request)
    PROVE  /\ DOMAIN b = {"s", "d", "v", "c"}
           /\ b.s = StatsAfter(k, request)
           /\ DOMAIN b.d = Ids /\ DOMAIN b.v = Ids /\ DOMAIN b.c = Ids
           /\ \A id \in Ids : id \notin DOMAIN request =>
                 b.d[id] = k.d[id] /\ b.v[id] = k.v[id] /\ b.c[id] = k.c[id]
           /\ \A id \in Ids : id \in DOMAIN request =>
                 /\ b.c[id] = k.s.revision + 1
                 /\ b.d[id] = IF request[id] = None THEN None ELSE request[id].attr
                 /\ b.v[id] = IF request[id] = None THEN None ELSE request[id].vec
<1>1. DOMAIN WriteBatch(k, request) = {"s", "d", "v", "c"}
  BY DEF WriteBatch
<1>2. WriteBatch(k, request).s = StatsAfter(k, request)
  BY DEF WriteBatch
<1>3. b.d = [id \in Ids |-> IF id \notin DOMAIN request THEN k.d[id]
                            ELSE IF request[id] = None THEN None ELSE request[id].attr]
  BY DEF WriteBatch
<1>4. b.v = [id \in Ids |-> IF id \notin DOMAIN request THEN k.v[id]
                            ELSE IF request[id] = None THEN None ELSE request[id].vec]
  BY DEF WriteBatch
<1>5. b.c = [id \in Ids |-> IF id \in DOMAIN request THEN k.s.revision + 1 ELSE k.c[id]]
  BY DEF WriteBatch
<1> QED
  BY <1>1, <1>2, <1>3, <1>4, <1>5

\* What a request writes is well formed.
LEMMA WriteBatchType ==
    ASSUME NEW k, DOMAIN k = Families, RowsOK(k), NEW request \in Requests
    PROVE  RowsOK(WriteBatch(k, request))
<1> DEFINE touched == DOMAIN request
<1>1. touched \subseteq Ids /\ \A id \in touched : request[id] \in Docs \cup {None}
  BY DEF Requests, Docs
<1>2. /\ k.s \in Stats
      /\ k.d \in [Ids -> Attrs \cup {None}]
      /\ k.v \in [Ids -> Vecs \cup {None}]
      /\ k.c \in [Ids -> Nat]
  BY DEF RowsOK, RowType, Families
<1>3. StatsAfter(k, request) \in Stats
  <2>1. \A S : S \subseteq touched => Cardinality(S) \in Nat
    BY <1>1, CountType
  <2> QED
    BY <2>1, <1>2 DEF StatsAfter, Stats
<1> DEFINE b == WriteBatch(k, request)
<1>4. b = WriteBatch(k, request)
  OBVIOUS
<1>5. b = [family \in {"s", "d", "v", "c"} |-> b[family]]
  BY DEF WriteBatch
<1> HIDE DEF b
<1>6. b.s \in Stats
  BY <1>3, <1>4, WriteFields
<1>7. b.d \in [Ids -> Attrs \cup {None}]
  <2>1. b.d = [id \in Ids |-> b.d[id]]
    BY <1>4 DEF WriteBatch
  <2>2. ASSUME NEW id \in Ids PROVE b.d[id] \in Attrs \cup {None}
    BY <1>1, <1>2, <1>4, WriteFields DEF Docs
  <2> QED
    BY <2>1, <2>2
<1>8. b.v \in [Ids -> Vecs \cup {None}]
  <2>1. b.v = [id \in Ids |-> b.v[id]]
    BY <1>4 DEF WriteBatch
  <2>2. ASSUME NEW id \in Ids PROVE b.v[id] \in Vecs \cup {None}
    BY <1>1, <1>2, <1>4, WriteFields DEF Docs
  <2> QED
    BY <2>1, <2>2
<1>9. b.c \in [Ids -> Nat]
  <2>1. b.c = [id \in Ids |-> b.c[id]]
    BY <1>4 DEF WriteBatch
  <2>2. ASSUME NEW id \in Ids PROVE b.c[id] \in Nat
    <3>1. k.s.revision + 1 \in Nat /\ k.c[id] \in Nat
      BY <1>2 DEF Stats
    <3> QED
      BY <1>4, <3>1, WriteFields
  <2> QED
    BY <2>1, <2>2
<1>10. RowsOK(b)
  BY <1>5, <1>6, <1>7, <1>8, <1>9 DEF RowsOK, RowType, Families
<1> QED
  BY <1>4, <1>10

\* The batches of the task that are made of single rows.
LEMMA MarkBatchType ==
    ASSUME NEW mark \in BOOLEAN
    PROVE  RowsOK([j |-> mark]) /\ DOMAIN [j |-> mark] \subseteq {"g", "j"}
  BY DEF RowsOK, RowType, Families

LEMMA GenBatchType ==
    ASSUME NEW rows \in [Gens -> [Ids -> Docs \cup {None}]]
    PROVE  RowsOK([g |-> rows])
<1>1. DOMAIN [g |-> rows] = {"g"} /\ [g |-> rows]["g"] = rows
  OBVIOUS
<1>2. RowType["g"] = [Gens -> [Ids -> Docs \cup {None}]]
  BY DEF RowType
<1>3. "g" \in Families
  BY DEF Families
<1> HIDE DEF RowType
<1> QED
  BY <1>1, <1>2, <1>3 DEF RowsOK

LEMMA CountsBatchType ==
    ASSUME NEW changes \in [Ids -> Nat], NEW stats \in Stats
    PROVE  RowsOK([c |-> changes, s |-> stats])
  BY DEF RowsOK, RowType, Families

\* The documents of well-formed rows are well formed.
LEMMA ContentType ==
    ASSUME NEW k, DOMAIN k = Families, RowsOK(k)
    PROVE  Content(k) \in [Ids -> Docs \cup {None}]
<1>1. k.d \in [Ids -> Attrs \cup {None}] /\ k.v \in [Ids -> Vecs \cup {None}]
  BY DEF RowsOK, RowType, Families
<1> QED
  BY <1>1 DEF Content, Doc, Docs

-----------------------------------------------------------------------------
\* Type correctness.

LEMMA InitType == Init => TypeOK
<1> SUFFICES ASSUME Init PROVE TypeOK
  OBVIOUS
<1>1. DOMAIN kv = Families /\ RowsOK(kv)
  <2>1. /\ kv.s \in Stats
        /\ kv.d \in [Ids -> Attrs \cup {None}]
        /\ kv.v \in [Ids -> Vecs \cup {None}]
        /\ kv.c \in [Ids -> Nat]
        /\ kv.g \in [Gens -> [Ids -> Docs \cup {None}]]
    BY DEF Init, EmptyRows, Stats, NoStats, NoContent, NoChanges
  <2>2. kv.n = None /\ kv.i = None /\ kv.j \in BOOLEAN /\ kv.z \in BOOLEAN
    BY DEF Init, EmptyRows
  <2>3. DOMAIN kv = Families
    BY DEF Init, EmptyRows, Families
  <2> QED
    BY <2>1, <2>2, <2>3 DEF RowsOK, RowType, Families
<1>2. TaskOK
  BY DEF Init, Idle, TaskOK, Pcs, NoContent
<1> QED
  BY <1>1, <1>2, NothingType DEF Init, TypeOK

\* A step of a request keeps the types.
LEMMA RequestType ==
    ASSUME TypeOK, Request \/ RequestDurable
    PROVE  TypeOK'
<1> USE DEF TypeOK
<1>1. CASE \E schema \in Schemas : CreateCommit(schema)
  <2> PICK schema \in Schemas : CreateCommit(schema)
    BY <1>1
  <2>1. RowsOK(app')
    BY DEF CreateCommit, RowsOK, RowType, Families
  <2> QED
    BY <2>1 DEF CreateCommit, TaskOK
<1>2. CASE \E request \in Requests : WriteCommit(request)
  <2> PICK request \in Requests : WriteCommit(request)
    BY <1>2
  <2>1. RowsOK(app')
    BY WriteBatchType DEF WriteCommit
  <2> QED
    BY <2>1 DEF WriteCommit, TaskOK
<1>3. CASE RequestDurable
  <2>1. DOMAIN kv' = Families /\ RowsOK(kv')
    BY <1>3, ApplyType DEF RequestDurable
  <2>2. ack' \in Nat
    BY <1>3 DEF RequestDurable, RowsOK, RowType, Stats
  <2> QED
    BY <1>3, <2>1, <2>2, NothingType DEF RequestDurable, TaskOK
<1> QED
  BY <1>1, <1>2, <1>3 DEF Request

\* A batch that becomes durable leaves well-formed rows, and an empty slot.
LEMMA IdxDurableType ==
    ASSUME TypeOK, IdxDurable, TaskOK'
    PROVE  TypeOK'
<1>1. DOMAIN kv' = Families /\ RowsOK(kv')
  BY ApplyType DEF TypeOK, IdxDurable
<1> QED
  BY <1>1, NothingType DEF TypeOK, IdxDurable

LEMMA TaskDurableType ==
    ASSUME TypeOK, TaskDurable, TaskOK', ack' \in Nat,
           schemaLock' \in {"free", "app", "task"}
    PROVE  TypeOK'
<1>1. DOMAIN kv' = Families /\ RowsOK(kv')
  BY ApplyType DEF TypeOK, TaskDurable
<1> QED
  BY <1>1, NothingType DEF TypeOK, TaskDurable

\* So does a well-formed batch handed over by the task.
LEMMA IdxCommitType ==
    ASSUME TypeOK, NEW batch, IdxCommit(batch), RowsOK(batch), DOMAIN batch \subseteq {"g", "j"}
    PROVE  TypeOK'
  BY DEF TypeOK, IdxCommit, TaskOK

LEMMA TaskCommitType ==
    ASSUME TypeOK, NEW batch, TaskCommit(batch), RowsOK(batch), TaskOK'
    PROVE  TypeOK'
  BY DEF TypeOK, TaskCommit

\* Moving the task to another point of its program.
LEMMA GotoType ==
    ASSUME TaskOK, NEW pc \in Pcs, Goto(pc),
           pc \in {"mark", "stage"} => task.pc \in {"mark", "stage"}
    PROVE  TaskOK'
  BY DEF TaskOK, Goto

\* A step of the builder keeps the types.
LEMMA BuildType ==
    ASSUME TypeOK, BuildLock \/ Build
    PROVE  TypeOK'
<1>0. TaskOK /\ kv.g \in [Gens -> [Ids -> Docs \cup {None}]]
  BY DEF TypeOK, RowsOK, RowType, Families
<1>1. CASE BuildLock
  BY <1>1, <1>0, GotoType DEF BuildLock, TypeOK, Pcs
<1>2. CASE \E gen \in Gens : BuildSnapshot(gen)
  <2> PICK gen \in Gens : BuildSnapshot(gen)
    BY <1>2
  <2>1. kv.s.revision \in Nat
    BY DEF TypeOK, RowsOK, RowType, Families, Stats
  <2>2. Content(kv) \in [Ids -> Docs \cup {None}]
    BY ContentType DEF TypeOK
  <2>3. TaskOK'
    BY <2>1, <2>2 DEF BuildSnapshot, TaskOK, Pcs
  <2> QED
    BY <2>3 DEF BuildSnapshot, TypeOK
<1>3. CASE BuildRefused
  <2>1. TaskOK'
    BY <1>3 DEF BuildRefused, Idle, TaskOK, Pcs, NoContent
  <2> QED
    BY <1>3, <2>1 DEF BuildRefused, TypeOK
<1>4. CASE MarkCommit
  BY <1>4, MarkBatchType, IdxCommitType DEF MarkCommit
<1>5. CASE MarkDurable
  <2>1. TaskOK'
    BY <1>5, <1>0, GotoType DEF MarkDurable, Pcs
  <2> QED
    BY <1>5, <2>1, IdxDurableType DEF MarkDurable
<1>6. CASE \E part \in SUBSET Ids : StageCommit(part)
  <2> PICK part \in SUBSET Ids : StageCommit(part)
    BY <1>6
  <2> DEFINE rows == [kv.g EXCEPT ![task.gen] =
                         [id \in Ids |-> IF id \in part THEN task.content[id] ELSE @[id]]]
  <2>1. rows \in [Gens -> [Ids -> Docs \cup {None}]]
    BY <1>0 DEF StageCommit, TaskOK
  <2>2. RowsOK([g |-> rows])
    BY <2>1, GenBatchType
  <2> QED
    BY <2>2, IdxCommitType DEF StageCommit
<1>7. CASE StageDurable
  BY <1>7, <1>0, IdxDurableType DEF StageDurable, TaskOK
<1>8. CASE PublishCommit
  <2> DEFINE status == [gen |-> task.gen, revision |-> task.revision, ids |-> Rows(task.content)]
  <2>1. status \in Status
    BY <1>8, <1>0 DEF PublishCommit, TaskOK, Status, Rows
  <2>2. RowsOK([i |-> status])
    BY <2>1 DEF RowsOK, RowType, Families
  <2> QED
    BY <1>8, <1>0, <2>2, TaskCommitType DEF PublishCommit, TaskOK
<1>9. CASE PublishDurable
  <2>1. TaskOK'
    BY <1>9, <1>0, GotoType DEF PublishDurable, Pcs
  <2> QED
    BY <1>9, <2>1, TaskDurableType DEF PublishDurable, TypeOK
<1> QED
  BY <1>1, <1>2, <1>3, <1>4, <1>5, <1>6, <1>7, <1>8, <1>9 DEF Build

\* A step of the cleaner keeps the types.
LEMMA CleanType ==
    ASSUME TypeOK, Clean
    PROVE  TypeOK'
<1>0. /\ TaskOK
      /\ kv.s \in Stats
      /\ kv.c \in [Ids -> Nat]
      /\ kv.i \in Status \cup {None}
      /\ kv.g \in [Gens -> [Ids -> Docs \cup {None}]]
  BY DEF TypeOK, RowsOK, RowType, Families
<1>1. CASE ResumeSnapshot
  <2>1. TaskOK'
    BY <1>1, <1>0 DEF ResumeSnapshot, TaskOK, Pcs, Status
  <2> QED
    BY <1>1, <2>1 DEF ResumeSnapshot, TypeOK
<1>2. CASE CleanScan
  <2>1. TaskOK'
    BY <1>2, <1>0 DEF CleanScan, TaskOK, Pcs, Changed
  <2> QED
    BY <1>2, <2>1 DEF CleanScan, TypeOK
<1>3. CASE \E part \in SUBSET Retired : RetireCommit(part)
  <2> PICK part \in SUBSET Retired : RetireCommit(part)
    BY <1>3
  <2>1. Dropped(kv.g, part) \in [Gens -> [Ids -> Docs \cup {None}]]
    BY <1>0 DEF Dropped
  <2>2. RowsOK([g |-> Dropped(kv.g, part)])
    BY <2>1 DEF RowsOK, RowType, Families
  <2> QED
    BY <2>2, IdxCommitType DEF RetireCommit
<1>4. CASE RetireDurable
  BY <1>4, <1>0, IdxDurableType DEF RetireDurable, TaskOK
<1>5. CASE \E part \in SUBSET Ids : CleanCommit(part)
  <2> PICK part \in SUBSET Ids : CleanCommit(part)
    BY <1>5
  <2> DEFINE gone  == {id \in part : kv.c[id] # 0 /\ kv.c[id] <= task.revision}
             c2    == [id \in Ids |-> IF id \in gone THEN 0 ELSE kv.c[id]]
             s2    == [kv.s EXCEPT !.pending = @ - Cardinality(gone)]
  <2>1. c2 \in [Ids -> Nat]
    BY <1>0
  <2>2. s2 \in Stats
    <3>1. Cardinality(gone) \in Nat
      BY CountType
    <3> QED
      BY <3>1, <1>0 DEF Stats
  <2>3. RowsOK([c |-> c2, s |-> s2])
    BY <2>1, <2>2, CountsBatchType
  <2>4. TaskOK'
    BY <1>0 DEF CleanCommit, TaskOK
  <2>5. TaskCommit([c |-> c2, s |-> s2])
    BY DEF CleanCommit
  <2> QED
    BY <2>3, <2>4, <2>5, TaskCommitType
<1>6. CASE CleanDurable
  BY <1>6, <1>0, TaskDurableType DEF CleanDurable, TaskOK, TypeOK
<1>7. CASE UnmarkCommit
  BY <1>7, MarkBatchType, IdxCommitType DEF UnmarkCommit
<1>8. CASE UnmarkDurable
  <2>1. TaskOK'
    BY <1>8 DEF UnmarkDurable, Idle, TaskOK, Pcs, NoContent
  <2> QED
    BY <1>8, <2>1, IdxDurableType DEF UnmarkDurable
<1> QED
  BY <1>1, <1>2, <1>3, <1>4, <1>5, <1>6, <1>7, <1>8 DEF Clean

\* A step of the indexer, or of a deletion, keeps the types.
LEMMA IndexerType ==
    ASSUME TypeOK, Indexer
    PROVE  TypeOK'
<1>0. TaskOK
  BY DEF TypeOK
<1>1. CASE IndexerTick \/ IndexerStats
  BY <1>1, <1>0 DEF IndexerTick, IndexerStats, TypeOK, TaskOK
<1>2. CASE IndexerRebuild
  <2>1. TaskOK'
    BY <1>2, <1>0, GotoType DEF IndexerRebuild, Pcs
  <2> QED
    BY <1>2, <2>1 DEF IndexerRebuild, TypeOK
<1>3. CASE IndexerResume
  <2>1. TaskOK'
    BY <1>3, <1>0, GotoType DEF IndexerResume, Pcs, TaskOK
  <2> QED
    BY <1>3, <2>1 DEF IndexerResume, TypeOK
<1> QED
  BY <1>1, <1>2, <1>3 DEF Indexer

LEMMA EraseCommitType ==
    ASSUME TypeOK, NEW batch, EraseCommit(batch), RowsOK(batch)
    PROVE  TypeOK'
  BY DEF TypeOK, EraseCommit, TaskOK

LEMMA DeleteType ==
    ASSUME TypeOK, DeleteLock \/ IntentCommit \/ IntentDurable
    PROVE  TypeOK'
<1>0. TaskOK
  BY DEF TypeOK
<1>1. CASE DeleteLock
  <2>1. TaskOK'
    BY <1>1, <1>0, GotoType DEF DeleteLock, Pcs
  <2> QED
    BY <1>1, <2>1 DEF DeleteLock, TypeOK
<1>2. CASE IntentCommit
  <2> DEFINE batch == [n |-> None, z |-> TRUE]
  <2>1. batch.n \in RowType.n /\ batch.z \in RowType.z
    BY DEF RowType
  <2>2. DOMAIN batch = {"n", "z"}
    OBVIOUS
  <2> HIDE DEF batch
  <2>3. RowsOK(batch)
    BY <2>1, <2>2 DEF RowsOK, Families
  <2> QED
    BY <1>2, <1>0, <2>3, TaskCommitType DEF IntentCommit, TaskOK, batch
<1>3. CASE IntentDurable
  <2>1. TaskOK'
    BY <1>3, <1>0, GotoType DEF IntentDurable, Pcs
  <2> QED
    BY <1>3, <2>1, TaskDurableType DEF IntentDurable, TypeOK
<1> QED
  BY <1>1, <1>2, <1>3

\* A step of erase_namespace keeps the types.
LEMMA EraseType ==
    ASSUME TypeOK, Erase
    PROVE  TypeOK'
<1>0. /\ TaskOK
      /\ kv.d \in [Ids -> Attrs \cup {None}]
      /\ kv.v \in [Ids -> Vecs \cup {None}]
      /\ kv.c \in [Ids -> Nat]
      /\ kv.g \in [Gens -> [Ids -> Docs \cup {None}]]
  BY DEF TypeOK, RowsOK, RowType, Families
<1>1. CASE \E part \in SUBSET Ids : EraseDocuments(part)
  <2> PICK part \in SUBSET Ids : EraseDocuments(part)
    BY <1>1
  <2>1. Removed(kv.d, part) \in [Ids -> Attrs \cup {None}]
    BY <1>0 DEF Removed
  <2>2. RowsOK([d |-> Removed(kv.d, part)])
    BY <2>1 DEF RowsOK, RowType, Families
  <2> QED
    BY <2>2, EraseCommitType DEF EraseDocuments
<1>2. CASE \E part \in SUBSET Ids : EraseVectors(part)
  <2> PICK part \in SUBSET Ids : EraseVectors(part)
    BY <1>2
  <2>1. Removed(kv.v, part) \in [Ids -> Vecs \cup {None}]
    BY <1>0 DEF Removed
  <2>2. RowsOK([v |-> Removed(kv.v, part)])
    BY <2>1 DEF RowsOK, RowType, Families
  <2> QED
    BY <2>2, EraseCommitType DEF EraseVectors
<1>3. CASE \E part \in SUBSET Ids : EraseChanges(part)
  <2> PICK part \in SUBSET Ids : EraseChanges(part)
    BY <1>3
  <2> DEFINE left == [id \in Ids |-> IF id \in part THEN 0 ELSE kv.c[id]]
  <2>1. left \in [Ids -> Nat]
    BY <1>0
  <2>2. RowsOK([c |-> left])
    BY <2>1 DEF RowsOK, RowType, Families
  <2> QED
    BY <2>2, EraseCommitType DEF EraseChanges
<1>4. CASE \E part \in SUBSET Generated(kv) : EraseGenerations(part)
  <2> PICK part \in SUBSET Generated(kv) : EraseGenerations(part)
    BY <1>4
  <2>1. Dropped(kv.g, part) \in [Gens -> [Ids -> Docs \cup {None}]]
    BY <1>0 DEF Dropped
  <2>2. RowsOK([g |-> Dropped(kv.g, part)])
    BY <2>1 DEF RowsOK, RowType, Families
  <2> QED
    BY <2>2, EraseCommitType DEF EraseGenerations
<1>5. CASE EraseDurable
  BY <1>5, <1>0, TaskDurableType DEF EraseDurable, TaskOK, TypeOK
<1>6. CASE ForgetCommit
  <2> DEFINE batch == [i |-> None, s |-> NoStats, z |-> FALSE, j |-> FALSE]
  <2>1. /\ batch.i \in RowType.i /\ batch.s \in RowType.s
        /\ batch.z \in RowType.z /\ batch.j \in RowType.j
    BY DEF RowType, NoStats, Stats
  <2>2. DOMAIN batch = {"i", "s", "z", "j"}
    OBVIOUS
  <2>3. EraseCommit(batch)
    BY <1>6 DEF ForgetCommit
  <2> HIDE DEF batch
  <2>4. RowsOK(batch)
    BY <2>1, <2>2 DEF RowsOK, Families
  <2> QED
    BY <2>3, <2>4, EraseCommitType
<1>7. CASE ForgetDurable
  <2>1. TaskOK'
    BY <1>7 DEF ForgetDurable, Idle, TaskOK, Pcs, NoContent
  <2> QED
    BY <1>7, <2>1, TaskDurableType DEF ForgetDurable, TypeOK
<1> QED
  BY <1>1, <1>2, <1>3, <1>4, <1>5, <1>6, <1>7 DEF Erase

\* Errors, crashes, shutdown and opening keep the types.
LEMMA DisruptionType ==
    ASSUME TypeOK, TaskError \/ EraseError \/ Crash \/ Close \/ Reopen \/ OpenDone
    PROVE  TypeOK'
<1>0. TaskOK /\ faults \in 0 .. MaxFaults
  BY DEF TypeOK
<1>1. Disrupt => faults' \in 0 .. MaxFaults
  BY <1>0 DEF Disrupt
<1>2. task' = Idle => TaskOK'
  BY DEF Idle, TaskOK, Pcs, NoContent
<1>3. CASE TaskError
  BY <1>3, <1>1, <1>2 DEF TaskError, TypeOK
<1>4. CASE EraseError
  BY <1>4, <1>1, <1>2 DEF EraseError, TypeOK
<1>5. CASE Crash
  <2>1. DOMAIN kv' = Families /\ RowsOK(kv')
    BY <1>5, ApplyType DEF Crash, TypeOK
  <2>2. ack' \in Nat
    BY <1>5 DEF Crash, TypeOK
  <2> QED
    BY <1>5, <1>1, <1>2, <2>1, <2>2, NothingType DEF Crash, TypeOK
<1>6. CASE Close
  BY <1>6, <1>0, <1>1 DEF Close, TypeOK, TaskOK
<1>7. CASE Reopen
  <2>1. TaskOK'
    BY <1>7, <1>0, GotoType DEF Reopen, Pcs, TaskOK
  <2> QED
    BY <1>7, <2>1 DEF Reopen, TypeOK
<1>8. CASE OpenDone
  BY <1>8, <1>0 DEF OpenDone, TypeOK, TaskOK
<1> QED
  BY <1>3, <1>4, <1>5, <1>6, <1>7, <1>8

LEMMA TypeStep ==
    ASSUME TypeOK, [Next]_vars
    PROVE  TypeOK'
<1>1. CASE UNCHANGED vars
  BY <1>1 DEF vars, TypeOK, TaskOK
<1>2. CASE Next
  BY <1>2, RequestType, BuildType, CleanType, IndexerType, DeleteType, EraseType,
     DisruptionType DEF Next
<1> QED
  BY <1>1, <1>2

\* Every reachable state is well typed, for any documents, quotas and number of
\* disruptions: in particular a crash leaves well-formed rows whichever of the
\* batches in flight it keeps.
THEOREM TypeInvariant == Spec => []TypeOK
<1>1. TypeOK /\ [Next]_vars => TypeOK'
  BY TypeStep
<1> QED
  BY InitType, <1>1, PTL DEF Spec

-----------------------------------------------------------------------------
\* Lemmas about applying batches.

\* The durable rows are a function on the families, so applying nothing is nothing.
RowsFun == kv = Apply(kv, Nothing)

LEMMA ApplyNothing ==
    ASSUME NEW k, NEW batch
    PROVE  Apply(Apply(k, batch), Nothing) = Apply(k, batch)
  BY DEF Apply, Nothing

\* Batches of different families commute.
LEMMA ApplyCommutes ==
    ASSUME NEW k, NEW b1, NEW b2, DOMAIN b1 \cap DOMAIN b2 = {}
    PROVE  Apply(Apply(k, b1), b2) = Apply(Apply(k, b2), b1)
  BY DEF Apply

\* What a batch leaves alone, and what it rewrites.
LEMMA ApplyRow ==
    ASSUME NEW k, NEW batch, NEW family \in Families
    PROVE  Apply(k, batch)[family] =
             IF family \in DOMAIN batch THEN batch[family] ELSE k[family]
  BY DEF Apply

\* A durable step picks one of the outcomes there were.
Exact(k) == IndexExact(k) /\ BuildExact(k) /\ CleanExact(k)

\* Exactness reads the documents, the statistics and the index alone.
LEMMA ExactAlike ==
    ASSUME NEW k, NEW l, Exact(k),
           l.s = k.s, l.d = k.d, l.v = k.v, l.c = k.c, l.i = k.i, l.g = k.g, l.z = k.z
    PROVE  Exact(l)
<1>1. \A id : Doc(l, id) = Doc(k, id)
  BY DEF Doc
<1>2. IndexExact(l)
  BY <1>1 DEF Exact, IndexExact
<1>3. BuildExact(l)
  BY <1>1 DEF Exact, BuildExact
<1>4. CleanExact(l)
  BY DEF Exact, CleanExact
<1> QED
  BY <1>2, <1>3, <1>4 DEF Exact

\* What is exact stays so while the task stands still.
LEMMA ExactKept ==
    ASSUME task' = task
    PROVE  \A k : Exact(k) => Exact(k)'
<1> TAKE k
<1>1. IndexExact(k) => IndexExact(k)'
  BY DEF IndexExact
<1>2. BuildExact(k) => BuildExact(k)'
  BY DEF BuildExact
<1>3. CleanExact(k) => CleanExact(k)'
  BY DEF CleanExact
<1> QED
  BY <1>1, <1>2, <1>3 DEF Exact

LEMMA DisjointBatches ==
    ASSUME TypeOK, LockInv
    PROVE  idx # Nothing => DOMAIN app \cap DOMAIN idx = {}
<1>1. DOMAIN Nothing = {}
  BY NothingType
<1> QED
  BY <1>1 DEF TypeOK, LockInv

LEMMA AppLands ==
    ASSUME kv' = Apply(kv, app), app' = Nothing, idx' = idx
    PROVE  Outcomes' \subseteq Outcomes
<1>1. Apply(kv', app') = kv'
  BY ApplyNothing
<1> QED
  BY <1>1 DEF Outcomes

LEMMA IdxLands ==
    ASSUME TypeOK, LockInv, IdxDurable
    PROVE  Outcomes' \subseteq Outcomes
<1>1. Apply(Apply(kv, app), idx) = Apply(Apply(kv, idx), app)
  BY ApplyCommutes, DisjointBatches DEF IdxDurable
<1>2. kv' = Apply(kv, idx) /\ app' = app /\ idx' = Nothing
  BY DEF IdxDurable
<1>3. Apply(kv', idx') = kv' /\ Apply(Apply(kv', app'), idx') = Apply(kv', app')
  BY <1>2, ApplyNothing
<1> QED
  BY <1>1, <1>2, <1>3 DEF Outcomes

\* With one slot empty there are two outcomes; with both, one.
LEMMA FewOutcomes ==
    ASSUME RowsFun
    PROVE  /\ app = Nothing => Outcomes = {kv, Apply(kv, idx)}
           /\ idx = Nothing => Outcomes = {kv, Apply(kv, app)}
           /\ (app = Nothing /\ idx = Nothing) => Outcomes = {kv}
  BY ApplyNothing DEF RowsFun, Outcomes

LEMMA OutcomesType ==
    ASSUME TypeOK
    PROVE  \A k \in Outcomes : DOMAIN k = Families /\ RowsOK(k)
<1>1. \A k : DOMAIN k = Families /\ RowsOK(k) =>
        /\ DOMAIN Apply(k, app) = Families /\ RowsOK(Apply(k, app))
        /\ DOMAIN Apply(k, idx) = Families /\ RowsOK(Apply(k, idx))
  BY ApplyType DEF TypeOK
<1> QED
  BY <1>1 DEF Outcomes, TypeOK

\* The types of single families.
LEMMA RowTypes ==
    ASSUME NEW k, DOMAIN k = Families, RowsOK(k)
    PROVE  /\ k.s \in Stats
           /\ k.d \in [Ids -> Attrs \cup {None}]
           /\ k.v \in [Ids -> Vecs \cup {None}]
           /\ k.c \in [Ids -> Nat]
           /\ k.i \in Status \cup {None}
           /\ k.g \in [Gens -> [Ids -> Docs \cup {None}]]
           /\ k.z \in BOOLEAN
  BY DEF RowsOK, RowType, Families

-----------------------------------------------------------------------------
\* Commits under schema_lock by a request.

\* A write raises the revision of what it touches above every watermark.
LEMMA WriteExact ==
    ASSUME TypeOK, NEW k, DOMAIN k = Families, RowsOK(k), Exact(k), NEW request \in Requests
    PROVE  Exact(Apply(k, WriteBatch(k, request)))
<1> DEFINE batch == WriteBatch(k, request)
           k2    == Apply(k, batch)
           touched == DOMAIN request
<1>1. /\ k.s \in Stats /\ k.c \in [Ids -> Nat] /\ k.i \in Status \cup {None}
      /\ k.d \in [Ids -> Attrs \cup {None}]
      /\ k.v \in [Ids -> Vecs \cup {None}]
  BY RowTypes
<1>2. /\ k2.i = k.i /\ k2.g = k.g /\ k2.z = k.z
      /\ k2.s = batch.s /\ k2.c = batch.c /\ k2.d = batch.d /\ k2.v = batch.v
  <2>1. DOMAIN batch = {"s", "d", "v", "c"}
    BY WriteFields
  <2> HIDE DEF batch
  <2> QED
    BY <2>1 DEF Apply, Families
<1>w. batch = WriteBatch(k, request)
  OBVIOUS
<1> HIDE DEF batch, k2
<1>3. k2.s.revision = k.s.revision + 1
  <2>1. StatsAfter(k, request).revision = k.s.revision + 1
    BY DEF StatsAfter
  <2>2. batch.s = StatsAfter(k, request)
    BY <1>w, WriteFields
  <2> QED
    BY <1>2, <2>1, <2>2
<1>4. \A id \in Ids : id \in touched => k2.c[id] = k.s.revision + 1
  BY <1>w, <1>2, WriteFields
<1>5. \A id \in Ids : id \notin touched =>
        k2.c[id] = k.c[id] /\ k2.d[id] = k.d[id] /\ k2.v[id] = k.v[id]
  BY <1>w, <1>2, WriteFields
<1>6. \A id \in Ids : id \notin touched => Doc(k2, id) = Doc(k, id)
  BY <1>5 DEF Doc
<1>7. k.s.revision \in Nat
  BY <1>1 DEF Stats
<1> HIDE DEF batch, k2, touched
<1>8. IndexExact(k2)
  <2> SUFFICES ASSUME ~k2.z PROVE IndexExact(k2)!2
    BY DEF IndexExact
  <2>1. /\ \A id \in Ids : k.c[id] <= k.s.revision
        /\ k.i # None =>
              /\ k.i.revision <= k.s.revision
              /\ {id \in Ids : k.g[k.i.gen][id] # None} = k.i.ids
              /\ \A id \in Ids : k.c[id] <= k.i.revision => k.g[k.i.gen][id] = Doc(k, id)
    BY <1>2 DEF Exact, IndexExact
  <2>2. \A id \in Ids : k2.c[id] <= k2.s.revision
    BY <2>1, <1>1, <1>3, <1>4, <1>5, <1>7
  <2>3. CASE k.i # None
    <3>1. k.i.revision \in Nat /\ k.i.revision <= k.s.revision
      BY <2>1, <2>3, <1>1 DEF Status
    <3>2. \A id \in Ids : k2.c[id] <= k.i.revision => id \notin touched
      BY <3>1, <1>4, <1>7
    <3>3. \A id \in Ids : k2.c[id] <= k.i.revision => k.g[k.i.gen][id] = Doc(k2, id)
      BY <3>2, <2>1, <2>3, <1>5, <1>6
    <3>4. k.i.revision <= k2.s.revision
      BY <3>1, <1>3, <1>7
    <3> QED
      BY <3>3, <3>4, <2>1, <2>2, <2>3, <1>2
  <2> QED
    BY <2>2, <2>3, <1>2
<1>9. BuildExact(k2)
  <2> SUFFICES ASSUME ~k2.z, task.pc \in {"mark", "stage"} PROVE BuildExact(k2)!2
    BY DEF BuildExact
  <2>1. /\ task.revision <= k.s.revision
        /\ \A id \in Ids : k.c[id] <= task.revision => task.content[id] = Doc(k, id)
        /\ \A id \in Ids : k.g[task.gen][id] \in {None, task.content[id]}
        /\ (k.i # None /\ k.i.gen = task.gen) =>
              task.pc = "stage" /\ k.g[task.gen] = task.content
    BY <1>2 DEF Exact, BuildExact
  <2>2. task.revision \in Nat
    BY DEF TypeOK, TaskOK
  <2>3. \A id \in Ids : k2.c[id] <= task.revision => id \notin touched
    BY <2>1, <2>2, <1>4, <1>7
  <2>4. \A id \in Ids : k2.c[id] <= task.revision => task.content[id] = Doc(k2, id)
    BY <2>1, <2>3, <1>5, <1>6
  <2>5. task.revision <= k2.s.revision
    BY <2>1, <2>2, <1>3, <1>7
  <2> QED
    BY <2>1, <2>4, <2>5, <1>2
<1>10. CleanExact(k2)
  BY <1>2 DEF Exact, CleanExact
<1> QED
  BY <1>8, <1>9, <1>10 DEF Exact, k2, batch

\* Both batches of a request rewrite families the index task leaves alone, so
\* they do the same to the rows with and without the batch of the index task.
LEMMA SameWrite ==
    ASSUME TypeOK, NEW request
    PROVE  WriteBatch(Apply(kv, idx), request) = WriteBatch(kv, request)
<1>1. LET k == Apply(kv, idx) IN k.s = kv.s /\ k.d = kv.d /\ k.v = kv.v /\ k.c = kv.c
  BY DEF Apply, Families, TypeOK
<1> QED
  BY <1>1 DEF WriteBatch, StatsAfter

\* How a commit shows in the outcomes: with the rows as they may be without the
\* new batch, and with it.
LEMMA AppCommits ==
    ASSUME TypeOK, LockInv, RowsFun, NEW batch,
           app = Nothing, app' = batch, UNCHANGED <<kv, idx>>,
           DOMAIN batch \cap DOMAIN idx = {}
    PROVE  Outcomes' = Outcomes \cup {Apply(k, batch) : k \in Outcomes}
<1>1. Outcomes = {kv, Apply(kv, idx)}
  BY FewOutcomes
<1>2. Outcomes' = {kv, Apply(kv, batch), Apply(kv, idx), Apply(Apply(kv, batch), idx)}
  BY DEF Outcomes
<1>3. Apply(Apply(kv, batch), idx) = Apply(Apply(kv, idx), batch)
  BY ApplyCommutes
<1> QED
  BY <1>1, <1>2, <1>3

LEMMA IdxCommits ==
    ASSUME NEW batch, RowsFun, IdxCommit(batch)
    PROVE  Outcomes' = Outcomes \cup {Apply(k, batch) : k \in Outcomes}
<1>1. Outcomes = {kv, Apply(kv, app)}
  BY FewOutcomes DEF IdxCommit
<1>2. Outcomes' = {kv, Apply(kv, app), Apply(kv, batch), Apply(Apply(kv, app), batch)}
  BY DEF Outcomes, IdxCommit
<1> QED
  BY <1>1, <1>2

LEMMA RequestExact ==
    ASSUME TypeOK, RowsFun, IndexInv, Request \/ RequestDurable
    PROVE  RowsFun' /\ IndexInv'
<1> USE DEF IndexInv
<1>1. CASE \E schema \in Schemas : CreateCommit(schema)
  <2> PICK schema \in Schemas : CreateCommit(schema)
    BY <1>1
  <2> DEFINE batch == [n |-> schema]
  <2>1. Outcomes' = Outcomes \cup {Apply(k, batch) : k \in Outcomes}
    <3>1. DOMAIN batch \cap DOMAIN idx = {}
      BY DEF TypeOK
    <3> QED
      BY <3>1, AppCommits DEF CreateCommit, LockInv, SchemaFree
  <2>2. ASSUME NEW k \in Outcomes
        PROVE  Exact(Apply(k, batch))
    <3> DEFINE k2 == Apply(k, batch)
    <3>1. /\ k2.s = k.s /\ k2.d = k.d /\ k2.v = k.v /\ k2.c = k.c
          /\ k2.i = k.i /\ k2.g = k.g /\ k2.z = k.z
      BY DEF Apply, Families
    <3>2. Exact(k)
      BY DEF Exact
    <3> HIDE DEF k2
    <3> QED
      BY <3>1, <3>2, ExactAlike DEF k2
  <2>3. \A k \in Outcomes' : Exact(k)'
    <3>1. task' = task
      BY DEF CreateCommit
    <3>2. \A k \in Outcomes' : Exact(k)
      <4> HIDE DEF batch
      <4> QED
        BY <2>1, <2>2 DEF Exact
    <3> QED
      BY <3>1, <3>2, ExactKept
  <2>4. LockInv'
    BY DEF CreateCommit, LockInv, Serving, SchemaFree
  <2> QED
    BY <2>3, <2>4 DEF CreateCommit, RowsFun, Exact
<1>2. CASE \E request \in Requests : WriteCommit(request)
  <2> PICK request \in Requests : WriteCommit(request)
    BY <1>2
  <2> DEFINE batch == WriteBatch(kv, request)
  <2>0. DOMAIN batch = {"s", "d", "v", "c"}
    BY DEF WriteBatch
  <2>1. Outcomes = {kv, Apply(kv, idx)}
        /\ Outcomes' = Outcomes \cup {Apply(k, batch) : k \in Outcomes}
    <3>1. DOMAIN batch \cap DOMAIN idx = {}
      BY <2>0 DEF TypeOK
    <3>2. app = Nothing /\ app' = batch /\ UNCHANGED <<kv, idx>>
      BY DEF WriteCommit, LockInv, SchemaFree
    <3> HIDE DEF batch
    <3> QED
      BY <3>1, <3>2, AppCommits, FewOutcomes
  <2>2. ASSUME NEW k \in Outcomes
        PROVE  Exact(Apply(k, batch))
    <3>1. WriteBatch(k, request) = batch
      BY <2>1, SameWrite
    <3>2. DOMAIN k = Families /\ RowsOK(k) /\ Exact(k)
      BY OutcomesType DEF Exact
    <3> HIDE DEF batch
    <3> QED
      BY <3>1, <3>2, WriteExact
  <2>3. \A k \in Outcomes' : Exact(k)'
    <3> HIDE DEF batch
    <3> QED
      <4>1. \A k \in Outcomes : Exact(k)
        BY DEF Exact
      <4>2. task' = task
        BY DEF WriteCommit
      <4>3. \A k \in Outcomes' : Exact(k)
        BY <2>1, <2>2, <4>1
      <4> QED
        BY <4>2, <4>3, ExactKept
  <2>4. LockInv'
    BY <2>0 DEF WriteCommit, LockInv, Serving, SchemaFree
  <2> QED
    BY <2>3, <2>4 DEF WriteCommit, RowsFun, Exact
<1>3. CASE RequestDurable
  <2>1. Outcomes' \subseteq Outcomes
    BY <1>3, AppLands DEF RequestDurable
  <2>2. \A k \in Outcomes' : Exact(k)'
    BY <1>3, <2>1 DEF RequestDurable, Exact, IndexExact, BuildExact, CleanExact
  <2>3. LockInv'
    BY <1>3 DEF RequestDurable, LockInv
  <2>4. RowsFun'
    BY <1>3, ApplyNothing DEF RequestDurable, RowsFun
  <2> QED
    BY <2>2, <2>3, <2>4 DEF Exact
<1> QED
  BY <1>1, <1>2, <1>3 DEF Request

-----------------------------------------------------------------------------
\* Steps of the builder.

\* A task that is not building, staging or cleaning has no index to be exact about.
LEMMA Unconcerned ==
    ASSUME NEW k, IndexExact(k), task'.pc \notin {"mark", "stage", "scan", "tidy"}
    PROVE  Exact(k)'
  BY DEF Exact, IndexExact, BuildExact, CleanExact

LEMMA BuildStartsExact ==
    ASSUME TypeOK, RowsFun, IndexInv, NEW gen \in Gens, BuildSnapshot(gen)
    PROVE  IndexInv'
<1> USE DEF IndexInv
<1>1. app = Nothing /\ idx = Nothing
  BY DEF BuildSnapshot, LockInv, SchemaFree
<1>2. Outcomes = {kv} /\ Outcomes' = {kv}
  BY <1>1, FewOutcomes DEF BuildSnapshot, Outcomes
<1>3. /\ kv.s.revision \in Nat /\ kv.i \in Status \cup {None}
      /\ DOMAIN kv = Families /\ RowsOK(kv)
  <2>1. DOMAIN kv = Families /\ RowsOK(kv)
    BY DEF TypeOK
  <2> QED
    BY <2>1, RowTypes DEF Stats
<1>4. /\ task'.pc = "mark" /\ task'.gen = gen /\ task'.revision = kv.s.revision
      /\ task'.content = Content(kv)
  BY DEF BuildSnapshot
<1>5. \A id \in Ids : kv.g[gen][id] = None /\ Content(kv)[id] = Doc(kv, id)
  BY DEF BuildSnapshot, NoContent, Content
<1>6. kv.i # None => kv.i.gen # gen
  BY DEF BuildSnapshot
<1>7. BuildExact(kv)'
  BY <1>3, <1>4, <1>5, <1>6 DEF BuildExact, BuildSnapshot
<1>8. IndexExact(kv)' /\ CleanExact(kv)'
  BY <1>2, <1>4 DEF IndexExact, CleanExact, BuildSnapshot
<1>9. LockInv'
  BY <1>1 DEF LockInv, BuildSnapshot, SchemaFree
<1> QED
  BY <1>2, <1>7, <1>8, <1>9 DEF BuildSnapshot

\* Staging fills rows of the new generation, which is not the published one.
LEMMA StageExact ==
    ASSUME TypeOK, RowsFun, IndexInv, NEW part \in SUBSET Ids, StageCommit(part)
    PROVE  IndexInv'
<1> USE DEF IndexInv
<1> DEFINE rows  == [kv.g EXCEPT ![task.gen] =
                        [id \in Ids |-> IF id \in part THEN task.content[id] ELSE @[id]]]
           batch == [g |-> rows]
<1>1. IdxCommit(batch) /\ task.pc = "stage"
  BY DEF StageCommit
<1>2. Outcomes = {kv, Apply(kv, app)}
      /\ Outcomes' = Outcomes \cup {Apply(k, batch) : k \in Outcomes}
  <2> HIDE DEF batch
  <2> QED
    BY <1>1, IdxCommits, FewOutcomes DEF IdxCommit
<1>3. task.gen \in Gens /\ task.content \in [Ids -> Docs \cup {None}]
      /\ kv.g \in [Gens -> [Ids -> Docs \cup {None}]]
  BY <1>1, RowTypes DEF TypeOK, TaskOK
<1>4. task.pc = "stage" /\ part # {} /\ part \subseteq Unstaged
  BY DEF StageCommit
<1>5. \A id \in part : task.content[id] # None /\ kv.g[task.gen][id] = None
  BY <1>4 DEF Unstaged
<1>6. /\ \A id \in Ids : rows[task.gen][id] =
              IF id \in part THEN task.content[id] ELSE kv.g[task.gen][id]
      /\ \A gen \in Gens : gen # task.gen => rows[gen] = kv.g[gen]
      /\ rows \in [Gens -> [Ids -> Docs \cup {None}]]
  BY <1>3
<1>7. ASSUME NEW k \in Outcomes
      PROVE  Exact(Apply(k, batch))
  <2> DEFINE k2 == Apply(k, batch)
  <2>1. /\ k2.s = k.s /\ k2.d = k.d /\ k2.v = k.v /\ k2.c = k.c
        /\ k2.i = k.i /\ k2.z = k.z /\ k2.g = rows
    BY DEF Apply, Families
  <2>2. k.g = kv.g
    <3>1. schemaLock # "task" => DOMAIN app \subseteq {"n", "s", "d", "v", "c"}
      BY NothingType DEF LockInv, TypeOK
    <3> QED
      BY <3>1, <1>1, <1>2 DEF Apply, Families, IdxCommit
  <2>3. IndexExact(k) /\ BuildExact(k)
    OBVIOUS
  <2>4. \A id : Doc(k2, id) = Doc(k, id)
    BY Zenon, <2>1 DEF Doc
  <2>5. DOMAIN k = Families /\ RowsOK(k)
    BY OutcomesType
  <2>6. k.i \in Status \cup {None}
    BY <2>5, RowTypes
  <2> HIDE DEF k2, rows, batch
  <2>7. (~k.z /\ k.i # None) => k.i.gen # task.gen
    <3> PICK id \in part : TRUE
      BY <1>4
    <3>1. task.content[id] # kv.g[task.gen][id]
      BY <1>5
    <3> QED
      BY <3>1, <2>2, <2>3, <1>4 DEF BuildExact
  <2>8. IndexExact(k2)
    BY <2>1, <2>2, <2>3, <2>4, <2>6, <2>7, <1>6 DEF IndexExact, Status
  <2>9. BuildExact(k2)
    BY <2>1, <2>2, <2>3, <2>4, <2>7, <1>4, <1>5, <1>6 DEF BuildExact
  <2>10. CleanExact(k2)
    BY <1>4 DEF CleanExact
  <2> QED
    BY <2>8, <2>9, <2>10 DEF Exact, k2
<1> HIDE DEF rows, batch
<1>8. \A k \in Outcomes' : Exact(k)'
  <2>1. task' = task
    BY <1>1 DEF IdxCommit
  <2>2. \A k \in Outcomes' : Exact(k)
    BY <1>1, <1>2, <1>7 DEF Exact
  <2> QED
    BY <2>1, <2>2, ExactKept
<1>9. LockInv'
  BY <1>1 DEF LockInv, IdxCommit
<1> QED
  BY <1>8, <1>9 DEF Exact

\* The pointer goes out when every row is there, and only then.
LEMMA PublishExact ==
    ASSUME TypeOK, RowsFun, IndexInv, PublishCommit
    PROVE  IndexInv'
<1> USE DEF IndexInv
<1> DEFINE status == [gen |-> task.gen, revision |-> task.revision, ids |-> Rows(task.content)]
           batch  == [i |-> status]
<1>1. /\ app = Nothing /\ idx = Nothing /\ app' = batch
      /\ UNCHANGED <<kv, idx, task, mode>> /\ schemaLock' = "task"
      /\ task.pc = "stage"
  BY DEF PublishCommit, TaskCommit, LockInv, SchemaFree
<1>2. Outcomes = {kv} /\ Outcomes' = {kv, Apply(kv, batch)}
  <2> HIDE DEF batch
  <2>1. DOMAIN batch \cap DOMAIN idx = {}
    BY <1>1, NothingType
  <2> QED
    BY <1>1, <2>1, AppCommits, FewOutcomes
<1>3. /\ task.gen \in Gens /\ task.content \in [Ids -> Docs \cup {None}]
      /\ task.revision \in Nat
      /\ kv.g \in [Gens -> [Ids -> Docs \cup {None}]]
  BY <1>1, RowTypes DEF TypeOK, TaskOK
<1>4. kv.z \/ kv.g[task.gen] = task.content
  <2>1. \A id \in Ids : task.content[id] # None => kv.g[task.gen][id] # None
    BY DEF PublishCommit, Unstaged
  <2>2. kv.z \/ \A id \in Ids : kv.g[task.gen][id] \in {None, task.content[id]}
    BY <1>1, <1>2 DEF BuildExact
  <2>3. kv.z \/ \A id \in Ids : kv.g[task.gen][id] = task.content[id]
    BY <2>1, <2>2
  <2> QED
    BY <2>3, <1>3
<1>5. Exact(Apply(kv, batch))
  <2> DEFINE k2 == Apply(kv, batch)
  <2>1. /\ k2.s = kv.s /\ k2.d = kv.d /\ k2.v = kv.v /\ k2.c = kv.c
        /\ k2.g = kv.g /\ k2.z = kv.z /\ k2.i = status
    BY DEF Apply, Families
  <2>2. status.gen = task.gen /\ status.revision = task.revision
        /\ status.ids = {id \in Ids : task.content[id] # None}
    BY DEF Rows
  <2>3. \A id : Doc(k2, id) = Doc(kv, id)
    BY <2>1 DEF Doc
  <2>4. IndexExact(kv) /\ BuildExact(kv)
    BY <1>2
  <2> HIDE DEF k2, batch, status
  <2>5. IndexExact(k2)
    BY <2>1, <2>2, <2>3, <2>4, <1>1, <1>4 DEF IndexExact, BuildExact
  <2>6. BuildExact(k2)
    BY <2>1, <2>2, <2>3, <2>4, <1>1, <1>4 DEF BuildExact
  <2>7. CleanExact(k2)
    BY <1>1 DEF CleanExact
  <2> QED
    BY <2>5, <2>6, <2>7 DEF Exact, k2
<1>6. LockInv'
  BY <1>1 DEF LockInv
<1> HIDE DEF batch, status
<1>7. \A k \in Outcomes' : Exact(k)'
  <2>1. \A k \in Outcomes' : Exact(k)
    BY <1>2, <1>5 DEF Exact
  <2> QED
    BY <1>1, <2>1, ExactKept
<1> QED
  BY <1>6, <1>7 DEF Exact

\* A mark rewrites only j/, which no conjunct of Exact reads.
LEMMA MarkExact ==
    ASSUME TypeOK, RowsFun, IndexInv, NEW mark \in BOOLEAN, IdxCommit([j |-> mark]),
           task.pc \in {"mark", "tidy"}
    PROVE  IndexInv'
<1> USE DEF IndexInv
<1> DEFINE batch == [j |-> mark]
<1>1. Outcomes' = Outcomes \cup {Apply(k, batch) : k \in Outcomes}
  BY IdxCommits
<1>2. ASSUME NEW k \in Outcomes
      PROVE  Exact(Apply(k, batch))
  <2> DEFINE k2 == Apply(k, batch)
  <2>1. /\ k2.s = k.s /\ k2.d = k.d /\ k2.v = k.v /\ k2.c = k.c
        /\ k2.i = k.i /\ k2.g = k.g /\ k2.z = k.z
    BY DEF Apply, Families
  <2>2. Exact(k)
    BY DEF Exact
  <2> HIDE DEF k2
  <2> QED
    BY <2>1, <2>2, ExactAlike DEF k2
<1> HIDE DEF batch
<1>3. \A k \in Outcomes' : Exact(k)'
  BY <1>1, <1>2 DEF Exact, IndexExact, BuildExact, CleanExact, IdxCommit
<1>4. LockInv'
  BY DEF LockInv, IdxCommit
<1> QED
  BY <1>3, <1>4 DEF Exact

\* A batch of the index task lands.
LEMMA IdxDurableExact ==
    ASSUME TypeOK, RowsFun, IndexInv, IdxDurable,
           \/ task' = task
           \/ task.pc = "mark" /\ task' = [task EXCEPT !.pc = "stage"]
           \/ task' = Idle
    PROVE  RowsFun' /\ IndexInv'
<1> USE DEF IndexInv
<1>1. Outcomes' \subseteq Outcomes
  BY IdxLands
<1>2. \A k \in Outcomes : Exact(k)'
  <2>1. CASE task' = task
    BY <2>1 DEF Exact, IndexExact, BuildExact, CleanExact
  <2>2. CASE task.pc = "mark" /\ task' = [task EXCEPT !.pc = "stage"]
    <3>1. /\ task'.pc = "stage" /\ task'.gen = task.gen /\ task'.revision = task.revision
          /\ task'.content = task.content
      BY <2>2 DEF TypeOK, TaskOK
    <3> QED
      BY <2>2, <3>1 DEF Exact, IndexExact, BuildExact, CleanExact
  <2>3. CASE task' = Idle
    BY <2>3, Unconcerned DEF Idle
  <2> QED
    BY <2>1, <2>2, <2>3
<1>3. task'.pc \in {task.pc, "stage", "idle"} /\ idx # Nothing
  BY DEF IdxDurable, TypeOK, TaskOK, Idle
<1>4. LockInv'
  <2>1. schemaLock # "task" /\ task.pc \in {"mark", "stage", "tidy"}
    BY <1>3 DEF LockInv
  <2> QED
    BY <2>1, <1>3 DEF LockInv, IdxDurable
<1>5. RowsFun'
  BY ApplyNothing DEF IdxDurable, RowsFun
<1> QED
  BY <1>1, <1>2, <1>4, <1>5 DEF Exact

\* The task moves to a point where the index is no concern of it.
LEMMA TaskMoves ==
    ASSUME RowsFun, IndexInv, UNCHANGED <<kv, app, idx, schemaLock>>,
           schemaLock # "task", idx = Nothing,
           task'.pc \in {"idle", "build", "resume", "delete"},
           mode' = "down" => task'.pc = "idle" /\ schemaLock = "free"
    PROVE  RowsFun' /\ IndexInv'
<1> USE DEF IndexInv
<1>1. Outcomes' = Outcomes
  BY DEF Outcomes
<1>2. \A k \in Outcomes : Exact(k)'
  BY Unconcerned
<1>3. LockInv'
  BY DEF LockInv
<1> QED
  BY <1>1, <1>2, <1>3 DEF Exact, RowsFun

\* The points at which the task has no batch in flight.
LEMMA Quiet ==
    ASSUME TypeOK, LockInv, task.pc \in {"idle", "build", "resume", "scan"}
    PROVE  idx = Nothing /\ schemaLock # "task" /\ (SchemaFree => app = Nothing)
  BY DEF LockInv, SchemaFree

LEMMA GotoPc ==
    ASSUME TypeOK, NEW pc, Goto(pc)
    PROVE  /\ task'.pc = pc /\ task'.gen = task.gen /\ task'.revision = task.revision
           /\ task'.content = task.content
  BY DEF TypeOK, TaskOK, Goto

LEMMA BuildExactly ==
    ASSUME TypeOK, RowsFun, IndexInv, BuildLock \/ Build
    PROVE  RowsFun' /\ IndexInv'
<1>0. LockInv
  BY DEF IndexInv
<1>1. CASE BuildLock
  BY <1>1, <1>0, Quiet, GotoPc, TaskMoves DEF BuildLock, Serving
<1>2. CASE \E gen \in Gens : BuildSnapshot(gen)
  BY <1>2, BuildStartsExact DEF BuildSnapshot, RowsFun
<1>3. CASE BuildRefused
  BY <1>3, <1>0, Quiet, TaskMoves DEF BuildRefused, Idle, LockInv
<1>4. CASE MarkCommit
  BY <1>4, MarkExact DEF MarkCommit, IdxCommit, RowsFun
<1>5. CASE MarkDurable
  BY <1>5, IdxDurableExact DEF MarkDurable, Goto
<1>6. CASE \E part \in SUBSET Ids : StageCommit(part)
  BY <1>6, StageExact DEF StageCommit, IdxCommit, RowsFun
<1>7. CASE StageDurable
  BY <1>7, IdxDurableExact DEF StageDurable
<1>8. CASE PublishCommit
  BY <1>8, PublishExact DEF PublishCommit, TaskCommit, RowsFun
<1>9. CASE PublishDurable
  <2> USE DEF IndexInv
  <2> PICK k2 : k2 = Apply(kv, app)
    OBVIOUS
  <2>1. /\ idx = Nothing /\ kv' = k2 /\ app' = Nothing /\ idx' = idx
        /\ schemaLock' = "free" /\ mode' = mode /\ schemaLock = "task"
        /\ task.pc = "stage" /\ Goto("scan")
    BY <1>9 DEF PublishDurable, TaskDurable, LockInv
  <2>2. Outcomes' \subseteq Outcomes
    BY <2>1, AppLands
  <2>3. Outcomes' = {k2}
    BY <2>1, FewOutcomes, ApplyNothing DEF Outcomes
  <2>4. app = [i |-> [gen |-> task.gen, revision |-> task.revision, ids |-> Rows(task.content)]]
    BY <2>1 DEF LockInv
  <2>5. k2.i = [gen |-> task.gen, revision |-> task.revision, ids |-> Rows(task.content)]
    BY <2>4 DEF Apply, Families
  <2>6. /\ task'.pc = "scan" /\ task'.gen = task.gen /\ task'.revision = task.revision
    BY <2>1, GotoPc
  <2>7. k2.i.gen = task.gen /\ k2.i.revision = task.revision /\ k2.i # None
    <3>1. [gen |-> task.gen, revision |-> task.revision, ids |-> Rows(task.content)] \in Status
      BY <2>1 DEF Status, Rows, TypeOK, TaskOK
    <3> QED
      BY <2>5, <3>1 DEF Status
  <2>8. IndexExact(k2)
    BY <2>2, <2>3
  <2>9. IndexExact(k2)' /\ BuildExact(k2)' /\ CleanExact(k2)'
    BY <2>1, <2>6, <2>7, <2>8 DEF IndexExact, BuildExact, CleanExact
  <2>10. LockInv'
    BY <2>1, <2>6 DEF LockInv
  <2>11. RowsFun'
    BY <2>1, ApplyNothing DEF RowsFun
  <2> QED
    BY <2>1, <2>3, <2>9, <2>10, <2>11
<1> QED
  BY <1>1, <1>2, <1>3, <1>4, <1>5, <1>6, <1>7, <1>8, <1>9 DEF Build

-----------------------------------------------------------------------------
\* Steps of the cleaner.

\* The rows of other generations are no concern of the published index.
LEMMA RetireExact ==
    ASSUME TypeOK, RowsFun, IndexInv, NEW part \in SUBSET Retired, RetireCommit(part)
    PROVE  IndexInv'
<1> USE DEF IndexInv
<1> DEFINE rows  == Dropped(kv.g, part)
           batch == [g |-> rows]
<1>1. IdxCommit(batch) /\ task.pc = "tidy"
  BY DEF RetireCommit
<1>2. Outcomes = {kv, Apply(kv, app)}
      /\ Outcomes' = Outcomes \cup {Apply(k, batch) : k \in Outcomes}
  <2> HIDE DEF batch
  <2> QED
    BY <1>1, IdxCommits, FewOutcomes DEF IdxCommit
<1>3. \A gen \in Gens, id \in Ids : gen = task.gen => rows[gen][id] = kv.g[gen][id]
  BY DEF Retired, Dropped
<1>4. ASSUME NEW k \in Outcomes
      PROVE  Exact(Apply(k, batch))
  <2> DEFINE k2 == Apply(k, batch)
  <2>1. /\ k2.s = k.s /\ k2.d = k.d /\ k2.v = k.v /\ k2.c = k.c
        /\ k2.i = k.i /\ k2.z = k.z /\ k2.g = rows
    BY DEF Apply, Families
  <2>2. k.g = kv.g
    <3>1. schemaLock # "task" => DOMAIN app \subseteq {"n", "s", "d", "v", "c"}
      BY NothingType DEF LockInv, TypeOK
    <3> QED
      BY <3>1, <1>1, <1>2 DEF Apply, Families, IdxCommit
  <2>3. IndexExact(k) /\ CleanExact(k)
    OBVIOUS
  <2>4. \A id : Doc(k2, id) = Doc(k, id)
    BY <2>1 DEF Doc
  <2>5. k.i \in Status \cup {None}
    BY OutcomesType, RowTypes
  <2> HIDE DEF k2, rows, batch
  <2>6. (~k.z /\ k.i # None) => k.i.gen = task.gen /\ k.i.gen \in Gens
    BY <2>3, <2>5, <1>1 DEF CleanExact, Status
  <2>7. IndexExact(k2)
    BY <2>1, <2>2, <2>3, <2>4, <2>6, <1>3 DEF IndexExact
  <2>8. BuildExact(k2) /\ CleanExact(k2)
    BY <2>1, <2>3, <1>1 DEF BuildExact, CleanExact
  <2> QED
    BY <2>7, <2>8 DEF Exact, k2
<1> HIDE DEF rows, batch
<1>5. \A k \in Outcomes' : Exact(k)'
  <2>1. task' = task
    BY <1>1 DEF IdxCommit
  <2>2. \A k \in Outcomes' : Exact(k)
    BY <1>1, <1>2, <1>4 DEF Exact
  <2> QED
    BY <2>1, <2>2, ExactKept
<1>6. LockInv'
  BY <1>1 DEF LockInv, IdxCommit
<1> QED
  BY <1>5, <1>6 DEF Exact

\* A change row goes only while the index covers it, so the document it named
\* is exact in the index before and after.
LEMMA ForgetChangesExact ==
    ASSUME TypeOK, RowsFun, IndexInv, NEW part \in SUBSET Ids, CleanCommit(part)
    PROVE  IndexInv'
<1> USE DEF IndexInv
<1> DEFINE gone  == {id \in part : kv.c[id] # 0 /\ kv.c[id] <= task.revision}
           c2    == [id \in Ids |-> IF id \in gone THEN 0 ELSE kv.c[id]]
           s2    == [kv.s EXCEPT !.pending = @ - Cardinality(gone)]
           batch == [c |-> c2, s |-> s2]
<1>1. /\ app = Nothing /\ idx = Nothing /\ app' = batch
      /\ UNCHANGED <<kv, idx, mode>> /\ schemaLock' = "task"
      /\ task.pc = "tidy"
  BY DEF CleanCommit, TaskCommit, LockInv, SchemaFree
<1>2. Outcomes = {kv} /\ Outcomes' = {kv, Apply(kv, batch)}
  <2> HIDE DEF batch
  <2>1. DOMAIN batch \cap DOMAIN idx = {}
    BY <1>1, NothingType
  <2> QED
    BY <1>1, <2>1, AppCommits, FewOutcomes
<1>3. /\ kv.s \in Stats /\ kv.c \in [Ids -> Nat] /\ kv.i \in Status \cup {None}
      /\ task.revision \in Nat
  <2>1. DOMAIN kv = Families /\ RowsOK(kv)
    BY DEF TypeOK
  <2> QED
    BY <2>1, RowTypes DEF TypeOK, TaskOK
<1>4. /\ s2.revision = kv.s.revision /\ kv.s.revision \in Nat
  BY <1>3 DEF Stats
<1>5. \A id \in Ids : \/ c2[id] = kv.c[id]
                      \/ c2[id] = 0 /\ kv.c[id] <= task.revision
  BY <1>1
<1>6. task'.pc = "tidy" /\ task'.gen = task.gen /\ task'.revision = task.revision
  BY <1>1 DEF CleanCommit, TypeOK, TaskOK
<1>7. Exact(Apply(kv, batch))
  <2> DEFINE k2 == Apply(kv, batch)
  <2>1. /\ k2.s = s2 /\ k2.d = kv.d /\ k2.v = kv.v /\ k2.c = c2
        /\ k2.g = kv.g /\ k2.z = kv.z /\ k2.i = kv.i
    BY DEF Apply, Families
  <2>2. \A id : Doc(k2, id) = Doc(kv, id)
    BY Zenon, <2>1 DEF Doc
  <2>3. IndexExact(kv) /\ CleanExact(kv)
    BY <1>2
  <2> HIDE DEF k2, batch, c2, s2, gone
  <2>4. kv.i # None => kv.i.revision \in Nat
    BY <1>3 DEF Status
  <2>5. (~kv.z /\ kv.i # None) => task.revision = kv.i.revision
    BY <2>3, <1>1 DEF CleanExact
  <2>6. \A id \in Ids : (~kv.z /\ kv.i # None /\ c2[id] <= kv.i.revision)
                           => kv.c[id] <= kv.i.revision
    BY <2>5, <1>5
  <2>7. \A id \in Ids : ~kv.z => c2[id] <= kv.s.revision
    BY <2>3, <1>3, <1>4, <1>5 DEF IndexExact
  <2>8. IndexExact(k2)
    BY <2>1, <2>2, <2>3, <2>6, <2>7, <1>4 DEF IndexExact
  <2>9. BuildExact(k2) /\ CleanExact(k2)
    BY <2>1, <2>3, <1>1 DEF BuildExact, CleanExact
  <2> QED
    BY <2>8, <2>9 DEF Exact, k2
<1> HIDE DEF batch, c2, s2, gone
<1>8. \A k \in Outcomes' : Exact(k)'
  BY <1>1, <1>2, <1>6, <1>7 DEF Exact, IndexExact, BuildExact, CleanExact
<1>9. LockInv'
  BY <1>1, <1>6 DEF LockInv
<1> QED
  BY <1>8, <1>9 DEF Exact

\* A batch of the task lands and schema_lock is dropped.
LEMMA TaskDurableExact ==
    ASSUME TypeOK, RowsFun, IndexInv, TaskDurable, task.pc # "stage",
           \/ task' = task /\ task.pc # "erase" /\ schemaLock' = "free"
           \/ task' = Idle /\ schemaLock' = "free"
    PROVE  RowsFun' /\ IndexInv'
<1> USE DEF IndexInv
<1>1. Outcomes' \subseteq Outcomes
  BY AppLands DEF TaskDurable
<1>2. \A k \in Outcomes : Exact(k)'
  <2>1. CASE task' = task
    BY <2>1 DEF Exact, IndexExact, BuildExact, CleanExact
  <2>2. CASE task' = Idle
    BY <2>2, Unconcerned DEF Idle
  <2> QED
    BY <2>1, <2>2
<1>3. LockInv'
  BY DEF LockInv, TaskDurable, Idle
<1>4. RowsFun'
  BY ApplyNothing DEF TaskDurable, RowsFun
<1> QED
  BY <1>1, <1>2, <1>3, <1>4 DEF Exact

LEMMA CleanExactly ==
    ASSUME TypeOK, RowsFun, IndexInv, Clean
    PROVE  RowsFun' /\ IndexInv'
<1>0. LockInv
  BY DEF IndexInv
<1>1. CASE ResumeSnapshot
  <2> USE DEF IndexInv
  <2>1. app = Nothing /\ idx = Nothing /\ schemaLock # "task"
    BY <1>1, <1>0, Quiet DEF ResumeSnapshot
  <2>2. Outcomes = {kv} /\ Outcomes' = {kv}
    BY <1>1, <2>1, FewOutcomes DEF ResumeSnapshot, Outcomes
  <2>3. /\ task'.pc = "scan"
        /\ task'.gen = IF kv.i = None THEN None ELSE kv.i.gen
        /\ task'.revision = IF kv.i = None THEN 0 ELSE kv.i.revision
    BY <1>1 DEF ResumeSnapshot, TypeOK, TaskOK
  <2>4. IndexExact(kv)' /\ BuildExact(kv)' /\ CleanExact(kv)'
    BY <1>1, <2>2, <2>3 DEF ResumeSnapshot, IndexExact, BuildExact, CleanExact
  <2>5. LockInv'
    BY <1>1, <2>1, <2>3 DEF ResumeSnapshot, LockInv
  <2> QED
    BY <1>1, <2>2, <2>4, <2>5 DEF ResumeSnapshot, RowsFun
<1>2. CASE CleanScan
  <2> USE DEF IndexInv
  <2>1. app = Nothing /\ idx = Nothing /\ schemaLock # "task"
    BY <1>2, <1>0, Quiet DEF CleanScan
  <2>2. Outcomes = {kv} /\ Outcomes' = {kv}
    BY <1>2, <2>1, FewOutcomes DEF CleanScan, Outcomes
  <2>3. task'.pc = "tidy" /\ task'.gen = task.gen /\ task'.revision = task.revision
        /\ task.pc = "scan"
    BY <1>2 DEF CleanScan, TypeOK, TaskOK
  <2>4. IndexExact(kv)' /\ BuildExact(kv)' /\ CleanExact(kv)'
    BY <1>2, <2>2, <2>3 DEF CleanScan, IndexExact, BuildExact, CleanExact
  <2>5. LockInv'
    BY <1>2, <2>1, <2>3 DEF CleanScan, LockInv
  <2> QED
    BY <1>2, <2>2, <2>4, <2>5 DEF CleanScan, RowsFun
<1>3. CASE \E part \in SUBSET Retired : RetireCommit(part)
  BY <1>3, RetireExact DEF RetireCommit, IdxCommit, RowsFun
<1>4. CASE RetireDurable
  BY <1>4, IdxDurableExact DEF RetireDurable
<1>5. CASE \E part \in SUBSET Ids : CleanCommit(part)
  BY <1>5, ForgetChangesExact DEF CleanCommit, TaskCommit, RowsFun
<1>6. CASE CleanDurable
  BY <1>6, TaskDurableExact DEF CleanDurable
<1>7. CASE UnmarkCommit
  BY <1>7, MarkExact DEF UnmarkCommit, IdxCommit, RowsFun
<1>8. CASE UnmarkDurable
  BY <1>8, IdxDurableExact DEF UnmarkDurable
<1> QED
  BY <1>1, <1>2, <1>3, <1>4, <1>5, <1>6, <1>7, <1>8 DEF Clean

-----------------------------------------------------------------------------
\* The indexer, deletion, and disruptions.

\* Nothing the invariant reads changes.
LEMMA Untouched ==
    ASSUME RowsFun, IndexInv, UNCHANGED <<kv, app, idx, schemaLock, task>>,
           mode' = "down" => mode = "down"
    PROVE  RowsFun' /\ IndexInv'
<1>1. Outcomes' = Outcomes
  BY DEF Outcomes
<1> QED
  BY <1>1 DEF IndexInv, LockInv, IndexExact, BuildExact, CleanExact, RowsFun

LEMMA IndexerExactly ==
    ASSUME TypeOK, RowsFun, IndexInv, Indexer
    PROVE  RowsFun' /\ IndexInv'
<1>0. LockInv
  BY DEF IndexInv
<1>1. CASE IndexerTick \/ IndexerStats
  BY <1>1, Untouched DEF IndexerTick, IndexerStats
<1>2. CASE IndexerRebuild
  BY <1>2, <1>0, Quiet, GotoPc, TaskMoves DEF IndexerRebuild, Serving
<1>3. CASE IndexerResume
  <2>1. CASE kv.j
    BY <2>1, <1>3, <1>0, Quiet, GotoPc, TaskMoves DEF IndexerResume, Serving
  <2>2. CASE ~kv.j
    BY <2>2, <1>3, Untouched DEF IndexerResume
  <2> QED
    BY <2>1, <2>2
<1> QED
  BY <1>1, <1>2, <1>3 DEF Indexer

LEMMA DeleteExactly ==
    ASSUME TypeOK, RowsFun, IndexInv, DeleteLock \/ IntentCommit \/ IntentDurable
    PROVE  RowsFun' /\ IndexInv'
<1> USE DEF IndexInv
<1>1. CASE DeleteLock
  BY <1>1, Quiet, GotoPc, TaskMoves DEF DeleteLock, Serving
<1>2. CASE IntentCommit
  <2> DEFINE batch == [n |-> None, z |-> TRUE]
  <2>1. /\ app = Nothing /\ idx = Nothing /\ app' = batch
        /\ UNCHANGED <<kv, idx, task, mode>> /\ schemaLock' = "task"
        /\ task.pc = "delete"
    BY <1>2 DEF IntentCommit, TaskCommit, LockInv, SchemaFree
  <2>2. Outcomes = {kv} /\ Outcomes' = {kv, Apply(kv, batch)}
    <3> HIDE DEF batch
    <3>1. DOMAIN batch \cap DOMAIN idx = {}
      BY <2>1, NothingType
    <3> QED
      BY <2>1, <3>1, AppCommits, FewOutcomes
  <2>3. Apply(kv, batch).z = TRUE
    BY DEF Apply, Families
  <2>4. Exact(Apply(kv, batch))
    BY <2>3 DEF Exact, IndexExact, BuildExact, CleanExact
  <2> HIDE DEF batch
  <2>5. \A k \in Outcomes' : Exact(k)'
    BY <2>1, <2>2, <2>4 DEF Exact, IndexExact, BuildExact, CleanExact
  <2>6. LockInv'
    BY <2>1, <2>3 DEF LockInv
  <2> QED
    BY <2>1, <2>5, <2>6 DEF Exact, RowsFun
<1>3. CASE IntentDurable
  <2>1. /\ kv' = Apply(kv, app) /\ app' = Nothing /\ idx' = idx /\ idx = Nothing
        /\ schemaLock' = "task" /\ schemaLock = "task" /\ mode' = mode
        /\ Apply(kv, app).z
    BY <1>3 DEF IntentDurable, TaskDurable, LockInv
  <2>2. task'.pc = "erase"
    BY <1>3, GotoPc DEF IntentDurable
  <2>3. Outcomes' \subseteq Outcomes
    BY <2>1, AppLands
  <2>4. \A k \in Outcomes' : Exact(k)'
    BY <2>2, <2>3, Unconcerned
  <2>5. LockInv'
    BY <2>1, <2>2 DEF LockInv
  <2>6. RowsFun'
    BY <2>1, ApplyNothing DEF RowsFun
  <2> QED
    BY <2>4, <2>5, <2>6 DEF Exact
<1> QED
  BY <1>1, <1>2, <1>3

\* While the intent is durable, nothing is served from the index.
LEMMA EraseCommitExact ==
    ASSUME TypeOK, RowsFun, IndexInv, NEW batch, EraseCommit(batch),
           IndexExact(Apply(kv, batch))
    PROVE  RowsFun' /\ IndexInv'
<1> USE DEF IndexInv
<1>1. /\ app = Nothing /\ idx = Nothing /\ app' = batch
      /\ UNCHANGED <<kv, idx, task, mode, schemaLock>> /\ schemaLock = "task"
      /\ task.pc = "erase"
  BY DEF EraseCommit, LockInv
<1>2. Outcomes = {kv} /\ Outcomes' = {kv, Apply(kv, batch)}
  <2>1. DOMAIN batch \cap DOMAIN idx = {}
    BY <1>1, NothingType
  <2> QED
    BY <1>1, <2>1, AppCommits, FewOutcomes
<1>3. \A k \in Outcomes' : Exact(k)'
  BY <1>1, <1>2, Unconcerned
<1>4. LockInv'
  BY <1>1 DEF LockInv
<1> QED
  BY <1>1, <1>3, <1>4 DEF Exact, RowsFun

LEMMA EraseRowsExact ==
    ASSUME TypeOK, RowsFun, IndexInv, NEW batch, EraseCommit(batch), "z" \notin DOMAIN batch
    PROVE  RowsFun' /\ IndexInv'
<1>1. kv.z
  BY DEF EraseCommit, IndexInv, LockInv
<1>2. Apply(kv, batch).z = kv.z
  BY DEF Apply, Families
<1> QED
  BY <1>1, <1>2, EraseCommitExact DEF IndexExact

LEMMA EraseExactly ==
    ASSUME TypeOK, RowsFun, IndexInv, Erase
    PROVE  RowsFun' /\ IndexInv'
<1>1. CASE \E part \in SUBSET Ids : EraseDocuments(part) \/ EraseVectors(part) \/ EraseChanges(part)
  BY <1>1, EraseRowsExact DEF EraseDocuments, EraseVectors, EraseChanges
<1>2. CASE \E part \in SUBSET Generated(kv) : EraseGenerations(part)
  BY <1>2, EraseRowsExact DEF EraseGenerations
<1>3. CASE EraseDurable
  <2> USE DEF IndexInv
  <2>1. /\ kv' = Apply(kv, app) /\ app' = Nothing /\ idx' = idx /\ idx = Nothing
        /\ UNCHANGED <<schemaLock, task, mode>> /\ "z" \notin DOMAIN app
        /\ schemaLock = "task" /\ kv.z /\ task.pc = "erase"
    BY <1>3 DEF EraseDurable, TaskDurable, LockInv
  <2>2. Outcomes' \subseteq Outcomes
    BY <2>1, AppLands
  <2>3. \A k \in Outcomes' : Exact(k)'
    BY <2>1, <2>2, Unconcerned
  <2>4. kv'.z
    BY <2>1 DEF Apply, Families
  <2>5. LockInv'
    BY <2>1, <2>4 DEF LockInv
  <2>6. RowsFun'
    BY <2>1, ApplyNothing DEF RowsFun
  <2> QED
    BY <2>3, <2>5, <2>6 DEF Exact
<1>4. CASE ForgetCommit
  <2> DEFINE batch == [i |-> None, s |-> NoStats, z |-> FALSE, j |-> FALSE]
  <2>1. EraseCommit(batch) /\ Changed(kv) = {}
    BY <1>4 DEF ForgetCommit
  <2> PICK k2 : k2 = Apply(kv, batch)
    OBVIOUS
  <2>2. k2.i = None /\ k2.s = NoStats /\ k2.c = kv.c
    BY DEF Apply, Families
  <2>3. \A id \in Ids : kv.c[id] = 0
    BY <2>1 DEF Changed
  <2>4. IndexExact(k2)
    BY <2>2, <2>3 DEF IndexExact, NoStats
  <2> HIDE DEF batch
  <2> QED
    BY <2>1, <2>4, EraseCommitExact
<1>5. CASE ForgetDurable
  BY <1>5, TaskDurableExact DEF ForgetDurable
<1> QED
  BY <1>1, <1>2, <1>3, <1>4, <1>5 DEF Erase

LEMMA DisruptionExactly ==
    ASSUME TypeOK, RowsFun, IndexInv,
           TaskError \/ EraseError \/ Crash \/ Close \/ Reopen \/ OpenDone
    PROVE  RowsFun' /\ IndexInv'
<1> USE DEF IndexInv
<1>1. CASE TaskError
  <2>1. task'.pc = "idle" /\ mode' = mode
    BY <1>1 DEF TaskError, Idle
  <2> QED
    BY <1>1, <2>1, TaskMoves DEF TaskError, LockInv
<1>2. CASE EraseError
  <2>1. task'.pc = "idle" /\ schemaLock' = "free" /\ app' = Nothing /\ idx' = Nothing
        /\ UNCHANGED <<kv, app, idx>>
    BY <1>2 DEF EraseError, LockInv, Idle
  <2>2. Outcomes' = Outcomes
    BY <2>1 DEF Outcomes
  <2>3. \A k \in Outcomes' : Exact(k)'
    BY <2>1, <2>2, Unconcerned
  <2>4. LockInv'
    BY <2>1 DEF LockInv
  <2> QED
    BY <2>1, <2>3, <2>4 DEF Exact, RowsFun
<1>3. CASE Crash
  <2>1. /\ kv' \in Outcomes /\ app' = Nothing /\ idx' = Nothing
        /\ schemaLock' = "free" /\ task'.pc = "idle"
    BY <1>3 DEF Crash, Outcomes, Idle
  <2>2. RowsFun'
    <3>1. kv' = Apply(kv', Nothing)
      BY <2>1, ApplyNothing DEF Outcomes, RowsFun
    <3> QED
      BY <3>1 DEF RowsFun
  <2>3. Outcomes' = {kv'}
    BY <2>1, <2>2 DEF Outcomes, RowsFun
  <2>4. \A k \in Outcomes' : Exact(k)'
    BY <2>1, <2>3, Unconcerned
  <2>5. LockInv'
    BY <2>1 DEF LockInv
  <2> QED
    BY <2>2, <2>4, <2>5 DEF Exact
<1>4. CASE Close
  <2>1. idx = Nothing
    BY <1>4, Quiet DEF Close
  <2>2. task'.pc = "idle"
    BY <1>4 DEF Close
  <2> QED
    BY <1>4, <2>1, <2>2, TaskMoves DEF Close, SchemaFree
<1>5. CASE Reopen
  <2>1. idx = Nothing /\ schemaLock = "free" /\ app = Nothing /\ task.pc = "idle"
    BY <1>5 DEF Reopen, LockInv
  <2>2. task'.pc \in {"idle", "erase"} /\ UNCHANGED <<kv, app, idx>> /\ mode' = "opening"
    BY <1>5, <2>1, GotoPc DEF Reopen
  <2>3. Outcomes' = Outcomes
    BY <2>2 DEF Outcomes
  <2>4. \A k \in Outcomes' : Exact(k)'
    BY <2>2, <2>3, Unconcerned
  <2>5. LockInv'
    <3>1. CASE kv.z
      <4>1. task'.pc = "erase" /\ schemaLock' = "task"
        BY <1>5, <3>1, GotoPc DEF Reopen
      <4> QED
        BY <4>1, <3>1, <2>1, <2>2 DEF LockInv
    <3>2. CASE ~kv.z
      <4>1. task'.pc = "idle" /\ schemaLock' = "free"
        BY <1>5, <3>2, <2>1 DEF Reopen
      <4> QED
        BY <4>1, <2>1, <2>2 DEF LockInv
    <3> QED
      BY <3>1, <3>2
  <2> QED
    BY <2>2, <2>4, <2>5 DEF Exact, RowsFun
<1>6. CASE OpenDone
  BY <1>6, Untouched DEF OpenDone
<1> QED
  BY <1>1, <1>2, <1>3, <1>4, <1>5, <1>6

-----------------------------------------------------------------------------
\* The theorems.

LEMMA InitExact == Init => RowsFun /\ IndexInv
<1> SUFFICES ASSUME Init PROVE RowsFun /\ IndexInv
  OBVIOUS
<1>1. RowsFun
  <2>1. DOMAIN kv = Families
    BY DEF Init, EmptyRows, Families
  <2>2. kv = [f \in DOMAIN kv |-> kv[f]]
    BY DEF Init, EmptyRows
  <2>3. Apply(kv, Nothing) = [f \in Families |-> kv[f]]
    BY DEF Apply, Nothing
  <2> QED
    BY <2>1, <2>2, <2>3 DEF RowsFun
<1>2. app = Nothing /\ idx = Nothing /\ Outcomes = {kv}
  BY <1>1, FewOutcomes DEF Init
<1>3. kv.i = None /\ kv.c = NoChanges /\ kv.s = NoStats
  BY DEF Init, EmptyRows
<1>4. IndexExact(kv)
  BY <1>3 DEF IndexExact, NoChanges, NoStats
<1>5. BuildExact(kv) /\ CleanExact(kv)
  BY DEF Init, Idle, BuildExact, CleanExact
<1>6. LockInv
  BY DEF Init, Idle, LockInv
<1> QED
  BY <1>1, <1>2, <1>4, <1>5, <1>6 DEF IndexInv

LEMMA IndexStep ==
    ASSUME TypeOK, RowsFun, IndexInv, [Next]_vars
    PROVE  RowsFun' /\ IndexInv'
<1>1. CASE UNCHANGED vars
  BY <1>1, Untouched DEF vars
<1>2. CASE Next
  BY <1>2, RequestExact, BuildExactly, CleanExactly, IndexerExactly, DeleteExactly,
     EraseExactly, DisruptionExactly DEF Next
<1> QED
  BY <1>1, <1>2

\* IndexInv is an invariant: the published index agrees with the documents up to
\* its watermark after any commit, and whichever batches a crash keeps.
THEOREM IndexInvariant == Spec => []IndexInv
<1>1. Init => TypeOK /\ RowsFun /\ IndexInv
  BY InitType, InitExact
<1>2. TypeOK /\ RowsFun /\ IndexInv /\ [Next]_vars => (RowsFun /\ IndexInv)'
  BY IndexStep
<1> QED
  BY <1>1, <1>2, TypeInvariant, PTL DEF Spec

\* Every query that trusts the index is right to: for each document without a
\* change row above the watermark, the published generation holds its present form.
THEOREM OverlayIsExact == Spec => []OverlayExact
<1>1. IndexInv => OverlayExact
  BY DEF IndexInv, Outcomes, IndexExact, OverlayExact
<1> QED
  BY <1>1, IndexInvariant, PTL

\* The index is published only when complete, and stays complete while published.
THEOREM PublishedIsComplete == Spec => []PublishedGenerationComplete
<1>1. IndexInv => PublishedGenerationComplete
  BY DEF IndexInv, Outcomes, IndexExact, PublishedGenerationComplete
<1> QED
  BY <1>1, IndexInvariant, PTL
=============================================================================
