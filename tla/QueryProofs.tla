----------------------------- MODULE QueryProofs -----------------------------
(***************************************************************************)
(* Queries answer from one durable revision, for every value of the        *)
(* constants: VectorQueryExact and TextQueryExact of module Query follow   *)
(* from IndexInv, because a snapshot taken under schema_lock finds no      *)
(* batch in flight but index rows, and the published index is exact before *)
(* and after those land.                                                   *)
(***************************************************************************)
EXTENDS Query, EngineStoreProofs

USE NoneAssumption, DocumentsAssumption, IdsAssumption, BoundsAssumption

-----------------------------------------------------------------------------
\* What the reads of a query see.

\* The rows of the snapshot, and an index that is exact for them.
Pinned(k) ==
    /\ k.d = kv.d /\ k.v = kv.v /\ k.c = kv.c /\ k.i = kv.i
    /\ kv.i # None =>
          /\ {id \in Ids : k.g[kv.i.gen][id] # None} = kv.i.ids
          /\ \A id \in Ids : kv.c[id] <= kv.i.revision => k.g[kv.i.gen][id] = Doc(kv, id)

\* No read of a query sees more than what is pinned, whenever a batch lands.
LEMMA ViewsPinned ==
    ASSUME TypeOK, IndexInv, Queryable, NEW landing, NEW read \in ReadIndex .. Hydrate
    PROVE  Pinned(Views(landing)[read])
<1> PICK l : l = Apply(Apply(kv, app), idx)
  OBVIOUS
<1>1. LockInv /\ ~kv.z /\ IndexExact(kv) /\ IndexExact(l)
  BY DEF IndexInv, Outcomes, Queryable
<1>2. app = Nothing /\ DOMAIN idx \subseteq {"g", "j"}
  BY <1>1 DEF LockInv, TypeOK, Queryable, SnapshotAllowed, SchemaFree
<1>3. l.d = kv.d /\ l.v = kv.v /\ l.c = kv.c /\ l.i = kv.i /\ l.z = kv.z
  BY <1>2 DEF Apply, Families, Nothing
<1>4. \A id : Doc(l, id) = Doc(kv, id)
  BY <1>3 DEF Doc
<1>5. Pinned(l) /\ Pinned(kv)
  BY <1>1, <1>3, <1>4 DEF Pinned, IndexExact
<1>6. Views(landing)[read] = IF read < landing THEN kv ELSE l
  BY DEF Views
<1> QED
  BY <1>5, <1>6

\* The documents of well-formed rows, taken apart.
LEMMA DocParts ==
    ASSUME TypeOK, NEW id \in Ids
    PROVE  /\ Doc(kv, id) = None <=> kv.d[id] = None
           /\ Doc(kv, id) # None => Doc(kv, id).attr = kv.d[id] /\ Doc(kv, id).vec = kv.v[id]
           /\ kv.d[id] # None => kv.d[id] \in Attrs
<1>1. kv.d \in [Ids -> Attrs \cup {None}] /\ kv.v \in [Ids -> Vecs \cup {None}]
  BY RowTypes DEF TypeOK
<1>2. [attr |-> kv.d[id], vec |-> kv.v[id]] \in [attr : Attrs, vec : Vecs \cup {None}]
        \/ kv.d[id] = None
  BY <1>1
<1> QED
  BY <1>1, <1>2 DEF Doc

-----------------------------------------------------------------------------
\* Vector queries.

Scored(filter) == {x \in Matching(filter) : kv.v[x] # None}

LEMMA ScanExact ==
    ASSUME NEW view, NEW filter, Pinned(view[ReadDocument]), Pinned(view[ReadVector])
    PROVE  ExactScan(view, filter) = {Hit(id, kv.v[id]) : id \in Scored(filter)}
<1>1. view[ReadDocument].d = kv.d /\ view[ReadVector].v = kv.v
  BY DEF Pinned
<1>2. {x \in Ids : /\ view[ReadDocument].d[x] # None
                   /\ Matches(filter, view[ReadDocument].d[x])
                   /\ view[ReadVector].v[x] # None} = Scored(filter)
  BY <1>1 DEF Scored, Matching, Rows
<1> QED
  BY <1>1, <1>2 DEF ExactScan

\* What the index selects for a filter, but for changed documents.
LEMMA SelectedExact ==
    ASSUME TypeOK, NEW k, Pinned(k), kv.i # None, NEW filter, NEW x \in Ids,
           kv.c[x] <= kv.i.revision
    PROVE  x \in FilterIds(k, kv.i.gen, filter) <=> x \in Matching(filter)
<1>1. k.g[kv.i.gen][x] = Doc(kv, x)
  BY DEF Pinned
<1> QED
  BY <1>1, DocParts DEF FilterIds, Matching, Rows

LEMMA VectorHits ==
    ASSUME TypeOK, NEW view, \A read \in ReadIndex .. Hydrate : Pinned(view[read]),
           NEW filter \in Filters, NEW plan \in Plans(filter)
    PROVE  VectorQuery(view, filter, plan) = {Hit(id, kv.v[id]) : id \in Scored(filter)}
<1> DEFINE hits == {Hit(id, kv.v[id]) : id \in Scored(filter)}
<1>0. /\ Pinned(view[ReadIndex]) /\ Pinned(view[ReadChanges]) /\ Pinned(view[ReadFilter])
      /\ Pinned(view[ReadPostings]) /\ Pinned(view[ReadDocument]) /\ Pinned(view[ReadVector])
  BY DEF ReadIndex, ReadChanges, ReadFilter, ReadPostings, ReadDocument, ReadVector, Hydrate
<1>1. view[ReadIndex].i = kv.i /\ view[ReadChanges].c = kv.c
      /\ ExactScan(view, filter) = hits
  <2>1. view[ReadIndex].i = kv.i /\ view[ReadChanges].c = kv.c
    BY <1>0 DEF Pinned
  <2>2. ExactScan(view, filter) = hits
    <3> HIDE DEF hits
    <3>1. ExactScan(view, filter) = {Hit(id, kv.v[id]) : id \in Scored(filter)}
      BY <1>0, ScanExact
    <3> QED
      BY <3>1 DEF hits
  <2> QED
    BY <2>1, <2>2
<1>2. CASE plan = "exact_scan" \/ kv.i = None
  BY <1>1, <1>2 DEF VectorQuery
<1>3. CASE plan # "exact_scan" /\ kv.i # None
  <2> DEFINE dirty == Pending(view[ReadChanges], kv.i.revision)
             selected == IF filter = NoFilter THEN Ids
                         ELSE FilterIds(view[ReadFilter], kv.i.gen, filter)
             overlay == {hit \in hits : hit.id \in dirty}
             rest == IF plan = "filtered_exact"
                     THEN FilteredExact(view, selected \ dirty)
                     ELSE CentroidAnn(view, kv.i.gen, selected \ dirty)
  <2>1. VectorQuery(view, filter, plan) = overlay \cup rest
    BY <1>1, <1>3 DEF VectorQuery
  <2>2. overlay = {Hit(id, kv.v[id]) : id \in Scored(filter) \cap dirty}
    BY DEF Hit
  <2>3. \A x \in Ids : x \notin dirty => kv.c[x] <= kv.i.revision
    <3>1. kv.c \in [Ids -> Nat] /\ kv.i.revision \in Nat
      BY <1>3, RowTypes DEF TypeOK, Status
    <3> QED
      BY <1>1, <3>1 DEF Pending
  <2>4. rest = {Hit(id, kv.v[id]) : id \in Scored(filter) \ dirty}
    <3>1. CASE plan = "filtered_exact"
      <4>1. filter # NoFilter
        BY <3>1 DEF Plans
      <4>2. \A x \in Ids \ dirty : x \in selected <=> x \in Matching(filter)
        BY <1>0, <1>3, <2>3, <4>1, SelectedExact
      <4>3. {x \in selected \ dirty : kv.v[x] # None} = Scored(filter) \ dirty
        BY <4>1, <4>2 DEF Scored, Matching, Rows, FilterIds
      <4> HIDE DEF selected, dirty, rest, overlay, hits
      <4>4. view[ReadPostings].v = kv.v
        BY <1>0 DEF Pinned
      <4> QED
        BY <3>1, <4>3, <4>4 DEF FilteredExact, rest
    <3>2. CASE plan # "filtered_exact"
      <4> DEFINE block == view[ReadPostings].g[kv.i.gen]
      <4>1. \A x \in Ids \ dirty : block[x] = Doc(kv, x)
        BY <1>0, <1>3, <2>3 DEF Pinned
      <4>2. ASSUME NEW x \in Ids \ dirty, block[x] # None
            PROVE  x \in selected <=> x \in Matching(filter)
        <5>1. CASE filter = NoFilter
          BY <4>1, <4>2, <5>1, DocParts DEF NoFilter, Matching, Matches, Rows
        <5>2. CASE filter # NoFilter
          BY <1>0, <1>3, <2>3, <5>2, SelectedExact
        <5> QED
          BY <5>1, <5>2
      <4>3. \A x \in Ids \ dirty : x \in Matching(filter) => block[x] # None
        BY <4>1, DocParts DEF Matching, Rows
      <4>4. \A x \in Ids \ dirty : block[x] # None => block[x].vec = kv.v[x]
        BY <4>1, DocParts
      <4>5. selected \subseteq Ids /\ Matching(filter) \subseteq Ids
        BY DEF FilterIds, Matching, Rows
      <4>6. {x \in selected \ dirty : block[x] # None /\ block[x].vec # None}
              = Scored(filter) \ dirty
        BY <4>2, <4>3, <4>4, <4>5 DEF Scored
      <4>7. \A x \in Scored(filter) \ dirty : block[x].vec = kv.v[x]
        BY <4>3, <4>4, <4>5 DEF Scored
      <4>8. rest = {Hit(x, block[x].vec) :
                       x \in {x \in selected \ dirty : block[x] # None /\ block[x].vec # None}}
        BY <3>2 DEF CentroidAnn
      <4> HIDE DEF block, selected, dirty, rest
      <4> QED
        BY <4>6, <4>7, <4>8
    <3> QED
      BY <3>1, <3>2
  <2> HIDE DEF rest, dirty
  <2> QED
    BY <2>1, <2>2, <2>4
<1> QED
  BY <1>1, <1>2, <1>3

LEMMA AllPinned ==
    ASSUME TypeOK, IndexInv, Queryable, NEW landing
    PROVE  \A read \in ReadIndex .. Hydrate : Pinned(Views(landing)[read])
  BY ViewsPinned

LEMMA VectorExact ==
    ASSUME TypeOK, IndexInv
    PROVE  VectorQueryExact
<1> SUFFICES ASSUME Queryable, NEW filter \in Filters, NEW landing \in Landings,
                    NEW plan \in Plans(filter)
             PROVE  Hydrated(Views(landing), VectorQuery(Views(landing), filter, plan))
                      = {[id |-> id, vec |-> kv.v[id], attr |-> kv.d[id]] :
                            id \in {x \in Matching(filter) : kv.v[x] # None}}
  BY DEF VectorQueryExact
<1> PICK view : view = Views(landing)
  OBVIOUS
<1>1. VectorQuery(view, filter, plan) = {Hit(id, kv.v[id]) : id \in Scored(filter)}
  BY AllPinned, VectorHits
<1>2. view[Hydrate].d = kv.d
  <2>1. Pinned(view[Hydrate])
    <3>1. Hydrate \in ReadIndex .. Hydrate
      BY DEF ReadIndex, Hydrate
    <3> QED
      BY <3>1, AllPinned
  <2> QED
    BY <2>1 DEF Pinned
<1>3. Hydrated(view, {Hit(id, kv.v[id]) : id \in Scored(filter)})
        = {[id |-> id, vec |-> kv.v[id], attr |-> kv.d[id]] : id \in Scored(filter)}
  <2> DEFINE full(hit) == [id |-> hit.id, vec |-> hit.vec, attr |-> view[Hydrate].d[hit.id]]
             answer(id) == [id |-> id, vec |-> kv.v[id], attr |-> kv.d[id]]
  <2>1. \A id : full(Hit(id, kv.v[id])) = answer(id)
    BY <1>2 DEF Hit
  <2>2. Hydrated(view, {Hit(id, kv.v[id]) : id \in Scored(filter)})
          = {full(hit) : hit \in {Hit(id, kv.v[id]) : id \in Scored(filter)}}
    BY DEF Hydrated
  <2> HIDE DEF full, answer
  <2>3. {full(hit) : hit \in {Hit(id, kv.v[id]) : id \in Scored(filter)}}
          = {answer(id) : id \in Scored(filter)}
    BY <2>1
  <2> QED
    BY <2>2, <2>3 DEF answer
<1> QED
  BY <1>1, <1>3 DEF Scored

\* Vector queries are exact in every reachable state, by scan, by filter and by
\* cluster blocks, whatever lands between their reads.
THEOREM VectorQueriesAreExact == Spec => []VectorQueryExact
<1>1. TypeOK /\ IndexInv => VectorQueryExact
  BY VectorExact
<1> QED
  BY <1>1, TypeInvariant, IndexInvariant, PTL

-----------------------------------------------------------------------------
\* Text queries.

\* The documents above the watermark leave the corpus in their indexed form and
\* enter it in their present form.
LEMMA CorpusExact ==
    ASSUME TypeOK, NEW view, \A read \in ReadIndex .. Hydrate : Pinned(view[read]),
           kv.i # None
    PROVE  Corpus(view, kv.i, Pending(kv, kv.i.revision)) = Cardinality(Rows(kv.d))
<1> DEFINE dirty == Pending(kv, kv.i.revision)
           old   == {id \in dirty : view[ReadLengths].g[kv.i.gen][id] # None}
           new   == {id \in dirty : view[ReadDocument].d[id] # None}
<1>1. Pinned(view[ReadLengths]) /\ Pinned(view[ReadDocument])
  BY DEF ReadIndex, ReadLengths, ReadDocument, Hydrate
<1>2. kv.c \in [Ids -> Nat] /\ kv.i.revision \in Nat
  BY RowTypes DEF TypeOK, Status
<1>3. \A x \in Ids : x \notin dirty =>
        (view[ReadLengths].g[kv.i.gen][x] # None <=> kv.d[x] # None)
  BY <1>1, <1>2, DocParts DEF Pending, Pinned
<1>4. /\ kv.i.ids = {id \in Ids : view[ReadLengths].g[kv.i.gen][id] # None}
      /\ view[ReadDocument].d = kv.d
  BY <1>1 DEF Pinned
<1>5. Replaces(Rows(kv.d), kv.i.ids, old, new)
  BY <1>3, <1>4 DEF Replaces, Rows, Pending
<1> HIDE DEF old, new
<1>6. Cardinality(Rows(kv.d)) = Cardinality(kv.i.ids) - Cardinality(old) + Cardinality(new)
  BY <1>5, CountReplaced
<1> QED
  BY <1>6 DEF Corpus, old, new

LEMMA TextRows ==
    ASSUME TypeOK, NEW view, \A read \in ReadIndex .. Hydrate : Pinned(view[read]),
           NEW filter \in Filters, NEW term \in SUBSET Attrs
    PROVE  TextQuery(view, filter, term) =
             [rows |-> Matching(term), corpus |-> Cardinality(Rows(kv.d)),
              hits |-> Matching(term) \cap Matching(filter)]
<1>0. /\ Pinned(view[ReadIndex]) /\ Pinned(view[ReadChanges]) /\ Pinned(view[ReadFilter])
      /\ Pinned(view[ReadPostings]) /\ Pinned(view[ReadDocument])
  BY DEF ReadIndex, ReadChanges, ReadFilter, ReadPostings, ReadDocument, Hydrate
<1>1. view[ReadIndex].i = kv.i /\ view[ReadChanges].c = kv.c /\ view[ReadDocument].d = kv.d
  BY <1>0 DEF Pinned
<1> DEFINE found == {id \in Ids : kv.d[id] # None}
           matching(ids) == {id \in ids : kv.d[id] \in term}
           eligible(ids) == {id \in ids : Matches(filter, kv.d[id])}
<1>2. found = Rows(kv.d) /\ matching(found) = Matching(term) /\ eligible(found) = Matching(filter)
  BY DEF Rows, Matching, Matches
<1>3. CASE kv.i = None
  BY Zenon, <1>1, <1>2, <1>3 DEF TextQuery
<1>4. CASE kv.i # None
  <2> DEFINE dirty   == Pending(kv, kv.i.revision)
             block   == view[ReadPostings].g[kv.i.gen]
             posted  == {id \in Ids \ dirty : block[id] # None /\ block[id].attr \in term}
             passing == FilterIds(view[ReadFilter], kv.i.gen, filter) \ dirty
             fresh   == found \cap dirty
             rows    == posted \cup matching(fresh)
  <2>1. Pending(view[ReadChanges], kv.i.revision) = dirty
    BY <1>1 DEF Pending
  <2>2. TextQuery(view, filter, term) =
          [rows |-> rows, corpus |-> Corpus(view, kv.i, dirty),
           hits |-> rows \cap (passing \cup eligible(fresh))]
    BY <1>1, <1>4, <2>1 DEF TextQuery
  <2>3. \A x \in Ids : x \notin dirty => kv.c[x] <= kv.i.revision
    <3>1. kv.c \in [Ids -> Nat] /\ kv.i.revision \in Nat
      BY <1>4, RowTypes DEF TypeOK, Status
    <3> QED
      BY <3>1 DEF Pending
  <2>4. \A x \in Ids \ dirty : block[x] = Doc(kv, x)
    BY <1>0, <1>4, <2>3 DEF Pinned
  <2>5. posted = Matching(term) \ dirty
    BY <2>4, DocParts DEF Matching, Matches, Rows
  <2>6. passing = Matching(filter) \ dirty
    <3>1. \A x \in Ids \ dirty :
            x \in FilterIds(view[ReadFilter], kv.i.gen, filter) <=> x \in Matching(filter)
      BY <1>0, <1>4, <2>3, SelectedExact
    <3> QED
      BY <3>1 DEF FilterIds, Matching, Rows
  <2>7. matching(fresh) = Matching(term) \cap dirty /\ eligible(fresh) = Matching(filter) \cap dirty
    BY <1>2
  <2>8. rows = Matching(term) /\ passing \cup eligible(fresh) = Matching(filter)
    BY <2>5, <2>6, <2>7
  <2>9. Corpus(view, kv.i, dirty) = Cardinality(Rows(kv.d))
    BY <1>4, CorpusExact
  <2> HIDE DEF rows, passing, eligible, fresh, dirty
  <2> QED
    BY <2>2, <2>8, <2>9
<1> QED
  BY <1>3, <1>4

\* Text queries find and score the same documents with and without an index, and
\* their corpus never wraps.
THEOREM TextQueriesAreExact == Spec => []TextQueryExact
<1>1. TypeOK /\ IndexInv => TextQueryExact
  BY AllPinned, TextRows DEF TextQueryExact
<1> QED
  BY <1>1, TypeInvariant, IndexInvariant, PTL

\* The same of an engine that was opened on rows it did not write: a restored or
\* migrated database, or what a crash left.
THEOREM OpenedQueriesAreExact == OpenSpec => []VectorQueryExact /\ []TextQueryExact
<1>1. TypeOK /\ IndexInv => VectorQueryExact /\ TextQueryExact
  BY VectorExact, AllPinned, TextRows DEF TextQueryExact
<1> QED
  BY <1>1, OpenedStaysSafe, PTL
=============================================================================
