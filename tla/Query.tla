-------------------------------- MODULE Query --------------------------------
(***************************************************************************)
(* Vector and text queries (src/src/search.rs) over the rows of module     *)
(* Engine.  A query takes one SlateDB snapshot under schema_lock and then  *)
(* makes many reads, each with DurabilityLevel::Remote: a read sees the    *)
(* rows that are in the snapshot AND durable when it happens.  A batch     *)
(* that was handed over before the snapshot and is not durable yet may     *)
(* therefore land between any two reads; what is handed over later is      *)
(* never seen.  So a query is a function of the rows at its snapshot, of   *)
(* the batch in flight then, and of the read before which that batch lands.*)
(***************************************************************************)
EXTENDS Engine

\* The reads of a query, in order.
ReadIndex    == 1
ReadChanges  == 2
ReadFilter   == 3
ReadPostings == 4  \* cluster blocks, or the vectors of selected documents
ReadLengths  == 5  \* text: what the index counted for a changed document
ReadDocument == 6
ReadVector   == 7
Hydrate      == 8
Never        == 9

\* Mutant: the snapshot is taken without schema_lock.
SnapshotUnlocked == Serving

\* snapshot(): schema_lock is held while the snapshot is taken, and no longer.
SnapshotAllowed == Serving /\ SchemaFree

\* The rows each read sees when the batches in flight land before read `landing`.
Views(landing) ==
    [read \in ReadIndex .. Hydrate |->
        IF read < landing THEN kv ELSE Apply(Apply(kv, app), idx)]
Landings == IF app = Nothing /\ idx = Nothing THEN {Never} ELSE ReadIndex .. Never

\* A filter is the set of attribute values it accepts.
Filters == SUBSET Attrs
Matches(filter, attr) == attr \in filter
NoFilter == Attrs

\* Changed documents above the watermark: a query must not trust the index there.
Pending(view, watermark) == {id \in Ids : view.c[id] > watermark}

\* Documents the equality and range rows of a generation select.
FilterIds(view, gen, filter) ==
    {id \in Ids : view.g[gen][id] # None /\ Matches(filter, view.g[gen][id].attr)}

-----------------------------------------------------------------------------
\* vector_query. Every cluster is probed: what fewer probes leave out is the
\* approximation the user asked for.

Hit(id, vec) == [id |-> id, vec |-> vec]

ExactScan(view, filter) ==
    {Hit(id, view[ReadVector].v[id]) : id \in
        {x \in Ids : /\ view[ReadDocument].d[x] # None
                     /\ Matches(filter, view[ReadDocument].d[x])
                     /\ view[ReadVector].v[x] # None}}

\* Few documents pass the filter: score their own vectors.
FilteredExact(view, ids) ==
    {Hit(id, view[ReadPostings].v[id]) : id \in {x \in ids : view[ReadPostings].v[x] # None}}

\* Otherwise score the vectors copied into the cluster blocks.
CentroidAnn(view, gen, ids) ==
    LET block == view[ReadPostings].g[gen]
    IN  {Hit(id, block[id].vec) : id \in
            {x \in ids : block[x] # None /\ block[x].vec # None}}

VectorQuery(view, filter, plan) ==
    LET index    == view[ReadIndex].i
        dirty    == Pending(view[ReadChanges], index.revision)
        selected == IF filter = NoFilter THEN Ids
                    ELSE FilterIds(view[ReadFilter], index.gen, filter)
        overlay  == {hit \in ExactScan(view, filter) : hit.id \in dirty}
    IN  IF plan = "exact_scan" \/ index = None
        THEN ExactScan(view, filter)
        ELSE overlay \cup IF plan = "filtered_exact"
                          THEN FilteredExact(view, selected \ dirty)
                          ELSE CentroidAnn(view, index.gen, selected \ dirty)
\* An unfiltered query has no selected set to scan.
Plans(filter) == {"exact_scan", "centroid_ann"} \cup
                 IF filter = NoFilter THEN {} ELSE {"filtered_exact"}

\* hydrate reads the attributes of each hit; a hit without a document row is
\* reported as a corrupt index, here an attribute of None.
Hydrated(view, hits) ==
    {[id |-> hit.id, vec |-> hit.vec, attr |-> view[Hydrate].d[hit.id]] : hit \in hits}

-----------------------------------------------------------------------------
\* text_query. A term is the set of attribute values it occurs in; `corpus` is
\* the document count BM25 divides by, `rows` the postings of the term.

\* Mutant: the indexed form of a changed document is not subtracted.
CorpusCountsTwice(view, index, dirty) ==
    Cardinality(index.ids) + Cardinality({id \in dirty : view[ReadDocument].d[id] # None})

\* What the index counted, less its changed documents, plus their present form.
Corpus(view, index, dirty) ==
    Cardinality(index.ids)
      - Cardinality({id \in dirty : view[ReadLengths].g[index.gen][id] # None})
      + Cardinality({id \in dirty : view[ReadDocument].d[id] # None})

TextQuery(view, filter, term) ==
    LET index == view[ReadIndex].i
        docs  == view[ReadDocument].d
        found == {id \in Ids : docs[id] # None}
        matching(ids) == {id \in ids : docs[id] \in term}
        eligible(ids) == {id \in ids : Matches(filter, docs[id])}
    IN  IF index = None
        THEN [rows |-> matching(found), corpus |-> Cardinality(found),
              hits |-> matching(found) \cap eligible(found)]
        ELSE
        LET dirty   == Pending(view[ReadChanges], index.revision)
            posted  == {id \in Ids \ dirty : /\ view[ReadPostings].g[index.gen][id] # None
                                             /\ view[ReadPostings].g[index.gen][id].attr \in term}
            passing == FilterIds(view[ReadFilter], index.gen, filter) \ dirty
            fresh   == found \cap dirty
            rows    == posted \cup matching(fresh)
        IN  [rows   |-> rows,
             corpus |-> Corpus(view, index, dirty),
             hits   |-> rows \cap (passing \cup eligible(fresh))]

-----------------------------------------------------------------------------
\* Properties.

\* The documents of the snapshot, by definition of Filter::matches.
Matching(filter) == {id \in Rows(kv.d) : Matches(filter, kv.d[id])}

Queryable == SnapshotAllowed /\ kv.n # None /\ ~kv.z

\* Whatever the builder or the cleaner has in flight, and whenever it lands, a
\* vector query returns the documents and vectors of one durable revision: by
\* scan, by filter or by cluster blocks, and never "index references a missing
\* document". This is what "multi-get queries pin one durable view" promises.
VectorQueryExact == Queryable =>
    \A filter \in Filters, landing \in Landings : \A plan \in Plans(filter) :
        Hydrated(Views(landing), VectorQuery(Views(landing), filter, plan))
            = {[id |-> id, vec |-> kv.v[id], attr |-> kv.d[id]] :
                  id \in {x \in Matching(filter) : kv.v[x] # None}}

\* A text query finds the same documents with and without an index, and scores
\* them with the same corpus: the old rows of changed documents are subtracted
\* exactly once, so the unsigned count cannot wrap.
TextQueryExact == Queryable =>
    \A filter \in Filters, term \in SUBSET Attrs, landing \in Landings :
        TextQuery(Views(landing), filter, term) =
            [rows |-> Matching(term), corpus |-> Cardinality(Rows(kv.d)),
             hits |-> Matching(term) \cap Matching(filter)]
=============================================================================
