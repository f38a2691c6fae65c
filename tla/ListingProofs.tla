--------------------------- MODULE ListingProofs ---------------------------
(***************************************************************************)
(* Theorems about module Listing, for any shards, names, page sizes and    *)
(* number of changes: a listing that follows the cursors of merged pages   *)
(* skips nothing, repeats nothing and fills its pages.                     *)
(***************************************************************************)
EXTENDS Listing, FiniteSetTheorems, WellFoundedInduction, TLAPS

USE ListingNames

-----------------------------------------------------------------------------
\* Lemmas about sets of names, and the k smallest of one.

\* Sets of names are finite, and smaller ones have no more elements.
LEMMA Finite ==
    ASSUME NEW S \in SUBSET Names
    PROVE  /\ IsFiniteSet(S) /\ Cardinality(S) \in Nat
           /\ \A T \in SUBSET S : Cardinality(T) \in Nat /\ Cardinality(T) <= Cardinality(S)
  BY FS_Subset, FS_CardinalityType

\* A set of names has more elements than a part of it without one of them.
LEMMA Smaller ==
    ASSUME NEW S \in SUBSET Names, NEW T \in SUBSET S, NEW x \in S \ T
    PROVE  Cardinality(T) < Cardinality(S)
<1>1. IsFiniteSet(S) /\ Cardinality(T) \in Nat /\ Cardinality(S) \in Nat
  BY Finite
<1>2. Cardinality(T) <= Cardinality(S) /\ Cardinality(T) # Cardinality(S)
  BY <1>1, FS_Subset
<1> QED
  BY <1>1, <1>2

\* A nonempty set of numbers has a smallest.
LEMMA Smallest ==
    ASSUME NEW T \in SUBSET Nat, T # {}
    PROVE  \E x \in T : \A y \in T : x <= y
<1>1. PICK x \in T : \A y \in T : ~(<<y, x>> \in OpToRel(<, Nat))
  BY WFMin, NatLessThanWellFounded
<1>2. \A y \in T : ~(y < x)
  BY <1>1 DEF OpToRel
<1> QED
  BY <1>2

\* A nonempty set of names has a largest: the one with the most below it.
LEMMA Largest ==
    ASSUME NEW S \in SUBSET Names, S # {}
    PROVE  Last(S) \in S /\ \A y \in S : y <= Last(S)
<1> DEFINE Below(x) == {y \in S : y < x}
           Above == {Cardinality(S) - Cardinality(Below(x)) : x \in S}
<1>1. \A x \in S : Cardinality(Below(x)) \in Nat /\ Cardinality(Below(x)) <= Cardinality(S)
  BY Finite
<1>2. Above \in SUBSET Nat /\ Above # {}
  <2>1. \A x \in S : Cardinality(S) - Cardinality(Below(x)) \in Nat
    <3> HIDE DEF Below
    <3> QED
      BY <1>1, Finite
  <2> HIDE DEF Below
  <2> QED
    BY <2>1
<1>3. PICK a \in Above : \A b \in Above : a <= b
  BY <1>2, Smallest
<1>4. PICK x \in S : a = Cardinality(S) - Cardinality(Below(x))
  BY <1>3
<1>5. ASSUME NEW y \in S PROVE y <= x
  <2>1. SUFFICES ASSUME x < y PROVE FALSE
    BY <1>5
  <2>2. Below(x) \in SUBSET Below(y) /\ x \in Below(y) \ Below(x) /\ Below(y) \in SUBSET Names
    <3>1. \A z \in S : z \in Nat
      OBVIOUS
    <3>2. \A z \in S : z < x => z < y
      BY <3>1, <2>1
    <3>3. ~(x < x)
      BY <3>1
    <3> QED
      BY <3>2, <3>3, <2>1
  <2>3. Cardinality(Below(x)) < Cardinality(Below(y))
    BY <2>2, Smaller
  <2>4. Cardinality(S) - Cardinality(Below(x)) <= Cardinality(S) - Cardinality(Below(y))
    BY <1>3, <1>4
  <2> HIDE DEF Below
  <2> QED
    BY <2>3, <2>4, <1>1, Finite
<1> QED
  BY <1>5 DEF Last

\* What is not among the first k of a set lies above them, and they are at
\* least k.
LEMMA FirstFull ==
    ASSUME NEW S \in SUBSET Names, NEW k \in Nat, NEW n \in S \ First(k, S)
    PROVE  /\ \A x \in First(k, S) : x < n
           /\ Cardinality(First(k, S)) >= k
           /\ Cardinality(S) > k
<1> DEFINE Below(x) == {y \in S : y < x}
           Rest == S \ First(k, S)
<1>1. \A x \in S : Below(x) \in SUBSET Names /\ Cardinality(Below(x)) \in Nat
  BY Finite
<1>2. \A x \in S : x \in First(k, S) <=> Cardinality(Below(x)) < k
  BY DEF First
<1>3. ASSUME NEW x \in First(k, S), NEW m \in Rest PROVE x < m
  <2>1. SUFFICES ASSUME m <= x PROVE FALSE
    BY <1>3 DEF First
  <2>2. Below(m) \in SUBSET Below(x) /\ x \in S
    <3>1. \A z \in S : z \in Nat
      OBVIOUS
    <3>2. x \in S /\ m \in S
      BY <1>3 DEF First
    <3>3. \A z \in S : z < m => z < x
      BY <3>1, <3>2, <2>1
    <3> QED
      BY <3>2, <3>3
  <2>3. Cardinality(Below(m)) <= Cardinality(Below(x))
    BY <2>2, <1>1, Finite
  <2> HIDE DEF Below
  <2> QED
    BY <2>2, <2>3, <1>1, <1>2, <1>3
<1>4. PICK m \in Rest : \A y \in Rest : m <= y
  <2>1. Rest \in SUBSET Nat /\ Rest # {}
    OBVIOUS
  <2> QED
    BY <2>1, Smallest
<1>5. Below(m) \in SUBSET First(k, S)
  <2>1. \A z \in S : z \in Nat
    OBVIOUS
  <2>2. \A z \in S : z < m => z \in First(k, S)
    BY <2>1, <1>4
  <2> QED
    BY <2>2
<1>6. Cardinality(Below(m)) >= k
  BY <1>1, <1>2, <1>4
<1>7. First(k, S) \in SUBSET S
  BY DEF First
<1>8. Cardinality(First(k, S)) >= k
  <2>1. Cardinality(Below(m)) <= Cardinality(First(k, S)) /\ Cardinality(First(k, S)) \in Nat
    BY <1>5, <1>7, Finite
  <2> HIDE DEF Below
  <2> QED
    BY <2>1, <1>6, <1>1
<1>9. Cardinality(S) > k
  <2>1. Cardinality(First(k, S)) < Cardinality(S)
    BY <1>7, Smaller
  <2> QED
    BY <2>1, <1>8, <1>7, Finite
<1> QED
  BY <1>3, <1>8, <1>9

\* The first k of a set are k, or all of a smaller set.
LEMMA FirstCount ==
    ASSUME NEW S \in SUBSET Names, NEW k \in Nat
    PROVE  /\ First(k, S) \in SUBSET S
           /\ Cardinality(First(k, S)) \in Nat /\ Cardinality(First(k, S)) <= k
           /\ Cardinality(S) >= k => Cardinality(First(k, S)) = k
           /\ Cardinality(S) <= k => First(k, S) = S
<1> DEFINE F == First(k, S)
<1>1. F \in SUBSET S
  BY DEF First
<1>2. Cardinality(F) \in Nat /\ Cardinality(S) \in Nat
  BY <1>1, Finite
<1>3. Cardinality(F) <= k
  <2>1. CASE F = {}
    BY <2>1, FS_EmptySet
  <2>2. CASE F # {}
    <3> DEFINE m == Last(F)
               B == {y \in S : y < m}
    <3>1. m \in F /\ \A y \in F : y <= m
      BY <2>2, <1>1, Largest
    <3>2. F \in SUBSET (B \cup {m})
      <4>1. \A y \in F : y \in S /\ y \in Nat /\ m \in Nat
        BY <3>1, <1>1
      <4>2. \A y \in F : y < m \/ y = m
        BY <4>1, <3>1
      <4> QED
        BY <4>1, <4>2
    <3>3. Cardinality(B) < k
      BY <3>1 DEF First
    <3>4. IsFiniteSet(B) /\ Cardinality(B) \in Nat
      <4>1. B \in SUBSET Names
        OBVIOUS
      <4> QED
        BY <4>1, Finite
    <3>5. IsFiniteSet(B \cup {m}) /\ Cardinality(B \cup {m}) <= Cardinality(B) + 1
      <4>1. m \notin B
        <5>1. m \in Nat
          BY <3>1, <1>1
        <5>2. ~(m < m)
          BY <5>1
        <5> QED
          BY <5>2
      <4> HIDE DEF B, m
      <4>2. /\ IsFiniteSet(B \cup {m})
            /\ Cardinality(B \cup {m}) =
                  IF m \in B THEN Cardinality(B) ELSE Cardinality(B) + 1
        BY <3>4, FS_AddElement
      <4> QED
        BY <3>4, <4>1, <4>2
    <3>6. Cardinality(F) <= Cardinality(B \cup {m}) /\ Cardinality(B \cup {m}) \in Nat
      BY <3>2, <3>5, FS_Subset, FS_CardinalityType
    <3> HIDE DEF F, B, m
    <3> QED
      BY <3>3, <3>4, <3>5, <3>6, <1>2
  <2> QED
    BY <2>1, <2>2
<1>4. ASSUME F # S PROVE Cardinality(F) >= k /\ Cardinality(S) > k
  <2>1. PICK n \in S : n \notin F
    BY <1>1, <1>4
  <2> QED
    BY <2>1, FirstFull
<1> HIDE DEF F
<1>5. Cardinality(S) >= k => Cardinality(F) = k
  BY <1>2, <1>3, <1>4
<1>6. Cardinality(S) <= k => F = S
  BY <1>2, <1>4
<1> QED
  BY <1>1, <1>2, <1>3, <1>5, <1>6 DEF F
-----------------------------------------------------------------------------
\* The inductive invariant.

\* What a shard answered: names above the cursor, and all of its names there
\* that have existed since the listing began, or else a full page below them.
PageOK(s) ==
    LET page == pages[s]
    IN  /\ limit # None
        /\ page.items \subseteq {n \in ever : shard[n] = s /\ n > after}
        /\ Cardinality(page.items) <= limit
        /\ page.more => Cardinality(page.items) = limit
        /\ \A n \in kept : shard[n] = s /\ n > after /\ n \notin page.items =>
              page.more /\ \A m \in page.items : m < n

\* What the client has: everything up to its cursor, and nothing above it
\* unless the listing has ended.
ClientOK ==
    /\ Asking => ~Done
    /\ NoneSkipped
    /\ Done \/ \A n \in Listed : n <= after

Inv ==
    /\ TypeOK
    /\ \A s \in Shards : pages[s] # None => PageOK(s)
    /\ ClientOK
    /\ PagesAscend
    /\ PagesAreFull

\* A listing begins with nothing asked and nothing answered.
LEMMA InitInv == Init => Inv
<1> SUFFICES ASSUME Init PROVE Inv
  OBVIOUS
<1>1. TypeOK
  BY DEF Init, TypeOK
<1>2. Listed = {} /\ ~Done /\ ~Asking
  BY DEF Init, Listed, Done, Asking
<1>3. {n \in kept : Done \/ n <= after} = {}
  <2>1. \A n \in kept : n \in Nat \ {0} /\ after = 0
    BY DEF Init
  <2> QED
    BY <2>1, <1>2
<1>4. ClientOK
  BY <1>2, <1>3 DEF ClientOK, NoneSkipped
<1> QED
  BY <1>1, <1>4 DEF Init, Inv, PagesAscend, PagesAreFull

\* The definitions about the client that only read `answers`.
LEMMA SameAnswers ==
    ASSUME answers' = answers
    PROVE  Listed' = Listed /\ Done' = Done /\ (PagesAscend => PagesAscend')
           /\ (PagesAreFull => PagesAreFull')
  BY DEF Listed, Done, PagesAscend, PagesAreFull

LEMMA AskInv == ASSUME Inv, NEW k \in Limits, Ask(k) PROVE Inv'
<1>1. limit = None /\ ~Done /\ \A s \in Shards : pages[s] = None
  BY DEF Ask, Asking, Inv, PageOK
<1>2. TypeOK'
  BY <1>1 DEF Ask, Inv, TypeOK
<1>3. ClientOK'
  BY <1>1, SameAnswers DEF Ask, Inv, ClientOK, NoneSkipped
<1> QED
  BY <1>1, <1>2, <1>3, SameAnswers DEF Ask, Inv

\* The page of a shard: a snapshot of its names above the cursor, cut to the
\* limit, has all of them or is full and lies below the others.
LEMMA FetchInv == ASSUME Inv, NEW s \in Shards, Fetch(s) PROVE Inv'
<1> DEFINE found == RowsAfter({n \in names : shard[n] = s}, after)
<1>1. /\ TypeOK
      /\ limit \in Limits /\ limit \in Nat \ {0} /\ limit # None
      /\ found \in SUBSET Names /\ Cardinality(found) \in Nat
      /\ after \in Nat
  <2>1. TypeOK /\ limit \in Limits /\ limit # None
    BY DEF Inv, TypeOK, Fetch, Asking
  <2>2. found \in SUBSET Names
    BY <2>1 DEF TypeOK, RowsAfter
  <2>3. Cardinality(found) \in Nat
    BY <2>2, Finite
  <2>4. limit \in Nat \ {0}
    BY <2>1
  <2>5. after \in Nat
    BY <2>1 DEF TypeOK
  <2> HIDE DEF found
  <2> QED
    BY <2>1, <2>2, <2>3, <2>4, <2>5
<1>2. /\ pages' = [pages EXCEPT ![s] = pages'[s]]
      /\ pages'[s] = [items |-> First(limit, found), more |-> Cardinality(found) > limit]
      /\ UNCHANGED <<shard, names, after, limit, answers, kept, ever, churn>>
  BY <1>1 DEF Fetch, Page, TypeOK
<1>3. /\ First(limit, found) \in SUBSET found
      /\ Cardinality(First(limit, found)) <= limit
      /\ Cardinality(found) > limit => Cardinality(First(limit, found)) = limit
  <2> HIDE DEF found
  <2>1. limit \in Nat
    BY <1>1
  <2>2. /\ First(limit, found) \in SUBSET found
        /\ Cardinality(First(limit, found)) <= limit
        /\ Cardinality(found) >= limit => Cardinality(First(limit, found)) = limit
    BY <1>1, <2>1, FirstCount
  <2> QED
    BY <2>2, <1>1, <2>1
<1>4. \A n \in found \ First(limit, found) :
          Cardinality(found) > limit /\ \A m \in First(limit, found) : m < n
  <2> HIDE DEF found
  <2> QED
    BY <1>1, FirstFull
<1>5. found \subseteq {n \in ever : shard[n] = s /\ n > after}
  BY <1>1 DEF TypeOK, RowsAfter
<1>6. \A n \in kept : shard[n] = s /\ n > after => n \in found
  BY <1>1 DEF TypeOK, RowsAfter
<1> HIDE DEF found
<1>7. PageOK(s)'
  <2>1. pages'[s].items = First(limit, found) /\ pages'[s].more = (Cardinality(found) > limit)
    BY <1>2
  <2>2. pages'[s].items \subseteq {n \in ever : shard[n] = s /\ n > after}
    BY <2>1, <1>3, <1>5
  <2>3. Cardinality(pages'[s].items) <= limit
    BY <2>1, <1>3
  <2>4. pages'[s].more => Cardinality(pages'[s].items) = limit
    BY <2>1, <1>3
  <2>5. \A n \in kept : shard[n] = s /\ n > after /\ n \notin pages'[s].items =>
            pages'[s].more /\ \A m \in pages'[s].items : m < n
    BY <2>1, <1>4, <1>6
  <2> QED
    BY <1>1, <1>2, <2>2, <2>3, <2>4, <2>5 DEF PageOK
<1>8. \A t \in Shards : pages'[t] # None => PageOK(t)'
  BY <1>1, <1>2, <1>7 DEF PageOK, Inv, TypeOK
<1>9. TypeOK'
  <2>1. pages'[s] \in PageType
    <3>1. First(limit, found) \in SUBSET Names
      BY <1>1, <1>3
    <3>2. (Cardinality(found) > limit) \in BOOLEAN
      OBVIOUS
    <3> QED
      BY <1>2, <3>1, <3>2 DEF PageType
  <2>2. pages' \in [Shards -> PageType \cup {None}]
    BY <1>1, <1>2, <2>1 DEF TypeOK
  <2>3. \A t \in Shards : pages'[t] # None =>
            /\ pages'[t].items \subseteq {n \in ever : shard[n] = t}
            /\ Cardinality(pages'[t].items) <= limit
    BY <1>8, <1>2 DEF PageOK
  <2> QED
    BY <1>1, <1>2, <2>2, <2>3 DEF TypeOK
<1>10. ClientOK'
  BY <1>2, SameAnswers DEF Inv, ClientOK, NoneSkipped, Asking
<1> QED
  BY <1>2, <1>8, <1>9, <1>10, SameAnswers DEF Inv

\* Names that come and go change no page and no answer.
LEMMA ChangeInv == ASSUME Inv, NEW n \in Names, Change(n) PROVE Inv'
<1>1. /\ kept' \subseteq kept /\ ever \subseteq ever'
      /\ UNCHANGED <<shard, after, limit, pages, answers>>
  BY DEF Change
<1>2. TypeOK'
  <2>1. kept' \subseteq names' /\ names' \subseteq ever' /\ ever' \subseteq Names
    BY DEF Inv, TypeOK, Change
  <2> QED
    BY <1>1, <2>1 DEF Inv, TypeOK
<1>3. \A s \in Shards : pages'[s] # None => PageOK(s)'
  BY <1>1 DEF Inv, PageOK
<1>4. ClientOK'
  BY <1>1, SameAnswers DEF Inv, ClientOK, NoneSkipped, Asking
<1> QED
  BY <1>1, <1>2, <1>3, <1>4, SameAnswers DEF Inv

\* The page of the gateway: what the shards have answered, cut to the limit. A
\* name that is left out lies above it, and the page is full if more follows.
LEMMA MergedPage ==
    ASSUME Inv, Merge,
           NEW all, all = UNION {pages[s].items : s \in Shards}
    PROVE  /\ limit \in Limits /\ limit \in Nat \ {0}
           /\ all \in SUBSET {n \in ever : n > after} /\ all \in SUBSET Names
           /\ First(limit, all) \in SUBSET all
           /\ MoreAfter(all, limit) => Cardinality(First(limit, all)) = limit
           /\ \A n \in kept : n > after /\ n \notin First(limit, all) =>
                 MoreAfter(all, limit) /\ \A m \in First(limit, all) : m < n
<1> DEFINE items == First(limit, all)
<1>1. /\ TypeOK /\ limit \in Limits /\ limit \in Nat \ {0} /\ limit \in Nat
      /\ \A s \in Shards : pages[s] \in PageType /\ PageOK(s)
  <2>1. TypeOK /\ limit \in Limits
    BY DEF Inv, TypeOK, Merge, Asking
  <2>2. \A s \in Shards : pages[s] \in PageType /\ PageOK(s)
    BY DEF Inv, TypeOK, Merge
  <2> QED
    BY <2>1, <2>2
<1>2. all \in SUBSET {n \in ever : n > after}
  BY <1>1 DEF PageOK
<1>3. /\ all \in SUBSET Names
      /\ \A s \in Shards : pages[s].items \in SUBSET all
  BY <1>1 DEF PageType
<1>4. /\ items \in SUBSET all /\ Cardinality(items) \in Nat
      /\ Cardinality(all) >= limit => Cardinality(items) = limit
  BY <1>1, <1>3, FirstCount
<1>5. \A s \in Shards : pages[s].more => Cardinality(all) >= limit
  <2> TAKE s \in Shards
  <2>1. Cardinality(pages[s].items) <= Cardinality(all) /\ Cardinality(all) \in Nat
        /\ Cardinality(pages[s].items) \in Nat
    BY <1>3, Finite
  <2> QED
    BY <2>1, <1>1 DEF PageOK
<1>6. MoreAfter(all, limit) => Cardinality(items) = limit
  <2>1. Cardinality(all) \in Nat
    BY <1>3, Finite
  <2>2. MoreAfter(all, limit) => Cardinality(all) >= limit
    <3>1. CASE Cardinality(all) > limit
      BY <2>1, <1>1, <3>1
    <3>2. CASE \E s \in Shards : pages[s].more
      BY <1>5, <3>2
    <3> QED
      BY <3>1, <3>2 DEF MoreAfter
  <2> QED
    BY <2>2, <1>4
<1>7. ASSUME NEW n \in kept, n > after, n \notin items
      PROVE  MoreAfter(all, limit) /\ \A m \in items : m < n
  <2>1. CASE n \in all
    <3>1. Cardinality(all) > limit /\ \A m \in items : m < n
      BY <2>1, <1>1, <1>3, <1>7, FirstFull
    <3> QED
      BY <3>1 DEF MoreAfter
  <2>2. CASE n \notin all
    <3> DEFINE t == shard[n]
    <3>1. t \in Shards /\ n \notin pages[t].items /\ n \in Names
      BY <2>2, <1>1, <1>3 DEF TypeOK
    <3>2. /\ pages[t].more /\ \A m \in pages[t].items : m < n
          /\ Cardinality(pages[t].items) = limit
      BY <1>1, <1>7, <3>1 DEF PageOK
    <3>3. ASSUME NEW m \in items PROVE m < n
      <4> DEFINE below == {y \in all : y < m}
      <4>1. SUFFICES ASSUME n <= m PROVE FALSE
        <5>1. m \in Nat /\ n \in Nat
          BY <3>1, <1>3, <1>4
        <5> QED
          BY <5>1
      <4>2. below \in SUBSET Names /\ Cardinality(below) < limit
        BY <1>3 DEF First
      <4>3. pages[t].items \in SUBSET below
        <5>1. \A y \in all : y \in Nat
          BY <1>3
        <5>2. m \in Nat /\ n \in Nat
          BY <3>1, <1>3, <1>4
        <5>3. \A y \in all : y < n => y < m
          BY <5>1, <5>2, <4>1
        <5> QED
          BY <5>3, <3>1, <3>2, <1>3
      <4>4. Cardinality(pages[t].items) <= Cardinality(below) /\ Cardinality(below) \in Nat
        BY <4>2, <4>3, Finite
      <4> HIDE DEF below, t
      <4> QED
        BY <4>2, <4>4, <3>2, <1>1
    <3> QED
      BY <3>1, <3>2, <3>3 DEF MoreAfter
  <2> QED
    BY <2>1, <2>2
<1> QED
  BY <1>1, <1>2, <1>3, <1>4, <1>6, <1>7

LEMMA MergeInv == ASSUME Inv, Merge PROVE Inv'
<1> DEFINE all == UNION {pages[s].items : s \in Shards}
           items == First(limit, all)
           more == MoreAfter(all, limit)
           answer == [items |-> items, more |-> more, limit |-> limit]
<1>1. /\ limit \in Limits /\ limit \in Nat \ {0}
      /\ all \in SUBSET {n \in ever : n > after} /\ all \in SUBSET Names
      /\ items \in SUBSET all
      /\ more => Cardinality(items) = limit
      /\ \A n \in kept : n > after /\ n \notin items => more /\ \A m \in items : m < n
  BY MergedPage
<1>2. /\ TypeOK /\ ~Done /\ limit # None
  BY DEF Inv, ClientOK, Merge, Asking
<1>3. /\ answers' = Append(answers, answer)
      /\ after' = IF more THEN Last(items) ELSE after
      /\ limit' = None
      /\ pages' = [s \in Shards |-> None]
      /\ UNCHANGED <<shard, names, kept, ever, churn>>
  BY DEF Merge
<1>4. answers \in Seq(AnswerType) /\ answer \in AnswerType
  <2>1. more \in BOOLEAN
    BY DEF MoreAfter
  <2>2. items \in SUBSET Names
    BY <1>1
  <2> HIDE DEF items, more
  <2> QED
    BY <2>1, <2>2, <1>1, <1>2 DEF TypeOK, AnswerType
<1> HIDE DEF all, items, more
<1>5. /\ DOMAIN answers' = DOMAIN answers \cup {Len(answers) + 1}
      /\ DOMAIN answers = 1 .. Len(answers) /\ Len(answers) \in Nat
      /\ Len(answers') = Len(answers) + 1
      /\ \A i \in DOMAIN answers : answers'[i] = answers[i]
      /\ answers'[Len(answers) + 1] = answer
  BY <1>3, <1>4
<1>6. Listed' = Listed \cup items
  BY <1>5 DEF Listed
<1>7. Done' <=> ~more
  <2>1. answers' # <<>> /\ answers'[Len(answers')] = answer
    BY <1>3, <1>4, <1>5
  <2> QED
    BY <2>1 DEF Done
<1>8. more => Last(items) \in items /\ \A n \in items : n <= Last(items)
  <2>1. items \in SUBSET Names
    BY <1>1
  <2>2. more => items # {}
    BY <1>1, FS_EmptySet
  <2> QED
    BY <2>1, <2>2, Largest
<1>9. after \in Nat /\ after' \in Names \cup {0} /\ (more => after' \in items /\ after < after')
  <2>1. after \in Names \cup {0}
    BY <1>2 DEF TypeOK
  <2>2. after \in Nat
    BY <2>1
  <2>3. more => after' \in items /\ after' \in Names /\ after < after'
    BY <1>1, <1>3, <1>8
  <2>4. ~more => after' = after
    BY <1>3
  <2> QED
    BY <2>1, <2>2, <2>3, <2>4
<1>10. TypeOK'
  <2>1. answers' \in Seq(AnswerType)
    BY <1>3, <1>4
  <2>2. pages' \in [Shards -> PageType \cup {None}] /\ \A s \in Shards : pages'[s] = None
    BY <1>3
  <2> QED
    BY <1>2, <1>3, <1>9, <2>1, <2>2 DEF TypeOK
<1>11. \A n \in Listed : n <= after
  BY <1>2 DEF Inv, ClientOK
<1>12. PagesAscend'
  <2> SUFFICES ASSUME NEW i \in DOMAIN answers', NEW j \in DOMAIN answers', i < j,
                      NEW m \in answers'[i].items, NEW n \in answers'[j].items
               PROVE  m < n
    BY DEF PagesAscend
  <2>1. i \in DOMAIN answers
    BY <1>5
  <2>2. CASE j \in DOMAIN answers
    BY <2>1, <2>2, <1>5 DEF Inv, PagesAscend
  <2>3. CASE j = Len(answers) + 1
    <3>1. m \in Listed /\ m \in Names
      <4>1. answers[i] \in AnswerType /\ m \in answers[i].items
        BY <2>1, <1>4, <1>5
      <4> QED
        BY <2>1, <4>1 DEF Listed, AnswerType
    <3>2. n > after /\ n \in Names
      <4>1. n \in items
        BY <2>3, <1>5
      <4> QED
        BY <4>1, <1>1
    <3> QED
      BY <3>1, <3>2, <1>9, <1>11
  <2> QED
    BY <2>2, <2>3, <1>5
<1>13. PagesAreFull'
  BY <1>1, <1>5 DEF Inv, PagesAreFull
<1>14. ClientOK'
  <2>1. ~Asking'
    BY <1>3 DEF Asking
  <2>2. Listed' \subseteq ever'
    BY <1>1, <1>3, <1>6 DEF Inv, ClientOK, NoneSkipped
  <2>3. ASSUME NEW n \in kept, Done' \/ n <= after'
        PROVE  n \in Listed'
    <3>1. n \in Nat
      BY <1>2 DEF TypeOK
    <3>2. CASE n <= after
      BY <3>2, <1>6 DEF Inv, ClientOK, NoneSkipped
    <3>3. CASE n > after /\ n \notin items
      <4>1. more /\ \A m \in items : m < n
        BY <3>3, <1>1
      <4>2. after' < n /\ n <= after'
        BY <4>1, <2>3, <1>7, <1>9
      <4> QED
        BY <4>2, <3>1, <1>9
    <3> QED
      BY <3>1, <3>2, <3>3, <1>6, <1>9
  <2>4. Done' \/ \A n \in Listed' : n <= after'
    <3> SUFFICES ASSUME more, NEW n \in Listed' PROVE n <= after'
      BY <1>7
    <3>1. CASE n \in items
      BY <3>1, <1>3, <1>8
    <3>2. CASE n \in Listed
      <4>1. n \in Nat
        BY <3>2, <1>2 DEF Inv, ClientOK, NoneSkipped, TypeOK
      <4> QED
        BY <3>2, <4>1, <1>9, <1>11
    <3> QED
      BY <3>1, <3>2, <1>6
  <2> QED
    BY <2>1, <2>2, <2>3, <2>4, <1>3 DEF ClientOK, NoneSkipped
<1> QED
  BY <1>3, <1>10, <1>12, <1>13, <1>14 DEF Inv

LEMMA Invariance == Spec => []Inv
<1>1. Inv /\ [Next]_vars => Inv'
  <2> SUFFICES ASSUME Inv, [Next]_vars PROVE Inv'
    OBVIOUS
  <2>1. CASE UNCHANGED vars
    BY <2>1 DEF vars, Inv, TypeOK, PageOK, ClientOK, NoneSkipped, Asking, Done, Listed,
                PagesAscend, PagesAreFull
  <2>2. CASE Next
    BY <2>2, AskInv, FetchInv, MergeInv, ChangeInv DEF Next
  <2> QED
    BY <2>1, <2>2
<1> QED
  BY InitInv, <1>1, PTL DEF Spec

-----------------------------------------------------------------------------
\* The theorems.

\* Every reachable state of a listing is well typed; a shard answers with at
\* most as many of its own names as it was asked for.
THEOREM ListingType == Spec => []TypeOK
<1>1. Inv => TypeOK
  BY DEF Inv
<1> QED
  BY <1>1, Invariance, PTL

\* Pages ascend: no name is listed twice, however names come and go meanwhile.
THEOREM ListingAscends == Spec => []PagesAscend
<1>1. Inv => PagesAscend
  BY DEF Inv
<1> QED
  BY <1>1, Invariance, PTL

\* The merged cursor skips no name of any shard that existed all along.
THEOREM ListingSkipsNone == Spec => []NoneSkipped
<1>1. Inv => NoneSkipped
  BY DEF Inv, ClientOK
<1> QED
  BY <1>1, Invariance, PTL

\* Every page but the last is full.
THEOREM ListingPagesFull == Spec => []PagesAreFull
<1>1. Inv => PagesAreFull
  BY DEF Inv
<1> QED
  BY <1>1, Invariance, PTL
=============================================================================
