------------------------------ MODULE Listing ------------------------------
(***************************************************************************)
(* Listing the namespaces of all shards through a gateway: a client follows*)
(* the cursors, the gateway asks every shard for a page at moments of its  *)
(* own (cluster.rs) and a worker reads it from a snapshot (engine.rs       *)
(* page_iterator, collect_page), while namespaces come and go.             *)
(*                                                                         *)
(* Names are numbers in the order of their bytes; a page is a set of them, *)
(* since it is always sorted.                                              *)
(***************************************************************************)
EXTENDS Integers, Sequences, FiniteSets

CONSTANTS
    Shards,
    Names,      \* namespaces: positive numbers
    Limits,     \* the page sizes clients ask for
    None,       \* no cursor, no page
    MaxChurn    \* bound on creations and deletions during a listing

ASSUME ListingNames ==
    Names \subseteq Nat \ {0} /\ IsFiniteSet(Names) /\ Limits \subseteq Nat \ {0}
ASSUME ListingNone == None \notin Names /\ MaxChurn \in Nat

VARIABLES
    shard,      \* the shard of each name (rendezvous placement)
    names,      \* the names of namespaces that exist
    after,      \* the client's cursor
    limit,      \* the page size of the request in progress, or None
    pages,      \* the pages the shards have answered with
    answers,    \* the pages the client has received
    kept,       \* the names that have existed since the listing began
    ever,       \* the names that have existed at some moment of it
    churn

vars == <<shard, names, after, limit, pages, answers, kept, ever, churn>>

Init ==
    /\ shard \in [Names -> Shards]
    /\ names \in SUBSET Names
    /\ after = 0 /\ limit = None
    /\ pages = [s \in Shards |-> None]
    /\ answers = <<>>
    /\ kept = names /\ ever = names
    /\ churn = 0

-----------------------------------------------------------------------------
(* The smallest k of a set, and its largest.                               *)
First(k, set) == {x \in set : Cardinality({y \in set : y < x}) < k}
Last(set) == CHOOSE x \in set : \A y \in set : y <= x

(* One worker's page.  Mutant: the cursor itself is read again.            *)
RowsFrom(rows, start) == {n \in rows : n >= start}
RowsAfter(rows, start) == {n \in rows : n > start}

Page(rows, start, k) ==
    LET found == RowsAfter(rows, start)
    IN  [items |-> First(k, found), more |-> Cardinality(found) > k]

(* The gateway's page: all items, sorted and cut to the limit.  Mutants:   *)
(* there is more only if a shard says so; there is more after any name.    *)
MoreOfShards(all, k) == \E s \in Shards : pages[s].more
MoreAfterAny(all, k) == all # {}
MoreAfter(all, k) == Cardinality(all) > k \/ \E s \in Shards : pages[s].more

Asking == limit # None
Done == answers # <<>> /\ ~answers[Len(answers)].more

(* The client asks for the first page or for what follows its cursor.      *)
Ask(k) ==
    /\ ~Asking /\ ~Done
    /\ limit' = k
    /\ UNCHANGED <<shard, names, after, pages, answers, kept, ever, churn>>

Fetch(s) ==
    /\ Asking /\ pages[s] = None
    /\ pages' = [pages EXCEPT ![s] = Page({n \in names : shard[n] = s}, after, limit)]
    /\ UNCHANGED <<shard, names, after, limit, answers, kept, ever, churn>>

Merge ==
    LET all == UNION {pages[s].items : s \in Shards}
        items == First(limit, all)
        more == MoreAfter(all, limit)
    IN  /\ Asking /\ \A s \in Shards : pages[s] # None
        /\ answers' = Append(answers, [items |-> items, more |-> more, limit |-> limit])
        /\ after' = IF more THEN Last(items) ELSE after
        /\ limit' = None
        /\ pages' = [s \in Shards |-> None]
        /\ UNCHANGED <<shard, names, kept, ever, churn>>

(* Other clients create and delete namespaces.                             *)
Change(n) ==
    /\ ~Done /\ churn < MaxChurn
    /\ churn' = churn + 1
    /\ names' = (names \ {n}) \cup ({n} \ names)
    /\ kept' = kept \ {n} /\ ever' = ever \cup {n}
    /\ UNCHANGED <<shard, after, limit, pages, answers>>

Next ==
    \/ \E k \in Limits : Ask(k)
    \/ \E s \in Shards : Fetch(s)
    \/ Merge
    \/ \E n \in Names : Change(n)

Spec == Init /\ [][Next]_vars

-----------------------------------------------------------------------------
(* Properties.                                                             *)

Listed == UNION {answers[i].items : i \in DOMAIN answers}

(* Type correctness, and that a shard answers with names of its own, no    *)
(* more than were asked for.                                               *)
PageType == [items : SUBSET Names, more : BOOLEAN]
AnswerType == [items : SUBSET Names, more : BOOLEAN, limit : Limits]
TypeOK ==
    /\ shard \in [Names -> Shards]
    /\ kept \subseteq names /\ names \subseteq ever /\ ever \subseteq Names
    /\ after \in Names \cup {0}
    /\ limit \in Limits \cup {None}
    /\ pages \in [Shards -> PageType \cup {None}]
    /\ answers \in Seq(AnswerType)
    /\ \A s \in Shards : pages[s] # None =>
          /\ pages[s].items \subseteq {n \in ever : shard[n] = s}
          /\ Cardinality(pages[s].items) <= limit

(* Every page lists names above all names of the pages before it, so that  *)
(* no name is listed twice (engine.rs:825-836).                            *)
PagesAscend ==
    \A i, j \in DOMAIN answers : i < j =>
        \A m \in answers[i].items, n \in answers[j].items : m < n

(* A cursor skips no name that has existed since the listing began: what   *)
(* lies at or below it is listed, and in the end everything is; nothing is *)
(* listed that never existed (cluster.rs:450-458).                         *)
NoneSkipped ==
    /\ {n \in kept : Done \/ n <= after} \subseteq Listed
    /\ Listed \subseteq ever

(* A page that is not the last is full, as a page of a single worker is    *)
(* (cluster.rs:448-453, engine.rs:838-855).                                *)
PagesAreFull ==
    \A i \in DOMAIN answers :
        answers[i].more => Cardinality(answers[i].items) = answers[i].limit
=============================================================================
