--------------------------- MODULE AdmissionProofs ---------------------------
(***************************************************************************)
(* Theorems about module Admission, for any requests, mixes of kinds and   *)
(* numbers of permits: permits bound the work, no snapshot is taken while a*)
(* commit is in flight, and the database is closed when nothing uses it.   *)
(***************************************************************************)
EXTENDS Admission, FiniteSetTheorems, SequenceTheorems, TLAPS

USE AdmissionParties, AdmissionLimits

-----------------------------------------------------------------------------
\* Queues: nobody is in one twice, and the first in it holds the mutex.

Everyone == Parties \cup {Closer}
First(s, p) == s # <<>> /\ Head(s) = p
Once(s) == \A i, j \in DOMAIN s : s[i] = s[j] => i = j

LEMMA FirstQueued ==
    ASSUME NEW s \in Seq(Everyone), NEW p, First(s, p)
    PROVE  s[1] = p /\ 1 \in DOMAIN s /\ Queued(s, p)
<1>1. Len(s) >= 1 /\ DOMAIN s = 1 .. Len(s) /\ Head(s) = s[1]
  BY DEF First
<1> QED
  BY <1>1 DEF First, Queued

LEMMA QueueAppend ==
    ASSUME NEW s \in Seq(Everyone), Once(s), NEW p \in Everyone, ~Queued(s, p)
    PROVE  /\ Append(s, p) \in Seq(Everyone) /\ Once(Append(s, p))
           /\ \A q : Queued(Append(s, p), q) <=> Queued(s, q) \/ q = p
           /\ \A q : First(s, q) => First(Append(s, p), q)
<1> DEFINE t == Append(s, p)
<1>1. /\ t \in Seq(Everyone) /\ Len(t) = Len(s) + 1 /\ Len(s) \in Nat
      /\ DOMAIN t = 1 .. Len(s) + 1 /\ DOMAIN s = 1 .. Len(s)
      /\ t[Len(s) + 1] = p /\ \A i \in DOMAIN s : t[i] = s[i]
  OBVIOUS
<1> HIDE DEF t
<1>2. Once(t)
  BY <1>1 DEF Once, Queued
<1>3. ASSUME NEW q PROVE Queued(t, q) <=> Queued(s, q) \/ q = p
  BY <1>1 DEF Queued
<1>4. ASSUME NEW q, First(s, q) PROVE First(t, q)
  <2>1. Len(s) >= 1 /\ s[1] = q
    BY <1>4, FirstQueued
  <2>2. t # <<>> /\ Head(t) = t[1]
    BY <1>1
  <2> QED
    BY <1>1, <2>1, <2>2 DEF First
<1> QED
  BY <1>1, <1>2, <1>3, <1>4 DEF t

LEMMA QueueTail ==
    ASSUME NEW s \in Seq(Everyone), Once(s), NEW p, First(s, p)
    PROVE  /\ Tail(s) \in Seq(Everyone) /\ Once(Tail(s))
           /\ \A q : Queued(Tail(s), q) <=> Queued(s, q) /\ q # p
<1> DEFINE t == Tail(s)
<1>1. /\ s # <<>> /\ t \in Seq(Everyone) /\ Len(t) = Len(s) - 1 /\ Len(s) \in Nat /\ Len(s) >= 1
      /\ DOMAIN t = 1 .. Len(s) - 1 /\ DOMAIN s = 1 .. Len(s) /\ s[1] = p
      /\ \A i \in DOMAIN t : t[i] = s[i + 1]
  BY DEF First
<1> HIDE DEF t
<1>2. Once(t)
  <2>1. ASSUME NEW i \in DOMAIN t, NEW j \in DOMAIN t, t[i] = t[j] PROVE i = j
    <3>1. i \in Int /\ j \in Int /\ i + 1 \in DOMAIN s /\ j + 1 \in DOMAIN s
      BY <1>1
    <3>2. s[i + 1] = s[j + 1]
      BY <1>1, <2>1
    <3>3. i + 1 = j + 1
      BY <3>1, <3>2 DEF Once
    <3> QED
      BY <3>1, <3>3
  <2> QED
    BY <2>1 DEF Once
<1>3. ASSUME NEW q PROVE Queued(t, q) <=> Queued(s, q) /\ q # p
  <2>1. ASSUME NEW i \in DOMAIN s, s[i] = q, q # p PROVE Queued(t, q)
    <3>1. i - 1 \in DOMAIN t /\ t[i - 1] = s[i]
      BY <1>1, <2>1
    <3> QED
      BY <2>1, <3>1 DEF Queued
  <2>2. ASSUME NEW i \in DOMAIN t, t[i] = q PROVE Queued(s, q) /\ q # p
    <3>1. i + 1 \in DOMAIN s /\ i + 1 # 1 /\ s[i + 1] = q /\ 1 \in DOMAIN s
      BY <1>1, <2>2
    <3> QED
      BY <1>1, <3>1 DEF Queued, Once
  <2> QED
    BY <2>1, <2>2 DEF Queued
<1> QED
  BY <1>1, <1>2, <1>3 DEF t

\* Where the elements after the cut were.
LEMMA Shifted ==
    ASSUME NEW n \in Nat, NEW at \in 1 .. n, NEW i \in 1 .. n - 1
    PROVE  /\ i < at => i \in 1 .. n /\ i # at
           /\ ~(i < at) => i + 1 \in 1 .. n /\ i + 1 # at
  OBVIOUS

\* A sequence without the element at one place.
LEMMA CutOut ==
    ASSUME NEW s \in Seq(Everyone), NEW n \in Nat, Len(s) = n, NEW at \in 1 .. n
    PROVE  LET t == SubSeq(s, 1, at - 1) \o SubSeq(s, at + 1, Len(s))
           IN  /\ t \in Seq(Everyone) /\ Len(t) = n - 1
               /\ \A i \in 1 .. n - 1 : t[i] = IF i < at THEN s[i] ELSE s[i + 1]
<1> DEFINE u == SubSeq(s, 1, at - 1)
           v == SubSeq(s, at + 1, n)
<1>1. \A i \in 1 .. n : s[i] \in Everyone
  OBVIOUS
<1>2. u \in Seq(Everyone) /\ Len(u) = at - 1 /\ \A i \in 1 .. at - 1 : u[i] = s[i]
  <2>1. 1 \in Int /\ at - 1 \in Int /\ \A i \in 1 .. at - 1 : s[i] \in Everyone
    BY <1>1
  <2>2. /\ u \in Seq(Everyone) /\ Len(u) = IF 1 <= at - 1 THEN at - 1 - 1 + 1 ELSE 0
        /\ \A i \in 1 .. at - 1 - 1 + 1 : u[i] = s[1 + i - 1]
    BY <2>1, SubSeqProperties
  <2> HIDE DEF u
  <2>3. at - 1 - 1 + 1 = at - 1 /\ (~(1 <= at - 1) => at - 1 = 0)
    OBVIOUS
  <2>4. \A i \in 1 .. at - 1 : 1 + i - 1 = i
    OBVIOUS
  <2> QED
    BY <2>2, <2>3, <2>4
<1>3. v \in Seq(Everyone) /\ Len(v) = n - at /\ \A i \in 1 .. n - at : v[i] = s[at + i]
  <2>1. at + 1 \in Int /\ n \in Int /\ \A i \in at + 1 .. n : s[i] \in Everyone
    BY <1>1
  <2>2. /\ v \in Seq(Everyone) /\ Len(v) = IF at + 1 <= n THEN n - (at + 1) + 1 ELSE 0
        /\ \A i \in 1 .. n - (at + 1) + 1 : v[i] = s[at + 1 + i - 1]
    BY <2>1, SubSeqProperties
  <2> HIDE DEF v
  <2>3. n - (at + 1) + 1 = n - at /\ (~(at + 1 <= n) => n - at = 0)
    OBVIOUS
  <2>4. \A i \in 1 .. n - at : at + 1 + i - 1 = at + i
    OBVIOUS
  <2> QED
    BY <2>2, <2>3, <2>4
<1> HIDE DEF u, v
<1>4. /\ u \o v \in Seq(Everyone) /\ Len(u \o v) = Len(u) + Len(v)
      /\ \A i \in 1 .. Len(u) + Len(v) :
            (u \o v)[i] = IF i <= Len(u) THEN u[i] ELSE v[i - Len(u)]
  <2>1. u \in Seq(Everyone) /\ v \in Seq(Everyone)
    BY <1>2, <1>3
  <2> QED
    BY ONLY <2>1, ConcatProperties
<1>5. Len(u) + Len(v) = n - 1 /\ Len(u) = at - 1
  BY <1>2, <1>3
<1>6. ASSUME NEW i \in 1 .. n - 1
      PROVE  (u \o v)[i] = IF i < at THEN s[i] ELSE s[i + 1]
  <2>1. (u \o v)[i] = IF i <= at - 1 THEN u[i] ELSE v[i - (at - 1)]
    BY <1>4, <1>5
  <2>2. CASE i < at
    <3>1. i <= at - 1 /\ i \in 1 .. at - 1
      BY <2>2
    <3> QED
      BY <1>2, <2>1, <2>2, <3>1
  <2>3. CASE ~(i < at)
    <3>1. ~(i <= at - 1) /\ i - (at - 1) \in 1 .. n - at /\ at + (i - (at - 1)) = i + 1
      BY <2>3
    <3>2. v[i - (at - 1)] = s[at + (i - (at - 1))]
      BY <1>3, <3>1
    <3> QED
      BY <2>1, <2>3, <3>1, <3>2
  <2> QED
    BY <2>2, <2>3
<1> QED
  BY <1>4, <1>5, <1>6 DEF u, v

LEMMA QueueRemoved ==
    ASSUME NEW s \in Seq(Everyone), Once(s), NEW p
    PROVE  /\ Removed(s, p) \in Seq(Everyone) /\ Once(Removed(s, p))
           /\ \A q : Queued(Removed(s, p), q) <=> Queued(s, q) /\ q # p
           /\ \A q : First(s, q) /\ q # p => First(Removed(s, p), q)
<1>1. CASE ~Queued(s, p)
  BY <1>1 DEF Removed, Queued
<1>2. CASE Queued(s, p)
  <2> PICK n \in Nat : n = Len(s)
    OBVIOUS
  <2> PICK at \in 1 .. n : at = CHOOSE i \in DOMAIN s : s[i] = p
    BY <1>2 DEF Queued
  <2> DEFINE t == SubSeq(s, 1, at - 1) \o SubSeq(s, at + 1, Len(s))
  <2>1. s[at] = p /\ DOMAIN s = 1 .. n
    BY <1>2 DEF Queued
  <2>2. Removed(s, p) = t
    BY <1>2 DEF Removed
  <2>3. /\ t \in Seq(Everyone) /\ Len(t) = n - 1 /\ DOMAIN t = 1 .. n - 1
        /\ \A i \in DOMAIN t : t[i] = IF i < at THEN s[i] ELSE s[i + 1]
    <3>1. /\ t \in Seq(Everyone) /\ Len(t) = n - 1
          /\ \A i \in 1 .. n - 1 : t[i] = IF i < at THEN s[i] ELSE s[i + 1]
      BY Zenon, CutOut
    <3> HIDE DEF t
    <3> QED
      BY <3>1
  <2> HIDE DEF t
  <2>a. ASSUME NEW i \in DOMAIN t
        PROVE  \E k \in DOMAIN s : t[i] = s[k] /\ k # at /\ k = IF i < at THEN i ELSE i + 1
    <3>1. i \in 1 .. n - 1
      BY <2>3
    <3>2. CASE i < at
      BY <2>1, <2>3, <3>1, <3>2, Shifted
    <3>3. CASE ~(i < at)
      <4>1. i + 1 \in 1 .. n /\ i + 1 # at
        BY <3>1, <3>3, Shifted
      <4> QED
        BY <2>1, <2>3, <3>3, <4>1
    <3> QED
      BY <3>2, <3>3
  <2>4. Once(t)
    <3> SUFFICES ASSUME NEW i \in DOMAIN t, NEW j \in DOMAIN t, t[i] = t[j] PROVE i = j
      BY DEF Once
    <3>1. PICK k \in DOMAIN s : t[i] = s[k] /\ k # at /\ k = IF i < at THEN i ELSE i + 1
      BY <2>a
    <3>2. PICK l \in DOMAIN s : t[j] = s[l] /\ l # at /\ l = IF j < at THEN j ELSE j + 1
      BY <2>a
    <3>3. k = l
      BY <3>1, <3>2 DEF Once
    <3>4. i \in Int /\ j \in Int
      BY <2>3
    <3> QED
      BY <3>1, <3>2, <3>3, <3>4
  <2>5. ASSUME NEW q PROVE Queued(t, q) <=> Queued(s, q) /\ q # p
    <3>1. ASSUME NEW i \in DOMAIN s, s[i] = q, q # p PROVE Queued(t, q)
      <4>1. CASE i < at
        BY <2>1, <2>3, <3>1, <4>1 DEF Queued
      <4>2. CASE i > at
        <5>1. i - 1 \in DOMAIN t /\ t[i - 1] = s[i]
          <6>1. i - 1 \in 1 .. n - 1 /\ ~(i - 1 < at) /\ i - 1 + 1 = i
            BY <2>1, <3>1, <4>2
          <6> QED
            BY <2>3, <6>1
        <5> QED
          BY <3>1, <5>1 DEF Queued
      <4> QED
        BY <2>1, <3>1, <4>1, <4>2
    <3>2. ASSUME NEW i \in DOMAIN t, t[i] = q PROVE Queued(s, q) /\ q # p
      <4>1. PICK j \in DOMAIN s : j # at /\ s[j] = q
        BY <2>a, <3>2
      <4> QED
        BY <2>1, <4>1 DEF Queued, Once
    <3> QED
      BY <3>1, <3>2 DEF Queued
  <2>6. ASSUME NEW q, First(s, q), q # p PROVE First(t, q)
    <3>1. s[1] = q /\ 1 \in DOMAIN s
      BY <2>6, FirstQueued
    <3>2. 1 < at /\ 1 \in DOMAIN t /\ t[1] = q
      BY <2>1, <2>3, <2>6, <3>1
    <3>3. t # <<>> /\ Head(t) = t[1]
      BY <2>3, <3>2
    <3> QED
      BY <3>2, <3>3 DEF First
  <2> QED
    BY <2>2, <2>3, <2>4, <2>5, <2>6
<1> QED
  BY <1>1, <1>2

-----------------------------------------------------------------------------
\* Handlers, their tasks, and their places in the two queues.

\* What a handler and its task may be doing, by the kind of request.
JobOK(k, c, j) ==
    /\ k \in {"read", "query", "export", "write", "rebuild", "delete"}
    /\ c \in {"idle", "index", "schema", "reading", "awaiting", "streaming", "done"}
    /\ j \in {"none", "scoring", "look", "build", "run", "commit"}
    /\ j # "none" => c \in {"awaiting", "done"}
    /\ j = "scoring" => k = "query"
    /\ j \in {"look", "build"} => k = "rebuild"
    /\ j \in {"run", "commit"} => k \in {"write", "delete", "rebuild"}
    /\ c = "index" => k \in {"rebuild", "delete"}
    /\ c = "schema" => k # "rebuild"
    /\ c = "reading" => k \in {"read", "query", "export"}
    /\ c = "streaming" => k = "export"

\* Who waits for a mutex or holds it, and who certainly holds it.
Wants(l, k, c, j) ==
    IF l = "schema" THEN c = "schema" \/ j \in {"look", "run", "commit"}
    ELSE \/ c = "index" \/ (c = "schema" /\ k = "delete")
         \/ (k \in {"rebuild", "delete"} /\ j \in {"look", "build", "run", "commit"})
Has(l, k, j) ==
    IF l = "schema" THEN j = "commit" \/ (j = "run" /\ k # "rebuild")
    ELSE k = "rebuild" /\ j \in {"look", "build", "run", "commit"}

WantsIt(l, p) == Wants(l, kind[p], pc[p], job[p])
HasIt(l, p)   == Has(l, kind[p], job[p])

QueueOK(l) ==
    /\ queue[l] \in Seq(Everyone) /\ Once(queue[l])
    /\ \A p \in Parties : /\ Queued(queue[l], p) <=> WantsIt(l, p)
                          /\ HasIt(l, p) => First(queue[l], p)

Base ==
    /\ kind \in [Parties -> {"read", "query", "export", "write", "rebuild", "delete"}]
    /\ kind[Indexer] = "rebuild"
    /\ pc = [p \in Parties |-> pc[p]] /\ job = [p \in Parties |-> job[p]]
    /\ queue = [l \in Locks |-> queue[l]]
    /\ \A p \in Parties : JobOK(kind[p], pc[p], job[p])
    /\ \A l \in Locks : QueueOK(l)

\* What a step of one party may do to a queue.
Others(p) == \A q \in Parties \ {p} : pc'[q] = pc[q] /\ job'[q] = job[q]
Keeps(l, p)  == /\ queue'[l] = queue[l]
                /\ p \in Parties => /\ WantsIt(l, p)' <=> WantsIt(l, p)
                                    /\ HasIt(l, p)' => HasIt(l, p) \/ First(queue[l], p)
Joins(l, p)  == /\ queue'[l] = Append(queue[l], p) /\ ~Queued(queue[l], p)
                /\ p \in Parties => WantsIt(l, p)' /\ ~HasIt(l, p)'
Passes(l, p) == /\ queue'[l] = Tail(queue[l]) /\ First(queue[l], p)
                /\ p \in Parties => ~WantsIt(l, p)' /\ ~HasIt(l, p)'
Drops(l, p)  == /\ queue'[l] = Removed(queue[l], p)
                /\ p \in Parties => ~WantsIt(l, p)' /\ ~HasIt(l, p)'
Moves(l, p)  == Keeps(l, p) \/ Joins(l, p) \/ Passes(l, p) \/ Drops(l, p)

LEMMA QueueStep ==
    ASSUME NEW l \in Locks, QueueOK(l), NEW p \in Everyone, UNCHANGED kind, Others(p), Moves(l, p)
    PROVE  QueueOK(l)'
<1>1. ASSUME NEW q \in Parties, q # p
      PROVE  (WantsIt(l, q)' <=> WantsIt(l, q)) /\ (HasIt(l, q)' <=> HasIt(l, q))
  BY <1>1 DEF Others, WantsIt, HasIt
<1>2. queue[l] \in Seq(Everyone) /\ Once(queue[l])
  BY DEF QueueOK
<1>3. \A q \in Parties : /\ Queued(queue[l], q) <=> WantsIt(l, q)
                         /\ HasIt(l, q) => First(queue[l], q)
  BY DEF QueueOK
<1>4. CASE Keeps(l, p)
  BY <1>1, <1>2, <1>3, <1>4 DEF QueueOK, Keeps
<1>5. CASE Joins(l, p)
  <2> DEFINE t == Append(queue[l], p)
  <2>1. /\ t \in Seq(Everyone) /\ Once(t)
        /\ \A q : Queued(t, q) <=> Queued(queue[l], q) \/ q = p
        /\ \A q : First(queue[l], q) => First(t, q)
    BY <1>2, <1>5, QueueAppend DEF Joins
  <2> HIDE DEF t
  <2>2. queue'[l] = t
    BY <1>5 DEF Joins, t
  <2> QED
    BY <1>1, <1>3, <1>5, <2>1, <2>2 DEF QueueOK, Joins
<1>6. CASE Passes(l, p)
  <2> DEFINE t == Tail(queue[l])
  <2>1. /\ t \in Seq(Everyone) /\ Once(t)
        /\ \A q : Queued(t, q) <=> Queued(queue[l], q) /\ q # p
    BY <1>2, <1>6, QueueTail DEF Passes
  <2> HIDE DEF t
  <2>2. queue'[l] = t
    BY <1>6 DEF Passes, t
  <2>3. \A q \in Parties : q # p => ~HasIt(l, q)
    BY <1>3, <1>6 DEF Passes, First
  <2> QED
    BY <1>1, <1>3, <1>6, <2>1, <2>2, <2>3 DEF QueueOK, Passes
<1>7. CASE Drops(l, p)
  <2> DEFINE t == Removed(queue[l], p)
  <2>1. /\ t \in Seq(Everyone) /\ Once(t)
        /\ \A q : Queued(t, q) <=> Queued(queue[l], q) /\ q # p
        /\ \A q : First(queue[l], q) /\ q # p => First(t, q)
    BY <1>2, QueueRemoved
  <2> HIDE DEF t
  <2>2. queue'[l] = t
    BY <1>7 DEF Drops, t
  <2> QED
    BY <1>1, <1>3, <1>7, <2>1, <2>2 DEF QueueOK, Drops
<1> QED
  BY <1>4, <1>5, <1>6, <1>7 DEF Moves

LEMMA BaseStep ==
    ASSUME Base, NEW p \in Everyone, UNCHANGED kind, Others(p),
           pc' = [q \in Parties |-> pc'[q]], job' = [q \in Parties |-> job'[q]],
           queue' = [l \in Locks |-> queue'[l]],
           p \in Parties => JobOK(kind[p], pc'[p], job'[p]),
           Moves("index", p), Moves("schema", p)
    PROVE  Base'
<1>1. \A l \in Locks : QueueOK(l)'
  BY QueueStep DEF Base, Locks
<1>2. \A q \in Parties : JobOK(kind[q], pc'[q], job'[q])
  BY DEF Base, Others
<1> QED
  BY <1>1, <1>2 DEF Base

LEMMA BaseInit == Init => Base
<1> SUFFICES ASSUME Init PROVE Base
  OBVIOUS
<1>1. /\ kind \in [Parties -> {"read", "query", "export", "write", "rebuild", "delete"}]
      /\ kind[Indexer] = "rebuild"
  BY AdmissionKinds DEF Init, Parties
<1>2. \A p \in Parties : pc[p] = "idle" /\ job[p] = "none"
  BY DEF Init
<1>3. \A l \in Locks : queue[l] = <<>>
  BY DEF Init
<1>4. <<>> \in Seq(Everyone) /\ Once(<<>>) /\ \A p : ~Queued(<<>>, p)
  BY DEF Once, Queued
<1>5. \A l \in Locks : QueueOK(l)
  BY <1>2, <1>3, <1>4 DEF QueueOK, WantsIt, HasIt, Wants, Has
<1>6. \A p \in Parties : JobOK(kind[p], pc[p], job[p])
  BY <1>1, <1>2 DEF JobOK
<1> QED
  BY <1>1, <1>5, <1>6 DEF Init, Base

\* The end of a handler: its guards go with it, or stay with its task.
LEMMA BaseEnds ==
    ASSUME Base, NEW p \in Parties, Ends(p), UNCHANGED <<kind, job>>,
           p \in Requests \/ job[p] = "none"
    PROVE  Base'
<1>1. /\ Others(p) /\ pc' = [q \in Parties |-> pc'[q]] /\ job' = [q \in Parties |-> job'[q]]
      /\ pc'[p] = IF p = Indexer THEN "idle" ELSE "done"
  BY DEF Ends, Base, Others
<1>2. JobOK(kind[p], pc[p], job[p])
  BY DEF Base
<1>3. CASE job[p] = "none"
  <2>1. queue' = [l \in Locks |-> Removed(queue[l], p)]
    BY <1>3 DEF Ends, GuardsLeft, Without, Base
  <2>2. JobOK(kind[p], pc'[p], job'[p])
    BY <1>1, <1>2, <1>3 DEF JobOK
  <2>3. \A l \in Locks : Drops(l, p)
    <3>1. \A l \in Locks : queue'[l] = Removed(queue[l], p)
      BY <2>1
    <3>2. \A l \in Locks : ~WantsIt(l, p)' /\ ~HasIt(l, p)'
      BY <1>1, <1>3 DEF WantsIt, HasIt, Wants, Has
    <3> QED
      BY <3>1, <3>2 DEF Drops
  <2> QED
    BY <1>1, <2>1, <2>2, <2>3, BaseStep DEF Moves, Locks, Everyone
<1>4. CASE job[p] # "none"
  <2>1. queue' = queue
    BY <1>4 DEF Ends, GuardsLeft
  <2>2. pc'[p] = "done" /\ pc[p] \in {"awaiting", "done"}
    BY <1>1, <1>2, <1>4, AdmissionParties DEF JobOK
  <2>3. JobOK(kind[p], pc'[p], job'[p])
    BY <1>2, <2>2 DEF JobOK
  <2>4. \A l \in Locks : Keeps(l, p)
    BY <2>1, <2>2 DEF Keeps, WantsIt, HasIt, Wants, Has
  <2> QED
    BY <1>1, <2>1, <2>3, <2>4, BaseStep DEF Moves, Locks, Everyone, Base
<1> QED
  BY <1>3, <1>4

LEMMA BaseNext == Base /\ [Next]_vars => Base'
<1> SUFFICES ASSUME Base, [Next]_vars PROVE Base'
  OBVIOUS
<1>0. \A p \in Parties : JobOK(kind[p], pc[p], job[p])
  BY DEF Base
<1>q. \A l \in Locks, p \in Parties : Queued(queue[l], p) <=> WantsIt(l, p)
  BY DEF Base, QueueOK
<1>1. CASE UNCHANGED vars
  BY <1>1 DEF vars, Base, JobOK, QueueOK, WantsIt, HasIt
<1>2. ASSUME NEW p \in Requests, Admit(p) PROVE Base'
  <2>1. p \in Parties /\ UNCHANGED <<kind, job>> /\ pc[p] = "idle" /\ job[p] = "none"
    BY <1>0, <1>2 DEF Admit, Parties, JobOK
  <2>2. Others(p) /\ pc' = [q \in Parties |-> pc'[q]] /\ job' = [q \in Parties |-> job'[q]]
    BY <1>2, <2>1 DEF Admit, Others, Base
  <2>3. CASE pc'[p] = "done" /\ queue' = queue
    <3>1. JobOK(kind[p], pc'[p], job'[p]) /\ \A l \in Locks : Keeps(l, p)
      BY <1>0, <2>1, <2>3 DEF JobOK, Keeps, WantsIt, HasIt, Wants, Has
    <3> QED
      BY <2>1, <2>2, <2>3, <3>1, BaseStep DEF Moves, Locks, Everyone, Base
  <2>4. CASE pc'[p] = FirstLock(kind[p]) /\ queue' = Waits(queue, p, FirstLock(kind[p]))
    <3> PICK l \in Locks : l = FirstLock(kind[p])
      BY DEF FirstLock, Locks
    <3>1. JobOK(kind[p], pc'[p], job'[p])
      BY <1>0, <2>1, <2>4 DEF JobOK, FirstLock
    <3>2. /\ queue' = [m \in Locks |-> queue'[m]] /\ queue'[l] = Append(queue[l], p)
          /\ \A m \in Locks : m # l => queue'[m] = queue[m]
      BY <2>4 DEF Waits, Base
    <3>3. \A m \in Locks : ~WantsIt(m, p) /\ ~HasIt(m, p) /\ ~HasIt(m, p)' /\ (WantsIt(m, p)' <=> m = l)
      BY <1>0, <2>1, <2>4 DEF WantsIt, HasIt, Wants, Has, FirstLock, Locks, JobOK
    <3>4. Joins(l, p) /\ \A m \in Locks : m # l => Keeps(m, p)
      BY <1>q, <2>1, <3>2, <3>3 DEF Joins, Keeps
    <3> QED
      BY <2>1, <2>2, <3>1, <3>2, <3>4, BaseStep DEF Moves, Locks, Everyone
  <2> QED
    BY <1>2, <2>1, <2>3, <2>4 DEF Admit, Base
<1>3. ASSUME NEW p \in Requests, Timeout(p) \/ Disconnect(p) PROVE Base'
  BY <1>3, BaseEnds DEF Timeout, Disconnect, Parties
<1>4. ASSUME NEW p \in Parties, Refuse(p) \/ Answer(p) \/ Joined(p) PROVE Base'
  <2>1. job[p] = "none"
    BY <1>0, <1>4 DEF Refuse, Answer, Joined, JobOK
  <2> QED
    BY <1>4, <2>1, BaseEnds DEF Refuse, Answer, Joined
<1>5. ASSUME NEW p \in Parties, Score(p) PROVE Base'
  <2>1. /\ p \in Parties /\ UNCHANGED kind /\ Others(p) /\ pc' = [q \in Parties |-> pc'[q]]
        /\ job' = [q \in Parties |-> job'[q]] /\ queue' = [l \in Locks |-> queue'[l]]
    BY <1>5 DEF Score, Others, Base, Parties
  <2>2. pc[p] = "reading" /\ pc'[p] = "awaiting" /\ kind[p] = "query" /\ job'[p] = "scoring"
    BY <1>5, <2>1 DEF Score, Base
  <2>3. JobOK(kind[p], pc'[p], job'[p])
    BY <1>0, <2>1, <2>2 DEF JobOK
  <2>4. Keeps("index", p)
    <3>1. queue'["index"] = queue["index"]
      BY <1>5 DEF Score, Base, Locks
    <3> QED
      BY <1>0, <2>1, <2>2, <3>1 DEF Keeps, WantsIt, HasIt, Wants, Has, JobOK
  <2>5. Keeps("schema", p)
    <3>1. queue'["schema"] = queue["schema"]
      BY <1>5 DEF Score, Base, Locks
    <3> QED
      BY <1>0, <2>1, <2>2, <3>1 DEF Keeps, WantsIt, HasIt, Wants, Has, JobOK
  <2> QED
    BY <2>1, <2>3, <2>4, <2>5, BaseStep DEF Moves, Everyone
<1>6. ASSUME NEW p \in Requests, Scored(p) PROVE Base'
  <2>1. /\ p \in Parties /\ UNCHANGED kind /\ Others(p) /\ pc' = [q \in Parties |-> pc'[q]]
        /\ job' = [q \in Parties |-> job'[q]] /\ queue' = [l \in Locks |-> queue'[l]]
    BY <1>6 DEF Scored, Others, Base, Parties
  <2>2. job[p] = "scoring" /\ job'[p] = "none" /\ (pc'[p] = "reading" \/ pc'[p] = pc[p])
    BY <1>6, <2>1 DEF Scored, Base
  <2>3. JobOK(kind[p], pc'[p], job'[p])
    BY <1>0, <2>1, <2>2 DEF JobOK
  <2>4. Keeps("index", p)
    <3>1. queue'["index"] = queue["index"]
      BY <1>6 DEF Scored, Base, Locks
    <3> QED
      BY <1>0, <2>1, <2>2, <3>1 DEF Keeps, WantsIt, HasIt, Wants, Has, JobOK
  <2>5. Keeps("schema", p)
    <3>1. queue'["schema"] = queue["schema"]
      BY <1>6 DEF Scored, Base, Locks
    <3> QED
      BY <1>0, <2>1, <2>2, <3>1 DEF Keeps, WantsIt, HasIt, Wants, Has, JobOK
  <2> QED
    BY <2>1, <2>3, <2>4, <2>5, BaseStep DEF Moves, Everyone
<1>7. ASSUME NEW p \in Parties, Stream(p) PROVE Base'
  <2>1. /\ p \in Parties /\ UNCHANGED kind /\ Others(p) /\ pc' = [q \in Parties |-> pc'[q]]
        /\ job' = [q \in Parties |-> job'[q]] /\ queue' = [l \in Locks |-> queue'[l]]
    BY <1>7 DEF Stream, Others, Base, Parties
  <2>2. pc[p] = "reading" /\ pc'[p] = "streaming" /\ kind[p] = "export" /\ job'[p] = job[p]
    BY <1>7, <2>1 DEF Stream, Base
  <2>3. JobOK(kind[p], pc'[p], job'[p])
    BY <1>0, <2>1, <2>2 DEF JobOK
  <2>4. Keeps("index", p)
    <3>1. queue'["index"] = queue["index"]
      BY <1>7 DEF Stream, Base, Locks
    <3> QED
      BY <1>0, <2>1, <2>2, <3>1 DEF Keeps, WantsIt, HasIt, Wants, Has, JobOK
  <2>5. Keeps("schema", p)
    <3>1. queue'["schema"] = queue["schema"]
      BY <1>7 DEF Stream, Base, Locks
    <3> QED
      BY <1>0, <2>1, <2>2, <3>1 DEF Keeps, WantsIt, HasIt, Wants, Has, JobOK
  <2> QED
    BY <2>1, <2>3, <2>4, <2>5, BaseStep DEF Moves, Everyone
<1>8. ASSUME NEW p \in Parties, Snapshot(p) PROVE Base'
  <2>1. /\ p \in Parties /\ UNCHANGED kind /\ Others(p) /\ pc' = [q \in Parties |-> pc'[q]]
        /\ job' = [q \in Parties |-> job'[q]] /\ queue' = [l \in Locks |-> queue'[l]]
    BY <1>8 DEF Snapshot, Others, Base, Parties, Leaves
  <2>2. pc[p] = "schema" /\ pc'[p] = "reading" /\ kind[p] \in {"read", "query", "export"} /\ job'[p] = job[p] /\ First(queue["schema"], p)
    BY <1>8, <2>1 DEF Snapshot, Base, Leaves, Reading, Slotted, Holds, First
  <2>3. JobOK(kind[p], pc'[p], job'[p])
    BY <1>0, <2>1, <2>2 DEF JobOK
  <2>4. Keeps("index", p)
    <3>1. queue'["index"] = queue["index"]
      BY <1>8 DEF Snapshot, Base, Locks, Leaves
    <3> QED
      BY <1>0, <2>1, <2>2, <3>1 DEF Keeps, WantsIt, HasIt, Wants, Has, JobOK
  <2>5. Passes("schema", p)
    <3>1. queue'["schema"] = Tail(queue["schema"])
      BY <1>8 DEF Snapshot, Base, Locks, Leaves
    <3> QED
      BY <1>0, <2>1, <2>2, <3>1 DEF Passes, WantsIt, HasIt, Wants, Has, JobOK
  <2> QED
    BY <2>1, <2>3, <2>4, <2>5, BaseStep DEF Moves, Everyone
<1>9. ASSUME NEW p \in Parties, LockSchema(p) PROVE Base'
  <2>1. /\ p \in Parties /\ UNCHANGED kind /\ Others(p) /\ pc' = [q \in Parties |-> pc'[q]]
        /\ job' = [q \in Parties |-> job'[q]] /\ queue' = [l \in Locks |-> queue'[l]]
    BY <1>9 DEF LockSchema, Others, Base, Parties, Waits
  <2>2. pc[p] = "index" /\ pc'[p] = "schema" /\ kind[p] = "delete" /\ job'[p] = job[p]
    BY <1>9, <2>1 DEF LockSchema, Base, Waits
  <2>3. JobOK(kind[p], pc'[p], job'[p])
    BY <1>0, <2>1, <2>2 DEF JobOK
  <2>4. Keeps("index", p)
    <3>1. queue'["index"] = queue["index"]
      BY <1>9 DEF LockSchema, Base, Locks, Waits
    <3> QED
      BY <1>0, <2>1, <2>2, <3>1 DEF Keeps, WantsIt, HasIt, Wants, Has, JobOK
  <2>5. Joins("schema", p)
    <3>1. queue'["schema"] = Append(queue["schema"], p)
      BY <1>9 DEF LockSchema, Base, Locks, Waits
    <3>2. ~Queued(queue["schema"], p)
      BY <1>0, <1>q, <2>1, <2>2 DEF WantsIt, Wants, JobOK, Locks
    <3> QED
      BY <1>0, <2>1, <2>2, <3>1, <3>2 DEF Joins, WantsIt, HasIt, Wants, Has, JobOK
  <2> QED
    BY <2>1, <2>3, <2>4, <2>5, BaseStep DEF Moves, Everyone
<1>10. ASSUME NEW p \in Parties, SpawnCommit(p) PROVE Base'
  <2>1. /\ p \in Parties /\ UNCHANGED kind /\ Others(p) /\ pc' = [q \in Parties |-> pc'[q]]
        /\ job' = [q \in Parties |-> job'[q]] /\ queue' = [l \in Locks |-> queue'[l]]
    BY <1>10 DEF SpawnCommit, Others, Base, Parties
  <2>2. pc[p] = "schema" /\ pc'[p] = "awaiting" /\ kind[p] \in {"write", "delete"} /\ job'[p] = "run" /\ First(queue["schema"], p)
    BY <1>10, <2>1 DEF SpawnCommit, Base, Commits, Holds, First
  <2>3. JobOK(kind[p], pc'[p], job'[p])
    BY <1>0, <2>1, <2>2 DEF JobOK
  <2>4. Keeps("index", p)
    <3>1. queue'["index"] = queue["index"]
      BY <1>10 DEF SpawnCommit, Base, Locks
    <3> QED
      BY <1>0, <2>1, <2>2, <3>1 DEF Keeps, WantsIt, HasIt, Wants, Has, JobOK
  <2>5. Keeps("schema", p)
    <3>1. queue'["schema"] = queue["schema"]
      BY <1>10 DEF SpawnCommit, Base, Locks
    <3> QED
      BY <1>0, <2>1, <2>2, <3>1 DEF Keeps, WantsIt, HasIt, Wants, Has, JobOK
  <2> QED
    BY <2>1, <2>3, <2>4, <2>5, BaseStep DEF Moves, Everyone
<1>11. ASSUME NEW p \in Parties, SpawnRebuild(p) PROVE Base'
  <2>1. /\ p \in Parties /\ UNCHANGED kind /\ Others(p) /\ pc' = [q \in Parties |-> pc'[q]]
        /\ job' = [q \in Parties |-> job'[q]] /\ queue' = [l \in Locks |-> queue'[l]]
    BY <1>11 DEF SpawnRebuild, Others, Base, Parties, Waits
  <2>2. pc[p] = "index" /\ pc'[p] = "awaiting" /\ kind[p] = "rebuild" /\ job'[p] = "look" /\ First(queue["index"], p)
    BY <1>11, <2>1 DEF SpawnRebuild, Base, Waits, Holds, First
  <2>3. JobOK(kind[p], pc'[p], job'[p])
    BY <1>0, <2>1, <2>2 DEF JobOK
  <2>4. Keeps("index", p)
    <3>1. queue'["index"] = queue["index"]
      BY <1>11 DEF SpawnRebuild, Base, Locks, Waits
    <3> QED
      BY <1>0, <2>1, <2>2, <3>1 DEF Keeps, WantsIt, HasIt, Wants, Has, JobOK
  <2>5. Joins("schema", p)
    <3>1. queue'["schema"] = Append(queue["schema"], p)
      BY <1>11 DEF SpawnRebuild, Base, Locks, Waits
    <3>2. ~Queued(queue["schema"], p)
      BY <1>0, <1>q, <2>1, <2>2 DEF WantsIt, Wants, JobOK, Locks
    <3> QED
      BY <1>0, <2>1, <2>2, <3>1, <3>2 DEF Joins, WantsIt, HasIt, Wants, Has, JobOK
  <2> QED
    BY <2>1, <2>3, <2>4, <2>5, BaseStep DEF Moves, Everyone
<1>12. ASSUME NEW p \in Parties, Look(p) PROVE Base'
  <2>1. /\ p \in Parties /\ UNCHANGED kind /\ Others(p) /\ pc' = [q \in Parties |-> pc'[q]]
        /\ job' = [q \in Parties |-> job'[q]] /\ queue' = [l \in Locks |-> queue'[l]]
    BY <1>12 DEF Look, Others, Base, Parties, Leaves
  <2>2. job[p] = "look" /\ job'[p] = "build" /\ pc'[p] = pc[p] /\ First(queue["schema"], p)
    BY <1>12, <2>1 DEF Look, Base, Leaves, Holds, First
  <2>3. JobOK(kind[p], pc'[p], job'[p])
    BY <1>0, <2>1, <2>2 DEF JobOK
  <2>4. Keeps("index", p)
    <3>1. queue'["index"] = queue["index"]
      BY <1>12 DEF Look, Base, Locks, Leaves
    <3> QED
      BY <1>0, <2>1, <2>2, <3>1 DEF Keeps, WantsIt, HasIt, Wants, Has, JobOK
  <2>5. Passes("schema", p)
    <3>1. queue'["schema"] = Tail(queue["schema"])
      BY <1>12 DEF Look, Base, Locks, Leaves
    <3> QED
      BY <1>0, <2>1, <2>2, <3>1 DEF Passes, WantsIt, HasIt, Wants, Has, JobOK
  <2> QED
    BY <2>1, <2>3, <2>4, <2>5, BaseStep DEF Moves, Everyone
<1>13. ASSUME NEW p \in Parties, Publish(p) PROVE Base'
  <2>1. /\ p \in Parties /\ UNCHANGED kind /\ Others(p) /\ pc' = [q \in Parties |-> pc'[q]]
        /\ job' = [q \in Parties |-> job'[q]] /\ queue' = [l \in Locks |-> queue'[l]]
    BY <1>13 DEF Publish, Others, Base, Parties, Waits
  <2>2. job[p] = "build" /\ job'[p] = "run" /\ pc'[p] = pc[p]
    BY <1>13, <2>1 DEF Publish, Base, Waits
  <2>3. JobOK(kind[p], pc'[p], job'[p])
    BY <1>0, <2>1, <2>2 DEF JobOK
  <2>4. Keeps("index", p)
    <3>1. queue'["index"] = queue["index"]
      BY <1>13 DEF Publish, Base, Locks, Waits
    <3> QED
      BY <1>0, <2>1, <2>2, <3>1 DEF Keeps, WantsIt, HasIt, Wants, Has, JobOK
  <2>5. Joins("schema", p)
    <3>1. queue'["schema"] = Append(queue["schema"], p)
      BY <1>13 DEF Publish, Base, Locks, Waits
    <3>2. ~Queued(queue["schema"], p)
      BY <1>0, <1>q, <2>1, <2>2 DEF WantsIt, Wants, JobOK, Locks
    <3> QED
      BY <1>0, <2>1, <2>2, <3>1, <3>2 DEF Joins, WantsIt, HasIt, Wants, Has, JobOK
  <2> QED
    BY <2>1, <2>3, <2>4, <2>5, BaseStep DEF Moves, Everyone
<1>14. ASSUME NEW p \in Parties, Commit(p) PROVE Base'
  <2>1. /\ p \in Parties /\ UNCHANGED kind /\ Others(p) /\ pc' = [q \in Parties |-> pc'[q]]
        /\ job' = [q \in Parties |-> job'[q]] /\ queue' = [l \in Locks |-> queue'[l]]
    BY <1>14 DEF Commit, Others, Base, Parties
  <2>2. job[p] = "run" /\ job'[p] = "commit" /\ pc'[p] = pc[p] /\ First(queue["schema"], p)
    BY <1>14, <2>1 DEF Commit, Base, Holds, First
  <2>3. JobOK(kind[p], pc'[p], job'[p])
    BY <1>0, <2>1, <2>2 DEF JobOK
  <2>4. Keeps("index", p)
    <3>1. queue'["index"] = queue["index"]
      BY <1>14 DEF Commit, Base, Locks
    <3> QED
      BY <1>0, <2>1, <2>2, <3>1 DEF Keeps, WantsIt, HasIt, Wants, Has, JobOK
  <2>5. Keeps("schema", p)
    <3>1. queue'["schema"] = queue["schema"]
      BY <1>14 DEF Commit, Base, Locks
    <3> QED
      BY <1>0, <2>1, <2>2, <3>1 DEF Keeps, WantsIt, HasIt, Wants, Has, JobOK
  <2> QED
    BY <2>1, <2>3, <2>4, <2>5, BaseStep DEF Moves, Everyone
<1>15. ASSUME NEW p \in Parties, Durable(p) \/ TaskFails(p) \/ DbFails(p) PROVE Base'
  <2>1. /\ UNCHANGED <<kind, pc>> /\ Others(p) /\ job' = [q \in Parties |-> job'[q]]
        /\ pc' = [q \in Parties |-> pc'[q]] /\ job'[p] = "none" /\ job[p] # "none"
        /\ job[p] \in {"look", "build", "run", "commit"}
    BY <1>15 DEF Durable, TaskFails, DbFails, TaskEnds, Others, Base
  <2>2. queue' = [l \in Locks |-> Removed(queue[l], p)]
    BY <1>15 DEF Durable, TaskFails, DbFails, TaskEnds, Without, Base
  <2>3. pc[p] \in {"awaiting", "done"} /\ JobOK(kind[p], pc'[p], job'[p])
    BY <1>0, <2>1 DEF JobOK
  <2>4. \A l \in Locks : Drops(l, p)
    <3>1. \A l \in Locks : queue'[l] = Removed(queue[l], p)
      BY <2>2
    <3>2. \A l \in Locks : ~WantsIt(l, p)' /\ ~HasIt(l, p)'
      BY <2>1, <2>3 DEF WantsIt, HasIt, Wants, Has
    <3> QED
      BY <3>1, <3>2 DEF Drops
  <2> QED
    BY <2>1, <2>2, <2>3, <2>4, BaseStep DEF Moves, Locks, Everyone
<1>16. CASE Tick
  <2>1. /\ Indexer \in Parties /\ UNCHANGED <<kind, job>> /\ Others(Indexer)
        /\ pc' = [q \in Parties |-> pc'[q]] /\ pc[Indexer] = "idle" /\ pc'[Indexer] = "index"
        /\ queue' = [l \in Locks |-> queue'[l]] /\ queue'["schema"] = queue["schema"]
        /\ queue'["index"] = Append(queue["index"], Indexer)
    BY <1>16 DEF Tick, Others, Base, Parties, Waits, Locks
  <2>2. kind[Indexer] = "rebuild" /\ job[Indexer] = "none"
    BY <1>0, <2>1 DEF Base, JobOK
  <2>3. JobOK(kind[Indexer], pc'[Indexer], job'[Indexer])
    BY <1>0, <2>1, <2>2 DEF JobOK
  <2>4. Joins("index", Indexer) /\ Keeps("schema", Indexer)
    <3>1. ~Queued(queue["index"], Indexer)
      BY <1>q, <2>1, <2>2 DEF WantsIt, Wants, Locks
    <3> QED
      BY <2>1, <2>2, <3>1 DEF Joins, Keeps, WantsIt, HasIt, Wants, Has
  <2> QED
    BY <2>1, <2>3, <2>4, BaseStep DEF Moves, Everyone, Base
<1>17. CASE CloseLock
  <2>1. PICK i \in DOMAIN CloseOrder : /\ ~Queued(queue[CloseOrder[i]], Closer)
                                      /\ queue' = Waits(queue, Closer, CloseOrder[i])
    BY <1>17 DEF CloseLock
  <2> PICK l \in Locks : l = CloseOrder[i]
    BY DEF CloseOrder, Locks
  <2>2. /\ queue' = [m \in Locks |-> queue'[m]] /\ queue'[l] = Append(queue[l], Closer)
        /\ \A m \in Locks : m # l => queue'[m] = queue[m]
    BY <2>1 DEF Waits, Base
  <2>3. UNCHANGED <<kind, pc, job>> /\ Closer \notin Parties /\ Others(Closer)
    BY <1>17 DEF CloseLock, Parties, Others
  <2>4. \A m \in Locks : Joins(m, Closer) \/ Keeps(m, Closer)
    BY <2>1, <2>2, <2>3 DEF Joins, Keeps
  <2> QED
    BY <2>2, <2>3, <2>4, BaseStep DEF Moves, Locks, Everyone, Base
<1>18. CASE Close
  <2>1. queue' = [l \in Locks |-> Removed(queue[l], Closer)]
    BY <1>18 DEF Close, Without, Base
  <2>2. UNCHANGED <<kind, pc, job>> /\ Closer \notin Parties /\ Others(Closer)
    BY <1>18 DEF Close, Parties, Others
  <2>3. \A m \in Locks : Drops(m, Closer)
    BY <2>1, <2>2 DEF Drops
  <2> QED
    BY <2>1, <2>2, <2>3, BaseStep DEF Moves, Locks, Everyone, Base
<1>19. CASE Stop \/ Drained \/ IndexerStopped
  BY <1>19 DEF Stop, Drained, IndexerStopped, Base, JobOK, QueueOK, WantsIt, HasIt
<1> QED
  BY <1>1, <1>2, <1>3, <1>4, <1>5, <1>6, <1>7, <1>8, <1>9, <1>10, <1>11, <1>12, <1>13, <1>14, <1>15, <1>16, <1>17, <1>18, <1>19
     DEF Next, Handler, Work, Shutdown

-----------------------------------------------------------------------------
\* Permits: what a query does is done under its slot, its batch included.

Busy(r) == \/ pc[r] \in Handling /\ kind[r] \in Slotted
           \/ pc[r] = "streaming"
           \/ job[r] = "scoring"

PermitsOK ==
    /\ slots \subseteq Requests /\ IsFiniteSet(slots) /\ Cardinality(slots) <= MaxQueries
    /\ IsFiniteSet(Admitted) /\ Cardinality(Admitted) <= MaxRequests
    /\ \A r \in Requests : Busy(r) => r \in slots

LEMMA Shrinks ==
    ASSUME NEW S, IsFiniteSet(S), NEW n \in Nat, Cardinality(S) <= n, NEW T \in SUBSET S
    PROVE  IsFiniteSet(T) /\ Cardinality(T) <= n
<1>1. IsFiniteSet(T) /\ Cardinality(T) <= Cardinality(S)
  BY FS_Subset
<1>2. Cardinality(T) \in Nat /\ Cardinality(S) \in Nat
  BY <1>1, FS_CardinalityType
<1> QED
  BY <1>1, <1>2

LEMMA Grows ==
    ASSUME NEW S, IsFiniteSet(S), NEW n \in Nat, Cardinality(S) < n, NEW e
    PROVE  IsFiniteSet(S \cup {e}) /\ Cardinality(S \cup {e}) <= n
<1>1. /\ IsFiniteSet(S \cup {e}) /\ Cardinality(S) \in Nat
      /\ Cardinality(S \cup {e}) = IF e \in S THEN Cardinality(S) ELSE Cardinality(S) + 1
  BY FS_AddElement, FS_CardinalityType
<1> QED
  BY <1>1

\* Every step but an admission takes nothing and leaves no query without its slot.
LEMMA PermitsStep ==
    ASSUME PermitsOK, NEW p \in Everyone, UNCHANGED kind, Others(p),
           slots' \subseteq slots, slots \ {p} \subseteq slots',
           p \in Requests => /\ pc'[p] \in Handling => pc[p] \in Handling
                             /\ Busy(p)' => p \in slots'
    PROVE  PermitsOK'
<1>1. IsFiniteSet(slots') /\ Cardinality(slots') <= MaxQueries
  BY Shrinks DEF PermitsOK
<1>2. Admitted' \subseteq Admitted
  BY DEF Admitted, Others, Parties
<1>3. IsFiniteSet(Admitted') /\ Cardinality(Admitted') <= MaxRequests
  BY <1>2, Shrinks DEF PermitsOK
<1>4. ASSUME NEW q \in Requests, Busy(q)' PROVE q \in slots'
  <2>1. CASE q # p
    <3>1. Busy(q)
      BY <1>4, <2>1 DEF Busy, Others, Parties
    <3> QED
      BY <2>1, <3>1 DEF PermitsOK
  <2> QED
    BY <1>4, <2>1
<1> QED
  BY <1>1, <1>3, <1>4 DEF PermitsOK

LEMMA PermitsInit == Init => PermitsOK
<1> SUFFICES ASSUME Init PROVE PermitsOK
  OBVIOUS
<1>1. \A r \in Requests : pc[r] = "idle" /\ job[r] = "none"
  BY DEF Init, Parties
<1>2. slots = {} /\ Admitted = {}
  BY <1>1 DEF Init, Admitted, Handling
<1>3. IsFiniteSet({}) /\ Cardinality({}) = 0
  BY FS_EmptySet
<1> QED
  BY <1>1, <1>2, <1>3 DEF PermitsOK, Busy, Handling

LEMMA PermitsEnds ==
    ASSUME Base, PermitsOK, NEW p \in Parties, Ends(p), UNCHANGED <<kind, job>>
    PROVE  PermitsOK'
<1>1. /\ Others(p) /\ pc'[p] \in {"idle", "done"} /\ slots' \subseteq slots
      /\ slots \ {p} \subseteq slots' /\ (job[p] = "scoring" => slots' = slots)
  BY DEF Ends, Base, Others, Outlives
<1>2. pc'[p] \notin Handling /\ pc'[p] # "streaming"
  BY <1>1 DEF Handling
<1>3. p \in Requests /\ Busy(p)' => p \in slots'
  BY <1>1, <1>2 DEF Busy, PermitsOK
<1> QED
  BY <1>1, <1>2, <1>3, PermitsStep DEF Everyone

LEMMA PermitsAdmit ==
    ASSUME Base, PermitsOK, NEW p \in Requests, Admit(p)
    PROVE  PermitsOK'
<1>1. UNCHANGED <<kind, job>> /\ Others(p) /\ pc[p] = "idle" /\ p \in Everyone
  BY DEF Admit, Others, Base, Parties, Everyone
<1>2. CASE pc' = [pc EXCEPT ![p] = "done"] /\ slots' = slots
  <2>1. pc'[p] = "done" /\ pc'[p] \notin Handling
    BY <1>2 DEF Base, Parties, Handling
  <2>2. Busy(p)' => p \in slots'
    BY <1>1, <1>2, <2>1 DEF Busy, PermitsOK
  <2> QED
    BY <1>1, <1>2, <2>1, <2>2, PermitsStep
<1>3. CASE /\ Cardinality(Admitted) < MaxRequests
           /\ kind[p] \in Slotted => SlotFree
           /\ pc' = [pc EXCEPT ![p] = FirstLock(kind[p])]
           /\ slots' = slots \cup (IF kind[p] \in Slotted THEN {p} ELSE {})
  <2>1. pc'[p] \in {"index", "schema"}
    BY <1>3 DEF FirstLock, Base, Parties
  <2>2. Admitted' = Admitted \cup {p}
    BY <1>1, <2>1 DEF Admitted, Others, Handling, Parties
  <2>3. IsFiniteSet(Admitted') /\ Cardinality(Admitted') <= MaxRequests
    BY <1>3, <2>2, Grows DEF PermitsOK
  <2>4. /\ slots' \subseteq Requests /\ IsFiniteSet(slots') /\ Cardinality(slots') <= MaxQueries
    <3>1. CASE kind[p] \in Slotted
      BY <1>3, <3>1, Grows DEF PermitsOK, SlotFree
    <3>2. CASE kind[p] \notin Slotted
      BY <1>3, <3>2 DEF PermitsOK
    <3> QED
      BY <3>1, <3>2
  <2>5. ASSUME NEW q \in Requests, Busy(q)' PROVE q \in slots'
    <3>1. CASE q = p
      <4>1. CASE job[p] = "scoring"
        BY <1>1, <4>1 DEF Base, JobOK, Parties
      <4>2. CASE job[p] # "scoring"
        BY <1>1, <1>3, <2>1, <2>5, <3>1, <4>2 DEF Busy
      <4> QED
        BY <4>1, <4>2
    <3>2. CASE q # p
      BY <1>1, <1>3, <2>5, <3>2 DEF Busy, Others, Parties, PermitsOK
    <3> QED
      BY <3>1, <3>2
  <2> QED
    BY <2>3, <2>4, <2>5 DEF PermitsOK
<1> QED
  BY <1>2, <1>3 DEF Admit

LEMMA PermitsNext == Base /\ PermitsOK /\ [Next]_vars => PermitsOK'
<1> SUFFICES ASSUME Base, PermitsOK, [Next]_vars PROVE PermitsOK'
  OBVIOUS
<1>0. \A p \in Parties : JobOK(kind[p], pc[p], job[p])
  BY DEF Base
<1>1. CASE UNCHANGED vars
  BY <1>1 DEF vars, PermitsOK, Admitted, Busy
<1>2. ASSUME NEW p \in Requests, Admit(p) PROVE PermitsOK'
  BY <1>2, PermitsAdmit
<1>3. ASSUME NEW p \in Parties,
             \/ p \in Requests /\ (Timeout(p) \/ Disconnect(p))
             \/ Refuse(p) \/ Answer(p) \/ Joined(p)
      PROVE  PermitsOK'
  BY <1>3, PermitsEnds DEF Timeout, Disconnect, Refuse, Answer, Joined
<1>4. ASSUME NEW p \in Parties, Score(p) \/ Stream(p) PROVE PermitsOK'
  <2>1. UNCHANGED <<kind, slots>> /\ Others(p) /\ pc[p] = "reading" /\ kind[p] \in Slotted
    BY <1>4 DEF Score, Stream, Others, Base, Slotted
  <2>2. pc[p] \in Handling /\ (p \in Requests => p \in slots)
    BY <2>1 DEF Handling, Busy, PermitsOK
  <2> QED
    BY <2>1, <2>2, PermitsStep DEF Everyone
<1>5. ASSUME NEW p \in Requests, Scored(p) PROVE PermitsOK'
  <2>1. /\ UNCHANGED kind /\ Others(p) /\ p \in Everyone /\ job[p] = "scoring" /\ job'[p] = "none"
        /\ \/ pc[p] = "awaiting" /\ pc'[p] = "reading" /\ slots' = slots
           \/ pc[p] # "awaiting" /\ pc'[p] = pc[p] /\ slots' = slots \ {p}
    BY <1>5 DEF Scored, Others, Base, Parties, Everyone
  <2>2. pc[p] \in {"awaiting", "done"}
    BY <1>0, <2>1 DEF JobOK, Parties
  <2>3. Busy(p)
    BY <2>1 DEF Busy
  <2>4. Busy(p)' => p \in slots'
    BY <2>1, <2>2, <2>3 DEF Busy, Handling, PermitsOK
  <2>5. pc'[p] \in Handling => pc[p] \in Handling
    BY <2>1 DEF Handling
  <2> QED
    BY <2>1, <2>4, <2>5, PermitsStep
<1>6. ASSUME NEW p \in Parties, Snapshot(p) \/ LockSchema(p) \/ SpawnCommit(p) \/ SpawnRebuild(p)
      PROVE  PermitsOK'
  <2>1. /\ UNCHANGED <<kind, slots>> /\ Others(p) /\ pc[p] \in {"index", "schema"}
        /\ pc'[p] \in {"schema", "reading", "awaiting"} /\ job'[p] \in {job[p], "run", "look"}
    BY <1>6 DEF Snapshot, LockSchema, SpawnCommit, SpawnRebuild, Others, Base
  <2>2. pc[p] \in Handling /\ pc'[p] \in Handling /\ pc'[p] # "streaming"
    BY <2>1 DEF Handling
  <2>3. Busy(p)' => Busy(p)
    BY <2>1, <2>2 DEF Busy
  <2>4. p \in Requests /\ Busy(p)' => p \in slots'
    BY <2>1, <2>3 DEF PermitsOK
  <2> QED
    BY <2>1, <2>2, <2>4, PermitsStep DEF Everyone
<1>7. ASSUME NEW p \in Parties, Work(p) PROVE PermitsOK'
  <2>1. /\ UNCHANGED <<kind, pc, slots>> /\ Others(p)
        /\ job'[p] \in {"none", "build", "run", "commit"}
    BY <1>7 DEF Work, Look, Publish, Commit, Durable, TaskFails, DbFails, TaskEnds, Others, Base
  <2>2. p \in Requests /\ Busy(p)' => p \in slots'
    BY <2>1 DEF Busy, PermitsOK
  <2> QED
    BY <2>1, <2>2, PermitsStep DEF Everyone
<1>8. CASE Tick
  <2>1. UNCHANGED <<kind, slots, job>> /\ Others(Indexer) /\ Indexer \in Everyone
    BY <1>8 DEF Tick, Others, Base, Everyone, Parties
  <2> QED
    BY <2>1, PermitsStep
<1>9. CASE Stop \/ Shutdown
  <2>1. UNCHANGED <<kind, pc, job, slots>>
    BY <1>9 DEF Stop, Shutdown, Drained, IndexerStopped, CloseLock, Close
  <2> QED
    BY <2>1 DEF PermitsOK, Admitted, Busy
<1> QED
  BY <1>1, <1>2, <1>3, <1>4, <1>5, <1>6, <1>7, <1>8, <1>9 DEF Next, Handler, Work, Parties

-----------------------------------------------------------------------------
\* Snapshots and commits: both need schema_lock, and a commit keeps it until it
\* is durable or the database is gone.

SettledOK ==
    /\ torn = {} /\ commits \subseteq Parties /\ db \in {"open", "failed", "closed"}
    /\ db = "open" => commits = {p \in Parties : job[p] = "commit"}

\* Who holds schema_lock and is not committing finds no commit in flight.
LEMMA HolderSettled ==
    ASSUME Base, SettledOK, NEW p \in Parties, Holds(p, "schema"), Ready, job[p] # "commit"
    PROVE  commits = {}
<1>1. ASSUME NEW q \in Parties, job[q] = "commit" PROVE FALSE
  <2>1. HasIt("schema", q)
    BY <1>1 DEF HasIt, Has
  <2>2. First(queue["schema"], q)
    BY <2>1 DEF Base, QueueOK, Locks
  <2> QED
    BY <1>1, <2>2 DEF First, Holds
<1> QED
  BY <1>1 DEF SettledOK, Ready

LEMMA SettledStep ==
    ASSUME SettledOK, NEW p \in Everyone, Others(p), torn' = {},
           \/ UNCHANGED <<commits, db>> /\ (p \in Parties => (job'[p] = "commit" <=> job[p] = "commit"))
           \/ db' \in {"failed", "closed"} /\ UNCHANGED commits
    PROVE  SettledOK'
BY DEF SettledOK, Others

LEMMA SettledNext == Base /\ SettledOK /\ [Next]_vars => SettledOK'
<1> SUFFICES ASSUME Base, SettledOK, [Next]_vars PROVE SettledOK'
  OBVIOUS
<1>0. \A p \in Parties : JobOK(kind[p], pc[p], job[p])
  BY DEF Base
<1>1. CASE UNCHANGED vars
  BY <1>1 DEF vars, SettledOK
<1>2. ASSUME NEW p \in Parties,
             \/ p \in Requests /\ (Admit(p) \/ Timeout(p) \/ Disconnect(p))
             \/ Refuse(p) \/ Answer(p) \/ Joined(p) \/ Stream(p) \/ LockSchema(p)
      PROVE  SettledOK'
  BY <1>2 DEF Admit, Timeout, Disconnect, Refuse, Answer, Joined, Stream, LockSchema, Ends, SettledOK
<1>3. ASSUME NEW p \in Parties,
             \/ p \in Requests /\ Scored(p)
             \/ Score(p) \/ SpawnCommit(p) \/ SpawnRebuild(p)
      PROVE  SettledOK'
  <2>1. /\ UNCHANGED <<commits, torn, db>> /\ Others(p)
        /\ job'[p] \in {"none", "scoring", "run", "look"}
    BY <1>3 DEF Scored, Score, SpawnCommit, SpawnRebuild, Others, Base
  <2>2. job[p] = "scoring" \/ pc[p] \in {"reading", "schema", "index"}
    BY <1>3 DEF Scored, Score, SpawnCommit, SpawnRebuild
  <2>3. job[p] # "commit"
    BY <1>0, <2>2 DEF JobOK
  <2> QED
    BY <2>1, <2>3, SettledStep DEF SettledOK, Everyone
<1>4. ASSUME NEW p \in Parties, Snapshot(p) PROVE SettledOK'
  <2>1. job[p] # "commit"
    BY <1>0, <1>4 DEF Snapshot, JobOK
  <2>2. commits = {}
    BY <1>4, <2>1, HolderSettled DEF Snapshot
  <2> QED
    BY <1>4, <2>2 DEF Snapshot, Looks, SettledOK
<1>5. ASSUME NEW p \in Parties, Look(p) PROVE SettledOK'
  <2>1. commits = {}
    BY <1>5, HolderSettled DEF Look
  <2>2. UNCHANGED <<commits, db>> /\ torn' = {} /\ Others(p) /\ job[p] = "look" /\ job'[p] = "build"
    BY <1>5, <2>1 DEF Look, Looks, SettledOK, Others, Base
  <2> QED
    BY <2>2, SettledStep DEF Everyone
<1>6. ASSUME NEW p \in Parties, Publish(p) \/ TaskFails(p) PROVE SettledOK'
  <2>1. /\ UNCHANGED <<commits, db, torn>> /\ Others(p) /\ job[p] \in {"look", "run", "build"}
        /\ job'[p] \in {"run", "none"}
    BY <1>6 DEF Publish, TaskFails, TaskEnds, Others, Base
  <2> QED
    BY <2>1, SettledStep DEF Everyone, SettledOK
<1>7. ASSUME NEW p \in Parties, Commit(p) PROVE SettledOK'
  <2>1. /\ UNCHANGED <<db, torn>> /\ Others(p) /\ job'[p] = "commit" /\ commits' = commits \cup {p}
    BY <1>7 DEF Commit, Others, Base
  <2> QED
    BY <2>1 DEF SettledOK, Others
<1>8. ASSUME NEW p \in Parties, Durable(p) PROVE SettledOK'
  <2>1. /\ UNCHANGED <<db, torn>> /\ Others(p) /\ job'[p] = "none" /\ commits' = commits \ {p}
    BY <1>8 DEF Durable, TaskEnds, Others, Base
  <2> QED
    BY <2>1 DEF SettledOK, Others
<1>9. ASSUME NEW p \in Parties, DbFails(p) PROVE SettledOK'
  <2>1. UNCHANGED <<commits, torn>> /\ db' = "failed"
    BY <1>9 DEF DbFails
  <2> QED
    BY <2>1 DEF SettledOK
<1>10. CASE Tick \/ Stop \/ Shutdown
  BY <1>10 DEF Tick, Stop, Shutdown, Drained, IndexerStopped, CloseLock, Close, SettledOK
<1> QED
  BY <1>1, <1>2, <1>3, <1>4, <1>5, <1>6, <1>7, <1>8, <1>9, <1>10 DEF Next, Handler, Work, Parties

-----------------------------------------------------------------------------
\* The shutdown: requests first, then the indexer, then the tasks they left,
\* which the two mutexes hold the shutdown back for.

Gone(p) == pc[p] \in {"idle", "done"}

StoppedOK ==
    /\ server \in {"serving", "draining", "stopping", "closing", "closed"}
    /\ server \in {"stopping", "closing", "closed"} => \A r \in Requests : Gone(r)
    /\ server \in {"closing", "closed"} => Gone(Indexer)
    /\ db = "closed" => server = "closed"
    /\ server = "closed" => \A p \in Parties : job[p] \in {"none", "scoring"}

\* Who holds both mutexes is alone with the batches.
LEMMA CloserAlone ==
    ASSUME Base, Holds(Closer, "index"), Holds(Closer, "schema"), NEW p \in Parties
    PROVE  job[p] \in {"none", "scoring"}
<1>1. JobOK(kind[p], pc[p], job[p]) /\ p # Closer
  BY DEF Base, Parties
<1>2. ~First(queue["index"], p) /\ ~First(queue["schema"], p)
  BY <1>1 DEF First, Holds
<1>3. ~HasIt("index", p) /\ ~HasIt("schema", p)
  BY <1>2 DEF Base, QueueOK, Locks
<1> QED
  BY <1>1, <1>3 DEF HasIt, Has, JobOK

LEMMA StoppedStep ==
    ASSUME StoppedOK, NEW p \in Parties, Others(p), UNCHANGED server, db' \in {db, "failed"},
           Gone(p) => Gone(p)' /\ (job[p] \in {"none", "scoring"} => job'[p] \in {"none", "scoring"})
    PROVE  StoppedOK'
<1>1. /\ \A q \in Parties : Gone(q) => Gone(q)'
      /\ \A q \in Parties : Gone(q) /\ job[q] \in {"none", "scoring"} => job'[q] \in {"none", "scoring"}
  BY DEF Others, Gone
<1> QED
  BY <1>1 DEF StoppedOK, Parties

LEMMA StoppedNext == Base /\ StoppedOK /\ [Next]_vars => StoppedOK'
<1> SUFFICES ASSUME Base, StoppedOK, [Next]_vars PROVE StoppedOK'
  OBVIOUS
<1>1. CASE UNCHANGED vars
  BY <1>1 DEF vars, StoppedOK, Gone
<1>2. ASSUME NEW p \in Requests, Admit(p) PROVE StoppedOK'
  BY <1>2 DEF Admit, StoppedOK
<1>3. ASSUME NEW p \in Parties,
             \/ p \in Requests /\ (Timeout(p) \/ Disconnect(p))
             \/ Refuse(p) \/ Answer(p) \/ Joined(p)
      PROVE  StoppedOK'
  <2>1. /\ UNCHANGED <<server, db, job>> /\ Others(p) /\ Gone(p)'
    BY <1>3 DEF Timeout, Disconnect, Refuse, Answer, Joined, Ends, Others, Base, Gone
  <2> QED
    BY <2>1, StoppedStep
<1>4. ASSUME NEW p \in Parties,
             \/ Score(p) \/ Stream(p) \/ Snapshot(p)
             \/ LockSchema(p) \/ SpawnCommit(p) \/ SpawnRebuild(p)
      PROVE  StoppedOK'
  <2>1. UNCHANGED <<server, db>> /\ Others(p) /\ ~Gone(p)
    BY <1>4 DEF Score, Stream, Snapshot, LockSchema, SpawnCommit, SpawnRebuild, Others, Base, Gone
  <2> QED
    BY <2>1, StoppedStep
<1>5. ASSUME NEW p \in Requests, Scored(p) PROVE StoppedOK'
  <2>1. /\ UNCHANGED <<server, db>> /\ Others(p) /\ p \in Parties
        /\ job'[p] = "none" /\ (pc[p] # "awaiting" => pc'[p] = pc[p])
    BY <1>5 DEF Scored, Others, Base, Parties
  <2> QED
    BY <2>1, StoppedStep DEF Gone
<1>6. ASSUME NEW p \in Parties, Work(p) PROVE StoppedOK'
  <2>1. /\ UNCHANGED <<server, pc>> /\ Others(p) /\ db' \in {db, "failed"}
        /\ job[p] \in {"look", "build", "run", "commit"}
    BY <1>6 DEF Work, Look, Publish, Commit, Durable, TaskFails, DbFails, TaskEnds, Others, Base
  <2> QED
    BY <2>1, StoppedStep DEF Gone
<1>7. CASE Tick
  BY <1>7 DEF Tick, StoppedOK, Gone, Parties
<1>8. CASE Stop \/ Drained \/ IndexerStopped \/ CloseLock
  BY <1>8 DEF Stop, Drained, IndexerStopped, CloseLock, StoppedOK, Gone
<1>9. CASE Close
  <2>1. Holds(Closer, "index") /\ Holds(Closer, "schema")
    <3>1. 1 \in DOMAIN CloseOrder /\ 2 \in DOMAIN CloseOrder
          /\ CloseOrder[1] = "index" /\ CloseOrder[2] = "schema"
      BY DEF CloseOrder
    <3> QED
      BY <1>9, <3>1 DEF Close, Locked
  <2>2. \A p \in Parties : job[p] \in {"none", "scoring"}
    BY <2>1, CloserAlone
  <2> QED
    BY <1>9, <2>2 DEF Close, StoppedOK, Gone
<1> QED
  BY <1>1, <1>2, <1>3, <1>4, <1>5, <1>6, <1>7, <1>8, <1>9 DEF Next, Handler, Shutdown, Parties

-----------------------------------------------------------------------------
\* Handlers and their tasks do what their kind allows, and a party is in the
\* queue of a mutex exactly when it waits for it or holds it.
THEOREM BaseInvariant == Spec => []Base
<1> QED
  BY BaseInit, BaseNext, PTL DEF Spec

\* A query, its batch and its export stream keep the slot until they end.
THEOREM PermitsInvariant == Spec => []PermitsOK
<1> QED
  BY BaseInvariant, PermitsInit, PermitsNext, PTL DEF Spec

\* While the database is open, the commits in flight are those of the tasks
\* that hold schema_lock for them, and no snapshot saw one.
THEOREM SettledInvariant == Spec => []SettledOK
<1>1. Init => SettledOK
  BY DEF Init, SettledOK
<1> QED
  BY <1>1, BaseInvariant, SettledNext, PTL DEF Spec

\* The order of the shutdown: requests, indexer, tasks, database.
THEOREM StoppedInvariant == Spec => []StoppedOK
<1>1. Init => StoppedOK
  BY DEF Init, StoppedOK
<1> QED
  BY <1>1, BaseInvariant, StoppedNext, PTL DEF Spec

\* The types, and no more handlers or queries than there are permits for
\* (api.rs:80, engine.rs:143).
THEOREM AdmissionType == Spec => []TypeOK
<1>1. Base /\ PermitsOK /\ SettledOK /\ StoppedOK => TypeOK
  <2> SUFFICES ASSUME Base, PermitsOK, SettledOK, StoppedOK PROVE TypeOK
    OBVIOUS
  <2>1. /\ pc \in [Parties -> Handling \cup {"idle", "streaming", "done"}]
        /\ job \in [Parties -> {"none", "scoring", "look", "build", "run", "commit"}]
    BY DEF Base, JobOK, Handling
  <2>2. \A l \in Locks : queue[l] \in Seq(Parties \cup {Closer})
    BY DEF Base, QueueOK, Everyone
  <2> QED
    BY <2>1, <2>2 DEF TypeOK, Base, PermitsOK, SettledOK, StoppedOK
<1> QED
  BY <1>1, BaseInvariant, PermitsInvariant, SettledInvariant, StoppedInvariant, PTL

\* Searches, their batches and the export streams together are never more than
\* max_concurrent_queries, whoever has gone away (search.rs:84).
THEOREM WorkStaysBounded == Spec => []WorkIsBounded
<1>1. PermitsOK => WorkIsBounded
  <2> SUFFICES ASSUME PermitsOK PROVE WorkIsBounded
    OBVIOUS
  <2>1. Searching \subseteq slots
    BY DEF Searching, PermitsOK, Busy
  <2> QED
    BY <2>1, Shrinks DEF PermitsOK, WorkIsBounded
<1> QED
  BY <1>1, PermitsInvariant, PTL

\* No snapshot is taken while a commit is in flight, and no two commits are
\* (engine.rs:222).
THEOREM SnapshotsStaySettled == Spec => []SnapshotsAreSettled
<1>1. Base /\ SettledOK => SnapshotsAreSettled
  <2> SUFFICES ASSUME Base, SettledOK, db = "open" PROVE Cardinality(commits) <= 1
    BY DEF SnapshotsAreSettled, SettledOK
  <2>1. ASSUME NEW p \in commits, NEW q \in commits PROVE p = q
    <3>1. p \in Parties /\ q \in Parties /\ job[p] = "commit" /\ job[q] = "commit"
      BY DEF SettledOK
    <3>2. HasIt("schema", p) /\ HasIt("schema", q)
      BY <3>1 DEF HasIt, Has
    <3>3. First(queue["schema"], p) /\ First(queue["schema"], q)
      BY <3>1, <3>2 DEF Base, QueueOK, Locks
    <3> QED
      BY <3>3 DEF First
  <2>2. CASE commits = {}
    BY <2>2, FS_EmptySet
  <2>3. CASE commits # {}
    <3>1. PICK p \in commits : commits = {p}
      BY <2>1, <2>3
    <3>2. \A x : Cardinality({x}) = 1
      BY ONLY FS_Singleton
    <3>3. Cardinality(commits) = 1
      BY Zenon, <3>1, <3>2
    <3> QED
      BY ONLY <3>3
  <2> QED
    BY <2>2, <2>3
<1> QED
  BY <1>1, BaseInvariant, SettledInvariant, PTL

\* When the database is closed, no task that a request or the indexer left
\* behind still uses it (engine.rs:197).
THEOREM DatabaseClosesQuietly == Spec => []ClosedQuietly
<1>1. StoppedOK => ClosedQuietly
  BY DEF StoppedOK, ClosedQuietly
<1> QED
  BY <1>1, StoppedInvariant, PTL
=============================================================================
