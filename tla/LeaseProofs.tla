---------------------------- MODULE LeaseProofs ----------------------------
(***************************************************************************)
(* Theorems about module Lease, for any workers, TTLs and number of faults.*)
(*                                                                         *)
(* A worker claims the lease while its deadline lasts, or when a PUT of its*)
(* has succeeded and is younger than its TTL.  Whoever claims it is the one*)
(* the object names; no PUT of another can replace the object, because an  *)
(* observer counts from a moment no earlier than the start of the PUT the  *)
(* deadline counts from.                                                   *)
(***************************************************************************)
EXTENDS Lease, TLAPS

USE LeaseNone, LeaseBounds

-----------------------------------------------------------------------------
\* The inductive invariant.

Current == IF object = None THEN None ELSE object.etag

\* An ETag that a PUT on its way will bring has not been seen anywhere.
Known(e) ==
    \/ e = Current
    \/ \E w \in Workers : e \in {seen[w].etag, observed[w].etag, owned[w], put[w].expect}
Unborn ==
    /\ \A w \in Workers : put[w].reply = "sent" =>
          /\ ~Known(put[w].new)
          /\ \A v \in Workers \ {w} : put[v].new # put[w].new
    /\ \A s \in stray : ~Known(s.new) /\ \A w \in Workers : put[w].new # s.new

\* What the places of the loop say about the lease, the engine and the requests.
PlaceOK(w) ==
    /\ pc[w] \in {"get", "seen", "drop", "lose"} => owned[w] = None
    /\ put[w].reply = "sent" /\ owned[w] # None => put[w].expect = owned[w]
    /\ active[w] => owned[w] # None
    /\ opening[w] # "none" => owned[w] # None /\ ~active[w] /\ ~work[w]
    /\ work[w] => active[w] \/ pc[w] \in {"drop", "lose"}
LoopOK == \A w \in Workers : PlaceOK(w)

\* Where the object comes from.
WrittenOK ==
    /\ object # None => object.ttl = Ttl[object.node]
    /\ \A w \in Workers :
          /\ seen[w].etag = Current /\ Current # None => seen[w] = object
          /\ owned[w] = Current /\ Current # None => object.node = w
          /\ owned[w] # None => \A s \in stray : s.node = w => object # None /\ object.node = w

Holds(w)  == owned[w] # None /\ left[w] > 0
Claims(w) == Holds(w) \/ Won(w)

ClaimAt(w) ==
    /\ Claims(w) =>
          /\ object # None /\ object.node = w
          /\ \A s \in stray : s.node = w
          /\ \A v \in Workers \ {w} : put[v].reply = "sent" => put[v].expect # Current
    /\ Won(w) => object.etag = put[w].new /\ stray = {}
ClaimOK == \A w \in Workers : ClaimAt(w)

\* How long others have observed the object: never longer than its writer knows.
AgeAt(w) ==
    /\ left[w] <= Ttl[w]
    /\ \A v \in Workers \ {w} : observed[v].etag = Current /\ Current # None =>
          /\ Holds(w) => left[w] + observed[v].age <= Ttl[w]
          /\ Won(w) => observed[v].age <= put[w].age
AgeOK == \A w \in Workers : AgeAt(w)

\* A worker that has opened the database for the lease it wrote last has every
\* commit, and no request of another can commit.
Opened(w) == opening[w] \in {"fenced", "done"} \/ active[w]
Commits(w) == work[w] /\ db[w] = "open" /\ writer = w
ServeAt(w) ==
    Opened(w) /\ object # None /\ object.node = w =>
        w \notin behind /\ \A v \in Workers \ {w} : ~Commits(v)
ServeOK == \A w \in Workers : ServeAt(w)

LeaseInv == TypeOK /\ LoopOK /\ Unborn /\ WrittenOK /\ ClaimOK /\ AgeOK /\ ServeOK

-----------------------------------------------------------------------------
\* Types.

PutType == [expect : Etags \cup {None}, new : Etags \cup {None}, age : Nat,
            reply : {"none", "sent", "ok", "refused", "lost"}]
ObservedType == [etag : Etags \cup {None}, age : Nat]

\* A PUT that has been answered, and one that has aged.
LEMMA AnsweredType ==
    ASSUME TypeOK, NEW w \in Workers, NEW reply \in {"ok", "refused", "lost"},
           NEW new \in Etags \cup {None}, reply = "ok" => new \in Etags,
           put' = Answered(w, reply, new)
    PROVE  /\ put' \in [Workers -> PutType]
           /\ \A v \in Workers : put'[v].reply \in {"sent", "ok"} => put'[v].new \in Etags
           /\ \A v \in Workers \ {w} : put'[v] = put[v]
           /\ put'[w] = [expect |-> None, new |-> new, age |-> put[w].age, reply |-> reply]
<1>1. put \in [Workers -> PutType] /\ put[w].age \in Nat
  BY DEF TypeOK, PutType
<1>2. [expect |-> None, new |-> new, age |-> put[w].age, reply |-> reply] \in PutType
  BY <1>1 DEF PutType
<1>3. /\ put'[w] = [expect |-> None, new |-> new, age |-> put[w].age, reply |-> reply]
      /\ \A v \in Workers \ {w} : put'[v] = put[v]
      /\ put' \in [Workers -> PutType]
  BY <1>1, <1>2 DEF Answered
<1>4. \A v \in Workers : put[v].reply \in {"sent", "ok"} => put[v].new \in Etags
  BY DEF TypeOK
<1>5. put'[w].reply \in {"sent", "ok"} => put'[w].new \in Etags
  BY <1>3
<1>6. \A v \in Workers : put'[v].reply \in {"sent", "ok"} => put'[v].new \in Etags
  BY <1>3, <1>4, <1>5
<1> QED
  BY <1>3, <1>6

LEMMA AgedPut ==
    ASSUME NEW p \in PutType, NEW a \in Nat
    PROVE  [p EXCEPT !.age = a]
              = [expect |-> p.expect, new |-> p.new, age |-> a, reply |-> p.reply]
  BY DEF PutType

\* The interval and the longest TTL are numbers.
LEMMA Times ==
    /\ Longest \in Nat
    /\ \A w \in Workers : Interval(w) \in Nat /\ Ttl[w] \in Nat /\ Ttl[w] > 0
<1>1. \A w \in Workers : Ttl[w] \in Nat /\ Ttl[w] > 0
  OBVIOUS
<1>2. \A w \in Workers : Interval(w) \in Nat
  BY <1>1 DEF Interval
<1>3. PICK w \in Workers : \A v \in Workers : Ttl[v] <= Ttl[w]
  OBVIOUS
<1>4. Ttl[w] \in {Ttl[u] : u \in Workers} /\ \A v \in Workers : Ttl[v] <= Ttl[w]
  BY <1>3
<1>5. Longest \in {Ttl[u] : u \in Workers}
  BY <1>4 DEF Longest
<1> QED
  BY <1>1, <1>2, <1>5

\* A PUT is sent with a nonce that nothing refers to.
LEMMA SendNonce ==
    ASSUME TypeOK, NEW w \in Workers, NEW expect \in Etags \cup {None}, Send(w, expect)
    PROVE  \E nonce \in Etags :
              /\ nonce \notin InUse
              /\ \A v \in Workers : put'[v].reply \in {"sent", "ok"} => put'[v].new \in Etags
              /\ put' = [put EXCEPT ![w] = [expect |-> expect, new |-> nonce, age |-> 0,
                                            reply |-> "sent"]]
              /\ put' \in [Workers -> PutType]
              /\ pc' = [pc EXCEPT ![w] = "put"]
<1> DEFINE nonce == CHOOSE e \in Fresh : TRUE
<1>1. nonce \in Fresh
  BY DEF Send
<1>2. nonce \in Etags /\ nonce \notin InUse
  BY <1>1 DEF Fresh
<1>3. /\ put' = [put EXCEPT ![w] = [expect |-> expect, new |-> nonce, age |-> 0,
                                    reply |-> "sent"]]
      /\ pc' = [pc EXCEPT ![w] = "put"]
  BY DEF Send, Goto
<1> HIDE DEF nonce
<1>4. put' \in [Workers -> PutType]
  BY <1>2, <1>3 DEF TypeOK, PutType
<1>5. \A v \in Workers : put'[v].reply \in {"sent", "ok"} => put'[v].new \in Etags
  BY <1>2, <1>3 DEF TypeOK
<1> QED
  BY <1>2, <1>3, <1>4, <1>5

LEMMA InitType == Init => TypeOK
  BY DEF Init, TypeOK, Unseen, Nothing, NoPut

\* Each step of a worker's loop keeps the types.
LEMMA LoopType == ASSUME TypeOK, NEW w \in Workers, Loop(w) PROVE TypeOK'
<1>1. CASE Tick(w)
  <2>1. wait' \in [Workers -> Nat]
    BY <1>1, Times DEF Tick, TypeOK
  <2>2. CASE owned[w] # None /\ Expired(w) /\ Retire(w) /\ Goto(w, "drop") /\ UNCHANGED put
    BY <1>1, <2>1, <2>2 DEF Tick, Retire, Goto, TypeOK, Nothing
  <2>3. CASE /\ owned[w] # None /\ ~Expired(w) /\ Send(w, owned[w])
             /\ UNCHANGED <<owned, observed, engines>>
    <3>1. owned[w] \in Etags \cup {None}
      BY DEF TypeOK
    <3>2. /\ put' \in [Workers -> PutType] /\ pc' = [pc EXCEPT ![w] = "put"]
          /\ \A v \in Workers : put'[v].reply \in {"sent", "ok"} => put'[v].new \in Etags
      BY <2>3, <3>1, SendNonce
    <3> QED
      BY <1>1, <2>1, <2>3, <3>2 DEF Tick, TypeOK, engines, PutType
  <2>4. CASE owned[w] = None /\ Goto(w, "get") /\ UNCHANGED <<put, owned, observed, engines>>
    BY <1>1, <2>1, <2>4 DEF Tick, TypeOK, Goto, engines
  <2> QED
    BY <1>1, <2>2, <2>3, <2>4 DEF Tick
<1>2. CASE Close(w)
  BY <1>2 DEF Close, Goto, TypeOK, local
<1>3. CASE Get(w)
  <2>1. seen' \in [Workers -> Lease \cup {Unseen}]
    <3>1. seen \in [Workers -> Lease \cup {Unseen}] /\ object \in Lease \cup {None}
      BY DEF TypeOK
    <3>2. (IF object = None THEN Unseen ELSE object) \in Lease \cup {Unseen}
      BY <3>1
    <3>3. \/ seen' = [seen EXCEPT ![w] = IF object = None THEN Unseen ELSE object]
          \/ seen' = seen
      BY <1>3 DEF Get
    <3> QED
      BY <3>1, <3>2, <3>3
  <2>2. faults' \in 0 .. MaxFaults
    BY <1>3 DEF Get, Fault, TypeOK
  <2> QED
    BY <1>3, <2>1, <2>2 DEF Get, Goto, TypeOK, engines
<1>4. CASE Judge(w)
  <2>1. seen[w].etag \in Etags \cup {None}
    BY DEF TypeOK, Lease, Unseen
  <2>2. seen' \in [Workers -> Lease \cup {Unseen}]
    BY <1>4 DEF Judge, TypeOK
  <2>3. observed' \in [Workers -> ObservedType]
    <3>1. UNCHANGED observed \/ observed' = [observed EXCEPT ![w] = [etag |-> seen[w].etag, age |-> 0]]
      BY <1>4 DEF Judge
    <3>2. [etag |-> seen[w].etag, age |-> 0] \in ObservedType
      BY <2>1 DEF ObservedType
    <3>3. observed \in [Workers -> ObservedType]
      BY DEF TypeOK, ObservedType
    <3> QED
      BY <3>1, <3>2, <3>3
  <2>4. /\ put' \in [Workers -> PutType]
        /\ \A v \in Workers : put'[v].reply \in {"sent", "ok"} => put'[v].new \in Etags
        /\ pc' \in [Workers -> {"idle", "drop", "get", "seen", "put", "lose", "settle"}]
    <3>1. CASE \E expect \in Etags \cup {None} : Send(w, expect)
      <4>1. /\ put' \in [Workers -> PutType] /\ pc' = [pc EXCEPT ![w] = "put"]
            /\ \A v \in Workers : put'[v].reply \in {"sent", "ok"} => put'[v].new \in Etags
        BY <3>1, SendNonce
      <4> QED
        BY <4>1 DEF TypeOK
    <3>2. CASE Goto(w, "idle") /\ UNCHANGED put
      BY <3>2 DEF Goto, TypeOK, PutType
    <3> QED
      BY <1>4, <2>1, <3>1, <3>2 DEF Judge
  <2> QED
    BY <1>4, <2>2, <2>3, <2>4 DEF Judge, TypeOK, engines, PutType, ObservedType
<1>5. CASE Win(w)
  <2>1. Deadline(w) \in Nat /\ put[w].new \in Etags
    BY <1>5, Times DEF Win, Deadline, Won, TypeOK
  <2>2. left' \in [Workers -> Nat] /\ owned' \in [Workers -> Etags \cup {None}]
    BY <1>5, <2>1 DEF Win, TypeOK
  <2>3. observed' \in [Workers -> ObservedType]
    BY <1>5 DEF Win, TypeOK, Nothing, ObservedType
  <2>4. opening' \in [Workers -> {"none", "running", "fenced", "done", "failed"}]
    BY <1>5 DEF Win, TypeOK
  <2>5. /\ put' \in [Workers -> PutType]
        /\ \A v \in Workers : put'[v].reply \in {"sent", "ok"} => put'[v].new \in Etags
    BY <1>5 DEF Win, TypeOK, PutType, NoPut
  <2>6. pc' \in [Workers -> {"idle", "drop", "get", "seen", "put", "lose", "settle"}]
    BY <1>5 DEF Win, Goto, TypeOK
  <2> QED
    BY <1>5, <2>2, <2>3, <2>4, <2>5, <2>6 DEF Win, TypeOK, PutType, ObservedType
<1>7. CASE Lose(w)
  <2>1. stray' \subseteq [node : Workers, new : Etags]
    BY <1>7 DEF Lose, Strays, TypeOK
  <2>2. observed' \in [Workers -> ObservedType]
    BY <1>7 DEF Lose, Retire, TypeOK, Nothing, ObservedType
  <2>3. owned' \in [Workers -> Etags \cup {None}]
    BY <1>7 DEF Lose, Retire, TypeOK
  <2>4. /\ opening' \in [Workers -> {"none", "running", "fenced", "done", "failed"}]
        /\ active' \in [Workers -> BOOLEAN]
        /\ UNCHANGED <<db, writer, work, behind>>
    BY <1>7 DEF Lose, Retire, TypeOK
  <2>5. /\ put' \in [Workers -> PutType]
        /\ \A v \in Workers : put'[v].reply \in {"sent", "ok"} => put'[v].new \in Etags
    BY <1>7 DEF Lose, TypeOK, PutType, NoPut
  <2>6. pc' \in [Workers -> {"idle", "drop", "get", "seen", "put", "lose", "settle"}]
    BY <1>7 DEF Lose, Goto, TypeOK
  <2> QED
    BY <1>7, <2>1, <2>2, <2>3, <2>4, <2>5, <2>6 DEF Lose, TypeOK, PutType, ObservedType
<1>6. CASE Settle(w)
  <2>0. UNCHANGED <<owned, observed>> \/ GiveUp(w)
    BY <1>6 DEF Settle
  <2>1. owned' \in [Workers -> Etags \cup {None}] /\ observed' \in [Workers -> ObservedType]
    <3>1. CASE UNCHANGED <<owned, observed>>
      BY <3>1 DEF TypeOK, ObservedType
    <3>2. CASE GiveUp(w)
      <4>1. Nothing \in ObservedType
        BY DEF Nothing, ObservedType
      <4> QED
        BY <3>2, <4>1 DEF GiveUp, TypeOK, ObservedType
    <3> QED
      BY <2>0, <3>1, <3>2
  <2>2. /\ opening' \in [Workers -> {"none", "running", "fenced", "done", "failed"}]
        /\ db' \in [Workers -> {"none", "open", "closed"}]
        /\ active' \in [Workers -> BOOLEAN]
    <3>1. CASE UNCHANGED <<opening, db, active>>
      BY <3>1 DEF TypeOK
    <3>2. CASE /\ active' = [active EXCEPT ![w] = TRUE]
               /\ opening' = [opening EXCEPT ![w] = "none"] /\ UNCHANGED db
      BY <3>2 DEF TypeOK
    <3>3. CASE GiveUp(w) /\ UNCHANGED active
      BY <3>3 DEF GiveUp, TypeOK
    <3> QED
      BY <1>6, <3>1, <3>2, <3>3 DEF Settle
  <2>3. pc' \in [Workers -> {"idle", "drop", "get", "seen", "put", "lose", "settle"}]
    BY <1>6 DEF Settle, Goto, TypeOK
  <2> QED
    BY <1>6, <2>1, <2>2, <2>3 DEF Settle, TypeOK, ObservedType
<1> QED
  BY <1>1, <1>2, <1>3, <1>4, <1>5, <1>6, <1>7 DEF Loop

\* The store, the opening task, the requests, time and failures.
LEMMA StoreType ==
    ASSUME TypeOK, NEW w \in Workers, PutServed(w) \/ PutLost(w) \/ Crash(w)
    PROVE  TypeOK'
<1>1. CASE PutServed(w)
  <2>1. put[w].new \in Etags
    BY <1>1 DEF PutServed, TypeOK
  <2>2. object' \in Lease \cup {None}
    BY <1>1, <2>1, Times DEF PutServed, Written, Lease, TypeOK
  <2>3. /\ put' \in [Workers -> PutType]
        /\ \A v \in Workers : put'[v].reply \in {"sent", "ok"} => put'[v].new \in Etags
    <3>1. CASE put' = Answered(w, "ok", put[w].new)
      BY <2>1, <3>1, AnsweredType
    <3>2. CASE put' = Answered(w, "refused", None)
      BY <3>2, AnsweredType
    <3> QED
      BY <1>1, <3>1, <3>2 DEF PutServed
  <2> QED
    BY <1>1, <2>2, <2>3 DEF PutServed, TypeOK, PutType, engines
<1>2. CASE PutLost(w)
  <2>1. /\ put' \in [Workers -> PutType]
        /\ \A v \in Workers : put'[v].reply \in {"sent", "ok"} => put'[v].new \in Etags
    BY <1>2, AnsweredType DEF PutLost
  <2>2. stray' \subseteq [node : Workers, new : Etags] /\ faults' \in 0 .. MaxFaults
    BY <1>2 DEF PutLost, Strays, Fault, TypeOK
  <2> QED
    BY <1>2, <2>1, <2>2 DEF PutLost, TypeOK, PutType, engines
<1>3. CASE Crash(w)
  <2>1. /\ put' \in [Workers -> PutType]
        /\ \A v \in Workers : put'[v].reply \in {"sent", "ok"} => put'[v].new \in Etags
    BY <1>3 DEF Crash, TypeOK, PutType, NoPut
  <2>2. stray' \subseteq [node : Workers, new : Etags] /\ faults' \in 0 .. MaxFaults
    BY <1>3 DEF Crash, Strays, Fault, TypeOK
  <2>3. /\ wait' \in [Workers -> Nat] /\ left' \in [Workers -> Nat]
        /\ seen' \in [Workers -> Lease \cup {Unseen}]
        /\ observed' \in [Workers -> ObservedType]
        /\ owned' \in [Workers -> Etags \cup {None}]
    BY <1>3 DEF Crash, TypeOK, Nothing, ObservedType
  <2>4. /\ pc' \in [Workers -> {"idle", "drop", "get", "seen", "put", "lose", "settle"}]
        /\ run' \in [Workers -> {"up", "paused", "down"}]
        /\ opening' \in [Workers -> {"none", "running", "fenced", "done", "failed"}]
        /\ db' \in [Workers -> {"none", "open", "closed"}]
        /\ active' \in [Workers -> BOOLEAN] /\ work' \in [Workers -> BOOLEAN]
    BY <1>3 DEF Crash, Goto, TypeOK
  <2> QED
    BY <1>3, <2>1, <2>2, <2>3, <2>4 DEF Crash, TypeOK, PutType, ObservedType
<1> QED
  BY <1>1, <1>2, <1>3

LEMMA EngineType ==
    ASSUME TypeOK, NEW w \in Workers,
           Opening(w) \/ Requests(w) \/ Pause(w) \/ Recover(w)
    PROVE  TypeOK'
<1>1. CASE Opening(w)
  <2>1. /\ opening' \in [Workers -> {"none", "running", "fenced", "done", "failed"}]
        /\ db' \in [Workers -> {"none", "open", "closed"}]
        /\ writer' \in Workers \cup {None} /\ behind' \subseteq Workers
    <3>1. CASE OpenFences(w)
      BY <3>1 DEF OpenFences, TypeOK
    <3>2. CASE OpenDone(w)
      BY <3>2 DEF OpenDone, TypeOK
    <3>3. CASE OpenFails(w)
      BY <3>3 DEF OpenFails, TypeOK
    <3>4. CASE Notice(w)
      BY <3>4 DEF Notice, TypeOK
    <3> QED
      BY <1>1, <3>1, <3>2, <3>3, <3>4 DEF Opening
  <2>2. faults' \in 0 .. MaxFaults
    BY <1>1 DEF Opening, OpenFences, OpenDone, OpenFails, Notice, Fault, TypeOK
  <2>3. UNCHANGED <<object, run, pc, local, stray, active, work>>
    BY <1>1 DEF Opening, OpenFences, OpenDone, OpenFails, Notice
  <2> QED
    BY <2>1, <2>2, <2>3 DEF TypeOK, local
<1>2. CASE Requests(w)
  <2>1. behind' \subseteq Workers /\ work' \in [Workers -> BOOLEAN]
    BY <1>2 DEF Requests, Admit, Serve, TypeOK
  <2> QED
    BY <1>2, <2>1 DEF Requests, Admit, Serve, TypeOK, local
<1>3. CASE Pause(w) \/ Recover(w)
  <2>0. faults' \in 0 .. MaxFaults
    BY <1>3 DEF Pause, Recover, Resume, Restart, Fault, TypeOK
  <2>1. run' \in [Workers -> {"up", "paused", "down"}]
    <3>1. \E s \in {"up", "paused"} : run' = [run EXCEPT ![w] = s]
      BY <1>3 DEF Pause, Recover, Resume, Restart
    <3> QED
      BY <3>1 DEF TypeOK
  <2>2. UNCHANGED <<object, pc, local, stray, engines>>
    BY <1>3 DEF Pause, Recover, Resume, Restart
  <2> QED
    BY <2>0, <2>1, <2>2 DEF TypeOK, local, engines
<1> QED
  BY <1>1, <1>2, <1>3

LEMMA StrayType == ASSUME TypeOK, NEW s \in stray, StrayLands(s) PROVE TypeOK'
<1>1. s.node \in Workers /\ s.new \in Etags
  BY DEF TypeOK
<1>2. object' \in Lease \cup {None}
  BY <1>1, Times DEF StrayLands, Written, Lease
<1> QED
  BY <1>2 DEF StrayLands, TypeOK, local, engines

\* Time: an age does not shrink, does not overtake an older one, and grows by
\* one at most; what is left shrinks by one at most.
LEMMA Aging ==
    /\ \A a \in Nat : Older(a) \in Nat /\ a <= Older(a) /\ Older(a) <= a + 1
    /\ \A a, b \in Nat : a <= b => Older(a) <= Older(b)
    /\ \A t \in Nat : Sooner(t) \in Nat /\ Sooner(t) <= t /\ (Sooner(t) > 0 => Sooner(t) = t - 1)
  BY Times DEF Older, Sooner

LEMMA AdvanceStep ==
    ASSUME TypeOK, Advance
    PROVE  \A w \in Workers :
              /\ wait'[w] = Sooner(wait[w]) /\ left'[w] = Sooner(left[w])
              /\ observed'[w].etag = observed[w].etag
              /\ observed'[w].age \in {observed[w].age, Older(observed[w].age), 0}
              /\ observed[w].etag # None => observed'[w].age = Older(observed[w].age)
              /\ put[w].reply = "none" => put'[w] = NoPut
              /\ put[w].reply # "none" => put'[w] = [put[w] EXCEPT !.age = Older(@)]
  BY DEF Advance, TypeOK, Nothing

LEMMA AdvancePut ==
    ASSUME TypeOK, Advance, NEW w \in Workers
    PROVE  /\ put'[w].reply = put[w].reply
           /\ put[w].reply # "none" =>
                 /\ put'[w].expect = put[w].expect /\ put'[w].new = put[w].new
                 /\ put'[w].age = Older(put[w].age)
           /\ put[w].reply = "none" => put'[w].expect = None /\ put'[w].new = None
<1>1. put[w] \in PutType /\ Older(put[w].age) \in Nat
  BY Aging DEF TypeOK, PutType
<1>2. CASE put[w].reply = "none"
  <2>1. put'[w] = NoPut
    BY <1>2, AdvanceStep
  <2> QED
    BY <1>2, <2>1 DEF NoPut
<1>3. CASE put[w].reply # "none"
  <2>1. put'[w] = [put[w] EXCEPT !.age = Older(@)]
    BY <1>3, AdvanceStep
  <2>2. put'[w] = [expect |-> put[w].expect, new |-> put[w].new,
                   age |-> Older(put[w].age), reply |-> put[w].reply]
    BY <1>1, <2>1, AgedPut
  <2> QED
    BY <1>3, <2>2
<1> QED
  BY <1>2, <1>3

LEMMA AdvanceType == ASSUME TypeOK, Advance PROVE TypeOK'
<1>1. \A w \in Workers :
          /\ wait'[w] \in Nat /\ left'[w] \in Nat
          /\ observed'[w] \in ObservedType
          /\ put'[w] \in PutType
          /\ put'[w].reply \in {"sent", "ok"} => put'[w].new \in Etags
  <2> TAKE w \in Workers
  <2>1. wait'[w] \in Nat /\ left'[w] \in Nat
    <3>1. wait[w] \in Nat /\ left[w] \in Nat
      BY DEF TypeOK
    <3>2. wait'[w] = Sooner(wait[w]) /\ left'[w] = Sooner(left[w])
      BY AdvanceStep
    <3> QED
      BY <3>1, <3>2, Aging
  <2>2. observed'[w] \in ObservedType
    <3>1. observed[w] \in ObservedType
      BY DEF TypeOK, ObservedType
    <3>2. CASE observed[w].etag = None
      <4>1. observed'[w] = Nothing
        BY <3>2 DEF Advance
      <4> QED
        BY <4>1 DEF Nothing, ObservedType
    <3>3. CASE observed[w].etag # None
      <4>1. observed'[w] = [observed[w] EXCEPT !.age = Older(@)]
        BY <3>3 DEF Advance
      <4>2. Older(observed[w].age) \in Nat
        BY <3>1, Aging DEF ObservedType
      <4> QED
        BY <3>1, <4>1, <4>2 DEF ObservedType
    <3> QED
      BY <3>2, <3>3
  <2>3. put'[w] \in PutType /\ (put'[w].reply \in {"sent", "ok"} => put'[w].new \in Etags)
    <3>1. put[w] \in PutType /\ Older(put[w].age) \in Nat
          /\ (put[w].reply \in {"sent", "ok"} => put[w].new \in Etags)
      BY Aging DEF TypeOK, PutType
    <3>2. CASE put[w].reply = "none"
      <4>1. put'[w] = NoPut
        BY <3>2, AdvanceStep
      <4> QED
        BY <4>1 DEF PutType, NoPut
    <3>3. CASE put[w].reply # "none"
      <4>1. put'[w] = [put[w] EXCEPT !.age = Older(@)]
        BY <3>3, AdvanceStep
      <4>2. put'[w] = [expect |-> put[w].expect, new |-> put[w].new,
                       age |-> Older(put[w].age), reply |-> put[w].reply]
        BY <3>1, <4>1, AgedPut
      <4>3. /\ put[w].expect \in Etags \cup {None} /\ put[w].new \in Etags \cup {None}
            /\ put[w].reply \in {"none", "sent", "ok", "refused", "lost"}
        BY <3>1 DEF PutType
      <4> QED
        BY <3>1, <4>2, <4>3 DEF PutType
    <3> QED
      BY <3>2, <3>3
  <2> QED
    BY <2>1, <2>2, <2>3
<1>2. /\ wait' \in [Workers -> Nat] /\ left' \in [Workers -> Nat]
      /\ observed' \in [Workers -> ObservedType] /\ put' \in [Workers -> PutType]
  BY <1>1 DEF Advance
<1> QED
  BY <1>1, <1>2 DEF Advance, TypeOK, PutType, ObservedType, engines

LEMMA NextType == ASSUME TypeOK, Next PROVE TypeOK'
<1>1. ASSUME NEW w \in Workers,
             Loop(w) \/ PutServed(w) \/ Opening(w) \/ Requests(w) \/ Disturb(w) \/ Recover(w)
      PROVE  TypeOK'
  BY <1>1, LoopType, StoreType, EngineType DEF Disturb
<1> QED
  BY <1>1, StrayType, AdvanceType DEF Next

-----------------------------------------------------------------------------
\* A step of one worker, as the others see it.

Step(w) == Loop(w) \/ PutServed(w) \/ Opening(w) \/ Requests(w) \/ Disturb(w) \/ Recover(w)

LEMMA OthersSame ==
    ASSUME TypeOK, NEW w \in Workers, Step(w), NEW v \in Workers \ {w}
    PROVE  /\ pc'[v] = pc[v] /\ seen'[v] = seen[v] /\ observed'[v] = observed[v]
           /\ owned'[v] = owned[v] /\ left'[v] = left[v] /\ put'[v] = put[v]
           /\ opening'[v] = opening[v] /\ db'[v] = db[v]
           /\ active'[v] = active[v] /\ work'[v] = work[v]
<1>1. CASE Tick(w)
  <2>1. CASE Send(w, owned[w])
    <3>1. put'[v] = put[v] /\ pc'[v] = pc[v]
      BY <2>1 DEF Send, Goto, TypeOK
    <3> QED
      BY <1>1, <3>1 DEF Tick, Retire, engines, TypeOK
  <2> QED
    BY <1>1, <2>1 DEF Tick, Retire, Goto, engines, TypeOK
<1>2. CASE Close(w)
  BY <1>2 DEF Close, Goto, TypeOK, local
<1>3. CASE Get(w)
  BY <1>3 DEF Get, Goto, TypeOK, engines
<1>4. CASE Judge(w)
  <2>1. put'[v] = put[v] /\ pc'[v] = pc[v] /\ observed'[v] = observed[v] /\ seen'[v] = seen[v]
    BY <1>4 DEF Judge, Send, Goto, TypeOK
  <2> QED
    BY <1>4, <2>1 DEF Judge, engines
<1>5. CASE Win(w)
  BY <1>5 DEF Win, Goto, TypeOK
<1>6. CASE Lose(w)
  BY <1>6 DEF Lose, Retire, Goto, TypeOK
<1>7. CASE Settle(w)
  BY <1>7 DEF Settle, GiveUp, Goto, TypeOK
<1>8. CASE PutServed(w) \/ PutLost(w)
  BY <1>8 DEF PutServed, PutLost, Answered, TypeOK, engines
<1>9. CASE Crash(w)
  BY <1>9 DEF Crash, Goto, TypeOK
<1>10. CASE Opening(w)
  BY <1>10 DEF Opening, OpenFences, OpenDone, OpenFails, Notice, local, TypeOK
<1>11. CASE Requests(w)
  BY <1>11 DEF Requests, Admit, Serve, local, TypeOK
<1>12. CASE Pause(w) \/ Recover(w)
  BY <1>12 DEF Pause, Recover, Resume, Restart, local, engines
<1> QED
  BY <1>1, <1>2, <1>3, <1>4, <1>5, <1>6, <1>7, <1>8, <1>9, <1>10, <1>11, <1>12
     DEF Step, Loop, Disturb

-----------------------------------------------------------------------------
\* The places of the loop.

LEMMA PlaceInv ==
    ASSUME TypeOK, NEW w \in Workers, Step(w), PlaceOK(w)
    PROVE  PlaceOK(w)'
<1>1. CASE Tick(w)
  <2>1. CASE Retire(w) /\ Goto(w, "drop") /\ UNCHANGED put
    BY <1>1, <2>1 DEF Tick, Retire, Goto, TypeOK, PlaceOK
  <2>2. CASE /\ owned[w] # None /\ ~Expired(w) /\ Send(w, owned[w])
             /\ UNCHANGED <<owned, observed, engines>>
    BY <1>1, <2>2 DEF Tick, Send, Goto, TypeOK, PlaceOK, engines, At
  <2>3. CASE owned[w] = None /\ Goto(w, "get") /\ UNCHANGED <<put, owned, observed, engines>>
    BY <1>1, <2>3 DEF Tick, Goto, TypeOK, PlaceOK, engines, At
  <2> QED
    BY <1>1, <2>1, <2>2, <2>3 DEF Tick
<1>2. CASE Close(w)
  BY <1>2 DEF Close, Goto, TypeOK, local, PlaceOK, At
<1>3. CASE Get(w)
  BY <1>3 DEF Get, Goto, TypeOK, engines, PlaceOK, At
<1>4. CASE Judge(w)
  <2>1. owned[w] = None /\ owned' = owned /\ UNCHANGED engines
    BY <1>4 DEF Judge, PlaceOK, At
  <2>2. pc'[w] \notin {"drop", "lose"} /\ pc[w] = "seen"
    BY <1>4 DEF Judge, Send, Goto, TypeOK, At
  <2> QED
    BY <2>1, <2>2 DEF PlaceOK, engines
<1>5. CASE Win(w)
  <2>1. put[w].new \in Etags /\ put[w].new # None
    BY <1>5 DEF Win, Won, TypeOK
  <2>2. owned'[w] # None /\ put'[w] = NoPut /\ pc'[w] = "settle" /\ pc[w] = "put"
    BY <1>5, <2>1 DEF Win, Goto, TypeOK, At
  <2>3. /\ active'[w] = active[w] /\ work'[w] = work[w]
        /\ opening'[w] = IF owned[w] = None THEN "running" ELSE opening[w]
    BY <1>5 DEF Win, TypeOK
  <2> QED
    BY <2>2, <2>3 DEF PlaceOK, NoPut
<1>6. CASE Lose(w)
  BY <1>6 DEF Lose, Retire, Goto, TypeOK, PlaceOK, NoPut
<1>7. CASE Settle(w)
  BY <1>7 DEF Settle, GiveUp, Goto, TypeOK, PlaceOK, At
<1>8. CASE PutServed(w) \/ PutLost(w)
  BY <1>8 DEF PutServed, PutLost, Answered, TypeOK, engines, PlaceOK
<1>9. CASE Crash(w)
  BY <1>9 DEF Crash, Goto, TypeOK, PlaceOK, NoPut
<1>10. CASE Opening(w)
  BY <1>10 DEF Opening, OpenFences, OpenDone, OpenFails, Notice, local, TypeOK, PlaceOK
<1>11. CASE Requests(w)
  BY <1>11 DEF Requests, Admit, Admits, Serve, local, TypeOK, PlaceOK
<1>12. CASE Pause(w) \/ Recover(w)
  BY <1>12 DEF Pause, Recover, Resume, Restart, local, engines, PlaceOK
<1> QED
  BY <1>1, <1>2, <1>3, <1>4, <1>5, <1>6, <1>7, <1>8, <1>9, <1>10, <1>11, <1>12
     DEF Step, Loop, Disturb

LEMMA LoopInv == ASSUME TypeOK, LoopOK, Next PROVE LoopOK'
<1>1. ASSUME NEW w \in Workers, Step(w) PROVE LoopOK'
  <2>1. PlaceOK(w)'
    BY <1>1, PlaceInv DEF LoopOK
  <2>2. \A v \in Workers \ {w} : PlaceOK(v)'
    BY <1>1, OthersSame DEF LoopOK, PlaceOK
  <2> QED
    BY <2>1, <2>2 DEF LoopOK
<1>2. ASSUME NEW s \in stray, StrayLands(s) PROVE LoopOK'
  BY <1>2 DEF StrayLands, LoopOK, PlaceOK, local, engines
<1>3. CASE Advance
  <2>1. \A w \in Workers : put'[w].reply = "sent" =>
            put[w].reply = "sent" /\ put'[w].expect = put[w].expect
    BY <1>3, AdvancePut
  <2> QED
    BY <1>3, <2>1 DEF Advance, LoopOK, PlaceOK, engines
<1> QED
  BY <1>1, <1>2, <1>3 DEF Next, Step

-----------------------------------------------------------------------------
\* The lease object and who claims it.

Core == Unborn /\ WrittenOK /\ ClaimOK /\ AgeOK

LEMMA CurrentType ==
    ASSUME TypeOK
    PROVE  /\ object # None => object \in Lease /\ Current = object.etag /\ Current \in Etags
           /\ object = None => Current = None
           /\ Current # None => object # None
           /\ \A e : Matches(e) <=> e = Current
<1>1. object # None => object \in Lease
  BY DEF TypeOK
<1> QED
  BY <1>1 DEF Current, Lease, Matches

\* A worker forgets, or gives up its PUT: nobody's claim grows.
Yields(w) ==
    /\ object' = object
    /\ \A v \in Workers \ {w} :
          /\ seen'[v] = seen[v] /\ observed'[v] = observed[v] /\ owned'[v] = owned[v]
          /\ left'[v] = left[v] /\ put'[v] = put[v]
    /\ seen'[w] \in {seen[w], Unseen} /\ observed'[w] \in {observed[w], Nothing}
    /\ owned'[w] \in {owned[w], None} /\ left'[w] \in {left[w], 0}
    /\ \/ put'[w] = put[w] /\ stray' = stray
       \/ /\ put'[w].reply \notin {"sent", "ok"} /\ put'[w].new = None /\ put'[w].expect = None
          /\ stray' = Strays(w)

LEMMA YieldsCore ==
    ASSUME TypeOK, TypeOK', LoopOK, Core, NEW w \in Workers, Yields(w)
    PROVE  Core'
<1>1. Current' = Current
  BY DEF Yields, Current
<1>2. \A e \in Etags : Known(e)' => Known(e)
  <2> TAKE e \in Etags
  <2>1. e # None
    OBVIOUS
  <2> QED
    BY <1>1, <2>1 DEF Yields, Known, Unseen, Nothing
<1>3. \A s \in stray' : \/ s \in stray
                        \/ /\ s = [node |-> w, new |-> put[w].new] /\ put[w].reply = "sent"
                           /\ put[w].expect = Current /\ put'[w].new = None
  BY CurrentType DEF Yields, Strays
<1>4. /\ \A v \in Workers : put'[v].reply = "sent" => put[v].reply = "sent"
      /\ \A v \in Workers : put'[v].reply \in {"sent", "ok"} => put'[v] = put[v]
      /\ \A v \in Workers : put'[v].new \in {put[v].new, None}
  BY DEF Yields
<1>5. Unborn'
  <2>1. ASSUME NEW v \in Workers, put'[v].reply = "sent"
        PROVE  /\ (~Known(put[v].new))'
               /\ \A u \in Workers \ {v} : put'[u].new # put'[v].new
    <3>1. put'[v] = put[v] /\ put[v].new \in Etags /\ put[v].reply = "sent"
      BY <2>1, <1>4 DEF TypeOK
    <3> PICK e \in Etags : e = put[v].new
      BY <3>1
    <3>2. ~Known(put[v].new) /\ \A u \in Workers \ {v} : put[u].new # put[v].new
      BY <3>1 DEF Core, Unborn
    <3>3. ~Known(e)' /\ put'[v].new = e
      BY <1>2, <3>1, <3>2
    <3>4. \A u \in Workers \ {v} : put'[u].new # put[v].new
      BY <1>4, <3>1, <3>2
    <3> QED
      BY <3>1, <3>3, <3>4 DEF Known, Current
  <2>2. ASSUME NEW s \in stray'
        PROVE  ~Known(s.new)' /\ \A v \in Workers : put'[v].new # s.new
    <3>1. s.new \in Etags /\ None \notin Etags
      BY DEF TypeOK
    <3>2. CASE s \in stray
      <4>1. ~Known(s.new) /\ \A v \in Workers : put[v].new # s.new
        BY <3>2 DEF Core, Unborn
      <4> QED
        BY <4>1, <3>1, <1>2, <1>4
    <3>3. CASE s.new = put[w].new /\ put[w].reply = "sent" /\ put'[w].new = None
      <4>1. ~Known(s.new) /\ \A v \in Workers \ {w} : put[v].new # s.new
        BY <3>3 DEF Core, Unborn
      <4> QED
        BY <4>1, <3>1, <3>3, <1>2, <1>4
    <3> QED
      BY <3>2, <3>3, <1>3
  <2> QED
    BY <2>1, <2>2 DEF Unborn
<1>6. WrittenOK'
  <2>1. object' # None => object'.ttl = Ttl[object'.node]
    BY DEF Yields, Core, WrittenOK
  <2>2. ASSUME NEW v \in Workers
        PROVE  /\ seen'[v].etag = Current' /\ Current' # None => seen'[v] = object'
               /\ owned'[v] = Current' /\ Current' # None => object'.node = v
    BY <1>1 DEF Yields, Core, WrittenOK, Unseen
  <2>3. ASSUME NEW v \in Workers, owned'[v] # None, NEW s \in stray', s.node = v
        PROVE  object' # None /\ object'.node = v
    <3>1. owned'[v] = owned[v] /\ object' = object
      BY <2>3 DEF Yields
    <3>2. CASE s \in stray
      BY <2>3, <3>1, <3>2 DEF Core, WrittenOK
    <3>3. CASE v = w /\ put[w].reply = "sent" /\ put[w].expect = Current
      <4>1. owned[v] = Current
        BY <2>3, <3>1, <3>3 DEF LoopOK, PlaceOK
      <4> QED
        BY <2>3, <3>1, <4>1, CurrentType DEF Core, WrittenOK
    <3> QED
      BY <2>3, <3>2, <3>3, <1>3
  <2> QED
    BY <2>1, <2>2, <2>3 DEF WrittenOK
<1>7. \A v \in Workers : /\ Holds(v)' => Holds(v) /\ left'[v] = left[v]
                         /\ Won(v)' => Won(v) /\ put'[v] = put[v]
  BY <1>4 DEF Yields, Holds, Won
<1>8. ClaimOK'
  <2> SUFFICES ASSUME NEW x \in Workers PROVE ClaimAt(x)'
    BY DEF ClaimOK
  <2>1. ASSUME Claims(x)'
        PROVE  /\ object' # None /\ object'.node = x
               /\ \A s \in stray' : s.node = x
               /\ \A v \in Workers \ {x} : put'[v].reply = "sent" => put'[v].expect # Current'
    <3>1. Claims(x)
      BY <2>1, <1>7 DEF Claims
    <3>2. /\ object # None /\ object.node = x
          /\ \A s \in stray : s.node = x
          /\ \A v \in Workers \ {x} : put[v].reply = "sent" => put[v].expect # Current
      BY <3>1 DEF Core, ClaimOK, ClaimAt
    <3>3. \A s \in stray' : s.node = x
      BY <3>2, <1>3
    <3>4. \A v \in Workers \ {x} : put'[v].reply = "sent" => put'[v].expect # Current'
      BY <3>2, <1>1, <1>4
    <3> QED
      BY <3>2, <3>3, <3>4 DEF Yields
  <2>2. ASSUME Won(x)' PROVE object'.etag = put'[x].new /\ stray' = {}
    <3>1. /\ Won(x) /\ put'[x] = put[x] /\ put[x].reply = "ok"
          /\ object.etag = put[x].new /\ stray = {}
      BY <2>2, <1>7 DEF Core, ClaimOK, ClaimAt, Won
    <3>2. \A v \in Workers \ {x} : put[v].reply = "sent" => put[v].expect # Current
      BY <3>1 DEF Core, ClaimOK, ClaimAt, Claims
    <3>3. stray' = {}
      BY <3>1, <3>2, <1>3
    <3> QED
      BY <3>1, <3>3 DEF Yields
  <2> QED
    BY <2>1, <2>2 DEF ClaimAt
<1>9. AgeOK'
  <2> SUFFICES ASSUME NEW x \in Workers PROVE AgeAt(x)'
    BY DEF AgeOK
  <2>1. left'[x] <= Ttl[x]
    BY Times DEF Yields, Core, AgeOK, AgeAt
  <2>2. ASSUME NEW v \in Workers \ {x}, observed'[v].etag = Current', Current' # None
        PROVE  /\ Holds(x)' => left'[x] + observed'[v].age <= Ttl[x]
               /\ Won(x)' => observed'[v].age <= put'[x].age
    <3>1. observed'[v] = observed[v]
      BY <2>2 DEF Yields, Nothing
    <3> QED
      BY <2>2, <3>1, <1>1, <1>7 DEF Core, AgeOK, AgeAt
  <2> QED
    BY <2>1, <2>2 DEF AgeAt
<1> QED
  BY <1>5, <1>6, <1>8, <1>9 DEF Core

\* A PUT is sent: by the owner, to create the object, or to replace it once it
\* has been observed for its TTL.  Nobody else claims the lease it would end.
LEMMA SendsCore ==
    ASSUME TypeOK, TypeOK', Core, NEW w \in Workers,
           NEW expect \in {None, owned[w], seen[w].etag}, Send(w, expect),
           UNCHANGED <<object, observed, owned, left, stray>>,
           \A v \in Workers \ {w} : seen'[v] = seen[v],
           seen'[w] \in {seen[w], Unseen},
           \A x \in Workers \ {w} : Claims(x) => expect # Current
    PROVE  Core'
<1>0. expect \in Etags \cup {None}
  BY DEF TypeOK, Lease, Unseen
<1>1. PICK nonce \in Etags :
          /\ nonce \notin InUse
          /\ put' = [put EXCEPT ![w] = [expect |-> expect, new |-> nonce, age |-> 0,
                                        reply |-> "sent"]]
  BY <1>0, SendNonce
<1>2. /\ put'[w].new = nonce /\ put'[w].expect = expect /\ put'[w].reply = "sent"
      /\ \A v \in Workers \ {w} : put'[v] = put[v]
  BY <1>1 DEF TypeOK
<1>3. /\ ~Known(nonce)
      /\ \A v \in Workers : put[v].new # nonce
      /\ \A s \in stray : s.new # nonce
  <2>1. \A v \in Workers : nonce \notin {seen[v].etag, observed[v].etag, owned[v],
                                         put[v].new, put[v].expect}
    BY <1>1 DEF InUse
  <2>2. nonce # Current
    BY <1>1 DEF InUse, Current
  <2>3. \A s \in stray : s.new # nonce
    BY <1>1 DEF InUse
  <2> QED
    BY <2>1, <2>2, <2>3 DEF Known
<1>4. Current' = Current
  BY DEF Current
<1>5. \A e \in Etags : Known(e)' => Known(e)
  <2> TAKE e \in Etags
  <2>1. e # None
    OBVIOUS
  <2>2. ASSUME NEW v \in Workers, e \in {seen'[v].etag, observed'[v].etag, owned'[v], put'[v].expect}
        PROVE  Known(e)
    <3>1. CASE v = w
      BY <2>1, <2>2, <3>1, <1>2 DEF Known, Unseen
    <3>2. CASE v # w
      BY <2>2, <3>2, <1>2 DEF Known
    <3> QED
      BY <3>1, <3>2
  <2> QED
    BY <1>4, <2>2 DEF Known
<1>6. Unborn'
  <2>1. ASSUME NEW v \in Workers, put'[v].reply = "sent"
        PROVE  /\ (~Known(put[v].new))'
               /\ \A u \in Workers \ {v} : put'[u].new # put'[v].new
    <3>1. CASE v = w
      <4>1. ~Known(nonce)' /\ put'[v].new = nonce
        BY <1>2, <1>3, <1>5, <3>1
      <4>2. \A u \in Workers \ {v} : put'[u].new # nonce
        BY <1>2, <1>3, <3>1
      <4> QED
        BY <4>1, <4>2 DEF Known, Current
    <3>2. CASE v # w
      <4>1. put'[v] = put[v] /\ put[v].new \in Etags /\ put[v].reply = "sent"
        BY <2>1, <3>2, <1>2 DEF TypeOK
      <4> PICK e \in Etags : e = put[v].new
        BY <4>1
      <4>2. ~Known(e) /\ \A u \in Workers \ {v} : put[u].new # e
        BY <4>1 DEF Core, Unborn
      <4>3. ~Known(e)' /\ put'[v].new = e
        BY <1>5, <4>1, <4>2
      <4>4. \A u \in Workers \ {v} : put'[u].new # e
        BY <4>1, <4>2, <1>2, <1>3
      <4> QED
        BY <4>3, <4>4 DEF Known, Current
    <3> QED
      BY <3>1, <3>2
  <2>2. ASSUME NEW s \in stray'
        PROVE  ~Known(s.new)' /\ \A v \in Workers : put'[v].new # s.new
    <3>1. s \in stray /\ s.new \in Etags
      BY DEF TypeOK
    <3>2. ~Known(s.new) /\ \A v \in Workers : put[v].new # s.new
      BY <3>1 DEF Core, Unborn
    <3>3. s.new # nonce
      BY <3>1, <1>3
    <3> QED
      BY <3>1, <3>2, <3>3, <1>2, <1>5
  <2> QED
    BY <2>1, <2>2 DEF Unborn
<1>7. WrittenOK'
  BY <1>4 DEF Core, WrittenOK, Unseen
<1>8. \A x \in Workers : /\ Holds(x)' <=> Holds(x)
                         /\ Won(x)' => Won(x) /\ x # w
  BY <1>2 DEF Holds, Won
<1>9. ClaimOK'
  <2> SUFFICES ASSUME NEW x \in Workers PROVE ClaimAt(x)'
    BY DEF ClaimOK
  <2>1. ASSUME Claims(x)'
        PROVE  /\ object' # None /\ object'.node = x
               /\ \A s \in stray' : s.node = x
               /\ \A v \in Workers \ {x} : put'[v].reply = "sent" => put'[v].expect # Current'
    <3>1. Claims(x)
      BY <2>1, <1>8 DEF Claims
    <3>2. /\ object # None /\ object.node = x
          /\ \A s \in stray : s.node = x
          /\ \A v \in Workers \ {x} : put[v].reply = "sent" => put[v].expect # Current
      BY <3>1 DEF Core, ClaimOK, ClaimAt
    <3>3. ASSUME NEW v \in Workers \ {x}, put'[v].reply = "sent"
          PROVE  put'[v].expect # Current'
      <4>1. CASE v = w
        BY <3>1, <3>3, <4>1, <1>2, <1>4
      <4>2. CASE v # w
        BY <3>2, <3>3, <4>2, <1>2, <1>4
      <4> QED
        BY <4>1, <4>2
    <3> QED
      BY <3>2, <3>3
  <2>2. ASSUME Won(x)' PROVE object'.etag = put'[x].new /\ stray' = {}
    BY <2>2, <1>2, <1>8 DEF Core, ClaimOK, ClaimAt
  <2> QED
    BY <2>1, <2>2 DEF ClaimAt
<1>10. AgeOK'
  <2> SUFFICES ASSUME NEW x \in Workers PROVE AgeAt(x)'
    BY DEF AgeOK
  <2>1. AgeAt(x)
    BY DEF Core, AgeOK
  <2> QED
    BY <2>1, <1>2, <1>4, <1>8 DEF AgeAt
<1> QED
  BY <1>6, <1>7, <1>9, <1>10 DEF Core

\* A worker learns the ETag of the object as it is, or starts to observe the one
\* it has read.
LEMMA LearnsCore ==
    ASSUME TypeOK, TypeOK', Core, NEW w \in Workers,
           UNCHANGED <<object, owned, left, put, stray>>,
           \A v \in Workers \ {w} : seen'[v] = seen[v] /\ observed'[v] = observed[v],
           seen'[w] = Unseen \/ (seen'[w] = object /\ object # None),
           \/ observed'[w] = observed[w]
           \/ observed'[w] = [etag |-> seen[w].etag, age |-> 0]
    PROVE  Core'
<1>1. Current' = Current
  BY DEF Current
<1>2. \A e \in Etags : Known(e)' => Known(e)
  <2> TAKE e \in Etags
  <2>1. e # None
    OBVIOUS
  <2>2. ASSUME NEW v \in Workers, e \in {seen'[v].etag, observed'[v].etag, owned'[v], put'[v].expect}
        PROVE  Known(e)
    <3>1. CASE v = w
      BY <2>1, <2>2, <3>1 DEF Known, Unseen, Current
    <3>2. CASE v # w
      BY <2>2, <3>2 DEF Known
    <3> QED
      BY <3>1, <3>2
  <2> QED
    BY <1>1, <2>2 DEF Known
<1>3. Unborn'
  <2>1. ASSUME NEW v \in Workers, put'[v].reply = "sent"
        PROVE  /\ (~Known(put[v].new))'
               /\ \A u \in Workers \ {v} : put'[u].new # put'[v].new
    <3>1. put'[v] = put[v] /\ put[v].new \in Etags /\ put[v].reply = "sent"
      BY <2>1 DEF TypeOK
    <3> PICK e \in Etags : e = put[v].new
      BY <3>1
    <3>2. ~Known(e) /\ \A u \in Workers \ {v} : put[u].new # e
      BY <3>1 DEF Core, Unborn
    <3>3. ~Known(e)' /\ put'[v].new = e
      BY <1>2, <3>1, <3>2
    <3> QED
      BY <3>2, <3>3 DEF Known, Current
  <2>2. ASSUME NEW s \in stray'
        PROVE  ~Known(s.new)' /\ \A v \in Workers : put'[v].new # s.new
    <3>1. s \in stray /\ s.new \in Etags
      BY DEF TypeOK
    <3>2. ~Known(s.new) /\ \A v \in Workers : put[v].new # s.new
      BY <3>1 DEF Core, Unborn
    <3> QED
      BY <3>1, <3>2, <1>2
  <2> QED
    BY <2>1, <2>2 DEF Unborn
<1>4. WrittenOK'
  BY <1>1 DEF Core, WrittenOK, Unseen
<1>5. \A x \in Workers : (Holds(x)' <=> Holds(x)) /\ (Won(x)' <=> Won(x))
  BY DEF Holds, Won
<1>6. ClaimOK'
  BY <1>1, <1>5 DEF Core, ClaimOK, ClaimAt, Claims
<1>7. AgeOK'
  <2> SUFFICES ASSUME NEW x \in Workers PROVE AgeAt(x)'
    BY DEF AgeOK
  <2>1. /\ AgeAt(x) /\ left[x] \in Nat /\ Ttl[x] \in Nat /\ put[x].age \in Nat
    BY Times DEF Core, AgeOK, TypeOK
  <2>2. ASSUME NEW v \in Workers \ {x}, observed'[v].etag = Current', Current' # None
        PROVE  /\ Holds(x)' => left'[x] + observed'[v].age <= Ttl[x]
               /\ Won(x)' => observed'[v].age <= put'[x].age
    <3>1. CASE observed'[v] = observed[v]
      BY <2>1, <2>2, <3>1, <1>1, <1>5 DEF AgeAt
    <3>2. CASE observed'[v].age = 0
      BY <2>1, <3>2 DEF AgeAt
    <3> QED
      BY <3>1, <3>2
  <2> QED
    BY <2>1, <2>2 DEF AgeAt
<1> QED
  BY <1>3, <1>4, <1>6, <1>7 DEF Core

\* A PUT takes effect, one that is awaited or one that was given up: its ETag
\* is new to everybody, and a claim held so far is its writer's own.
LEMMA WrittenCore ==
    ASSUME TypeOK, TypeOK', Core, NEW n \in Workers, NEW e \in Etags, ~Known(e),
           object' = Written(n, e), stray' = {},
           UNCHANGED <<seen, observed, owned, left>>,
           \A v \in Workers : /\ put'[v].reply = "sent" => put'[v] = put[v] /\ put[v].new # e
                              /\ put'[v].expect \in {put[v].expect, None}
                              /\ put'[v].new = put[v].new
                              /\ Won(v)' => v = n /\ put'[v].new = e,
           \A x \in Workers : Holds(x) => x = n
    PROVE  Core'
<1>1. /\ object'.node = n /\ object'.etag = e /\ object'.ttl = Ttl[n]
      /\ object' # None /\ Current' = e /\ e # None
  <2>1. object' \in Lease \cup {None}
    BY DEF TypeOK
  <2>2. object' \in [node : Workers, etag : Etags, ttl : Nat]
    BY Times DEF Written
  <2>3. object'.node = n /\ object'.etag = e /\ object'.ttl = Ttl[n] /\ object' # None
    BY <2>2 DEF Written
  <2> QED
    BY <2>3 DEF Current
<1>2. \A v \in Workers : /\ seen[v].etag # e /\ observed[v].etag # e /\ owned[v] # e
                         /\ put'[v].expect # e
  BY <1>1 DEF Known
<1>3. \A f \in Etags : Known(f)' => Known(f) \/ f = e
  <2> TAKE f \in Etags
  <2>1. f # None
    OBVIOUS
  <2> QED
    BY <1>1, <2>1 DEF Known
<1>4. Unborn'
  <2>1. ASSUME NEW v \in Workers, put'[v].reply = "sent"
        PROVE  /\ (~Known(put[v].new))'
               /\ \A u \in Workers \ {v} : put'[u].new # put'[v].new
    <3>1. /\ put'[v] = put[v] /\ put[v].new \in Etags /\ put[v].reply = "sent"
          /\ put[v].new # e
      BY <2>1 DEF TypeOK
    <3> PICK f \in Etags : f = put[v].new
      BY <3>1
    <3>2. ~Known(f) /\ \A u \in Workers \ {v} : put[u].new # f
      BY <3>1 DEF Core, Unborn
    <3>3. ~Known(f)' /\ put'[v].new = f
      BY <1>3, <3>1, <3>2
    <3> QED
      BY <3>2, <3>3 DEF Known, Current
  <2> QED
    BY <2>1 DEF Unborn
<1>5. WrittenOK'
  BY <1>1, <1>2 DEF WrittenOK
<1>6. ClaimOK'
  <2> SUFFICES ASSUME NEW x \in Workers PROVE ClaimAt(x)'
    BY DEF ClaimOK
  <2>1. Holds(x)' <=> Holds(x)
    BY DEF Holds
  <2>2. Claims(x)' => x = n
    BY <2>1 DEF Claims
  <2> QED
    BY <1>1, <1>2, <2>2 DEF ClaimAt
<1>7. AgeOK'
  BY <1>1, <1>2 DEF Core, AgeOK, AgeAt
<1> QED
  BY <1>4, <1>5, <1>6, <1>7 DEF Core

LEMMA TickCore ==
    ASSUME TypeOK, TypeOK', LoopOK, Core, NEW w \in Workers, Tick(w)
    PROVE  Core'
<1>1. CASE Retire(w) /\ UNCHANGED put
  <2>1. Yields(w)
    BY <1>1 DEF Tick, Retire, Yields, TypeOK
  <2> QED
    BY <2>1, YieldsCore
<1>2. CASE owned[w] = None /\ UNCHANGED <<put, owned, observed, engines>>
  <2>1. Yields(w)
    BY <1>2 DEF Tick, Yields
  <2> QED
    BY <2>1, YieldsCore
<1>3. CASE owned[w] # None /\ Send(w, owned[w]) /\ UNCHANGED <<owned, observed, engines>>
  <2>1. ASSUME NEW x \in Workers \ {w}, Claims(x) PROVE owned[w] # Current
    BY <1>3, <2>1 DEF Core, ClaimOK, ClaimAt, WrittenOK
  <2>2. UNCHANGED <<object, observed, owned, left, stray, seen>>
    BY <1>3 DEF Tick
  <2> QED
    BY <1>3, <2>1, <2>2, SendsCore
<1> QED
  BY <1>1, <1>2, <1>3 DEF Tick

LEMMA JudgeCore ==
    ASSUME TypeOK, TypeOK', LoopOK, Core, NEW w \in Workers, Judge(w)
    PROVE  Core'
<1>1. /\ UNCHANGED <<object, owned, left, stray>>
      /\ \A v \in Workers \ {w} : seen'[v] = seen[v]
      /\ seen'[w] = Unseen
  BY DEF Judge, TypeOK
<1>2. CASE Send(w, None) /\ UNCHANGED observed
  <2>1. \A x \in Workers : Claims(x) => Current # None
    BY CurrentType DEF Core, ClaimOK, ClaimAt
  <2> QED
    BY <1>1, <1>2, <2>1, SendsCore
<1>3. CASE /\ seen[w].etag # None /\ observed[w].etag = seen[w].etag /\ Outlived(w)
           /\ Send(w, seen[w].etag) /\ UNCHANGED observed
  <2>1. ASSUME NEW x \in Workers \ {w}, Claims(x), seen[w].etag = Current PROVE FALSE
    <3>1. object # None /\ object.node = x /\ seen[w] = object /\ object.ttl = Ttl[x]
      BY <1>3, <2>1 DEF Core, ClaimOK, ClaimAt, WrittenOK
    <3>2. observed[w].age >= Ttl[x] /\ observed[w].etag = Current /\ Current # None
      BY <1>3, <2>1, <3>1 DEF Outlived
    <3>3. /\ Holds(x) => left[x] + observed[w].age <= Ttl[x]
          /\ Won(x) => observed[w].age <= put[x].age
      BY <3>2 DEF Core, AgeOK, AgeAt
    <3>4. left[x] \in Nat /\ observed[w].age \in Nat /\ put[x].age \in Nat /\ Ttl[x] \in Nat
      BY Times DEF TypeOK
    <3> QED
      BY <2>1, <3>2, <3>3, <3>4 DEF Claims, Holds, Won
  <2> QED
    BY <1>1, <1>3, <2>1, SendsCore
<1>4. CASE UNCHANGED <<put, observed>>
  <2>1. Yields(w)
    BY <1>1, <1>4 DEF Yields
  <2> QED
    BY <2>1, YieldsCore
<1>5. CASE /\ observed' = [observed EXCEPT ![w] = [etag |-> seen[w].etag, age |-> 0]]
           /\ UNCHANGED put
  <2>1. /\ observed'[w] = [etag |-> seen[w].etag, age |-> 0]
        /\ \A v \in Workers \ {w} : observed'[v] = observed[v]
    BY <1>5 DEF TypeOK
  <2> QED
    BY <1>1, <1>5, <2>1, LearnsCore
<1> QED
  BY <1>2, <1>3, <1>4, <1>5 DEF Judge

LEMMA GetCore ==
    ASSUME TypeOK, TypeOK', LoopOK, Core, NEW w \in Workers, Get(w)
    PROVE  Core'
<1>1. CASE UNCHANGED seen
  <2>1. Yields(w)
    BY <1>1 DEF Get, Yields
  <2> QED
    BY <2>1, YieldsCore
<1>2. CASE object = None /\ seen' = [seen EXCEPT ![w] = Unseen]
  <2>1. Yields(w)
    BY <1>2 DEF Get, Yields, TypeOK
  <2> QED
    BY <2>1, YieldsCore
<1>3. CASE object # None /\ seen' = [seen EXCEPT ![w] = object]
  <2>1. /\ \A v \in Workers \ {w} : seen'[v] = seen[v] /\ observed'[v] = observed[v]
        /\ seen'[w] = object /\ observed'[w] = observed[w]
        /\ UNCHANGED <<object, owned, left, put, stray>>
    BY <1>3 DEF Get, TypeOK
  <2> QED
    BY <1>3, <2>1, LearnsCore
<1> QED
  BY <1>1, <1>2, <1>3 DEF Get

LEMMA WinCore ==
    ASSUME TypeOK, TypeOK', LoopOK, Core, NEW w \in Workers, Win(w)
    PROVE  Core'
<1>1. /\ owned'[w] = put[w].new /\ left'[w] = Ttl[w] - put[w].age
      /\ observed'[w] = Nothing /\ put'[w] = NoPut
      /\ UNCHANGED <<object, seen, stray>>
      /\ \A v \in Workers \ {w} : /\ owned'[v] = owned[v] /\ left'[v] = left[v]
                                  /\ observed'[v] = observed[v] /\ put'[v] = put[v]
  BY DEF Win, Deadline, TypeOK
<1>2. /\ Won(w) /\ object # None /\ object.node = w /\ stray = {}
      /\ object.etag = put[w].new /\ Current = put[w].new
      /\ \A v \in Workers \ {w} : put[v].reply = "sent" => put[v].expect # Current
  BY DEF Win, Core, ClaimOK, ClaimAt, Claims, Current
<1>3. Current' = Current
  BY <1>1 DEF Current
<1>4. \A e \in Etags : Known(e)' => Known(e)
  <2> TAKE e \in Etags
  <2>1. e # None
    OBVIOUS
  <2>2. ASSUME NEW v \in Workers, e \in {seen'[v].etag, observed'[v].etag, owned'[v], put'[v].expect}
        PROVE  Known(e)
    <3>1. CASE v = w
      BY <1>1, <1>2, <2>1, <2>2, <3>1 DEF Known, Nothing, NoPut
    <3>2. CASE v # w
      BY <1>1, <2>2, <3>2 DEF Known
    <3> QED
      BY <3>1, <3>2
  <2> QED
    BY <1>3, <2>2 DEF Known
<1>5. Unborn'
  <2>1. ASSUME NEW v \in Workers, put'[v].reply = "sent"
        PROVE  /\ (~Known(put[v].new))'
               /\ \A u \in Workers \ {v} : put'[u].new # put'[v].new
    <3>1. /\ v # w /\ put'[v] = put[v] /\ put[v].new \in Etags /\ put[v].reply = "sent"
      BY <2>1, <1>1 DEF TypeOK, NoPut
    <3> PICK e \in Etags : e = put[v].new
      BY <3>1
    <3>2. ~Known(e) /\ \A u \in Workers \ {v} : put[u].new # e
      BY <3>1 DEF Core, Unborn
    <3>3. ~Known(e)' /\ put'[v].new = e
      BY <1>4, <3>1, <3>2
    <3>4. \A u \in Workers \ {v} : put'[u].new # e
      BY <3>2, <1>1 DEF NoPut
    <3> QED
      BY <3>3, <3>4 DEF Known, Current
  <2> QED
    BY <2>1, <1>1, <1>2 DEF Unborn
<1>6. WrittenOK'
  <2>1. object'.ttl = Ttl[object'.node]
    BY <1>1, <1>2 DEF Core, WrittenOK
  <2>2. ASSUME NEW v \in Workers
        PROVE  /\ seen'[v].etag = Current' /\ Current' # None => seen'[v] = object'
               /\ owned'[v] = Current' /\ Current' # None => object'.node = v
    BY <1>1, <1>2, <1>3 DEF Core, WrittenOK
  <2> QED
    BY <1>1, <1>2, <2>1, <2>2 DEF WrittenOK
<1>7. /\ ~Won(w)'
      /\ \A v \in Workers \ {w} : (Holds(v)' <=> Holds(v)) /\ (Won(v)' <=> Won(v))
  BY <1>1 DEF Won, Holds, NoPut
<1>8. \A x \in Workers : Claims(x) => x = w
  BY <1>2 DEF Core, ClaimOK, ClaimAt
<1>9. ClaimOK'
  <2> SUFFICES ASSUME NEW x \in Workers PROVE ClaimAt(x)'
    BY DEF ClaimOK
  <2>1. Claims(x)' => x = w
    BY <1>7, <1>8 DEF Claims
  <2>2. ~Won(x)'
    BY <1>7, <1>8 DEF Claims
  <2> QED
    BY <1>1, <1>2, <1>3, <2>1, <2>2 DEF ClaimAt
<1>10. AgeOK'
  <2> SUFFICES ASSUME NEW x \in Workers PROVE AgeAt(x)'
    BY DEF AgeOK
  <2>1. CASE x = w
    <3>1. put[w].age \in Nat /\ Ttl[w] \in Nat /\ \A v \in Workers : observed[v].age \in Nat
      BY Times DEF TypeOK
    <3>2. \A v \in Workers \ {w} : observed[v].etag = Current /\ Current # None =>
                                      observed[v].age <= put[w].age
      BY <1>2 DEF Core, AgeOK, AgeAt
    <3>3. \A v \in Workers \ {w} : observed'[v].etag = Current' /\ Current' # None =>
                                      left'[w] + observed'[v].age <= Ttl[w]
      BY <1>1, <1>3, <3>1, <3>2
    <3>4. left'[w] <= Ttl[w]
      BY <1>1, <3>1
    <3> QED
      BY <2>1, <1>7, <3>3, <3>4 DEF AgeAt
  <2>2. CASE x # w
    <3>1. AgeAt(x)
      BY DEF Core, AgeOK
    <3> QED
      BY <2>2, <3>1, <1>1, <1>3, <1>7 DEF AgeAt, Nothing
  <2> QED
    BY <2>1, <2>2
<1> QED
  BY <1>5, <1>6, <1>9, <1>10 DEF Core

LEMMA PutServedCore ==
    ASSUME TypeOK, TypeOK', LoopOK, Core, NEW w \in Workers, PutServed(w)
    PROVE  Core'
<1>1. CASE ~Matches(put[w].expect)
  <2>1. put' = Answered(w, "refused", None)
    BY <1>1 DEF PutServed
  <2>2. /\ \A v \in Workers \ {w} : put'[v] = put[v]
        /\ put'[w].reply = "refused" /\ put'[w].new = None /\ put'[w].expect = None
    <3>1. /\ \A v \in Workers \ {w} : put'[v] = put[v]
          /\ put'[w] = [expect |-> None, new |-> None, age |-> put[w].age, reply |-> "refused"]
      BY <2>1, AnsweredType
    <3> QED
      BY <3>1
  <2>3. Yields(w)
    BY <1>1, <2>2 DEF PutServed, Yields, Strays
  <2> QED
    BY <2>3, YieldsCore
<1>2. CASE Matches(put[w].expect)
  <2>1. /\ put' = Answered(w, "ok", put[w].new) /\ put[w].new \in Etags
        /\ put[w].reply = "sent" /\ put[w].expect = Current
        /\ object' = Written(w, put[w].new) /\ stray' = {}
        /\ UNCHANGED <<seen, observed, owned, left>>
    BY <1>2, CurrentType DEF PutServed, TypeOK
  <2>2. /\ \A v \in Workers \ {w} : put'[v] = put[v]
        /\ put'[w] = [expect |-> None, new |-> put[w].new, age |-> put[w].age, reply |-> "ok"]
    BY <2>1, AnsweredType
  <2> PICK e \in Etags : e = put[w].new
    BY <2>1
  <2>3. ~Known(e) /\ \A v \in Workers \ {w} : put[v].new # e
    BY <2>1 DEF Core, Unborn
  <2>4. \A x \in Workers : Claims(x) => x = w
    BY <2>1 DEF Core, ClaimOK, ClaimAt
  <2>5. \A v \in Workers : Won(v)' => v = w /\ put'[v].new = e
    <3>1. \A v \in Workers \ {w} : Won(v)' => Won(v)
      BY <2>2 DEF Won
    <3> QED
      BY <2>2, <2>4, <3>1 DEF Claims
  <2>6. \A v \in Workers : /\ put'[v].reply = "sent" => put'[v] = put[v] /\ put[v].new # e
                           /\ put'[v].expect \in {put[v].expect, None}
                           /\ put'[v].new = put[v].new
    BY <2>2, <2>3
  <2> QED
    BY <2>1, <2>3, <2>4, <2>5, <2>6, WrittenCore DEF Claims
<1> QED
  BY <1>1, <1>2

LEMMA StrayCore ==
    ASSUME TypeOK, TypeOK', Core, NEW s \in stray, StrayLands(s)
    PROVE  Core'
<1>1. s.node \in Workers /\ s.new \in Etags
  BY DEF TypeOK
<1>2. /\ object' = Written(s.node, s.new) /\ stray' = {}
      /\ UNCHANGED <<seen, observed, owned, left, put>>
  BY DEF StrayLands, local
<1>3. ~Known(s.new) /\ \A v \in Workers : put[v].new # s.new
  BY DEF Core, Unborn
<1>4. \A x \in Workers : Claims(x) => x = s.node /\ ~Won(x)
  BY DEF Core, ClaimOK, ClaimAt
<1>5. \A x \in Workers : ~Won(x)'
  BY <1>2, <1>4 DEF Claims, Won
<1> QED
  BY <1>1, <1>2, <1>3, <1>4, <1>5, WrittenCore DEF Claims

LEMMA AdvanceCore ==
    ASSUME TypeOK, TypeOK', Core, Advance
    PROVE  Core'
<1>1. /\ UNCHANGED <<object, seen, owned, stray>> /\ Current' = Current
      /\ \A v \in Workers : observed'[v].etag = observed[v].etag
  BY AdvanceStep DEF Advance, Current
<1>2. \A v \in Workers : /\ put'[v].reply = put[v].reply
                         /\ put'[v].expect \in {put[v].expect, None}
                         /\ put'[v].new \in {put[v].new, None}
                         /\ put[v].reply # "none" => /\ put'[v].expect = put[v].expect
                                                     /\ put'[v].new = put[v].new
                                                     /\ put'[v].age = Older(put[v].age)
  BY AdvancePut
<1>3. \A e \in Etags : Known(e)' => Known(e)
  <2> TAKE e \in Etags
  <2>1. e # None
    OBVIOUS
  <2> QED
    BY <1>1, <1>2, <2>1 DEF Known
<1>4. Unborn'
  <2>1. ASSUME NEW v \in Workers, put'[v].reply = "sent"
        PROVE  /\ (~Known(put[v].new))'
               /\ \A u \in Workers \ {v} : put'[u].new # put'[v].new
    <3>1. /\ put'[v].new = put[v].new /\ put[v].new \in Etags /\ put[v].reply = "sent"
      BY <2>1, <1>2 DEF TypeOK
    <3> PICK e \in Etags : e = put[v].new
      BY <3>1
    <3>2. ~Known(e) /\ \A u \in Workers \ {v} : put[u].new # e
      BY <3>1 DEF Core, Unborn
    <3>3. ~Known(e)' /\ put'[v].new = e
      BY <1>3, <3>1, <3>2
    <3>4. \A u \in Workers \ {v} : put'[u].new # e
      BY <3>2, <1>2
    <3> QED
      BY <3>3, <3>4 DEF Known, Current
  <2>2. ASSUME NEW s \in stray'
        PROVE  ~Known(s.new)' /\ \A v \in Workers : put'[v].new # s.new
    <3>1. s \in stray /\ s.new \in Etags /\ s.new # None
      BY <1>1 DEF TypeOK
    <3>2. ~Known(s.new) /\ \A v \in Workers : put[v].new # s.new
      BY <3>1 DEF Core, Unborn
    <3> QED
      BY <3>1, <3>2, <1>1, <1>2, <1>3
  <2> QED
    BY <2>1, <2>2 DEF Unborn
<1>5. WrittenOK'
  BY <1>1 DEF Core, WrittenOK
<1>6. ASSUME NEW x \in Workers
      PROVE  /\ Holds(x)' => Holds(x) /\ left'[x] = left[x] - 1
             /\ left'[x] <= left[x]
             /\ Won(x)' => Won(x) /\ put'[x].age = Older(put[x].age) /\ put'[x].new = put[x].new
  <2>1. left[x] \in Nat /\ put[x].age \in Nat /\ Ttl[x] \in Nat /\ put'[x].age \in Nat
    BY Times DEF TypeOK
  <2>2. left'[x] = Sooner(left[x])
    BY AdvanceStep
  <2>3. left'[x] <= left[x] /\ (left'[x] > 0 => left[x] > 0 /\ left'[x] = left[x] - 1)
    BY <2>1, <2>2, Aging
  <2>4. Won(x)' => Won(x) /\ put'[x].age = Older(put[x].age) /\ put'[x].new = put[x].new
    <3>1. ASSUME Won(x)' PROVE Won(x)
      <4>1. put[x].reply = "ok" /\ put'[x].age = Older(put[x].age) /\ put'[x].age < Ttl[x]
        BY <3>1, <1>2 DEF Won
      <4>2. put[x].age <= put'[x].age
        BY <4>1, <2>1, Aging
      <4> QED
        BY <4>1, <4>2, <2>1 DEF Won
    <3> QED
      BY <3>1, <1>2 DEF Won
  <2> QED
    BY <1>1, <2>3, <2>4 DEF Holds
<1>7. ClaimOK'
  <2> SUFFICES ASSUME NEW x \in Workers PROVE ClaimAt(x)'
    BY DEF ClaimOK
  <2>1. ClaimAt(x) /\ (Claims(x)' => Claims(x))
    BY <1>6 DEF Core, ClaimOK, Claims
  <2>2. \A v \in Workers : put'[v].reply = "sent" =>
            put[v].reply = "sent" /\ put'[v].expect = put[v].expect
    BY <1>2
  <2> QED
    BY <2>1, <2>2, <1>1, <1>6 DEF ClaimAt
<1>8. AgeOK'
  <2> SUFFICES ASSUME NEW x \in Workers PROVE AgeAt(x)'
    BY DEF AgeOK
  <2>1. /\ AgeAt(x) /\ left[x] \in Nat /\ Ttl[x] \in Nat /\ left'[x] \in Nat
        /\ put[x].age \in Nat
    BY Times DEF Core, AgeOK, TypeOK
  <2>2. left'[x] <= Ttl[x]
    BY <2>1, <1>6 DEF AgeAt
  <2>3. ASSUME NEW v \in Workers \ {x}, observed'[v].etag = Current', Current' # None
        PROVE  /\ Holds(x)' => left'[x] + observed'[v].age <= Ttl[x]
               /\ Won(x)' => observed'[v].age <= put'[x].age
    <3>1. observed[v].age \in Nat /\ observed'[v].age = Older(observed[v].age)
      BY <2>3, <1>1, AdvanceStep DEF TypeOK
    <3>2. /\ Holds(x) => left[x] + observed[v].age <= Ttl[x]
          /\ Won(x) => observed[v].age <= put[x].age
      BY <2>1, <2>3, <1>1 DEF AgeAt
    <3>3. /\ Older(observed[v].age) \in Nat /\ Older(observed[v].age) <= observed[v].age + 1
          /\ Won(x) => Older(observed[v].age) <= Older(put[x].age)
      BY <2>1, <3>1, <3>2, Aging
    <3>4. Holds(x)' => left'[x] + observed'[v].age <= Ttl[x]
      BY <2>1, <3>1, <3>2, <3>3, <1>6
    <3> QED
      BY <3>1, <3>3, <3>4, <1>6
  <2> QED
    BY <2>2, <2>3 DEF AgeAt
<1> QED
  BY <1>4, <1>5, <1>7, <1>8 DEF Core

LEMMA CoreInv == ASSUME TypeOK, LoopOK, Core, Next PROVE Core'
<1>0. TypeOK'
  BY NextType
<1>1. ASSUME NEW w \in Workers, Step(w) PROVE Core'
  <2>0. \A v \in Workers \ {w} :
            /\ seen'[v] = seen[v] /\ observed'[v] = observed[v] /\ owned'[v] = owned[v]
            /\ left'[v] = left[v] /\ put'[v] = put[v]
    BY <1>1, OthersSame
  <2>1. CASE Tick(w) \/ Get(w) \/ Judge(w) \/ Win(w) \/ PutServed(w)
    BY <1>0, <2>1, TickCore, GetCore, JudgeCore, WinCore, PutServedCore
  <2>2. CASE Close(w) \/ Opening(w) \/ Requests(w) \/ Pause(w) \/ Recover(w)
    <3>1. UNCHANGED <<object, local, stray>>
      BY <2>2 DEF Close, Opening, OpenFences, OpenDone, OpenFails, Notice, Requests, Admit,
                  Serve, Pause, Recover, Resume, Restart
    <3>2. Yields(w)
      BY <3>1 DEF Yields, local
    <3> QED
      BY <1>0, <3>2, YieldsCore
  <2>3. CASE Lose(w)
    <3>1. Yields(w)
      BY <2>0, <2>3 DEF Lose, Retire, Yields, TypeOK, NoPut
    <3> QED
      BY <1>0, <3>1, YieldsCore
  <2>4. CASE Settle(w)
    <3>1. Yields(w)
      BY <2>0, <2>4 DEF Settle, GiveUp, Yields, TypeOK
    <3> QED
      BY <1>0, <3>1, YieldsCore
  <2>5. CASE PutLost(w)
    <3>0. put'[w] = [expect |-> None, new |-> None, age |-> put[w].age, reply |-> "lost"]
      BY <2>5, AnsweredType DEF PutLost
    <3>1. put'[w].reply = "lost" /\ put'[w].new = None /\ put'[w].expect = None
      BY <3>0
    <3>2. Yields(w)
      BY <2>0, <2>5, <3>1 DEF PutLost, Yields
    <3> QED
      BY <1>0, <3>2, YieldsCore
  <2>6. CASE Crash(w)
    <3>1. Yields(w)
      BY <2>0, <2>6 DEF Crash, Yields, TypeOK, NoPut
    <3> QED
      BY <1>0, <3>1, YieldsCore
  <2> QED
    BY <1>1, <2>1, <2>2, <2>3, <2>4, <2>5, <2>6 DEF Step, Loop, Disturb
<1> QED
  BY <1>0, <1>1, StrayCore, AdvanceCore DEF Next, Step

-----------------------------------------------------------------------------
\* Who has the database open, and whose requests can commit.

\* A step that opens, admits and commits nothing, and writes no lease.
LEMMA QuietServe ==
    ASSUME ServeOK, UNCHANGED <<object, writer, behind>>,
           \A x \in Workers : Opened(x)' => Opened(x),
           \A x \in Workers : work'[x] /\ db'[x] = "open" => work[x] /\ db[x] = "open"
    PROVE  ServeOK'
<1> SUFFICES ASSUME NEW x \in Workers PROVE ServeAt(x)'
  BY DEF ServeOK
<1>1. ServeAt(x) /\ \A v \in Workers : Commits(v)' => Commits(v)
  BY DEF ServeOK, Commits
<1> QED
  BY <1>1 DEF ServeAt

\* The writer of a lease that replaces another either held that one or has not
\* opened the database yet.
LEMMA WrittenServe ==
    ASSUME TypeOK, LoopOK, ServeOK, NEW n \in Workers, NEW e \in Etags,
           object' = Written(n, e), UNCHANGED engines,
           owned[n] # None => object # None /\ object.node = n
    PROVE  ServeOK'
<1>1. object'.node = n
  BY DEF Written
<1>2. Opened(n) => owned[n] # None
  BY DEF Opened, LoopOK, PlaceOK
<1>3. \A x \in Workers : (Opened(x)' <=> Opened(x)) /\ (Commits(x)' <=> Commits(x))
  BY DEF Opened, Commits, engines
<1> SUFFICES ASSUME NEW x \in Workers PROVE ServeAt(x)'
  BY DEF ServeOK
<1>4. ServeAt(x)
  BY DEF ServeOK
<1> QED
  BY <1>1, <1>2, <1>3, <1>4 DEF ServeAt, engines

LEMMA HolderIsNamed ==
    ASSUME LoopOK, Core, NEW w \in Workers, Admits(w)
    PROVE  object # None /\ object.node = w /\ Opened(w)
  BY DEF Admits, LoopOK, PlaceOK, Core, ClaimOK, ClaimAt, Claims, Holds, Opened

LEMMA ServeInv == ASSUME TypeOK, LoopOK, Core, ServeOK, Next PROVE ServeOK'
<1>1. ASSUME NEW w \in Workers, Step(w) PROVE ServeOK'
  <2>0. \A v \in Workers \ {w} :
            /\ opening'[v] = opening[v] /\ db'[v] = db[v]
            /\ active'[v] = active[v] /\ work'[v] = work[v]
    BY <1>1, OthersSame
  <2>1. CASE Get(w) \/ Judge(w) \/ Pause(w) \/ Recover(w) \/ PutLost(w)
    <3>1. UNCHANGED <<object, engines>>
      BY <2>1 DEF Get, Judge, Pause, Recover, Resume, Restart, PutLost
    <3> QED
      BY <3>1, QuietServe DEF engines, Opened
  <2>2. CASE Tick(w) \/ Close(w) \/ Lose(w) \/ Settle(w) \/ Crash(w)
    <3>1. UNCHANGED <<object, writer, behind>>
      BY <2>2 DEF Tick, Retire, engines, Close, Lose, Settle, Crash
    <3>2. Opened(w)' => Opened(w)
      BY <2>2 DEF Tick, Retire, engines, Close, Lose, Settle, GiveUp, Crash, Opened, TypeOK
    <3>3. work'[w] /\ db'[w] = "open" => work[w] /\ db[w] = "open"
      BY <2>2 DEF Tick, Retire, engines, Close, Lose, Settle, GiveUp, Crash, TypeOK
    <3>4. \A x \in Workers : Opened(x)' => Opened(x)
      BY <2>0, <3>2 DEF Opened
    <3>5. \A x \in Workers : work'[x] /\ db'[x] = "open" => work[x] /\ db[x] = "open"
      BY <2>0, <3>3
    <3> QED
      BY <3>1, <3>4, <3>5, QuietServe
  <2>3. CASE Win(w)
    <3>1. UNCHANGED <<object, writer, behind, active, work, db>>
      BY <2>3 DEF Win
    <3>2. opening'[w] = IF owned[w] = None THEN "running" ELSE opening[w]
      BY <2>3 DEF Win, TypeOK
    <3>3. \A x \in Workers : Opened(x)' => Opened(x)
      BY <2>0, <3>1, <3>2 DEF Opened
    <3> QED
      BY <3>1, <3>3, QuietServe
  <2>4. CASE PutServed(w)
    <3>1. CASE UNCHANGED object
      BY <2>4, <3>1, QuietServe DEF PutServed, engines, Opened
    <3>2. CASE Matches(put[w].expect) /\ object' = Written(w, put[w].new)
      <4>1. put[w].new \in Etags /\ put[w].reply = "sent" /\ put[w].expect = Current
        BY <2>4, <3>2, CurrentType DEF PutServed, TypeOK
      <4>2. owned[w] # None => owned[w] = Current /\ Current # None
        BY <4>1 DEF LoopOK, PlaceOK
      <4>3. owned[w] # None => object # None /\ object.node = w
        BY <4>2, CurrentType DEF Core, WrittenOK
      <4> QED
        BY <2>4, <3>2, <4>1, <4>3, WrittenServe DEF PutServed
    <3> QED
      BY <2>4, <3>1, <3>2 DEF PutServed
  <2>5. CASE OpenFences(w)
    <3>1. /\ object' = object /\ writer' = w /\ behind' = behind \ {w} /\ work' = work
          /\ opening[w] = "running" /\ opening'[w] = "fenced" /\ active' = active
      BY <2>5 DEF OpenFences, TypeOK
    <3>2. ~work[w] /\ w # None
      BY <3>1 DEF LoopOK, PlaceOK
    <3>3. \A x \in Workers : ~Commits(x)'
      BY <3>1, <3>2 DEF Commits
    <3> SUFFICES ASSUME NEW x \in Workers PROVE ServeAt(x)'
      BY DEF ServeOK
    <3>4. x # w => ServeAt(x) /\ (Opened(x)' <=> Opened(x))
      BY <2>0 DEF ServeOK, Opened
    <3> QED
      BY <3>1, <3>3, <3>4 DEF ServeAt
  <2>6. CASE OpenDone(w) \/ OpenFails(w) \/ Notice(w)
    <3>1. UNCHANGED <<object, writer, behind, active, work>>
      BY <2>6 DEF OpenDone, OpenFails, Notice
    <3>2. Opened(w)' => Opened(w)
      BY <2>6 DEF OpenDone, OpenFails, Notice, Opened, TypeOK
    <3>3. db'[w] = "open" => db[w] = "open"
      BY <2>6 DEF OpenDone, OpenFails, Notice, TypeOK
    <3>4. \A x \in Workers : Opened(x)' => Opened(x)
      BY <2>0, <3>2 DEF Opened
    <3> QED
      BY <2>0, <3>1, <3>3, <3>4, QuietServe
  <2>7. CASE Admit(w)
    <3>1. object # None /\ object.node = w
      BY <2>7, HolderIsNamed DEF Admit
    <3>2. UNCHANGED <<object, opening, db, active, writer, behind>>
      BY <2>7 DEF Admit
    <3> SUFFICES ASSUME NEW x \in Workers PROVE ServeAt(x)'
      BY DEF ServeOK
    <3>3. ServeAt(x) /\ (Opened(x)' <=> Opened(x))
      BY <3>2 DEF ServeOK, Opened
    <3>4. \A v \in Workers \ {w} : Commits(v)' => Commits(v)
      BY <2>0, <3>2 DEF Commits
    <3> QED
      BY <3>1, <3>2, <3>3, <3>4 DEF ServeAt
  <2>8. CASE Serve(w)
    <3>1. /\ UNCHANGED <<object, opening, db, active, writer>> /\ work[w]
          /\ behind' = IF db[w] = "open" /\ writer = w
                       THEN behind \cup {v \in Workers \ {w} : db[v] # "none"} ELSE behind
          /\ work'[w] = FALSE
      BY <2>8 DEF Serve, TypeOK
    <3>2. \A v \in Workers : Commits(v)' => Commits(v)
      BY <2>0, <3>1 DEF Commits
    <3> SUFFICES ASSUME NEW x \in Workers PROVE ServeAt(x)'
      BY DEF ServeOK
    <3>3. ServeAt(x) /\ (Opened(x)' <=> Opened(x))
      BY <3>1 DEF ServeOK, Opened
    <3>4. x = w => (x \in behind' => x \in behind)
      BY <3>1
    <3>5. x # w /\ ~Commits(w) => behind' = behind
      BY <3>1 DEF Commits
    <3> QED
      BY <3>1, <3>2, <3>3, <3>4, <3>5 DEF ServeAt
  <2> QED
    BY <1>1, <2>1, <2>2, <2>3, <2>4, <2>5, <2>6, <2>7, <2>8
       DEF Step, Loop, Disturb, Opening, Requests
<1>2. ASSUME NEW s \in stray, StrayLands(s) PROVE ServeOK'
  <2>1. s.node \in Workers /\ s.new \in Etags
    BY DEF TypeOK
  <2>2. owned[s.node] # None => object # None /\ object.node = s.node
    BY <2>1 DEF Core, WrittenOK
  <2> QED
    BY <1>2, <2>1, <2>2, WrittenServe DEF StrayLands
<1>3. CASE Advance
  BY <1>3, QuietServe DEF Advance, engines, Opened
<1> QED
  BY <1>1, <1>2, <1>3 DEF Next, Step

-----------------------------------------------------------------------------
\* Theorems.

LEMMA InitInv == Init => LeaseInv
<1> SUFFICES ASSUME Init PROVE LeaseInv
  OBVIOUS
<1>1. TypeOK
  BY InitType
<1>2. /\ object = None /\ Current = None /\ stray = {}
      /\ \A w \in Workers : /\ put[w] = NoPut /\ owned[w] = None /\ left[w] = 0
                            /\ pc[w] = "idle" /\ opening[w] = "none" /\ ~active[w] /\ ~work[w]
  BY DEF Init, Current
<1>3. \A w \in Workers : put[w].reply = "none"
  BY <1>2 DEF NoPut
<1>4. LoopOK /\ Unborn /\ WrittenOK
  BY <1>2, <1>3 DEF LoopOK, PlaceOK, Unborn, WrittenOK
<1>5. ClaimOK /\ AgeOK /\ ServeOK
  BY <1>2, <1>3, Times DEF ClaimOK, ClaimAt, Claims, Holds, Won, AgeOK, AgeAt, ServeOK, ServeAt
<1> QED
  BY <1>1, <1>4, <1>5 DEF LeaseInv

LEMMA NextInv == LeaseInv /\ [Next]_leaseVars => LeaseInv'
<1> SUFFICES ASSUME LeaseInv, [Next]_leaseVars PROVE LeaseInv'
  OBVIOUS
<1>1. CASE Next
  <2>1. TypeOK' /\ LoopOK' /\ Core' /\ ServeOK'
    BY <1>1, NextType, LoopInv, CoreInv, ServeInv DEF LeaseInv, Core
  <2> QED
    BY <2>1 DEF LeaseInv, Core
<1>2. CASE UNCHANGED leaseVars
  <2>1. TypeOK'
    BY <1>2 DEF LeaseInv, leaseVars, TypeOK
  <2>2. LoopOK' /\ ServeOK'
    BY <1>2 DEF LeaseInv, leaseVars, LoopOK, PlaceOK, ServeOK, ServeAt, Opened, Commits
  <2>3. Unborn' /\ WrittenOK'
    BY <1>2 DEF LeaseInv, leaseVars, Unborn, Known, Current, WrittenOK
  <2>4. ClaimOK' /\ AgeOK'
    BY <1>2 DEF LeaseInv, leaseVars, ClaimOK, ClaimAt, Claims, Holds, Won, Current, AgeOK, AgeAt
  <2> QED
    BY <2>1, <2>2, <2>3, <2>4 DEF LeaseInv
<1> QED
  BY <1>1, <1>2

LEMMA Invariant == Spec => []LeaseInv
<1>1. Init => LeaseInv
  BY InitInv
<1>2. LeaseInv /\ [Next]_leaseVars => LeaseInv'
  BY NextInv
<1> QED
  BY <1>1, <1>2, PTL DEF Spec

(* Every variable of the shard's workers, its lease object and its PUTs    *)
(* keeps the type the code gives it (cluster.rs Runtime, LeaseRecord).     *)
THEOREM LeaseType == Spec => []TypeOK
<1>1. LeaseInv => TypeOK
  BY DEF LeaseInv
<1> QED
  BY <1>1, Invariant, PTL

(* Two workers never admit requests at once (worker_forward's test of the  *)
(* deadline), for any number of workers, TTLs, pauses and lost answers.    *)
THEOREM LeaseOneOwner == Spec => []OneOwner
<1>1. LeaseInv => OneOwner
  BY HolderIsNamed DEF LeaseInv, Core, OneOwner
<1> QED
  BY <1>1, Invariant, PTL

(* A worker that admits a request has opened the database after every      *)
(* commit of the others: takeover and fencing (run_worker, Engine::open)   *)
(* leave no owner that reads stale data.                                   *)
THEOREM LeaseNoStaleOwner == Spec => []NoStaleOwner
<1>1. LeaseInv => NoStaleOwner
  BY HolderIsNamed DEF LeaseInv, Core, NoStaleOwner, ServeOK, ServeAt
<1> QED
  BY <1>1, Invariant, PTL
=============================================================================
