------------------------------- MODULE Lease -------------------------------
(***************************************************************************)
(* Ownership of one shard (cluster.rs): workers that compete for the lease *)
(* object coordination/owner.json with conditional PUTs, open SlateDB      *)
(* (which fences the previous writer) and admit requests until a deadline. *)
(*                                                                         *)
(* Clocks are the elapsed times the code compares: the age of an           *)
(* observation and of a PUT, the time left to a deadline, the time to the  *)
(* next poll.  Advance lets one unit of time pass for everybody.  A worker *)
(* acts on time unless it is paused; a pause may last any time.  The object*)
(* store and SlateDB are external: a PUT or GET is one step of the store, a*)
(* PUT whose answer is lost may still take effect later, and the last open *)
(* of the database is its only writer.                                     *)
(***************************************************************************)
EXTENDS Integers, FiniteSets

CONSTANTS
    Workers,    \* the workers configured for the shard
    Etags,      \* the ETags the store may give to the lease object
    Ttl,        \* lease_ms of each worker, in units of time
    None,       \* no lease object, no ETag, no writer
    MaxFaults   \* bound on pauses, crashes, lost answers and failed opens

ASSUME LeaseNone == /\ None \notin Workers \cup Etags
                    /\ None \notin [node : Workers, etag : Etags, ttl : Nat]
ASSUME LeaseBounds == /\ Ttl \in [Workers -> Nat \ {0}]
                      /\ \E w \in Workers : \A v \in Workers : Ttl[v] <= Ttl[w]
                      /\ MaxFaults \in Nat

VARIABLES
    object,     \* the lease object, or None before the first Create
    run,        \* is the process up, paused or down
    pc,         \* where the worker's loop is
    wait,       \* the time to the next poll
    seen,       \* what the GET of this iteration returned
    observed,   \* the ETag last observed and the time since
    owned,      \* the version of the lease this worker wrote last, or None
    left,       \* the time left to the deadline
    put,        \* the PUT of this iteration
    stray,      \* PUTs given up that may still take effect
    opening,    \* the task that opens the engine
    db,         \* the worker's database handle
    active,     \* is the engine published to the HTTP handlers
    writer,     \* the worker whose open of the database was the last
    work,       \* has the worker a request admitted and not served
    behind,     \* workers whose open database lacks a commit of another
    faults

leaseVars == <<object, run, pc, wait, seen, observed, owned, left, put, stray,
               opening, db, active, writer, work, behind, faults>>
local  == <<wait, seen, observed, owned, left, put>>
engines == <<opening, db, active, writer, work, behind>>

Interval(w) == (Ttl[w] + 2) \div 3
Longest == CHOOSE t \in {Ttl[w] : w \in Workers} : \A w \in Workers : Ttl[w] <= t

(* The ETags nothing refers to: a PUT carries a fresh nonce.               *)
InUse == (IF object = None THEN {} ELSE {object.etag})
         \cup (UNION {{seen[w].etag, observed[w].etag, owned[w], put[w].new, put[w].expect}
                        : w \in Workers})
         \cup {s.new : s \in stray}
Fresh == Etags \ InUse

Unseen   == [node |-> None, etag |-> None, ttl |-> 0]
Nothing  == [etag |-> None, age |-> 0]
NoPut    == [expect |-> None, new |-> None, age |-> 0, reply |-> "none"]

Init ==
    /\ object = None
    /\ run = [w \in Workers |-> "up"]
    /\ pc = [w \in Workers |-> "idle"]
    /\ wait = [w \in Workers |-> 0]
    /\ seen = [w \in Workers |-> Unseen]
    /\ observed = [w \in Workers |-> Nothing]
    /\ owned = [w \in Workers |-> None]
    /\ left = [w \in Workers |-> 0]
    /\ put = [w \in Workers |-> NoPut]
    /\ stray = {}
    /\ opening = [w \in Workers |-> "none"]
    /\ db = [w \in Workers |-> "none"]
    /\ active = [w \in Workers |-> FALSE]
    /\ writer = None
    /\ work = [w \in Workers |-> FALSE]
    /\ behind = {}
    /\ faults = 0

(* At most MaxFaults steps of a behaviour go wrong.                        *)
Fault == faults < MaxFaults /\ faults' = faults + 1

-----------------------------------------------------------------------------
(* The worker's loop.                                                      *)

At(w, place) == run[w] = "up" /\ pc[w] = place
Goto(w, place) == pc' = [pc EXCEPT ![w] = place]

(* retire(): the engine is unpublished and the opening task aborted at     *)
(* once; Close then closes the database, after the indexer has stopped.    *)
Retire(w) ==
    /\ active' = [active EXCEPT ![w] = FALSE]
    /\ opening' = [opening EXCEPT ![w] = "none"]
    /\ owned' = [owned EXCEPT ![w] = None]
    /\ observed' = [observed EXCEPT ![w] = Nothing]
    /\ UNCHANGED <<db, writer, work, behind>>

Send(w, expect) ==
    LET nonce == CHOOSE e \in Fresh : TRUE
    IN  /\ Fresh # {}
        /\ put' = [put EXCEPT ![w] = [expect |-> expect, new |-> nonce, age |-> 0, reply |-> "sent"]]
        /\ Goto(w, "put")

Expired(w) == left[w] = 0 \/ (active[w] /\ db[w] = "closed")

Tick(w) ==
    /\ At(w, "idle") /\ wait[w] = 0
    /\ wait' = [wait EXCEPT ![w] = Interval(w)]
    /\ \/ owned[w] # None /\ Expired(w) /\ Retire(w) /\ Goto(w, "drop") /\ UNCHANGED put
       \/ /\ owned[w] # None /\ ~Expired(w) /\ Send(w, owned[w])
          /\ UNCHANGED <<owned, observed, engines>>
       \/ /\ owned[w] = None /\ Goto(w, "get")
          /\ UNCHANGED <<put, owned, observed, engines>>
    /\ UNCHANGED <<object, run, seen, left, stray, faults>>

Close(w) ==
    /\ \/ At(w, "drop") /\ Goto(w, "get")
       \/ At(w, "lose") /\ Goto(w, "idle")
    /\ db' = [db EXCEPT ![w] = "none"]
    /\ work' = [work EXCEPT ![w] = FALSE]
    /\ UNCHANGED <<object, run, local, stray, opening, active, writer, behind, faults>>

(* store.get: the object as it is when the store serves the read.          *)
Get(w) ==
    /\ At(w, "get")
    /\ \/ /\ seen' = [seen EXCEPT ![w] = IF object = None THEN Unseen ELSE object]
          /\ Goto(w, "seen") /\ UNCHANGED faults
       \/ Fault /\ Goto(w, "idle") /\ UNCHANGED seen
    /\ UNCHANGED <<object, run, wait, observed, owned, left, put, stray, engines>>

(* An unchanged ETag is replaced once it has been observed for the TTL its *)
(* holder wrote.  Mutant: for the TTL of the worker that observes it.      *)
OutlivedOwnTtl(w) == observed[w].age >= Ttl[w]
Outlived(w) == observed[w].age >= seen[w].ttl

(* The observation of a new ETag is dated after the read returned.         *)
Judge(w) ==
    LET found == seen[w].etag
        same == found # None /\ observed[w].etag = found
    IN  /\ At(w, "seen")
        /\ \/ found = None /\ Send(w, None) /\ UNCHANGED observed
           \/ /\ same /\ Outlived(w)
              /\ Send(w, found) /\ UNCHANGED observed
           \/ /\ same /\ ~Outlived(w)
              /\ Goto(w, "idle") /\ UNCHANGED <<put, observed>>
           \/ /\ found # None /\ ~same
              /\ observed' = [observed EXCEPT ![w] = [etag |-> found, age |-> 0]]
              /\ Goto(w, "idle") /\ UNCHANGED put
        /\ seen' = [seen EXCEPT ![w] = Unseen]
        /\ UNCHANGED <<object, run, wait, owned, left, stray, engines, faults>>

(* The conditional PUT takes effect if the object is still the one expected.*)
Matches(expect) == expect = (IF object = None THEN None ELSE object.etag)
Written(w, etag) == [node |-> w, etag |-> etag, ttl |-> Ttl[w]]

Answered(w, reply, new) ==
    [put EXCEPT ![w] = [expect |-> None, new |-> new, age |-> put[w].age, reply |-> reply]]

PutServed(w) ==
    /\ put[w].reply = "sent"
    /\ IF Matches(put[w].expect)
       THEN /\ object' = Written(w, put[w].new)
            /\ stray' = {}
            /\ put' = Answered(w, "ok", put[w].new)
       ELSE /\ put' = Answered(w, "refused", None)
            /\ UNCHANGED <<object, stray>>
    /\ UNCHANGED <<run, pc, wait, seen, observed, owned, left, engines, faults>>

(* A PUT given up before the store served it may still take effect, while  *)
(* the object is the one it expects: an ETag never comes back, so a change *)
(* of the object ends every PUT on its way.                                *)
Strays(w) == IF put[w].reply = "sent" /\ Matches(put[w].expect)
             THEN stray \cup {[node |-> w, new |-> put[w].new]} ELSE stray

(* The request, or its answer, is lost or late.                            *)
PutLost(w) ==
    /\ put[w].reply \in {"sent", "ok"}
    /\ Fault
    /\ put' = Answered(w, "lost", None)
    /\ stray' = Strays(w)
    /\ UNCHANGED <<object, run, pc, wait, seen, observed, owned, left, engines>>

StrayLands(s) ==
    /\ object' = Written(s.node, s.new)
    /\ stray' = {}
    /\ UNCHANGED <<run, pc, local, engines, faults>>

(* Mutant: the age of an answer is not looked at.                          *)
WonHoweverLate(w) == put[w].reply = "ok"
Won(w) == put[w].reply = "ok" /\ put[w].age < Ttl[w]
Failed(w) ==
    \/ put[w].reply = "refused"
    \/ put[w].reply = "ok" /\ put[w].age >= Ttl[w]
    \/ put[w].reply \in {"sent", "lost"} /\ put[w].age >= Interval(w)

(* The deadline counts from the start of the PUT.  Mutant: from its answer.*)
DeadlineFromAnswer(w) == Ttl[w]
Deadline(w) == Ttl[w] - put[w].age

(* The owner's last observation is dropped here: the code keeps it, but    *)
(* never reads it before the loss of the lease clears it.                  *)
Win(w) ==
    /\ At(w, "put") /\ Won(w)
    /\ owned' = [owned EXCEPT ![w] = put[w].new]
    /\ left' = [left EXCEPT ![w] = Deadline(w)]
    /\ opening' = IF owned[w] = None THEN [opening EXCEPT ![w] = "running"] ELSE opening
    /\ observed' = [observed EXCEPT ![w] = Nothing]
    /\ put' = [put EXCEPT ![w] = NoPut]
    /\ Goto(w, "settle")
    /\ UNCHANGED <<object, run, wait, seen, stray, db, active, writer, work, behind, faults>>

Lose(w) ==
    /\ At(w, "put") /\ Failed(w)
    /\ Retire(w)
    /\ stray' = Strays(w)
    /\ put' = [put EXCEPT ![w] = NoPut]
    /\ Goto(w, "lose")
    /\ UNCHANGED <<object, run, wait, seen, left, faults>>

(* The end of an iteration: a finished open is published before the        *)
(* deadline; after it, or if the open failed, the lease is given up.       *)
(* Mutant: a failed open is forgotten, the lease is kept and renewed.      *)
GiveUpKeepsLease(w) ==
    /\ opening' = [opening EXCEPT ![w] = "none"]
    /\ db' = [db EXCEPT ![w] = "none"]
    /\ UNCHANGED <<owned, observed>>

GiveUp(w) ==
    /\ opening' = [opening EXCEPT ![w] = "none"]
    /\ db' = [db EXCEPT ![w] = "none"]
    /\ owned' = [owned EXCEPT ![w] = None]
    /\ observed' = [observed EXCEPT ![w] = Nothing]

Settle(w) ==
    /\ At(w, "settle")
    /\ Goto(w, "idle")
    /\ \/ /\ opening[w] \notin {"done", "failed"}
          /\ UNCHANGED <<owned, observed, opening, db, active>>
       \/ /\ opening[w] = "done" /\ left[w] > 0
          /\ active' = [active EXCEPT ![w] = TRUE]
          /\ opening' = [opening EXCEPT ![w] = "none"]
          /\ UNCHANGED <<owned, observed, db>>
       \/ /\ opening[w] = "failed" \/ (opening[w] = "done" /\ left[w] = 0)
          /\ GiveUp(w) /\ UNCHANGED active
    /\ UNCHANGED <<object, run, wait, seen, left, put, stray, writer, work, behind, faults>>

Loop(w) ==
    Tick(w) \/ Close(w) \/ Get(w) \/ Judge(w) \/ Win(w) \/ Lose(w) \/ Settle(w)

-----------------------------------------------------------------------------
(* The opening task, the database and the requests.                        *)

OpenFences(w) ==
    /\ run[w] = "up" /\ opening[w] = "running"
    /\ opening' = [opening EXCEPT ![w] = "fenced"]
    /\ db' = [db EXCEPT ![w] = "open"]
    /\ writer' = w
    /\ behind' = behind \ {w}
    /\ UNCHANGED <<object, run, pc, local, stray, active, work, faults>>

OpenDone(w) ==
    /\ run[w] = "up" /\ opening[w] = "fenced"
    /\ opening' = [opening EXCEPT ![w] = "done"]
    /\ UNCHANGED <<object, run, pc, local, stray, db, active, writer, work, behind, faults>>

(* An open fails because the store does, or another open fenced it.        *)
OpenFails(w) ==
    /\ run[w] = "up" /\ opening[w] \in {"running", "fenced"}
    /\ (opening[w] = "fenced" /\ writer # w /\ UNCHANGED faults) \/ Fault
    /\ opening' = [opening EXCEPT ![w] = "failed"]
    /\ db' = [db EXCEPT ![w] = "none"]
    /\ UNCHANGED <<object, run, pc, local, stray, active, writer, work, behind>>

(* SlateDB closes a handle when it finds it fenced.                        *)
Notice(w) ==
    /\ run[w] = "up" /\ db[w] = "open" /\ writer # w
    /\ db' = [db EXCEPT ![w] = "closed"]
    /\ UNCHANGED <<object, run, pc, local, stray, opening, active, writer, work, behind, faults>>

Admits(w) == active[w] /\ left[w] > 0 /\ db[w] # "closed"

Admit(w) ==
    /\ run[w] = "up" /\ Admits(w)
    /\ work' = [work EXCEPT ![w] = TRUE]
    /\ UNCHANGED <<object, run, pc, local, stray, opening, db, active, writer, behind, faults>>

(* A request admitted runs to its end, whatever became of the lease; its   *)
(* write commits only while this handle is the database's writer.          *)
Serve(w) ==
    /\ run[w] = "up" /\ work[w]
    /\ work' = [work EXCEPT ![w] = FALSE]
    /\ behind' = IF db[w] = "open" /\ writer = w
                 THEN behind \cup {v \in Workers \ {w} : db[v] # "none"} ELSE behind
    /\ UNCHANGED <<object, run, pc, local, stray, opening, db, active, writer, faults>>

-----------------------------------------------------------------------------
(* Time and failures.                                                      *)

(* A worker that is up has nothing to do before its next poll, or awaits   *)
(* an answer that does not come until its timeout.                         *)
Idle(w) == \/ run[w] # "up"
           \/ pc[w] = "idle" /\ wait[w] > 0
           \/ pc[w] = "put" /\ put[w].reply = "lost" /\ put[w].age < Interval(w)

Older(age) == IF age < Longest THEN age + 1 ELSE age
Sooner(time) == IF time > 0 THEN time - 1 ELSE 0

Advance ==
    /\ \A w \in Workers : Idle(w)
    /\ wait' = [w \in Workers |-> Sooner(wait[w])]
    /\ left' = [w \in Workers |-> Sooner(left[w])]
    /\ observed' = [w \in Workers |->
           IF observed[w].etag = None THEN Nothing
           ELSE [observed[w] EXCEPT !.age = Older(@)]]
    /\ put' = [w \in Workers |->
           IF put[w].reply = "none" THEN NoPut ELSE [put[w] EXCEPT !.age = Older(@)]]
    /\ UNCHANGED <<object, run, pc, seen, owned, stray, engines, faults>>

Pause(w) ==
    /\ run[w] = "up" /\ Fault
    /\ run' = [run EXCEPT ![w] = "paused"]
    /\ UNCHANGED <<object, pc, local, stray, engines>>

Resume(w) ==
    /\ run[w] = "paused"
    /\ run' = [run EXCEPT ![w] = "up"]
    /\ UNCHANGED <<object, pc, local, stray, engines, faults>>

(* The process ends, by a kill, an error of the loop or a requested stop;  *)
(* the lease object stays until its TTL has been observed.                 *)
Crash(w) ==
    /\ run[w] # "down" /\ Fault
    /\ run' = [run EXCEPT ![w] = "down"]
    /\ Goto(w, "idle")
    /\ wait' = [wait EXCEPT ![w] = 0]
    /\ seen' = [seen EXCEPT ![w] = Unseen]
    /\ observed' = [observed EXCEPT ![w] = Nothing]
    /\ owned' = [owned EXCEPT ![w] = None]
    /\ left' = [left EXCEPT ![w] = 0]
    /\ put' = [put EXCEPT ![w] = NoPut]
    /\ stray' = Strays(w)
    /\ opening' = [opening EXCEPT ![w] = "none"]
    /\ db' = [db EXCEPT ![w] = "none"]
    /\ active' = [active EXCEPT ![w] = FALSE]
    /\ work' = [work EXCEPT ![w] = FALSE]
    /\ UNCHANGED <<object, writer, behind>>

Restart(w) ==
    /\ run[w] = "down"
    /\ run' = [run EXCEPT ![w] = "up"]
    /\ UNCHANGED <<object, pc, local, stray, engines, faults>>

Opening(w) == OpenFences(w) \/ OpenDone(w) \/ OpenFails(w) \/ Notice(w)
Requests(w) == Admit(w) \/ Serve(w)
Disturb(w) == PutLost(w) \/ Pause(w) \/ Crash(w)
Recover(w) == Resume(w) \/ Restart(w)

Next ==
    \/ \E w \in Workers : Loop(w) \/ PutServed(w) \/ Opening(w) \/ Requests(w)
                          \/ Disturb(w) \/ Recover(w)
    \/ \E s \in stray : StrayLands(s)
    \/ Advance

Spec == Init /\ [][Next]_leaseVars

(* Processes are scheduled and restarted, the store answers, an open ends, *)
(* and time passes.                                                        *)
Fairness ==
    /\ \A w \in Workers : /\ WF_leaseVars(Loop(w)) /\ WF_leaseVars(PutServed(w))
                          /\ WF_leaseVars(OpenFences(w)) /\ WF_leaseVars(OpenDone(w))
                          /\ WF_leaseVars(Notice(w)) /\ WF_leaseVars(Recover(w))
    /\ WF_leaseVars(Advance)
FairSpec == Spec /\ Fairness

-----------------------------------------------------------------------------
(* Properties.                                                             *)

Lease == [node : Workers, etag : Etags, ttl : Nat]

TypeOK ==
    /\ object \in Lease \cup {None}
    /\ run \in [Workers -> {"up", "paused", "down"}]
    /\ pc \in [Workers -> {"idle", "drop", "get", "seen", "put", "lose", "settle"}]
    /\ wait \in [Workers -> Nat]
    /\ seen \in [Workers -> Lease \cup {Unseen}]
    /\ observed \in [Workers -> [etag : Etags \cup {None}, age : Nat]]
    /\ owned \in [Workers -> Etags \cup {None}]
    /\ left \in [Workers -> Nat]
    /\ put \in [Workers -> [expect : Etags \cup {None}, new : Etags \cup {None}, age : Nat,
                            reply : {"none", "sent", "ok", "refused", "lost"}]]
    /\ \A w \in Workers : put[w].reply \in {"sent", "ok"} => put[w].new \in Etags
    /\ stray \subseteq [node : Workers, new : Etags]
    /\ opening \in [Workers -> {"none", "running", "fenced", "done", "failed"}]
    /\ db \in [Workers -> {"none", "open", "closed"}]
    /\ active \in [Workers -> BOOLEAN]
    /\ writer \in Workers \cup {None}
    /\ work \in [Workers -> BOOLEAN]
    /\ behind \subseteq Workers
    /\ faults \in 0..MaxFaults

(* Two workers never admit requests at the same time, whatever is paused,  *)
(* lost, late or restarted, and although no clocks are compared between    *)
(* them (worker_forward's test of the deadline, run_worker's takeover).    *)
OneOwner == \A v, w \in Workers : Admits(v) /\ Admits(w) => v = w

(* A worker that admits a request reads every write committed before: no   *)
(* other worker has committed since it opened the database.                *)
NoStaleOwner == \A w \in Workers : Admits(w) => w \notin behind

(* When failures stop, one worker or another comes to serve and keeps      *)
(* serving: renewals keep ahead of the deadline and of the standbys.       *)
ServiceSettles == <>[](\E w \in Workers : Admits(w))
=============================================================================
