------------------------------ MODULE Gateway ------------------------------
(***************************************************************************)
(* The gateway of a cluster (cluster.rs): it places a namespace on a shard,*)
(* asks the workers of the shard which of them is ready, keeps the answer  *)
(* for a second, and forwards each request once.  The databases behind the *)
(* shards are pinned by a topology object when a gateway starts.           *)
(*                                                                         *)
(* Workers are what Lease shows them to be: at most one of a database      *)
(* serves, and a request it admitted commits only while it is the writer.  *)
(* A write is a task of its own there: the deadline, an error or a lost    *)
(* connection may end its request, and the write commits before or after.  *)
(* A request is a write, or the part of a namespace listing that asks one  *)
(* shard; the network may lose a request or an answer.                     *)
(***************************************************************************)
EXTENDS Integers, Sequences, FiniteSets

CONSTANTS
    Workers,    \* the worker processes
    Databases,  \* their databases, by identity
    Requests,   \* the requests a gateway may have at a time, and their clients
    Names,      \* the namespaces
    Configs,    \* gateway configurations: shard ids to sequences of workers
    Rank,       \* the digest of <<namespace, shard id>>, for placement
    Points,     \* the databases the workers are configured for at first
    Permits,    \* requests forwarded at a time: 64 in the code
    Fresh,      \* the time a discovered owner is trusted: one second
    None,
    MaxFaults   \* bound on what goes wrong: lost messages, disconnects, errors, stops

ShardIds == UNION {DOMAIN c : c \in Configs}
Topologies == UNION {[DOMAIN c -> Databases] : c \in Configs}

ASSUME GatewayNone == None \notin Workers \cup Databases \cup Topologies
ASSUME GatewayConfigs == \A c \in Configs : /\ IsFiniteSet(DOMAIN c) /\ DOMAIN c # {}
                                            /\ \A s \in DOMAIN c : c[s] \in Seq(Workers)
ASSUME GatewayDigests == Rank \in [Names \X ShardIds -> Nat]
ASSUME GatewayPoints == Points \in [Workers -> Databases]
ASSUME GatewayPlaces == \A config \in Configs : \A n \in Names, s, t \in DOMAIN config :
                            s # t => Rank[<<n, s>>] # Rank[<<n, t>>]
ASSUME GatewayBounds == Permits \in Nat \ {0} /\ Fresh \in Nat \ {0} /\ MaxFaults \in Nat

VARIABLES
    role,       \* of each worker: "down", "standby" or "serving"
    database,   \* the identity each worker is configured for
    topology,   \* coordination/topology.json: shard ids to identities, or None
    up,         \* the gateway: "down", "starting" or "up"
    config,     \* its configuration
    identities, \* the identities it has found, and expects of its shards
    owners,     \* the owner it has cached for each shard, and since when
    req,        \* what it is doing for each request
    wire,       \* the forwarded request on its way to the worker and back
    task,       \* the worker that has a write of the request to commit, or None
    commits,    \* for each request, the databases it was committed to
    home,       \* for each namespace, its commits: the identity its worker had
                \* answered when it was discovered, and the database
    faults

gateway == <<topology, up, config, identities>>
workers == <<role, database>>
vars == <<role, database, topology, up, config, identities, owners, req, wire, task,
          commits, home, faults>>

NoRequest == [pc |-> "idle", list |-> FALSE, name |-> None, probe |-> 0, target |-> None,
              identity |-> None, answer |-> "none"]
NoMessage == [to |-> None, stage |-> "none"]
NoOwner == [worker |-> None, identity |-> None, age |-> 0]
NoOwners == [s \in ShardIds |-> NoOwner]
NoIdentities == [s \in {} |-> None]

Init ==
    /\ role = [w \in Workers |-> "standby"]
    /\ database = Points
    /\ topology = None
    /\ up = "down"
    /\ config \in Configs
    /\ identities = NoIdentities
    /\ owners = NoOwners
    /\ req = [r \in Requests |-> NoRequest]
    /\ wire = [r \in Requests |-> NoMessage]
    /\ task = [r \in Requests |-> None]
    /\ commits = [r \in Requests |-> <<>>]
    /\ home = [n \in Names |-> {}]
    /\ faults = 0

Fault == faults < MaxFaults /\ faults' = faults + 1

-----------------------------------------------------------------------------
(* Workers (external to the gateway; Lease has their protocol).            *)

TakeOver(w) ==
    /\ role[w] = "standby"
    /\ \A v \in Workers : database[v] = database[w] => role[v] # "serving"
    /\ role' = [role EXCEPT ![w] = "serving"]
    /\ UNCHANGED <<database, gateway, owners, req, wire, task, commits, home, faults>>

(* The writes of the requests in done become durable.                      *)
Committed(done) ==
    /\ commits' = [r \in Requests |-> IF r \notin done THEN commits[r]
                                      ELSE Append(commits[r], database[task[r]])]
    /\ home' = [n \in Names |-> home[n] \cup
                   {[identity |-> req[r].identity, db |-> database[task[r]]] :
                       r \in {q \in done : req[q].name = n}}]

(* The requests it was serving fail.  Its handle is closed or fenced before*)
(* another worker serves: a batch already handed over may have become      *)
(* durable, the other writes never will.  A worker with a wrong database is*)
(* stopped.                                                                *)
StepDown(w, to, done) ==
    /\ \/ role[w] = "serving" /\ Fault
       \/ role[w] # "down" /\ to = "down" /\ database[w] # Points[w] /\ UNCHANGED faults
    /\ role' = [role EXCEPT ![w] = to]
    /\ \A r \in done : task[r] = w
    /\ Committed(done)
    /\ task' = [r \in Requests |-> IF task[r] = w THEN None ELSE task[r]]
    /\ wire' = [r \in Requests |->
                  IF wire[r] # [to |-> w, stage |-> "running"] THEN wire[r]
                  ELSE [to |-> w, stage |-> IF to = "down" THEN "broken" ELSE "failed"]]
    /\ UNCHANGED <<database, gateway, owners, req>>

(* A worker comes back, perhaps with another database: by mistake, or when *)
(* the mistake is corrected.                                               *)
Restart(w, db) ==
    /\ role[w] = "down"
    /\ role' = [role EXCEPT ![w] = "standby"]
    /\ database' = [database EXCEPT ![w] = db]
    /\ UNCHANGED <<gateway, owners, req, wire, task, commits, home, faults>>

-----------------------------------------------------------------------------
(* Starting (gateway_router): discover every shard, then pin the topology. *)

Ready(w) == role[w] = "serving"

StartDiscover(c) ==
    /\ up = "down"
    /\ config' = c /\ identities' = NoIdentities /\ up' = "starting"
    /\ UNCHANGED <<workers, topology, owners, req, wire, task, commits, home, faults>>

(* discover() without an expectation, for one shard after the other: a     *)
(* worker that is ready; those before it were not when they were asked, or *)
(* their answers were lost.  With none the gateway does not start.         *)
Discover(s) ==
    LET list == config[s]
    IN  /\ up = "starting" /\ s \in DOMAIN config \ DOMAIN identities
        /\ \/ \E i \in DOMAIN list :
                 /\ Ready(list[i])
                 /\ identities' = [t \in DOMAIN identities \cup {s} |->
                                     IF t = s THEN database[list[i]] ELSE identities[t]]
                 /\ UNCHANGED up
           \/ /\ \A i \in DOMAIN list : ~Ready(list[i])
              /\ up' = "down" /\ UNCHANGED identities
        /\ UNCHANGED <<workers, topology, config, owners, req, wire, task, commits, home, faults>>

(* PutMode::Create, and the comparison when the object exists.  Mutant: an *)
(* object that exists is good enough.                                      *)
AcceptsAnyTopology == TRUE
AcceptsTopology == topology = identities

Pin ==
    /\ up = "starting" /\ DOMAIN identities = DOMAIN config
    /\ \/ topology = None /\ topology' = identities /\ up' = "up"
       \/ /\ topology # None /\ UNCHANGED topology
          /\ up' = IF AcceptsTopology THEN "up" ELSE "down"
    /\ UNCHANGED <<workers, config, identities, owners, req, wire, task, commits, home, faults>>

Answered(r, what) == [pc |-> "idle", list |-> req[r].list, name |-> req[r].name, probe |-> 0,
                      target |-> None, identity |-> req[r].identity, answer |-> what]

GatewayStops ==
    /\ up # "down" /\ Fault
    /\ up' = "down"
    /\ owners' = NoOwners
    /\ req' = [r \in Requests |->
                  IF req[r].pc = "idle" THEN req[r]
                  ELSE Answered(r, "unknown")]
    /\ UNCHANGED <<workers, topology, config, identities, wire, task, commits, home>>

-----------------------------------------------------------------------------
(* One request (gateway_forward).                                          *)

shard_for(n) == CHOOSE s \in DOMAIN config : \A t \in DOMAIN config : Rank[<<n, t>>] <= Rank[<<n, s>>]

At(r, pc) == req[r].pc = pc
Shard(r) == shard_for(req[r].name)
InUse == {r \in Requests : req[r].pc # "idle"}
Answer(r, what) == req' = [req EXCEPT ![r] = Answered(r, what)]
Forget(s) == owners' = [owners EXCEPT ![s] = NoOwner]

(* The client's earlier request is settled before it sends another.        *)
Accept(r, n, list) ==
    /\ up = "up" /\ At(r, "idle") /\ wire[r] = NoMessage /\ task[r] = None
    /\ req' = [req EXCEPT ![r] = [NoRequest EXCEPT !.name = n, !.list = list,
                 !.pc = IF Cardinality(InUse) < Permits THEN "owner" ELSE "idle",
                 !.answer = IF Cardinality(InUse) < Permits THEN "none" ELSE "unsent"]]
    /\ commits' = [commits EXCEPT ![r] = <<>>]
    /\ UNCHANGED <<workers, gateway, owners, wire, task, home, faults>>

(* owner(): the cached owner if it is recent.  Mutants: however old it is; *)
(* whether there is one or not.                                            *)
TrustedForever(s) == owners[s].worker # None
TrustedUnseen(s) == owners[s].age < Fresh
Trusted(s) == owners[s].worker # None /\ owners[s].age < Fresh

Owner(r) ==
    /\ At(r, "owner")
    /\ req' = [req EXCEPT ![r] = IF Trusted(Shard(r))
                  THEN [@ EXCEPT !.pc = "send", !.target = owners[Shard(r)].worker,
                                 !.identity = owners[Shard(r)].identity]
                  ELSE [@ EXCEPT !.pc = "probe", !.probe = 1]]
    /\ UNCHANGED <<workers, gateway, owners, wire, task, commits, home, faults>>

(* discover(): one worker after the other.  An answer may be lost, or its  *)
(* body be cut off, which ends the request.  Mutant: a worker of any       *)
(* database is accepted.                                                   *)
KnownAny(s, w) == TRUE
Known(s, w) == identities[s] = database[w]

Probe(r) ==
    LET list == config[Shard(r)]
        w == list[req[r].probe]
        Skip == req' = [req EXCEPT ![r].probe = @ + 1]
    IN  /\ At(r, "probe")
        /\ \/ req[r].probe > Len(list) /\ Answer(r, "unsent") /\ UNCHANGED faults
           \/ req[r].probe <= Len(list) /\ ~Ready(w) /\ Skip /\ UNCHANGED faults
           \/ req[r].probe <= Len(list) /\ Ready(w) /\ (Skip \/ Answer(r, "unsent")) /\ Fault
           \/ /\ req[r].probe <= Len(list) /\ Ready(w) /\ UNCHANGED faults
              /\ IF Known(Shard(r), w)
                 THEN req' = [req EXCEPT ![r].pc = "insert", ![r].target = w,
                                         ![r].identity = database[w]]
                 ELSE Answer(r, "unsent")
        /\ UNCHANGED <<workers, gateway, owners, wire, task, commits, home>>

(* The owner is dated when it is inserted, not when it answered.           *)
Insert(r) ==
    /\ At(r, "insert")
    /\ owners' = [owners EXCEPT ![Shard(r)] = [worker |-> req[r].target,
                                               identity |-> req[r].identity, age |-> 0]]
    /\ req' = [req EXCEPT ![r].pc = "send"]
    /\ UNCHANGED <<workers, gateway, wire, task, commits, home, faults>>

(* It is sent when its body has come, however long that takes, without     *)
(* another look at the worker; a body that does not come is refused.       *)
Send(r) ==
    /\ At(r, "send")
    /\ \/ /\ req' = [req EXCEPT ![r].pc = "wait"]
          /\ wire' = [wire EXCEPT ![r] = [to |-> req[r].target, stage |-> "sent"]]
          /\ UNCHANGED faults
       \/ ~req[r].list /\ Answer(r, "unsent") /\ Fault /\ UNCHANGED wire
    /\ UNCHANGED <<workers, gateway, owners, task, commits, home>>

Stage(r, stage) == wire' = [wire EXCEPT ![r].stage = stage]

(* worker_forward and admit: a worker that does not serve refuses, and one *)
(* that has no slot left; no connection without a process.                 *)
Deliver(r) ==
    LET w == wire[r].to
    IN  /\ wire[r].stage = "sent"
        /\ \/ /\ role[w] = "serving" /\ Stage(r, "running") /\ UNCHANGED faults
              /\ task' = [task EXCEPT ![r] = IF req[r].list THEN None ELSE w]
           \/ role[w] = "serving" /\ Stage(r, "refused") /\ Fault /\ UNCHANGED task
           \/ /\ role[w] # "serving" /\ UNCHANGED <<task, faults>>
              /\ Stage(r, IF role[w] = "standby" THEN "refused" ELSE "broken")
        /\ UNCHANGED <<workers, gateway, owners, req, commits, home>>

(* A write becomes durable, whether its request still waits or not.  If it *)
(* does it succeeds, or its wait for that fails all the same.              *)
Commit(r) ==
    /\ task[r] # None
    /\ Committed({r})
    /\ task' = [task EXCEPT ![r] = None]
    /\ \/ wire[r].stage = "running" /\ Stage(r, "done") /\ UNCHANGED faults
       \/ wire[r].stage = "running" /\ Stage(r, "failed") /\ Fault
       \/ wire[r].stage # "running" /\ UNCHANGED <<wire, faults>>
    /\ UNCHANGED <<workers, gateway, owners, req>>

(* A page of a listing is read.                                            *)
Page(r) ==
    /\ wire[r].stage = "running" /\ req[r].list
    /\ Stage(r, "done")
    /\ UNCHANGED <<workers, gateway, owners, req, task, commits, home, faults>>

(* A request that is served ends with a 5xx: by an error, with its write,  *)
(* or by the deadline, while its write goes on.                            *)
Fail(r) ==
    /\ wire[r].stage = "running" /\ Fault
    /\ Stage(r, "failed")
    /\ task' \in {task, [task EXCEPT ![r] = None]}
    /\ UNCHANGED <<workers, gateway, owners, req, commits, home>>

(* The answer of the worker is passed on.  A 5xx forgets the owner, unless *)
(* the request was a listing, which only fails.                            *)
Respond(r) ==
    /\ At(r, "wait") /\ wire[r].stage \in {"done", "refused", "failed"}
    /\ Answer(r, IF wire[r].stage = "done" THEN "ok" ELSE wire[r].stage)
    /\ IF wire[r].stage = "done" \/ req[r].list THEN UNCHANGED owners ELSE Forget(Shard(r))
    /\ wire' = [wire EXCEPT ![r] = NoMessage]
    /\ UNCHANGED <<workers, gateway, task, commits, home, faults>>

(* A transport error or the time limit, after which the request may still  *)
(* be under way.  Mutant: it is sent again.                                *)
SendAgain(r) == req' = [req EXCEPT ![r].pc = "send"]
ReportError(r) == Answer(r, "unknown")

TransportError(r) ==
    /\ At(r, "wait")
    /\ \/ wire[r].stage = "broken" /\ UNCHANGED faults
       \/ wire[r].stage # "broken" /\ Fault
    /\ IF req[r].list THEN UNCHANGED owners ELSE Forget(Shard(r))
    /\ ReportError(r)
    /\ UNCHANGED <<workers, gateway, wire, task, commits, home>>

(* A client that disconnects drops its handler at any of its awaits.       *)
Disconnect(r) ==
    /\ req[r].pc # "idle" /\ Fault
    /\ Answer(r, "unknown")
    /\ UNCHANGED <<workers, gateway, owners, wire, task, commits, home>>

(* What nobody waits for leaves the wire: a request may be lost before it  *)
(* arrives, and the worker drops one whose connection is gone, but not its *)
(* write once that has begun.                                              *)
Settle(r) ==
    /\ ~At(r, "wait") /\ wire[r].stage # "none"
    /\ wire' = [wire EXCEPT ![r] = NoMessage]
    /\ \/ UNCHANGED task
       \/ wire[r].stage = "running" /\ task' = [task EXCEPT ![r] = None]
    /\ UNCHANGED <<workers, gateway, owners, req, commits, home, faults>>

Tick ==
    /\ \E s \in ShardIds : owners[s].worker # None /\ owners[s].age < Fresh
    /\ owners' = [s \in ShardIds |-> IF owners[s].worker = None \/ owners[s].age = Fresh THEN owners[s]
                                     ELSE [owners[s] EXCEPT !.age = @ + 1]]
    /\ UNCHANGED <<workers, gateway, req, wire, task, commits, home, faults>>

Forward(r) == Owner(r) \/ Probe(r) \/ Insert(r) \/ Send(r) \/ Respond(r) \/ TransportError(r)
Serve(r) == Deliver(r) \/ Commit(r) \/ Page(r) \/ Settle(r)

Next ==
    \/ \E w \in Workers : TakeOver(w)
    \/ \E w \in Workers, to \in {"standby", "down"}, done \in SUBSET Requests : StepDown(w, to, done)
    \/ \E w \in Workers, db \in Databases : Restart(w, db)
    \/ \E c \in Configs : StartDiscover(c)
    \/ \E s \in ShardIds : Discover(s)
    \/ Pin \/ GatewayStops
    \/ \E r \in Requests, n \in Names, list \in BOOLEAN : Accept(r, n, list)
    \/ \E r \in Requests : Forward(r) \/ Serve(r) \/ Fail(r) \/ Disconnect(r)
    \/ Tick

(* The gateway, the network and the workers go on with the requests, and   *)
(* time passes.  Clients, workers and gateways are under no obligation.    *)
Fairness ==
    /\ \A r \in Requests : WF_vars(Forward(r)) /\ WF_vars(Serve(r))
    /\ WF_vars(Tick)

Spec == Init /\ [][Next]_vars /\ Fairness

-----------------------------------------------------------------------------
(* Properties.                                                             *)

(* Type correctness, that a request waits for exactly the worker it was    *)
(* sent to, and that only a worker that serves has a write to commit.      *)
TypeOK ==
    /\ role \in [Workers -> {"down", "standby", "serving"}]
    /\ database \in [Workers -> Databases]
    /\ up \in {"down", "starting", "up"}
    /\ config \in Configs
    /\ owners \in [ShardIds -> [worker : Workers \cup {None},
                               identity : Databases \cup {None}, age : 0 .. Fresh]]
    /\ \A r \in Requests :
          /\ req[r].pc \in {"idle", "owner", "probe", "insert", "send", "wait"}
          /\ req[r].answer \in {"none", "ok", "refused", "failed", "unknown", "unsent"}
          /\ req[r].pc # "idle" => up = "up" /\ req[r].answer = "none"
          /\ req[r].pc = "wait" => /\ req[r].target \in Workers
                                   /\ wire[r].to = req[r].target
          /\ task[r] # None => task[r] \in Workers /\ role[task[r]] = "serving"

(* A write of a client is committed at most once, whatever is lost between *)
(* the gateway and the worker and whenever its worker steps down.  An      *)
(* answer of success means that it was; a request that was not forwarded,  *)
(* and one its worker refused to serve, was not and never will be.  After  *)
(* any other error the write may be committed, also later                  *)
(* (cluster.rs:486-514, api.rs:77-90, engine.rs:302-390).                  *)
SubmittedOnce ==
    \A r \in Requests : /\ Len(commits[r]) <= 1
                        /\ req[r].answer = "ok" /\ ~req[r].list => Len(commits[r]) = 1
                        /\ req[r].answer \in {"unsent", "refused"} => commits[r] = <<>>

(* All commits of a namespace go to one database, whatever shards gateways *)
(* are started with and whatever databases workers come back with:         *)
(* placement is pinned and a stranger is not chosen (cluster.rs:317-347,   *)
(* 376-385).  Only a worker that is given another database after it was    *)
(* discovered and before the request comes breaks this: the owner is       *)
(* cached, the body is awaited, and sending checks nothing (473-497).      *)
Repointed(commit) == commit.db # commit.identity
PlacementStable ==
    \A n \in Names : \A c, d \in home[n] : c.db = d.db \/ Repointed(c) \/ Repointed(d)

(* The owner of a namespace can be found: its gateway is up and a worker   *)
(* of the pinned database serves, with no stranger among the workers.      *)
Served(n) ==
    /\ up = "up"
    /\ LET s == shard_for(n)
           list == config[s]
       IN  /\ \E i \in DOMAIN list : Ready(list[i])
           /\ \A i \in DOMAIN list : database[list[i]] = identities[s]

(* When the owner of a namespace no longer changes and clients go on with  *)
(* requests of a kind, such requests come through, whatever stale owner was*)
(* cached.  A listing forgets nothing when it fails: the age of the entry  *)
(* has to save it (cluster.rs:395-410, 424-450, 500-508).                  *)
Of(r, n, list) == req[r].name = n /\ req[r].list = list
ServiceIsFound ==
    \A n \in Names, list \in BOOLEAN :
        /\ <>[]Served(n)
        /\ []<>(\E r \in Requests : Of(r, n, list) /\ req[r].pc # "idle")
        => []<>(\E r \in Requests : Of(r, n, list) /\ req[r].answer = "ok")
=============================================================================
