---------------------------- MODULE GatewayProofs ----------------------------
(***************************************************************************)
(* Theorems about module Gateway, for any workers, databases, requests,    *)
(* names, gateway configurations and permits, and any number of lost       *)
(* messages, disconnects, errors, stops and mistaken configurations: a     *)
(* write is committed at most once, and a namespace stays in one database  *)
(* unless its worker is given another after it was discovered.             *)
(***************************************************************************)
EXTENDS Gateway, FiniteSetTheorems, WellFoundedInduction, TLAPS

USE GatewayNone, GatewayBounds

-----------------------------------------------------------------------------
\* Smallest and greatest numbers, for shard_for.

\* A nonempty set of numbers has a smallest.
LEMMA Smallest ==
    ASSUME NEW T \in SUBSET Nat, T # {}
    PROVE  \E x \in T : \A y \in T : x <= y
<1>1. PICK x \in T : \A y \in T : ~(<<y, x>> \in OpToRel(<, Nat))
  BY WFMin, NatLessThanWellFounded
<1>2. \A y \in T : ~(y < x)
  BY <1>1 DEF OpToRel
<1> QED
  BY <1>2

\* A finite set has an element with the greatest weight.
LEMMA Heaviest ==
    ASSUME NEW S, IsFiniteSet(S), S # {}, NEW weight \in [S -> Nat]
    PROVE  \E x \in S : \A y \in S : weight[y] <= weight[x]
<1> DEFINE Top(T) == \E x \in T : \A y \in T : weight[y] <= weight[x]
           Bad == {T \in SUBSET S : T # {} /\ ~Top(T)}
           Sizes == {Cardinality(T) : T \in Bad}
<1> SUFFICES ASSUME ~Top(S) PROVE FALSE
  OBVIOUS
<1>1. \A T \in SUBSET S : IsFiniteSet(T) /\ Cardinality(T) \in Nat
  BY FS_Subset, FS_CardinalityType
<1>2. Sizes \in SUBSET Nat /\ Sizes # {}
  BY <1>1
<1>3. PICK least \in Sizes : \A y \in Sizes : least <= y
  BY <1>2, Smallest
<1>4. PICK T \in Bad : Cardinality(T) = least
  OBVIOUS
<1>5. PICK x \in T : TRUE
  OBVIOUS
<1>6. T \ {x} \notin Bad
  <2>1. Cardinality(T \ {x}) = Cardinality(T) - 1
    BY <1>1, <1>5, FS_RemoveElement
  <2>2. Cardinality(T) \in Nat /\ Cardinality(T) = least
    BY <1>1, <1>4
  <2>3. T \ {x} \in Bad => Cardinality(T \ {x}) \in Sizes
    OBVIOUS
  <2> HIDE DEF Bad, Sizes
  <2> QED
    BY <2>1, <2>2, <2>3, <1>3
<1>7. CASE T \ {x} = {}
  <2>1. \A y \in T : y = x
    BY <1>7
  <2> QED
    BY <2>1, <1>5
<1>8. CASE T \ {x} # {}
  <2>1. PICK z \in T \ {x} : \A y \in T \ {x} : weight[y] <= weight[z]
    BY <1>6, <1>8
  <2>2. weight[x] \in Nat /\ weight[z] \in Nat /\ \A y \in T : weight[y] \in Nat
    BY <1>5
  <2>3. CASE weight[x] <= weight[z]
    BY <2>1, <2>3
  <2>4. CASE weight[z] < weight[x]
    <3>1. \A y \in T : weight[y] <= weight[x]
      BY <2>1, <2>2, <2>4
    <3> QED
      BY <3>1, <1>5
  <2> QED
    BY <2>2, <2>3, <2>4
<1> QED
  BY <1>7, <1>8

\* Where a namespace belongs, given the set of shard ids.
Place(ids, n) == CHOOSE s \in ids : \A t \in ids : Rank[<<n, t>>] <= Rank[<<n, s>>]

\* Every namespace has its place in a configuration.
LEMMA PlaceIsShard ==
    ASSUME NEW c \in Configs, NEW n \in Names
    PROVE  Place(DOMAIN c, n) \in DOMAIN c
<1> DEFINE ids == DOMAIN c
           weight == [s \in ids |-> Rank[<<n, s>>]]
<1>1. \A s \in ids : <<n, s>> \in Names \X ShardIds
  BY DEF ShardIds
<1>2. weight \in [ids -> Nat]
  BY <1>1, GatewayDigests
<1>3. IsFiniteSet(ids) /\ ids # {}
  BY GatewayConfigs
<1> HIDE DEF ids
<1>4. \E s \in ids : \A t \in ids : weight[t] <= weight[s]
  BY <1>2, <1>3, Heaviest
<1>5. \E s \in ids : \A t \in ids : Rank[<<n, t>>] <= Rank[<<n, s>>]
  BY <1>4
<1>6. Place(ids, n) \in ids
  BY <1>5 DEF Place
<1> QED
  BY <1>6 DEF ids

-----------------------------------------------------------------------------
\* Type correctness.

\* The state of workers and gateway; a gateway that is up knows every shard.
Entry == [worker : Workers \cup {None}, identity : Databases \cup {None}, age : 0 .. Fresh]
GatewayTyped ==
    /\ role \in [Workers -> {"down", "standby", "serving"}]
    /\ database \in [Workers -> Databases]
    /\ up \in {"down", "starting", "up"}
    /\ config \in Configs
    /\ identities \in [DOMAIN identities -> Databases]
    /\ up = "up" => DOMAIN identities = DOMAIN config
    /\ topology \in Topologies \cup {None}
    /\ owners \in [ShardIds -> Entry]

\* A request and its message, and what each place of gateway_forward implies.
Flags == BOOLEAN
RequestSet ==
    [pc : {"idle", "owner", "probe", "insert", "send", "wait"}, list : Flags,
     name : Names \cup {None}, probe : Nat, target : Workers \cup {None},
     identity : Databases \cup {None},
     answer : {"none", "ok", "refused", "failed", "unknown", "unsent"}]
Stages == {"none", "sent", "running", "done", "refused", "failed", "broken"}

RequestTyped(r) ==
    /\ req[r] \in RequestSet
    /\ wire[r] \in [to : Workers \cup {None}, stage : Stages]
    /\ wire[r].stage # "none" => wire[r].to \in Workers
    /\ req[r].pc # "idle" => up = "up" /\ req[r].answer = "none" /\ req[r].name \in Names
    /\ req[r].pc = "probe" => req[r].probe >= 1
    /\ req[r].pc \in {"insert", "send", "wait"} => req[r].target \in Workers
    /\ req[r].pc = "wait" => wire[r].stage # "none" /\ wire[r].to = req[r].target
    /\ task[r] \in Workers \cup {None}
    /\ task[r] # None => role[task[r]] = "serving"

Typed ==
    /\ GatewayTyped
    /\ req = [r \in Requests |-> req[r]]
    /\ wire = [r \in Requests |-> wire[r]]
    /\ task = [r \in Requests |-> task[r]]
    /\ \A r \in Requests : RequestTyped(r)

LEMMA ShardIsKnown ==
    ASSUME GatewayTyped
    PROVE  \A n \in Names : /\ shard_for(n) = Place(DOMAIN config, n)
                            /\ shard_for(n) \in DOMAIN config
                            /\ shard_for(n) \in ShardIds
<1>1. \A n \in Names : shard_for(n) = Place(DOMAIN config, n)
  BY DEF shard_for, Place
<1>2. config \in Configs
  BY DEF GatewayTyped
<1> QED
  BY <1>1, <1>2, PlaceIsShard DEF ShardIds

LEMMA FlagsAreFlags == FALSE \in Flags /\ \A list \in BOOLEAN : list \in Flags
  BY DEF Flags

LEMMA TypeInit == Init => Typed
<1> SUFFICES ASSUME Init PROVE Typed
  OBVIOUS
<1>1. GatewayTyped
  BY GatewayPoints DEF Init, GatewayTyped, Entry, NoOwners, NoOwner, NoIdentities
<1>2. \A r \in Requests : req[r] = NoRequest /\ wire[r] = NoMessage /\ task[r] = None
  BY DEF Init
<1>3. \A r \in Requests : RequestTyped(r)
  <2> SUFFICES ASSUME NEW r \in Requests PROVE RequestTyped(r)
    OBVIOUS
  <2>1. req[r] \in RequestSet
    <3> PICK f \in Flags : f = FALSE
      BY FlagsAreFlags
    <3>1. req[r] = [pc |-> "idle", list |-> f, name |-> None, probe |-> 0, target |-> None,
                    identity |-> None, answer |-> "none"]
      BY <1>2 DEF NoRequest
    <3> QED
      BY <3>1 DEF RequestSet
  <2>2. req[r].pc = "idle" /\ wire[r] = NoMessage /\ task[r] = None
    BY <1>2 DEF NoRequest
  <2> QED
    BY <2>1, <2>2 DEF RequestTyped, RequestSet, NoMessage, Stages
<1> QED
  BY <1>1, <1>3 DEF Init, Typed

\* A step of one request leaves the others alone.
Alone(r) == \A q \in Requests \ {r} : req'[q] = req[q] /\ wire'[q] = wire[q] /\ task'[q] = task[q]

LEMMA TypeAlone ==
    ASSUME Typed, NEW r \in Requests, Alone(r), RequestTyped(r)', UNCHANGED <<role, up>>,
           req' = [q \in Requests |-> req'[q]], wire' = [q \in Requests |-> wire'[q]],
           task' = [q \in Requests |-> task'[q]]
    PROVE  Typed' <=> GatewayTyped'
<1>1. \A q \in Requests : RequestTyped(q)'
  BY DEF Typed, RequestTyped, RequestSet, Alone
<1> QED
  BY <1>1 DEF Typed

LEMMA TypeUnchanged ==
    ASSUME GatewayTyped, UNCHANGED <<role, database, topology, up, config, identities, owners>>
    PROVE  GatewayTyped'
  BY DEF GatewayTyped

LEMMA TypeNext == Typed /\ [Next]_vars => Typed'
<1> SUFFICES ASSUME Typed, [Next]_vars PROVE Typed'
  OBVIOUS
<1> USE DEF gateway, workers
<1>0. GatewayTyped /\ \A r \in Requests : RequestTyped(r)
  BY DEF Typed
<1>s. \A n \in Names : shard_for(n) \in DOMAIN config /\ shard_for(n) \in ShardIds
  BY <1>0, ShardIsKnown
<1>1. CASE UNCHANGED vars
  BY <1>1 DEF vars, Typed, GatewayTyped, RequestTyped, RequestSet
<1>2. ASSUME NEW w \in Workers, TakeOver(w) PROVE Typed'
  <2>1. UNCHANGED <<database, topology, up, config, identities, owners, req, wire, task>>
    BY <1>2 DEF TakeOver
  <2>2. GatewayTyped' /\ \A v \in Workers : role[v] = "serving" => role'[v] = "serving"
    BY <1>0, <1>2 DEF TakeOver, GatewayTyped
  <2>3. \A r \in Requests : RequestTyped(r)'
    BY <1>0, <2>1, <2>2 DEF RequestTyped
  <2> QED
    BY <2>1, <2>2, <2>3 DEF Typed
<1>3. ASSUME NEW w \in Workers, NEW to \in {"standby", "down"}, NEW done \in SUBSET Requests,
             StepDown(w, to, done)
      PROVE  Typed'
  <2>1. GatewayTyped' /\ \A v \in Workers \ {w} : role'[v] = role[v]
    BY <1>0, <1>3 DEF StepDown, GatewayTyped
  <2>2. ASSUME NEW r \in Requests PROVE RequestTyped(r)'
    <3>1. req'[r] = req[r] /\ up' = up
      BY <1>3 DEF StepDown
    <3>2. \/ wire'[r] = wire[r]
          \/ /\ wire[r] = [to |-> w, stage |-> "running"]
             /\ wire'[r] = [to |-> w, stage |-> IF to = "down" THEN "broken" ELSE "failed"]
      BY <1>3 DEF StepDown
    <3>3. /\ wire'[r] \in [to : Workers \cup {None}, stage : Stages]
          /\ wire'[r].to = wire[r].to /\ (wire'[r].stage = "none" <=> wire[r].stage = "none")
      BY <1>0, <3>2 DEF RequestTyped, Stages
    <3>4. task'[r] = IF task[r] = w THEN None ELSE task[r]
      BY <1>3 DEF StepDown
    <3>5. task'[r] \in Workers \cup {None} /\ (task'[r] # None => role'[task'[r]] = "serving")
      BY <1>0, <2>1, <3>4 DEF RequestTyped
    <3> QED
      BY <1>0, <3>1, <3>3, <3>5 DEF RequestTyped, RequestSet
  <2>3. /\ req' = req /\ wire' = [r \in Requests |-> wire'[r]]
        /\ task' = [r \in Requests |-> task'[r]]
    BY <1>3 DEF StepDown
  <2> QED
    BY <2>1, <2>2, <2>3 DEF Typed
<1>4. ASSUME NEW w \in Workers, NEW db \in Databases, Restart(w, db) PROVE Typed'
  <2>1. UNCHANGED <<topology, up, config, identities, owners, req, wire, task>>
    BY <1>4 DEF Restart
  <2>2. GatewayTyped' /\ \A v \in Workers : role[v] = "serving" => role'[v] = "serving"
    BY <1>0, <1>4 DEF Restart, GatewayTyped
  <2>3. \A r \in Requests : RequestTyped(r)'
    BY <1>0, <2>1, <2>2 DEF RequestTyped
  <2> QED
    BY <2>1, <2>2, <2>3 DEF Typed
<1>5. ASSUME NEW c \in Configs, StartDiscover(c) PROVE Typed'
  <2>1. GatewayTyped'
    BY <1>0, <1>5 DEF StartDiscover, GatewayTyped, NoIdentities
  <2>2. \A r \in Requests : RequestTyped(r)'
    BY <1>0, <1>5 DEF StartDiscover, RequestTyped, RequestSet
  <2> QED
    BY <1>5, <2>1, <2>2 DEF StartDiscover, Typed
<1>d. ASSUME NEW s \in ShardIds, Discover(s) PROVE Typed'
  <2>1. config[s] \in Seq(Workers)
    BY <1>0, <1>d, GatewayConfigs DEF Discover, GatewayTyped
  <2>2. identities' \in [DOMAIN identities' -> Databases]
    <3>1. CASE UNCHANGED identities
      BY <1>0, <3>1 DEF GatewayTyped
    <3>2. ASSUME NEW i \in DOMAIN config[s],
                 identities' = [t \in DOMAIN identities \cup {s} |->
                                  IF t = s THEN database[config[s][i]] ELSE identities[t]]
          PROVE  identities' \in [DOMAIN identities' -> Databases]
      <4>1. config[s][i] \in Workers
        BY <2>1
      <4>2. database[config[s][i]] \in Databases /\ identities \in [DOMAIN identities -> Databases]
        BY <1>0, <4>1 DEF GatewayTyped
      <4> QED
        BY <3>2, <4>2
    <3> QED
      BY <1>d, <3>1, <3>2 DEF Discover
  <2>3. up = "starting" /\ up' \in {"starting", "down"}
    BY <1>d DEF Discover
  <2>4. UNCHANGED <<role, database, topology, config, owners, req, wire, task>>
    BY <1>d DEF Discover
  <2>5. GatewayTyped'
    BY <1>0, <2>2, <2>3, <2>4 DEF GatewayTyped
  <2>6. \A r \in Requests : RequestTyped(r)'
    BY <1>0, <2>3, <2>4 DEF RequestTyped, RequestSet
  <2> QED
    BY <2>4, <2>5, <2>6 DEF Typed
<1>6. CASE Pin
  <2>1. GatewayTyped'
    BY <1>0, <1>6 DEF Pin, GatewayTyped, Topologies
  <2>2. \A r \in Requests : RequestTyped(r)'
    BY <1>0, <1>6 DEF Pin, RequestTyped, RequestSet
  <2> QED
    BY <1>6, <2>1, <2>2 DEF Pin, Typed
<1>7. CASE GatewayStops
  <2>1. GatewayTyped'
    BY <1>0, <1>7 DEF GatewayStops, GatewayTyped, Entry, NoOwners, NoOwner
  <2>2. ASSUME NEW r \in Requests PROVE RequestTyped(r)'
    <3>1. wire'[r] = wire[r] /\ task'[r] = task[r] /\ role' = role
      BY <1>7 DEF GatewayStops
    <3>2. (req'[r] = req[r] /\ req[r].pc = "idle") \/ req'[r] = Answered(r, "unknown")
      BY <1>7 DEF GatewayStops
    <3>3. CASE req'[r] = req[r] /\ req[r].pc = "idle"
      BY <1>0, <3>1, <3>3 DEF RequestTyped, RequestSet
    <3>4. CASE req'[r] = Answered(r, "unknown")
      BY <1>0, <3>1, <3>4 DEF RequestTyped, RequestSet, Answered
    <3> QED
      BY <3>2, <3>3, <3>4
  <2>3. req' = [r \in Requests |-> req'[r]] /\ wire' = wire /\ task' = task
    BY <1>7 DEF GatewayStops
  <2> QED
    BY <2>1, <2>2, <2>3 DEF Typed
<1>8. ASSUME NEW r \in Requests, NEW n \in Names, NEW list \in BOOLEAN, Accept(r, n, list)
      PROVE  Typed'
  <2>1. GatewayTyped' /\ Alone(r) /\ UNCHANGED <<role, up, wire, task>>
    BY <1>0, <1>8 DEF Accept, GatewayTyped, Alone
  <2>2. RequestTyped(r)'
    <3> DEFINE p == IF Cardinality(InUse) < Permits THEN "owner" ELSE "idle"
               a == IF Cardinality(InUse) < Permits THEN "none" ELSE "unsent"
               new == [pc |-> p, list |-> list, name |-> n, probe |-> 0, target |-> None,
                       identity |-> None, answer |-> a]
    <3>1. list \in Flags
      BY FlagsAreFlags
    <3>2. /\ req'[r] = new /\ wire[r] = NoMessage /\ task[r] = None /\ up = "up"
          /\ wire' = wire /\ task' = task /\ role' = role /\ up' = up
      BY <1>0, <1>8 DEF Accept, NoRequest, Typed, gateway, workers
    <3>3. (p = "owner" /\ a = "none") \/ (p = "idle" /\ a = "unsent")
      OBVIOUS
    <3> HIDE DEF p, a
    <3>4. new \in RequestSet
      BY <3>1, <3>3 DEF RequestSet
    <3> QED
      BY <1>0, <3>2, <3>3, <3>4 DEF RequestTyped, NoMessage
  <2> QED
    BY <1>8, <2>1, <2>2, TypeAlone DEF Accept, Typed
<1>9. ASSUME NEW r \in Requests, Owner(r) PROVE Typed'
  <2>1. GatewayTyped' /\ Alone(r) /\ UNCHANGED <<role, up, wire, task>>
    BY <1>0, <1>9 DEF Owner, GatewayTyped, Alone
  <2>2. Shard(r) \in ShardIds
    BY <1>0, <1>9, <1>s DEF Owner, At, RequestTyped, RequestSet, Shard
  <2>3. RequestTyped(r)'
    <3>1. /\ Trusted(Shard(r)) => owners[Shard(r)].worker \in Workers
          /\ owners[Shard(r)].identity \in Databases \cup {None}
      BY <1>0, <2>2 DEF Trusted, GatewayTyped, Entry
    <3>2. req[r].pc = "owner"
      BY <1>9 DEF Owner, At
    <3>3. req'[r] = IF Trusted(Shard(r))
                    THEN [req[r] EXCEPT !.pc = "send", !.target = owners[Shard(r)].worker,
                                        !.identity = owners[Shard(r)].identity]
                    ELSE [req[r] EXCEPT !.pc = "probe", !.probe = 1]
      BY <1>9 DEF Owner, Typed
    <3>4. CASE Trusted(Shard(r))
      <4> PICK w \in Workers : w = owners[Shard(r)].worker
        BY <3>1, <3>4
      <4> PICK db \in Databases \cup {None} : db = owners[Shard(r)].identity
        BY <3>1
      <4>1. /\ req[r] \in RequestSet
            /\ req'[r] = [req[r] EXCEPT !.pc = "send", !.target = w, !.identity = db]
        BY <1>0, <3>3, <3>4 DEF RequestTyped
      <4>2. /\ req'[r] \in RequestSet /\ req'[r].pc = "send" /\ req'[r].target = w
            /\ req'[r].name = req[r].name /\ req'[r].answer = req[r].answer
        BY <4>1 DEF RequestSet
      <4> QED
        BY <1>0, <2>1, <3>2, <4>2 DEF RequestTyped
    <3>5. CASE ~Trusted(Shard(r))
      <4> PICK one \in Nat : one = 1
        OBVIOUS
      <4>1. req[r] \in RequestSet /\ req'[r] = [req[r] EXCEPT !.pc = "probe", !.probe = one]
        BY <1>0, <3>3, <3>5 DEF RequestTyped
      <4>2. /\ req'[r] \in RequestSet /\ req'[r].pc = "probe" /\ req'[r].probe = one
            /\ req'[r].name = req[r].name /\ req'[r].answer = req[r].answer
        BY <4>1 DEF RequestSet
      <4> QED
        BY <1>0, <2>1, <3>2, <4>2 DEF RequestTyped
    <3> QED
      BY <3>4, <3>5
  <2> QED
    BY <1>9, <2>1, <2>3, TypeAlone DEF Owner, Typed
<1>10. ASSUME NEW r \in Requests, Probe(r) PROVE Typed'
  <2>1. GatewayTyped' /\ Alone(r) /\ UNCHANGED <<role, up, wire, task>>
    <3>1. UNCHANGED <<role, database, topology, up, config, identities, owners, wire, task>>
      BY <1>10 DEF Probe
    <3>2. \A q \in Requests \ {r} : req'[q] = req[q]
      BY <1>10 DEF Probe, Answer, Typed
    <3> QED
      BY <1>0, <3>1, <3>2, TypeUnchanged DEF Alone
  <2>2. config[Shard(r)] \in Seq(Workers) /\ req[r].probe \in Nat /\ req[r].probe >= 1
    BY <1>0, <1>10, <1>s, GatewayConfigs DEF Probe, At, RequestTyped, RequestSet, GatewayTyped, Shard
  <2>3. RequestTyped(r)'
    <3>1. req[r].probe <= Len(config[Shard(r)]) => config[Shard(r)][req[r].probe] \in Workers
      BY <2>2
    <3>2. \/ req'[r] = Answered(r, "unsent")
          \/ req'[r] = [req[r] EXCEPT !.probe = @ + 1]
          \/ /\ req[r].probe <= Len(config[Shard(r)])
             /\ req'[r] = [req[r] EXCEPT !.pc = "insert",
                                         !.target = config[Shard(r)][req[r].probe],
                                         !.identity = database[config[Shard(r)][req[r].probe]]]
      BY <1>10 DEF Probe, Answer, Typed
    <3>3. req[r].pc = "probe" /\ req[r].probe + 1 \in Nat /\ req[r].probe + 1 >= 1
      <4>1. req[r].pc = "probe"
        BY <1>10 DEF Probe, At
      <4> QED
        BY <4>1, <2>2
    <3>4. CASE req'[r] = Answered(r, "unsent")
      BY <1>0, <2>1, <3>3, <3>4 DEF RequestTyped, RequestSet, Answered
    <3>5. CASE req'[r] = [req[r] EXCEPT !.probe = @ + 1]
      BY <1>0, <2>1, <3>3, <3>5 DEF RequestTyped, RequestSet
    <3>6. CASE /\ req[r].probe <= Len(config[Shard(r)])
               /\ req'[r] = [req[r] EXCEPT !.pc = "insert",
                                           !.target = config[Shard(r)][req[r].probe],
                                           !.identity = database[config[Shard(r)][req[r].probe]]]
      <4> PICK w \in Workers : w = config[Shard(r)][req[r].probe]
        BY <3>1, <3>6
      <4> PICK db \in Databases : db = database[w]
        BY <1>0 DEF GatewayTyped
      <4> QED
        BY <1>0, <2>1, <3>3, <3>6 DEF RequestTyped, RequestSet
    <3> QED
      BY <3>2, <3>4, <3>5, <3>6
  <2> QED
    BY <1>10, <2>1, <2>3, TypeAlone DEF Probe, Answer, Typed
<1>11. ASSUME NEW r \in Requests, Insert(r) PROVE Typed'
  <2>1. GatewayTyped'
    <3>1. req[r].target \in Workers /\ req[r].identity \in Databases \cup {None}
      BY <1>0, <1>11 DEF Insert, RequestTyped, RequestSet, At
    <3>2. [worker |-> req[r].target, identity |-> req[r].identity, age |-> 0] \in Entry
      BY <3>1 DEF Entry
    <3> QED
      BY <1>0, <1>11, <3>2 DEF Insert, GatewayTyped
  <2>2. Alone(r) /\ UNCHANGED <<role, up, wire, task>>
    BY <1>0, <1>11 DEF Insert, Alone
  <2>3. RequestTyped(r)'
    BY <1>0, <1>11 DEF Insert, RequestTyped, RequestSet, At, Typed
  <2> QED
    BY <1>11, <2>1, <2>2, <2>3, TypeAlone DEF Insert, Typed
<1>12. ASSUME NEW r \in Requests, Send(r) PROVE Typed'
  <2>1. GatewayTyped' /\ Alone(r) /\ UNCHANGED <<role, up, task>>
    <3>1. UNCHANGED <<role, database, topology, up, config, identities, owners, task>>
      BY <1>12 DEF Send
    <3>2. \A q \in Requests \ {r} : req'[q] = req[q] /\ wire'[q] = wire[q]
      BY <1>12 DEF Send, Answer, Typed
    <3> QED
      BY <1>0, <3>1, <3>2, TypeUnchanged DEF Alone
  <2>2. RequestTyped(r)'
    <3>1. req[r].pc = "send" /\ req[r].target \in Workers
      BY <1>0, <1>12 DEF Send, At, RequestTyped
    <3>2. \/ /\ req'[r] = [req[r] EXCEPT !.pc = "wait"]
             /\ wire'[r] = [to |-> req[r].target, stage |-> "sent"]
          \/ req'[r] = Answered(r, "unsent") /\ wire'[r] = wire[r]
      BY <1>12 DEF Send, Answer, Typed
    <3>3. CASE /\ req'[r] = [req[r] EXCEPT !.pc = "wait"]
               /\ wire'[r] = [to |-> req[r].target, stage |-> "sent"]
      BY <1>0, <2>1, <3>1, <3>3 DEF RequestTyped, RequestSet, Stages
    <3>4. CASE req'[r] = Answered(r, "unsent") /\ wire'[r] = wire[r]
      BY <1>0, <2>1, <3>1, <3>4 DEF RequestTyped, RequestSet, Answered
    <3> QED
      BY <3>2, <3>3, <3>4
  <2>3. req' = [q \in Requests |-> req'[q]] /\ wire' = [q \in Requests |-> wire'[q]]
    BY <1>12 DEF Send, Answer, Typed
  <2> QED
    BY <2>1, <2>2, <2>3, TypeAlone DEF Typed
<1>13. ASSUME NEW r \in Requests, Respond(r) PROVE Typed'
  <2>1. GatewayTyped'
    BY <1>0, <1>13 DEF Respond, GatewayTyped, Entry, Forget, NoOwner
  <2>2. Alone(r) /\ UNCHANGED <<role, up, task>>
    BY <1>0, <1>13 DEF Respond, Alone, Answer
  <2>3. RequestTyped(r)'
    <3>1. /\ wire'[r] = NoMessage
          /\ \E what \in {"ok", "refused", "failed"} : req'[r] = Answered(r, what)
      BY <1>13 DEF Respond, Typed, Answer
    <3> QED
      BY <1>0, <2>2, <3>1 DEF RequestTyped, RequestSet, Answered, NoMessage, Stages
  <2> QED
    BY <1>13, <2>1, <2>2, <2>3, TypeAlone DEF Respond, Answer, Typed
<1>14. ASSUME NEW r \in Requests, TransportError(r) PROVE Typed'
  <2>1. GatewayTyped'
    BY <1>0, <1>14 DEF TransportError, GatewayTyped, Entry, Forget, NoOwner
  <2>2. Alone(r) /\ UNCHANGED <<role, up, wire, task>>
    BY <1>0, <1>14 DEF TransportError, Alone, ReportError, Answer
  <2>3. RequestTyped(r)'
    BY <1>0, <1>14, <2>2 DEF TransportError, RequestTyped, RequestSet, Typed, ReportError, Answer, Answered
  <2> QED
    BY <1>14, <2>1, <2>2, <2>3, TypeAlone DEF TransportError, ReportError, Answer, Typed
<1>15. ASSUME NEW r \in Requests, Disconnect(r) PROVE Typed'
  <2>1. GatewayTyped' /\ Alone(r) /\ UNCHANGED <<role, up, wire, task>>
    BY <1>0, <1>15 DEF Disconnect, GatewayTyped, Alone, Answer
  <2>2. RequestTyped(r)'
    BY <1>0, <1>15 DEF Disconnect, RequestTyped, RequestSet, Typed, Answer, Answered
  <2> QED
    BY <1>15, <2>1, <2>2, TypeAlone DEF Disconnect, Answer, Typed
<1>16. ASSUME NEW r \in Requests, Serve(r) \/ Fail(r) PROVE Typed'
  <2>1. GatewayTyped' /\ Alone(r) /\ UNCHANGED <<role, up, req>>
    <3>1. /\ UNCHANGED <<role, database, topology, up, config, identities, owners, req>>
          /\ \A q \in Requests \ {r} : wire'[q] = wire[q] /\ task'[q] = task[q]
      BY <1>16 DEF Serve, Fail, Deliver, Commit, Page, Settle, Stage, Typed
    <3> QED
      BY <1>0, <3>1, TypeUnchanged DEF Alone
  <2>2. \/ wire'[r] = wire[r]
        \/ wire[r].stage # "none" /\ wire'[r] \in {[wire[r] EXCEPT !.stage = stage] :
                            stage \in {"running", "done", "refused", "failed", "broken"}}
        \/ req[r].pc # "wait" /\ wire'[r] = NoMessage
    <3>1. CASE Deliver(r)
      BY <3>1 DEF Deliver, Stage, Typed
    <3>2. CASE Commit(r) \/ Page(r) \/ Fail(r)
      BY <3>2 DEF Commit, Page, Fail, Stage, Typed
    <3>3. CASE Settle(r)
      BY <3>3 DEF Settle, At, Typed
    <3> QED
      BY <1>16, <3>1, <3>2, <3>3 DEF Serve
  <2>3. task'[r] \in {task[r], None} \/ (role[wire[r].to] = "serving" /\ wire[r].stage = "sent"
                                           /\ task'[r] = wire[r].to)
    <3>1. CASE Deliver(r)
      BY <3>1 DEF Deliver, Typed
    <3>2. CASE Commit(r) \/ Page(r) \/ Fail(r) \/ Settle(r)
      BY <3>2 DEF Commit, Page, Fail, Settle, Typed
    <3> QED
      BY <1>16, <3>1, <3>2 DEF Serve
  <2>4. task'[r] \in Workers \cup {None} /\ (task'[r] # None => role'[task'[r]] = "serving")
    BY <1>0, <2>1, <2>3 DEF RequestTyped
  <2>5. /\ wire'[r] \in [to : Workers \cup {None}, stage : Stages]
        /\ wire'[r].stage # "none" => wire'[r].to \in Workers
        /\ req[r].pc = "wait" => wire'[r].stage # "none" /\ wire'[r].to = wire[r].to
    BY <1>0, <2>2 DEF RequestTyped, NoMessage, Stages
  <2>6. RequestTyped(r)'
    BY <1>0, <2>1, <2>4, <2>5 DEF RequestTyped, RequestSet
  <2>7. wire' = [q \in Requests |-> wire'[q]] /\ task' = [q \in Requests |-> task'[q]]
    BY <1>16 DEF Serve, Fail, Deliver, Commit, Page, Settle, Stage, Typed
  <2> QED
    BY <2>1, <2>6, <2>7, TypeAlone DEF Typed
<1>17. CASE Tick
  <2>1. GatewayTyped'
    <3>1. ASSUME NEW s \in ShardIds
          PROVE  owners'[s] \in Entry
      <4>1. owners[s] \in Entry
        BY <1>0 DEF GatewayTyped
      <4>2. \/ owners'[s] = owners[s]
            \/ owners[s].age # Fresh /\ owners'[s] = [owners[s] EXCEPT !.age = @ + 1]
        BY <1>17 DEF Tick
      <4> QED
        BY <4>1, <4>2 DEF Entry
    <3>2. owners' = [s \in ShardIds |-> owners'[s]]
      BY <1>17 DEF Tick
    <3> QED
      BY <1>0, <1>17, <3>1, <3>2 DEF Tick, GatewayTyped
  <2> QED
    BY <1>17, <2>1 DEF Tick, Typed, RequestTyped, RequestSet
<1> QED
  BY <1>1, <1>2, <1>3, <1>4, <1>5, <1>d, <1>6, <1>7, <1>8, <1>9, <1>10, <1>11, <1>12, <1>13,
     <1>14, <1>15, <1>16, <1>17 DEF Next, Forward

(* Requests wait for exactly the worker they were sent to, and everything  *)
(* is well formed (gateway_forward, cluster.rs:424-511).                   *)
THEOREM GatewayType == Spec => []TypeOK
<1>1. Spec => []Typed
  BY TypeInit, TypeNext, PTL DEF Spec
<1>2. Typed => TypeOK
  BY DEF Typed, GatewayTyped, Entry, RequestTyped, RequestSet, TypeOK
<1> QED
  BY <1>1, <1>2, PTL

-----------------------------------------------------------------------------
\* A write is committed once.

(* Until it is sent a request has no message, no task and no commit; a     *)
(* task has not committed yet, nor has a message that is not served; one   *)
(* that succeeded has, if it is a write; and whoever knows an outcome has  *)
(* nothing under way that could still change it.                           *)
OnceOK(r) ==
    /\ commits[r] = <<>> \/ \E db \in Databases : commits[r] = <<db>>
    /\ req[r].pc \in {"owner", "probe", "insert", "send"} \/ req[r].answer \in {"unsent", "refused"}
          => wire[r] = NoMessage /\ task[r] = None /\ commits[r] = <<>>
    /\ wire[r].stage \in {"sent", "refused"} => task[r] = None /\ commits[r] = <<>>
    /\ task[r] # None => commits[r] = <<>>
    /\ wire[r].stage = "done" /\ ~req[r].list => commits[r] # <<>>
    /\ req[r].answer = "ok" /\ ~req[r].list => wire[r] = NoMessage /\ commits[r] # <<>>

Once == /\ commits = [r \in Requests |-> commits[r]]
        /\ \A r \in Requests : OnceOK(r)

LEMMA OnceInit == Init => Once
  BY DEF Init, Once, OnceOK, NoRequest, NoMessage

LEMMA OnceAlone ==
    ASSUME Once, NEW r \in Requests, Alone(r), OnceOK(r)', commits' = [q \in Requests |-> commits'[q]],
           \A q \in Requests \ {r} : commits'[q] = commits[q]
    PROVE  Once'
<1>1. ASSUME NEW q \in Requests \ {r} PROVE OnceOK(q)'
  <2>1. /\ OnceOK(q) /\ req'[q] = req[q] /\ wire'[q] = wire[q] /\ task'[q] = task[q]
        /\ commits'[q] = commits[q]
    BY DEF Once, Alone
  <2> QED
    BY <2>1 DEF OnceOK, NoMessage
<1> QED
  BY <1>1 DEF Once

\* What a task commits to: the database of its worker.
LEMMA CommitsTo ==
    ASSUME Typed, Once, NEW done \in SUBSET Requests, Committed(done), \A q \in done : task[q] # None,
           NEW r \in Requests
    PROVE  /\ r \notin done => commits'[r] = commits[r]
           /\ r \in done => \E db \in Databases : commits'[r] = <<db>>
           /\ commits' = [q \in Requests |-> commits'[q]]
<1>1. commits' = [q \in Requests |-> IF q \notin done THEN commits[q]
                                     ELSE Append(commits[q], database[task[q]])]
  BY DEF Committed
<1>2. r \in done => commits[r] = <<>> /\ database[task[r]] \in Databases
  BY DEF Once, OnceOK, Typed, RequestTyped, GatewayTyped
<1>3. \A db \in Databases : Append(<<>>, db) = <<db>>
  OBVIOUS
<1> QED
  BY <1>1, <1>2, <1>3

LEMMA OnceNext == Typed /\ Once /\ [Next]_vars => Once'
<1> SUFFICES ASSUME Typed, Once, [Next]_vars PROVE Once'
  OBVIOUS
<1> USE DEF gateway, workers
<1>0. \A r \in Requests : OnceOK(r) /\ RequestTyped(r)
  BY DEF Once, Typed
<1>1. CASE UNCHANGED <<req, wire, task, commits>>
  BY <1>1 DEF Once, OnceOK, NoMessage
<1>2. ASSUME NEW w \in Workers, NEW to \in {"standby", "down"}, NEW done \in SUBSET Requests,
             StepDown(w, to, done)
      PROVE  Once'
  <2>0. Committed(done) /\ \A q \in done : task[q] = w /\ task[q] # None
    BY <1>2 DEF StepDown
  <2>1. ASSUME NEW r \in Requests PROVE OnceOK(r)'
    <3>1. req'[r] = req[r] /\ task'[r] \in {task[r], None} /\ (r \in done => task'[r] = None)
      BY <1>2, <2>0 DEF StepDown
    <3>2. \/ wire'[r] = wire[r]
          \/ wire[r].stage = "running" /\ wire'[r].stage \in {"broken", "failed"}
      BY <1>2 DEF StepDown
    <3>3. CASE r \notin done
      <4>1. commits'[r] = commits[r]
        BY <2>0, <3>3, CommitsTo
      <4> QED
        BY <1>0, <3>1, <3>2, <4>1 DEF OnceOK, NoMessage
    <3>4. CASE r \in done
      <4>1. \E db \in Databases : commits'[r] = <<db>>
        BY <2>0, <3>4, CommitsTo
      <4>2. task[r] # None
        BY <2>0, <3>4
      <4>3. commits'[r] # <<>>
        BY <4>1
      <4> QED
        BY <1>0, <3>1, <3>2, <3>4, <4>1, <4>2, <4>3 DEF OnceOK, NoMessage
    <3> QED
      BY <3>3, <3>4
  <2>2. commits' = [r \in Requests |-> commits'[r]]
    BY <2>0 DEF Committed
  <2> QED
    BY <2>1, <2>2 DEF Once
<1>3. CASE GatewayStops
  <2>1. ASSUME NEW r \in Requests PROVE OnceOK(r)'
    <3>1. wire'[r] = wire[r] /\ task'[r] = task[r] /\ commits'[r] = commits[r]
      BY <1>3 DEF GatewayStops
    <3>2. \/ req'[r] = req[r]
          \/ req'[r].pc = "idle" /\ req'[r].list = req[r].list /\ req'[r].answer = "unknown"
      BY <1>3 DEF GatewayStops, Answered
    <3> QED
      BY <1>0, <3>1, <3>2 DEF OnceOK, NoMessage
  <2> QED
    BY <1>3, <2>1 DEF GatewayStops, Once
<1>4. ASSUME NEW r \in Requests, NEW n \in Names, NEW list \in BOOLEAN, Accept(r, n, list)
      PROVE  Once'
  <2>1. /\ Alone(r) /\ wire'[r] = NoMessage /\ task'[r] = None /\ commits'[r] = <<>>
        /\ \A q \in Requests \ {r} : commits'[q] = commits[q]
        /\ commits' = [q \in Requests |-> commits'[q]]
    BY <1>4 DEF Accept, Alone, Once, Typed
  <2>2. req'[r].answer \in {"none", "unsent"}
    BY <1>4 DEF Accept, Typed, NoRequest
  <2>3. OnceOK(r)'
    BY <2>1, <2>2 DEF OnceOK, NoMessage
  <2> QED
    BY <2>1, <2>3, OnceAlone
<1>5. ASSUME NEW r \in Requests, Commit(r) PROVE Once'
  <2>1. /\ task[r] # None /\ task'[r] = None /\ UNCHANGED req /\ Alone(r)
        /\ Committed({r}) /\ \A q \in {r} : task[q] # None
    BY <1>5 DEF Commit, Stage, Alone, Typed
  <2>2. (wire'[r] = wire[r] /\ wire[r].stage # "running") \/ wire'[r].stage \in {"done", "failed"}
    BY <1>5 DEF Commit, Stage, Typed, RequestTyped
  <2>3. /\ \E db \in Databases : commits'[r] = <<db>>
        /\ \A q \in Requests \ {r} : commits'[q] = commits[q]
        /\ commits' = [q \in Requests |-> commits'[q]]
    BY <2>1, CommitsTo
  <2>4. commits'[r] # <<>>
    BY <2>3
  <2>5. OnceOK(r)'
    BY <1>0, <2>1, <2>2, <2>3, <2>4 DEF OnceOK
  <2> QED
    BY <2>1, <2>3, <2>5, OnceAlone
<1>6. ASSUME NEW r \in Requests,
             Forward(r) \/ Deliver(r) \/ Page(r) \/ Settle(r) \/ Fail(r) \/ Disconnect(r)
      PROVE  Once'
  <2>1. UNCHANGED commits
    BY <1>6 DEF Forward, Owner, Probe, Insert, Send, Respond, TransportError, Deliver, Page, Settle,
                Fail, Disconnect
  <2>2. Alone(r)
    BY <1>6 DEF Forward, Owner, Probe, Insert, Send, Respond, TransportError, Deliver, Page, Settle,
                Fail, Disconnect, Answer, ReportError, Stage, Alone, Typed
  <2>3. OnceOK(r)'
    <3> USE <1>0, <2>1
    <3>1. CASE Owner(r)
      <4>1. /\ wire'[r] = wire[r] /\ task'[r] = task[r]
            /\ req[r].pc = "owner" /\ req'[r].pc \in {"send", "probe"}
            /\ req'[r].list = req[r].list /\ req'[r].answer = req[r].answer
        BY <3>1 DEF Owner, At, Typed, RequestTyped, RequestSet
      <4> QED
        BY <4>1 DEF OnceOK, NoMessage
    <3>2. CASE Probe(r)
      <4>1. /\ wire'[r] = wire[r] /\ task'[r] = task[r] /\ req[r].pc = "probe"
            /\ req'[r].list = req[r].list /\ req'[r].answer \in {req[r].answer, "unsent"}
        BY <3>2 DEF Probe, At, Typed, RequestTyped, RequestSet, Answer, Answered
      <4> QED
        BY <4>1 DEF OnceOK, NoMessage
    <3>3. CASE Insert(r)
      <4>1. /\ wire'[r] = wire[r] /\ task'[r] = task[r]
            /\ req[r].pc = "insert" /\ req'[r].pc = "send"
            /\ req'[r].list = req[r].list /\ req'[r].answer = req[r].answer
        BY <3>3 DEF Insert, At, Typed, RequestTyped, RequestSet
      <4> QED
        BY <4>1 DEF OnceOK, NoMessage
    <3>4. CASE Send(r)
      <4>0. req[r].pc = "send" /\ task'[r] = task[r]
        BY <3>4 DEF Send, At
      <4>1. \/ /\ wire'[r].stage = "sent" /\ req'[r].pc = "wait"
               /\ req'[r].list = req[r].list /\ req'[r].answer = "none"
            \/ wire'[r] = wire[r] /\ req'[r].pc = "idle" /\ req'[r].answer = "unsent"
        BY <3>4, <4>0 DEF Send, Typed, RequestTyped, RequestSet, Answer, Answered
      <4> QED
        BY <4>0, <4>1 DEF OnceOK, NoMessage
    <3>5. CASE Respond(r)
      <4>1. /\ wire'[r] = NoMessage /\ task'[r] = task[r]
            /\ req'[r].pc = "idle" /\ req'[r].list = req[r].list
            /\ \/ wire[r].stage = "done" /\ req'[r].answer = "ok"
               \/ wire[r].stage = "refused" /\ req'[r].answer = "refused"
               \/ wire[r].stage = "failed" /\ req'[r].answer = "failed"
        BY <3>5 DEF Respond, Typed, RequestTyped, RequestSet, Answer, Answered
      <4> QED
        BY <4>1 DEF OnceOK, NoMessage
    <3>6. CASE TransportError(r) \/ Disconnect(r)
      <4>1. /\ wire'[r] = wire[r] /\ task'[r] = task[r]
            /\ req'[r].pc = "idle" /\ req'[r].list = req[r].list /\ req'[r].answer = "unknown"
        BY <3>6 DEF TransportError, Disconnect, Typed, RequestTyped, RequestSet, ReportError,
                    Answer, Answered
      <4> QED
        BY <4>1 DEF OnceOK, NoMessage
    <3>7. CASE Deliver(r)
      <4>1. req'[r] = req[r] /\ wire[r].stage = "sent" /\ wire[r] # NoMessage
        BY <3>7 DEF Deliver, NoMessage
      <4>2. \/ wire'[r].stage = "running"
            \/ wire'[r].stage \in {"refused", "broken"} /\ task'[r] = task[r]
        BY <3>7 DEF Deliver, Stage, Typed, RequestTyped
      <4> QED
        BY <4>1, <4>2 DEF OnceOK
    <3>8. CASE Page(r) \/ Fail(r)
      <4>1. /\ req'[r] = req[r] /\ wire[r].stage = "running" /\ wire[r] # NoMessage
            /\ task'[r] \in {task[r], None}
        BY <3>8 DEF Page, Fail, NoMessage, Typed
      <4>2. wire'[r].stage = "failed" \/ (wire'[r].stage = "done" /\ req[r].list)
        BY <3>8 DEF Page, Fail, Stage, Typed, RequestTyped
      <4> QED
        BY <4>1, <4>2 DEF OnceOK
    <3>9. CASE Settle(r)
      <4>1. req'[r] = req[r] /\ wire'[r] = NoMessage /\ task'[r] \in {task[r], None}
        BY <3>9 DEF Settle, Typed
      <4> QED
        BY <4>1 DEF OnceOK, NoMessage
    <3> QED
      BY <1>6, <3>1, <3>2, <3>3, <3>4, <3>5, <3>6, <3>7, <3>8, <3>9 DEF Forward
  <2> QED
    BY <2>1, <2>2, <2>3, OnceAlone DEF Once
<1> QED
  BY <1>1, <1>2, <1>3, <1>4, <1>5, <1>6
  DEF Next, vars, Serve, TakeOver, Restart, StartDiscover, Discover, Pin, Tick

(* Whatever is lost between gateway and worker, whoever stops or changes   *)
(* its role, and however a write outlives its request: it is committed at  *)
(* most once, success means that it was, and what was not sent or not      *)
(* served never will be (gateway_forward, cluster.rs:486-514, and write,   *)
(* engine.rs:302-390).                                                     *)
THEOREM WritesAreSubmittedOnce == Spec => []SubmittedOnce
<1>1. ASSUME Once, NEW r \in Requests
      PROVE  /\ Len(commits[r]) <= 1
             /\ req[r].answer = "ok" /\ ~req[r].list => Len(commits[r]) = 1
             /\ req[r].answer \in {"unsent", "refused"} => commits[r] = <<>>
  <2>1. OnceOK(r)
    BY <1>1 DEF Once
  <2>2. Len(<<>>) = 0 /\ \A db \in Databases : Len(<<db>>) = 1
    OBVIOUS
  <2>3. CASE commits[r] = <<>>
    BY <2>1, <2>2, <2>3 DEF OnceOK
  <2>4. CASE commits[r] # <<>>
    <3>1. PICK db \in Databases : commits[r] = <<db>>
      BY <2>1, <2>4 DEF OnceOK
    <3>2. Len(commits[r]) = 1
      BY <2>2, <3>1
    <3> QED
      BY <2>1, <2>4, <3>2 DEF OnceOK
  <2> QED
    BY <2>3, <2>4
<1>2. Once => SubmittedOnce
  BY <1>1 DEF SubmittedOnce
<1> QED
  BY <1>2, TypeInit, TypeNext, OnceInit, OnceNext, PTL DEF Spec

-----------------------------------------------------------------------------
\* A namespace stays in one database.

\* The database the pinned topology gives a namespace.
PinnedDb(n) == topology[Place(DOMAIN topology, n)]

(* A gateway that is up expects the pinned identities; an owner it caches, *)
(* the worker it has chosen for a request, and the worker of a message, of *)
(* a write that is under way and of a commit had answered with them.       *)
Chosen(r) == req[r].pc \in {"insert", "send"} \/ wire[r].stage # "none" \/ task[r] # None
Placed ==
    /\ up = "up" => topology = identities /\ topology # None
    /\ \A s \in ShardIds : owners[s].worker # None => up = "up" /\ owners[s].identity = identities[s]
    /\ \A r \in Requests : Chosen(r) => topology # None /\ req[r].identity = PinnedDb(req[r].name)
    /\ home = [n \in Names |-> home[n]]
    /\ \A n \in Names : \A c \in home[n] : topology # None /\ c.identity = PinnedDb(n)

\* While the gateway is up it looks for the right database.
LEMMA ExpectsPinned ==
    ASSUME Typed, Placed, up = "up", NEW n \in Names
    PROVE  identities[shard_for(n)] = PinnedDb(n) /\ shard_for(n) \in ShardIds
<1>1. shard_for(n) = Place(DOMAIN config, n) /\ shard_for(n) \in ShardIds
  BY ShardIsKnown DEF Typed
<1>2. DOMAIN topology = DOMAIN config /\ topology = identities
  BY DEF Typed, GatewayTyped, Placed
<1> QED
  BY <1>1, <1>2 DEF PinnedDb

LEMMA PlacedInit == Init => Placed
  BY DEF Init, Placed, Chosen, NoRequest, NoMessage, NoOwners, NoOwner

\* A commit of requests whose workers answered with the pinned database.
LEMMA CommitsArePlaced ==
    ASSUME Placed, UNCHANGED topology, NEW done \in SUBSET Requests, Committed(done),
           \A r \in done : task[r] # None
    PROVE  /\ home' = [n \in Names |-> home'[n]]
           /\ \A n \in Names : \A c \in home'[n] : topology # None /\ c.identity = PinnedDb(n)
<1>1. home' = [n \in Names |-> home[n] \cup
                 {[identity |-> req[r].identity, db |-> database[task[r]]] :
                     r \in {q \in done : req[q].name = n}}]
  BY DEF Committed
<1>2. ASSUME NEW n \in Names, NEW c \in home'[n] PROVE topology # None /\ c.identity = PinnedDb(n)
  <2>1. CASE c \in home[n]
    BY <2>1 DEF Placed
  <2>2. ASSUME NEW r \in done, req[r].name = n,
               c = [identity |-> req[r].identity, db |-> database[task[r]]]
        PROVE  topology # None /\ c.identity = PinnedDb(n)
    BY <2>2 DEF Placed, Chosen
  <2> QED
    BY <1>1, <2>1, <2>2
<1> QED
  BY <1>1, <1>2

LEMMA PlacedNext == Typed /\ Placed /\ [Next]_vars => Placed'
<1> SUFFICES ASSUME Typed, Placed, [Next]_vars PROVE Placed'
  OBVIOUS
<1> USE DEF gateway, workers
<1>0. GatewayTyped /\ \A r \in Requests : RequestTyped(r)
  BY DEF Typed
<1>p. UNCHANGED topology => \A n : PinnedDb(n)' = PinnedDb(n)
  BY DEF PinnedDb
<1>1. CASE UNCHANGED <<topology, up, identities, owners, req, wire, task, home>>
  BY <1>1, <1>p DEF Placed, Chosen
<1>2. ASSUME NEW w \in Workers, NEW to \in {"standby", "down"}, NEW done \in SUBSET Requests,
             StepDown(w, to, done)
      PROVE  Placed'
  <2>1. UNCHANGED <<topology, up, identities, owners, req>>
    BY <1>2 DEF StepDown
  <2>2. \A r \in Requests : /\ wire'[r].stage # "none" => wire[r].stage # "none"
                            /\ task'[r] # None => task[r] # None
    BY <1>2 DEF StepDown
  <2>3. Committed(done) /\ \A r \in done : task[r] # None
    BY <1>2 DEF StepDown
  <2>4. /\ home' = [n \in Names |-> home'[n]]
        /\ \A n \in Names : \A c \in home'[n] : topology # None /\ c.identity = PinnedDb(n)
    BY <2>1, <2>3, CommitsArePlaced
  <2>5. \A r \in Requests : Chosen(r)' => Chosen(r)
    BY <2>1, <2>2 DEF Chosen
  <2> QED
    BY <2>1, <2>4, <2>5, <1>p DEF Placed
<1>4. CASE /\ up # "up" /\ up' # "up"
           /\ UNCHANGED <<topology, owners, req, wire, task, home>>
  BY <1>4, <1>p DEF Placed, Chosen
<1>5. CASE Pin
  <2>1. DOMAIN identities = DOMAIN config /\ identities # None
    <3>1. DOMAIN identities = DOMAIN config
      BY <1>5 DEF Pin
    <3>2. identities \in Topologies
      BY <1>0, <3>1 DEF GatewayTyped, Topologies
    <3> QED
      BY <3>1, <3>2
  <2>2. \A r \in Requests : req[r].pc = "idle"
    BY <1>0, <1>5 DEF Pin, RequestTyped
  <2>3. \A s \in ShardIds : owners[s].worker = None
    BY <1>5 DEF Pin, Placed
  <2>4. UNCHANGED <<identities, owners, req, wire, task, home>>
    BY <1>5 DEF Pin
  <2>5. CASE topology = None /\ topology' = identities /\ up' = "up"
    BY <2>1, <2>2, <2>3, <2>4, <2>5 DEF Placed, Chosen
  <2>6. CASE /\ topology # None /\ UNCHANGED topology
             /\ up' = "up" => topology = identities
    BY <2>2, <2>3, <2>4, <2>6, <1>p DEF Placed, Chosen
  <2> QED
    BY <1>5, <2>5, <2>6 DEF Pin, AcceptsTopology
<1>6. CASE GatewayStops
  <2>1. UNCHANGED <<topology, identities, wire, task, home>> /\ up' = "down" /\ owners' = NoOwners
    BY <1>6 DEF GatewayStops
  <2>2. \A r \in Requests : /\ req'[r].pc = "idle" /\ req'[r].name = req[r].name
                            /\ req'[r].identity = req[r].identity
    BY <1>6 DEF GatewayStops, Answered
  <2> QED
    BY <2>1, <2>2, <1>p DEF Placed, Chosen, NoOwners, NoOwner
<1>7. ASSUME NEW r \in Requests, NEW n \in Names, NEW list \in BOOLEAN, Accept(r, n, list)
      PROVE  Placed'
  <2>1. UNCHANGED <<topology, up, identities, owners, wire, task, home>>
    BY <1>7 DEF Accept
  <2>2. wire[r] = NoMessage /\ task[r] = None
    BY <1>7 DEF Accept
  <2>3. req'[r].pc \in {"idle", "owner"} /\ \A q \in Requests \ {r} : req'[q] = req[q]
    BY <1>7 DEF Accept, NoRequest, Typed
  <2>4. ASSUME NEW q \in Requests PROVE Chosen(q)' => Chosen(q) /\ req'[q] = req[q]
    BY <2>1, <2>2, <2>3 DEF Chosen, NoMessage
  <2> QED
    BY <2>1, <2>4, <1>p DEF Placed
<1>8. ASSUME NEW r \in Requests, Forward(r) \/ Fail(r) \/ Disconnect(r) \/ Serve(r) PROVE Placed'
  <2>1. UNCHANGED <<topology, up, identities>> /\ Alone(r)
    BY <1>8 DEF Forward, Owner, Probe, Insert, Send, Respond, TransportError, Disconnect, Serve,
                Fail, Deliver, Commit, Page, Settle, Answer, ReportError, Stage, Alone, Typed
  <2>a. req[r] \in RequestSet /\ RequestTyped(r)
    BY <1>0 DEF RequestTyped
  <2>b. req[r].pc # "idle" => up = "up" /\ identities[Shard(r)] = PinnedDb(req[r].name)
                              /\ Shard(r) \in ShardIds /\ topology # None
    <3>1. req[r].pc # "idle" => up = "up" /\ req[r].name \in Names
      BY <2>a DEF RequestTyped
    <3>2. up = "up" => topology # None
      BY DEF Placed
    <3> QED
      BY <3>1, <3>2, ExpectsPinned DEF Shard
  <2>2. req'[r].name = req[r].name
    <3>1. CASE Owner(r)
      BY <3>1, <2>a DEF Owner, Typed, RequestSet
    <3>2. CASE Probe(r)
      BY <3>2, <2>a DEF Probe, Answer, Answered, Typed, RequestSet
    <3>3. CASE Insert(r)
      BY <3>3, <2>a DEF Insert, Typed, RequestSet
    <3>4. CASE Send(r)
      BY <3>4, <2>a DEF Send, Answer, Answered, Typed, RequestSet
    <3>5. CASE Respond(r) \/ TransportError(r) \/ Disconnect(r)
      BY <3>5 DEF Respond, TransportError, Disconnect, ReportError, Answer, Answered, Typed
    <3>6. CASE Serve(r) \/ Fail(r)
      BY <3>6 DEF Serve, Fail, Deliver, Commit, Page, Settle
    <3> QED
      BY <1>8, <3>1, <3>2, <3>3, <3>4, <3>5, <3>6 DEF Forward
  <2>3. \A s \in ShardIds : owners'[s].worker # None =>
          up' = "up" /\ owners'[s].identity = identities[s]
    <3>1. CASE Insert(r)
      <4>1. /\ req[r].pc = "insert" /\ up' = "up"
            /\ owners' = [owners EXCEPT ![Shard(r)] = [worker |-> req[r].target,
                                          identity |-> req[r].identity, age |-> 0]]
        BY <3>1, <2>1, <2>b DEF Insert, At
      <4>2. req[r].identity = identities[Shard(r)]
        BY <4>1, <2>b DEF Placed, Chosen
      <4>3. ASSUME NEW s \in ShardIds
            PROVE  IF s = Shard(r) THEN owners'[s].identity = req[r].identity
                                   ELSE owners'[s] = owners[s]
        BY <1>0, <4>1 DEF GatewayTyped
      <4> QED
        BY <2>1, <4>1, <4>2, <4>3 DEF Placed
    <3>2. CASE ~Insert(r)
      <4>1. owners' = owners \/ owners' = [owners EXCEPT ![Shard(r)] = NoOwner]
        BY <1>8, <3>2 DEF Forward, Owner, Probe, Send, Respond, TransportError, Disconnect, Serve,
                          Fail, Deliver, Commit, Page, Settle, Forget
      <4>2. \A s \in ShardIds : owners'[s] = owners[s] \/ owners'[s].worker = None
        BY <1>0, <4>1 DEF GatewayTyped, NoOwner
      <4> QED
        BY <2>1, <4>2 DEF Placed
    <3> QED
      BY <3>1, <3>2
  <2>4. Chosen(r)' => topology # None /\ req'[r].identity = PinnedDb(req[r].name)
    <3>1. CASE Owner(r)
      <4>1. req[r].pc = "owner"
        BY <3>1 DEF Owner, At
      <4>2. UNCHANGED <<wire, task>>
        BY <3>1 DEF Owner
      <4>3. CASE Trusted(Shard(r))
        <5>1. req'[r].identity = owners[Shard(r)].identity
          BY <3>1, <4>3, <2>a DEF Owner, Typed, RequestSet
        <5>2. owners[Shard(r)].identity = identities[Shard(r)]
          BY <4>1, <4>3, <2>b DEF Trusted, Placed
        <5> QED
          BY <4>1, <5>1, <5>2, <2>b
      <4>4. CASE ~Trusted(Shard(r))
        <5>1. req'[r].pc = "probe" /\ req'[r].identity = req[r].identity
          BY <3>1, <4>4, <2>a DEF Owner, Typed, RequestSet
        <5> QED
          BY <4>2, <5>1 DEF Placed, Chosen
      <4> QED
        BY <4>3, <4>4
    <3>2. CASE Probe(r)
      <4>1. req[r].pc = "probe" /\ UNCHANGED <<wire, task>>
        BY <3>2 DEF Probe, At
      <4>2. \/ req'[r].pc \in {"idle", "probe"} /\ req'[r].identity = req[r].identity
            \/ req'[r].identity = identities[Shard(r)]
        <5>1. \/ req'[r] = Answered(r, "unsent")
              \/ req'[r] = [req[r] EXCEPT !.probe = @ + 1]
              \/ /\ Known(Shard(r), config[Shard(r)][req[r].probe])
                 /\ req'[r] = [req[r] EXCEPT !.pc = "insert",
                                             !.target = config[Shard(r)][req[r].probe],
                                             !.identity = database[config[Shard(r)][req[r].probe]]]
          BY <3>2 DEF Probe, Answer, Typed
        <5>2. CASE req'[r] = Answered(r, "unsent")
          BY <5>2 DEF Answered
        <5>3. CASE req'[r] = [req[r] EXCEPT !.probe = @ + 1]
          BY <5>3, <4>1, <2>a DEF RequestSet
        <5> QED
          BY <5>1, <5>2, <5>3, <2>a DEF Known, RequestSet
      <4>3. CASE req'[r].pc \in {"idle", "probe"} /\ req'[r].identity = req[r].identity
        BY <4>1, <4>3 DEF Placed, Chosen
      <4>4. CASE req'[r].identity = identities[Shard(r)]
        BY <4>1, <4>4, <2>b
      <4> QED
        BY <4>2, <4>3, <4>4
    <3>3. CASE Insert(r)
      <4>1. req[r].pc = "insert" /\ req'[r].identity = req[r].identity
        BY <3>3, <2>a DEF Insert, At, Typed, RequestSet
      <4> QED
        BY <4>1 DEF Placed, Chosen
    <3>4. CASE Send(r)
      <4>1. req[r].pc = "send" /\ req'[r].identity = req[r].identity
        BY <3>4, <2>a DEF Send, At, Answer, Answered, Typed, RequestSet
      <4> QED
        BY <4>1 DEF Placed, Chosen
    <3>5. CASE Respond(r) \/ TransportError(r) \/ Disconnect(r)
      <4>1. /\ req'[r].pc = "idle" /\ req'[r].identity = req[r].identity /\ task'[r] = task[r]
            /\ wire'[r] = wire[r] \/ wire'[r] = NoMessage
        BY <3>5 DEF Respond, TransportError, Disconnect, ReportError, Answer, Answered, Typed
      <4> QED
        BY <4>1 DEF Placed, Chosen, NoMessage
    <3>6. CASE Serve(r) \/ Fail(r)
      <4>1. req'[r] = req[r] /\ Chosen(r)
        BY <3>6 DEF Serve, Fail, Deliver, Commit, Page, Settle, Chosen
      <4> QED
        BY <4>1 DEF Placed
    <3> QED
      BY <1>8, <3>1, <3>2, <3>3, <3>4, <3>5, <3>6 DEF Forward
  <2>5. /\ home' = [n \in Names |-> home'[n]]
        /\ \A n \in Names : \A c \in home'[n] : topology # None /\ c.identity = PinnedDb(n)
    <3>1. CASE Commit(r)
      <4>1. Committed({r}) /\ \A q \in {r} : task[q] # None
        BY <3>1 DEF Commit
      <4> QED
        BY <2>1, <4>1, CommitsArePlaced
    <3>2. CASE ~Commit(r)
      <4>1. home' = home
        BY <1>8, <3>2 DEF Forward, Owner, Probe, Insert, Send, Respond, TransportError, Disconnect,
                          Serve, Fail, Deliver, Page, Settle
      <4> QED
        BY <4>1 DEF Placed
    <3> QED
      BY <3>1, <3>2
  <2>6. ASSUME NEW q \in Requests \ {r} PROVE req'[q] = req[q] /\ (Chosen(q)' => Chosen(q))
    BY <2>1 DEF Alone, Chosen
  <2>7. ASSUME NEW q \in Requests
        PROVE  Chosen(q)' => topology # None /\ req'[q].identity = PinnedDb(req'[q].name)
    <3>1. CASE q = r
      BY <3>1, <2>2, <2>4
    <3>2. CASE q # r
      BY <3>2, <2>6 DEF Placed
    <3> QED
      BY <3>1, <3>2
  <2> QED
    BY <2>1, <2>3, <2>5, <2>7 DEF Placed, PinnedDb
<1>9. CASE Tick
  <2>1. UNCHANGED <<topology, up, identities, req, wire, task, home>>
    BY <1>9 DEF Tick
  <2>2. \A s \in ShardIds : /\ owners'[s].worker = owners[s].worker
                            /\ owners'[s].identity = owners[s].identity
    BY <1>9, <1>0 DEF Tick, GatewayTyped, Entry
  <2> QED
    BY <2>1, <2>2, <1>p DEF Placed, Chosen
<1> QED
  BY <1>1, <1>2, <1>4, <1>5, <1>6, <1>7, <1>8, <1>9
  DEF Next, vars, TakeOver, Restart, StartDiscover, Discover

(* All commits of a namespace go to one database, whatever configurations  *)
(* the gateway is started with and whatever databases workers come back    *)
(* with, except those of a worker that was given another one after it was  *)
(* discovered (gateway_router, cluster.rs:314-347, and discover, 366-393). *)
THEOREM PlacementIsStable == Spec => []PlacementStable
<1>1. ASSUME Placed, NEW n \in Names, NEW c \in home[n], NEW d \in home[n]
      PROVE  c.db = d.db \/ Repointed(c) \/ Repointed(d)
  <2>1. c.identity = d.identity
    BY <1>1 DEF Placed
  <2> QED
    BY <2>1 DEF Repointed
<1>2. Placed => PlacementStable
  BY <1>1 DEF PlacementStable
<1> QED
  BY <1>2, TypeInit, TypeNext, PlacedInit, PlacedNext, PTL DEF Spec
=============================================================================
