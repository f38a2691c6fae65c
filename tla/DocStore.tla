------------------------------ MODULE DocStore ------------------------------
(***************************************************************************)
(* What an Engine promises the clients of one namespace: it is created     *)
(* with one configuration, each write replaces the documents it names and  *)
(* advances the revision by one, all at once or not at all, and deletion   *)
(* hides everything at once.  Indexes, cleanup, locks and crashes do not   *)
(* show.  The promise is the README's and docs/api.md's; the code that     *)
(* keeps it is src/src/engine.rs, modelled by module Engine.               *)
(***************************************************************************)
EXTENDS Naturals

CONSTANTS Ids, Documents, Schemas, None

VARIABLES ns,    \* the configuration, None when the namespace does not exist
          docs,  \* the current documents
          rev    \* the revision of the last write
vars == <<ns, docs, rev>>

NoDocs == [id \in Ids |-> None]

Init == ns = None /\ docs = NoDocs /\ rev = 0

Create(schema) ==
    /\ ns = None
    /\ ns' = schema
    /\ UNCHANGED <<docs, rev>>

Write(request) ==
    /\ ns # None
    /\ rev' = rev + 1
    /\ docs' = [id \in Ids |-> IF id \in DOMAIN request THEN request[id] ELSE docs[id]]
    /\ UNCHANGED ns

Drop ==
    /\ ns' = None
    /\ docs' = NoDocs
    /\ rev' = 0

Requests == UNION {[touched -> Documents \cup {None}] : touched \in SUBSET Ids \ {{}}}

Next ==
    \/ \E schema \in Schemas : Create(schema)
    \/ \E request \in Requests : Write(request)
    \/ Drop

Spec == Init /\ [][Next]_vars
=============================================================================
