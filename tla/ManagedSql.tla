----------------------------- MODULE ManagedSql -----------------------------
(***************************************************************************)
(* Managed databases of one tenant: a create inserts a placeholder, makes  *)
(* a role and a database on a shared engine or in a container of its own,  *)
(* and completes the placeholder; a delete goes the same way back.  Every  *)
(* database operation, engine statement and docker call is a step.  On     *)
(* Netlify requests run in processes of their own and may overlap; a       *)
(* single API process runs one at a time.                                  *)
(*                                                                         *)
(* status and autoBackup matter to the backups only and are left out; a    *)
(* document is complete when it has a dbName.                              *)
(***************************************************************************)
EXTENDS Naturals, FiniteSets, FiniteSetsExt

CONSTANTS
  Instances,    \* database_instances documents, by _id
  Names,        \* instance names, unique among the documents of a tenant
  Ident,        \* what _unique_names makes of a name
  Engines,      \* of postgres and mysql
  Modes,        \* values of "dedicated"
  Sizes,        \* values of sizeGb
  MaxSize,      \* the largest that schemas.py lets through
  Apis,         \* API processes
  NumPorts,     \* the dedicated ports are 1..NumPorts
  MaxInstances, \* limits.maxDatabaseInstances
  MaxStorage,   \* limits.maxDatabaseStorageGb
  MaxRequests,  \* bound: requests
  MaxFaults,    \* bound: calls that fail
  MaxDeaths,    \* bound: requests whose process dies
  None          \* no document, no owner, no port

Ports == 1..NumPorts
Idents == {Ident[n] : n \in Names}

\* The shared engines, and the container of each instance.
Servers == Engines \cup Instances
Objects == {"role", "database"}

Documents == [id: Instances, name: Names, engine: Engines, dedicated: Modes, size: Sizes,
              port: Ports \cup {None}, named: BOOLEAN]

ASSUME ManagedSqlAssumption ==
  /\ Ident \in [Names -> Idents]
  /\ Engines \subseteq {"postgres", "mysql"}
  /\ Engines \cap Instances = {}
  /\ Modes \subseteq BOOLEAN
  /\ MaxSize \in Nat
  /\ Sizes \subseteq 0..MaxSize
  /\ IsFiniteSet(Apis) /\ Apis # {}
  /\ NumPorts \in Nat
  /\ MaxInstances \in Nat
  /\ MaxStorage \in Nat
  /\ MaxRequests \in Nat
  /\ MaxFaults \in Nat
  /\ MaxDeaths \in Nat
  /\ None \notin Instances \cup Ports \cup Documents

VARIABLES
  doc,        \* each instance's document, or None
  born,       \* the _ids given out
  made,       \* by server, object and ident: the instance that made it, or None
  bound,      \* the port each instance's container holds, or None
  pc, req,    \* API processes: next step, and the request with what it has read
  port,       \* the port a request has chosen
  requests, faults, deaths,  \* bounds used up
  doomed,     \* history: the instances a delete has set out to remove
  overlapped, \* history: two requests ran at once
  contested   \* history: the idents that two requests or two names had at once

bounds == <<requests, faults, deaths>>
history == <<doomed, overlapped, contested>>
vars == <<doc, born, made, bound, pc, req, port, bounds, history>>

Init ==
  /\ doc = [i \in Instances |-> None]
  /\ born = {}
  /\ made = [s \in Servers |-> [o \in Objects |-> [x \in Idents |-> None]]]
  /\ bound = [i \in Instances |-> None]
  /\ pc = [p \in Apis |-> "idle"]
  /\ req = [p \in Apis |-> None]
  /\ port = [p \in Apis |-> None]
  /\ requests = 0
  /\ faults = 0
  /\ deaths = 0
  /\ doomed = {}
  /\ overlapped = FALSE
  /\ contested = {}

Exists(i) == doc[i] # None

\* Another request in progress has the ident of r, or a document by another name.
Contests(p, r) ==
  \/ \E q \in Apis \ {p} : pc[q] # "idle" /\ Ident[req[q].name] = Ident[r.name]
  \/ \E i \in Instances : /\ Exists(i) /\ doc[i].name # r.name
                          /\ Ident[doc[i].name] = Ident[r.name]

\* A request of process p enters at step with what it knows.
Enter(p, step, r) ==
  /\ pc[p] = "idle" /\ requests < MaxRequests
  /\ requests' = requests + 1
  /\ pc' = [pc EXCEPT ![p] = step]
  /\ req' = [req EXCEPT ![p] = r]
  /\ overlapped' = (overlapped \/ \E q \in Apis \ {p} : pc[q] # "idle")
  /\ contested' = IF Contests(p, r) THEN contested \cup {Ident[r.name]} ELSE contested

Goto(p, step) == pc' = [pc EXCEPT ![p] = step] /\ UNCHANGED <<req, port>>

\* The request is over: answered, or ended by an exception.
Leave(p) ==
  /\ pc' = [pc EXCEPT ![p] = "idle"]
  /\ req' = [req EXCEPT ![p] = None]
  /\ port' = [port EXCEPT ![p] = None]

Fault == faults < MaxFaults /\ faults' = faults + 1

------------------------------------------------------------------------------
(* Quota: quota.assert_database_allowed. *)

Existing == {i \in Instances : Exists(i)}
Allocated == MapThenSumSet(LAMBDA i : doc[i].size, Existing)

\* Faulty: the tenant's other instances are forgotten.
AllowedAlone(more) == Cardinality(Existing) < MaxInstances /\ more <= MaxStorage

\* The number of instances is checked for a growth, too.
Allowed(more) ==
  /\ Cardinality(Existing) < MaxInstances
  /\ Allocated + more <= MaxStorage

------------------------------------------------------------------------------
(* POST /api/databases. *)

\* The quota and the shared engine are asked before anything is written.
Create(p, i, n, engine, dedicated, size) ==
  /\ i \notin born
  /\ born' = born \cup {i}
  /\ Allowed(size)
  /\ Enter(p, "insert", [id |-> i, name |-> n, engine |-> engine, dedicated |-> dedicated,
                         size |-> size, port |-> None, named |-> FALSE])
  /\ UNCHANGED <<doc, made, bound, port, faults, deaths, doomed>>

\* The placeholder; the index on tenant and name refuses a second one.
Insert(p) ==
  LET r == req[p] IN
  /\ pc[p] = "insert"
  /\ \/ /\ \A j \in Instances : Exists(j) => doc[j].name # r.name
        /\ doc' = [doc EXCEPT ![r.id] = r]
        /\ Goto(p, IF r.dedicated THEN "port" ELSE "first")
     \/ /\ \E j \in Instances : Exists(j) /\ doc[j].name = r.name
        /\ Leave(p)
        /\ UNCHANGED doc
  /\ UNCHANGED <<born, made, bound, bounds, history>>

\* Faulty: the ports of complete instances only.
UsedByComplete == {doc[j].port : j \in {k \in Instances : Exists(k) /\ doc[k].named /\ bound[k] # None}}

\* list_dedicated_database_ports: of documents, not of containers.
Used == {doc[j].port : j \in {k \in Instances : Exists(k) /\ doc[k].port # None}}

\* allocate_dedicated_port: the lowest, or a RuntimeError nobody catches.
Allocate(p) ==
  /\ pc[p] = "port"
  /\ \/ /\ Ports \ Used # {}
        /\ port' = [port EXCEPT ![p] = Min(Ports \ Used)]
        /\ pc' = [pc EXCEPT ![p] = "run"]
        /\ UNCHANGED req
     \/ Ports \ Used = {} /\ Leave(p)
  /\ UNCHANGED <<doc, born, made, bound, bounds, history>>

Held(n) == \E j \in Instances : bound[j] = n

\* docker run, then the wait for the engine.  Either raises a RuntimeError, which
\* nobody catches: the placeholder stays, and the container if it was started.
Run(p) ==
  LET i == req[p].id IN
  /\ pc[p] = "run"
  /\ \/ /\ ~Held(port[p])
        /\ bound' = [bound EXCEPT ![i] = port[p]]
        /\ \/ Goto(p, "first") /\ UNCHANGED faults
           \/ Fault /\ Leave(p)
     \/ Held(port[p]) /\ Leave(p) /\ UNCHANGED <<bound, faults>>
     \/ Fault /\ Leave(p) /\ UNCHANGED bound
  /\ UNCHANGED <<doc, born, made, requests, deaths, history>>

ServerOf(r) == IF r.dedicated THEN r.id ELSE r.engine

\* Postgres makes the role first, MySQL the database.
First(r) == IF r.engine = "postgres" THEN "role" ELSE "database"
Second(r) == IF r.engine = "postgres" THEN "database" ELSE "role"

\* Faulty: CREATE ... IF NOT EXISTS.
MissingAlways(r, o) == o \in Objects

Missing(r, o) == made[ServerOf(r)][o][Ident[r.name]] = None

Put(r, o) ==
  made' = [made EXCEPT ![ServerOf(r)][o][Ident[r.name]] = IF @ = None THEN r.id ELSE @]

\* _provision_postgres and _provision_mysql: a statement succeeds, or it fails
\* because the object is there, or it fails with or without effect.  A shared
\* engine that does not answer fails before the first statement, without undo.
Make(p, step, o, then) ==
  LET r == req[p] IN
  /\ pc[p] = step
  /\ \/ /\ Missing(r, o)
        /\ Put(r, o)
        /\ \/ Goto(p, then) /\ UNCHANGED faults
           \/ Fault /\ Goto(p, "undoDatabase")
     \/ ~Missing(r, o) /\ Goto(p, "undoDatabase") /\ UNCHANGED <<made, faults>>
     \/ Fault /\ Goto(p, "undoDatabase") /\ UNCHANGED made
     \/ Fault /\ step = "first" /\ ~r.dedicated /\ Goto(p, "discard") /\ UNCHANGED made
  /\ UNCHANGED <<doc, born, bound, requests, deaths, history>>

\* The rollback of MySQL does not pass the host on: it drops on the shared engine.
UndoServer(r) == IF r.engine = "mysql" THEN "mysql" ELSE ServerOf(r)

\* DROP ... IF EXISTS.
Drop(s, o, r) == made' = [made EXCEPT ![s][o][Ident[r.name]] = None]

\* Faulty: an exception of the rollback leaves the request.
UndoFailsLoudly(p) == Leave(p)

\* The exception of a rollback is swallowed.
UndoFails(p) == Goto(p, "discard")

\* Best-effort rollback: database, then role, whoever made them.
Undo(p, step, o, then) ==
  /\ pc[p] = step
  /\ \/ Drop(UndoServer(req[p]), o, req[p]) /\ Goto(p, then) /\ UNCHANGED faults
     \/ Fault /\ UndoFails(p) /\ UNCHANGED made
  /\ UNCHANGED <<doc, born, bound, requests, deaths, history>>

\* A ManagedDatabaseError deletes the placeholder, but not the container.
Discard(p) ==
  /\ pc[p] = "discard"
  /\ doc' = [doc EXCEPT ![req[p].id] = None]
  /\ Leave(p)
  /\ UNCHANGED <<born, made, bound, bounds, history>>

\* Faulty: the port is left out.
CompletedPortless(r, p) == [r EXCEPT !.named = TRUE]

\* What provision returns: names, and everything that was asked for once more.
Completed(r, p) == [r EXCEPT !.named = TRUE, !.port = port[p]]

\* The document is completed, or it is gone: a 500.
Finalize(p) ==
  LET r == req[p] IN
  /\ pc[p] = "finalize"
  /\ doc' = IF Exists(r.id)
            THEN [doc EXCEPT ![r.id] = Completed(r, p)]
            ELSE doc
  /\ Leave(p)
  /\ UNCHANGED <<born, made, bound, bounds, history>>

------------------------------------------------------------------------------
(* PATCH and DELETE /api/databases/{id}. *)

\* A new size: a growth asks the quota, with the size it has read.
Patch(p, i, size) ==
  /\ Exists(i)
  /\ size > doc[i].size => Allowed(size - doc[i].size)
  /\ Enter(p, "patch", [doc[i] EXCEPT !.size = size])
  /\ UNCHANGED <<doc, born, made, bound, port, faults, deaths, doomed>>

Resize(p) ==
  LET r == req[p] IN
  /\ pc[p] = "patch"
  /\ doc' = IF Exists(r.id) THEN [doc EXCEPT ![r.id].size = r.size] ELSE doc
  /\ Leave(p)
  /\ UNCHANGED <<born, made, bound, bounds, history>>

Reachable(r) == r.dedicated => bound[r.id] # None

\* A document without dbName is erased at once.  A dedicated instance whose
\* container is gone cannot be deleted: docker inspect fails, a RuntimeError.
Delete(p, i) ==
  /\ Exists(i)
  /\ doc[i].named => Reachable(doc[i])
  /\ Enter(p, IF doc[i].named THEN "dropDatabase" ELSE "erase", doc[i])
  /\ doomed' = doomed \cup {i}
  /\ UNCHANGED <<doc, born, made, bound, port, faults, deaths>>

\* _deprovision_postgres, _deprovision_mysql: an error leaves the request, but a
\* shared engine that does not answer at first is skipped.
DropObject(p, step, o, then) ==
  LET r == req[p] IN
  /\ pc[p] = step
  /\ \/ Reachable(r) /\ Drop(ServerOf(r), o, r) /\ Goto(p, then) /\ UNCHANGED faults
     \/ ~Reachable(r) /\ Leave(p) /\ UNCHANGED <<made, faults>>
     \/ Fault /\ Leave(p) /\ UNCHANGED made
     \/ Fault /\ o = "database" /\ ~r.dedicated /\ Goto(p, "erase") /\ UNCHANGED made
  /\ UNCHANGED <<doc, born, bound, requests, deaths, history>>

\* destroy_dedicated_container: docker rm -f, whose exit code nobody reads; it
\* may time out.
Remove(p) ==
  LET i == req[p].id IN
  /\ pc[p] = "rm"
  /\ \/ /\ bound' = [bound EXCEPT ![i] = None]
        /\ made' = [made EXCEPT ![i] = [o \in Objects |-> [x \in Idents |-> None]]]
        /\ Goto(p, "erase")
        /\ UNCHANGED faults
     \/ Fault /\ (Goto(p, "erase") \/ Leave(p)) /\ UNCHANGED <<bound, made>>
  /\ UNCHANGED <<doc, born, requests, deaths, history>>

Erase(p) ==
  /\ pc[p] = "erase"
  /\ doc' = [doc EXCEPT ![req[p].id] = None]
  /\ Leave(p)
  /\ UNCHANGED <<born, made, bound, bounds, history>>

------------------------------------------------------------------------------

\* The process dies between two steps; the next request finds another.
Die(p) ==
  /\ pc[p] # "idle" /\ deaths < MaxDeaths
  /\ deaths' = deaths + 1
  /\ Leave(p)
  /\ UNCHANGED <<doc, born, made, bound, requests, faults, history>>

CreateStep(p) ==
  \/ Insert(p)
  \/ Allocate(p)
  \/ Run(p)
  \/ pc[p] = "first" /\ Make(p, "first", First(req[p]), "second")
  \/ pc[p] = "second" /\ Make(p, "second", Second(req[p]), "finalize")
  \/ Undo(p, "undoDatabase", "database", "undoRole")
  \/ Undo(p, "undoRole", "role", "discard")
  \/ Discard(p)
  \/ Finalize(p)

DeleteStep(p) ==
  \/ DropObject(p, "dropDatabase", "database", "dropRole")
  \/ pc[p] = "dropRole" /\ DropObject(p, "dropRole", "role", IF req[p].dedicated THEN "rm" ELSE "erase")
  \/ Remove(p)
  \/ Erase(p)

Request(p) ==
  \/ \E i \in Instances, n \in Names, engine \in Engines, dedicated \in Modes, size \in Sizes :
       Create(p, i, n, engine, dedicated, size)
  \/ \E i \in Instances, size \in Sizes : Patch(p, i, size)
  \/ \E i \in Instances : Delete(p, i)

Next == \E p \in Apis : Request(p) \/ CreateStep(p) \/ DeleteStep(p) \/ Resize(p) \/ Die(p)

Spec == Init /\ [][Next]_vars

------------------------------------------------------------------------------
(* What has to hold. *)

CreateSteps == {"insert", "port", "run", "first", "second", "undoDatabase", "undoRole",
                "discard", "finalize"}
DeleteSteps == {"dropDatabase", "dropRole", "rm", "erase"}

\* The values of every variable; a document knows its id, only a complete
\* dedicated one has a port, and a process has a request just when it is busy.
TypeOK ==
  /\ doc \in [Instances -> Documents \cup {None}]
  /\ born \subseteq Instances
  /\ made \in [Servers -> [Objects -> [Idents -> Instances \cup {None}]]]
  /\ bound \in [Instances -> Ports \cup {None}]
  /\ pc \in [Apis -> {"idle", "patch"} \cup CreateSteps \cup DeleteSteps]
  /\ req \in [Apis -> Documents \cup {None}]
  /\ port \in [Apis -> Ports \cup {None}]
  /\ requests \in 0..MaxRequests
  /\ faults \in 0..MaxFaults
  /\ deaths \in 0..MaxDeaths
  /\ doomed \subseteq Instances
  /\ overlapped \in BOOLEAN
  /\ contested \subseteq Idents
  /\ \A i \in Instances : Exists(i) =>
       /\ i \in born /\ doc[i].id = i
       /\ doc[i].port # None <=> doc[i].named /\ doc[i].dedicated
  /\ \A p \in Apis : req[p] = None <=> pc[p] = "idle"

Owns(i) ==
  /\ \A o \in Objects : made[ServerOf(doc[i])][o][Ident[doc[i].name]] = i
  /\ doc[i].dedicated => bound[i] = doc[i].port

\* A complete instance that nobody has set out to delete owns its role, its
\* database and its container, whatever other requests leave behind when they
\* fail or die, as long as its ident was never wanted by two at once: by two
\* requests, or by a request and a document of another name.
CompleteOwns ==
  \A i \in Instances :
    Exists(i) /\ doc[i].named /\ i \notin doomed /\ Ident[doc[i].name] \notin contested => Owns(i)

\* No two documents name one port, those that a failed delete left included: the
\* second container could never start.  Requests one at a time.
PortsDiffer ==
  ~overlapped => \A i, j \in Instances :
    i # j /\ Exists(i) /\ Exists(j) /\ doc[i].port # None => doc[i].port # doc[j].port

\* Requests that overlap break the quota of docs/MANAGED_SQL.md, but not without
\* limit: every process but one can have passed the check with figures that the
\* others have made stale, and a size that is written back late was once allowed.
\* A single process keeps the quota to the letter.
OvershootBounded ==
  LET Rivals == Cardinality(Apis) - 1 IN
  /\ Allocated <= MaxStorage + Rivals * MaxSize
  /\ Cardinality(Existing) <= MaxInstances + Rivals

\* On a shared engine a create ends with a complete document or none: a
\* placeholder without a request is left by a death only, never by errors, also
\* not by errors of the rollback.
NoStuckPlaceholder ==
  deaths = 0 => \A i \in Instances :
    Exists(i) /\ ~doc[i].named /\ ~doc[i].dedicated =>
      \E p \in Apis : pc[p] \in CreateSteps /\ req[p].id = i

\* docs/DEPLOYMENT.md: creating an instance provisions a real database and user.
CompleteHasDatabase ==
  \A i \in Instances : Exists(i) /\ doc[i].named /\ i \notin doomed => Owns(i)
==============================================================================
