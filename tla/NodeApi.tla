------------------------------ MODULE NodeApi ------------------------------
(***************************************************************************)
(* The Node control plane: processes that connect to MongoDB once, and     *)
(* requests that run side by side in them.  A server process opens the     *)
(* database before it listens and serves many requests; a Netlify process  *)
(* connects on its first request and serves one at a time.  Every await of *)
(* a handler is a step: a database operation, a call of the Kubernetes     *)
(* API.  An operation may be refused, or be done and its answer lost.  An  *)
(* error that no handler catches is an unhandled rejection, which ends the *)
(* process and every request in it.                                        *)
(*                                                                         *)
(* An account is the _id of a tenant and of its one user, which are only   *)
(* made together.  The audit log is not kept.                              *)
(***************************************************************************)
EXTENDS Naturals, FiniteSets

CONSTANTS
  Servers,      \* processes of server.ts
  Functions,    \* processes of the Netlify function
  Requests,     \* requests in flight
  Accounts,     \* tenants and users, by _id
  Email,        \* the e-mail address each account registers
  Registered,   \* the accounts there are at the start
  Keys,         \* API keys, by _id
  Deployments,  \* deployments, by _id
  Names,        \* deployment names
  Operations,   \* bound: the kinds of request that arrive
  MaxRequests,  \* bound: requests that arrive
  MaxFaults,    \* bound: calls that fail and processes that are killed
  None          \* no document, no request

Processes == Servers \cup Functions
Kinds == {"namespace", "deployment", "service", "ingress"}

\* A namespace has the name of its tenant, the others that of the deployment.
Thing(kind, n) == IF kind = "namespace" THEN <<kind>> ELSE <<kind, n>>
Things == {Thing(kind, n) : kind \in Kinds, n \in Names}

\* What the API knows of a deployment.
DeploymentRecord ==
  [tenant : Accounts, name : Names, status : {"deploying", "running", "failed"}]

ASSUME NodeApiAssumption ==
  /\ Servers \cap Functions = {}
  /\ Email \in [Accounts -> {Email[a] : a \in Accounts}]
  /\ Registered \subseteq Accounts
  /\ MaxRequests \in Nat
  /\ IsFiniteSet(Deployments) /\ MaxRequests <= Cardinality(Deployments)
  /\ IsFiniteSet(Keys) /\ MaxRequests <= Cardinality(Keys)
  /\ MaxFaults \in Nat
  /\ None \notin Accounts \cup Processes \cup Deployments \cup DeploymentRecord

VARIABLES
  up,          \* the processes that run
  listening,   \* the processes that take requests
  phase,       \* how far initializeDatabase is in each process
  cols,        \* the processes whose collection variables are set
  memo,        \* dbReady of each process
  indexed,     \* the unique index on users.email exists
  tenants, users,  \* the documents, by account
  tokens,      \* the accounts somebody has a token of
  keys,        \* the owner of each API key that exists
  born,        \* the _ids of keys given out
  issued,      \* the keys somebody has been given
  deployments, \* the documents
  objects,     \* the deployment that made each Kubernetes object, or None
  metrics,     \* the deployments that have usage metrics
  pc, req, host,  \* requests: next step, what they ask for, their process
  arrived, faults,  \* bounds used up
  confirmed,   \* history: accounts a client was told it has
  revoked,     \* history: keys a client was told are gone
  abandoned    \* history: deployments whose request ended unanswered

connection == <<up, listening, phase, cols, memo, indexed>>
people == <<tenants, users, tokens, confirmed>>
keyring == <<keys, born, issued, revoked>>
cluster == <<deployments, objects, metrics, abandoned>>
data == <<people, keyring, cluster>>
bounds == <<arrived, faults>>
vars == <<connection, data, pc, req, host, bounds>>

Init ==
  /\ up = {} /\ listening = {} /\ cols = {} /\ indexed = FALSE
  /\ phase = [p \in Processes |-> "none"]
  /\ memo = [p \in Processes |-> "none"]
  /\ tenants = Registered /\ users = Registered
  /\ tokens = Registered /\ confirmed = Registered
  /\ keys = [k \in Keys |-> None]
  /\ born = {} /\ issued = {} /\ revoked = {}
  /\ deployments = [d \in Deployments |-> None]
  /\ objects = [a \in Accounts |-> [x \in Things |-> None]]
  /\ metrics = {} /\ abandoned = {}
  /\ pc = [r \in Requests |-> "idle"]
  /\ req = [r \in Requests |-> None]
  /\ host = [r \in Requests |-> None]
  /\ arrived = 0 /\ faults = 0

Of(p) == {r \in Requests : host[r] = p}

\* The deployments that the requests of rs have made and not settled.
Unsettled(rs) ==
  {req[r].dep : r \in {q \in rs : pc[q] # "idle" /\ req[q].op = "deploy"}} \ {None}

Goto(r, step) == pc' = [pc EXCEPT ![r] = step] /\ UNCHANGED <<req, host>>

\* The requests of rs are over.
Leave(rs) ==
  /\ pc' = [r \in Requests |-> IF r \in rs THEN "idle" ELSE pc[r]]
  /\ req' = [r \in Requests |-> IF r \in rs THEN None ELSE req[r]]
  /\ host' = [r \in Requests |-> IF r \in rs THEN None ELSE host[r]]

Answer(r) == Leave({r})

\* The routes under /api/auth ask for no credentials.
First(op) == IF op \in {"register", "login"} THEN "find" ELSE "auth"

Fault == faults < MaxFaults /\ faults' = faults + 1
NoFault == UNCHANGED faults

\* Process p ends, and with it all that its memory holds; ds are deployments
\* its requests have made and do not know of.
EndWith(p, ds) ==
  /\ up' = up \ {p} /\ listening' = listening \ {p} /\ cols' = cols \ {p}
  /\ phase' = [phase EXCEPT ![p] = "none"]
  /\ memo' = [memo EXCEPT ![p] = "none"]
  /\ abandoned' = abandoned \cup Unsettled(Of(p)) \cup ds
  /\ Leave(Of(p))
  /\ UNCHANGED indexed

End(p) == EndWith(p, {})

\* An error nobody catches, in request r.
Unhandled(r) == End(host[r])

------------------------------------------------------------------------------
(* Connecting: server.startServer, database.initializeDatabase,            *)
(* app.ensureDatabase.                                                     *)

\* Faulty: the server listens without waiting for the database.
ListenEarly(p) == listening' = listening \cup {p}

\* A server listens when initializeDatabase has returned, not before.
ListenAtStart(p) == UNCHANGED listening

StartServer(p) ==
  /\ p \in Servers \ up
  /\ up' = up \cup {p}
  /\ phase' = [phase EXCEPT ![p] = "connect"]
  /\ ListenAtStart(p)
  /\ UNCHANGED <<cols, memo, indexed, data, pc, req, host, bounds>>

\* Every waiter of the connection goes on to its route.
Proceed(p) ==
  pc' = [r \in Requests |-> IF r \in Of(p) /\ pc[r] = "await" THEN First(req[r].op) ELSE pc[r]]

Connected(p) ==
  /\ phase[p] = "connect"
  /\ cols' = cols \cup {p}
  /\ IF p \in Functions
     THEN /\ phase' = [phase EXCEPT ![p] = "none"]
          /\ memo' = [memo EXCEPT ![p] = "ready"]
          /\ Proceed(p)
     ELSE /\ phase' = [phase EXCEPT ![p] = "index"]
          /\ UNCHANGED <<memo, pc>>
  /\ UNCHANGED <<up, listening, indexed, data, req, host, bounds>>

\* No server to select, or the timer of 4.5 seconds is the first to end.
ConnectFails(p) ==
  /\ phase[p] = "connect" /\ Fault
  /\ phase' = [phase EXCEPT ![p] = "close"]
  /\ UNCHANGED <<up, listening, cols, memo, indexed, data, pc, req, host, arrived>>

\* A unique index cannot be made over two users of one address.
AddressesDiffer == \A a, b \in users : Email[a] = Email[b] => a = b

CreateIndexes(p) ==
  /\ phase[p] = "index"
  /\ \/ /\ AddressesDiffer /\ NoFault
        /\ indexed' = TRUE
        /\ phase' = [phase EXCEPT ![p] = "none"]
        /\ listening' = listening \cup {p}
     \/ /\ IF AddressesDiffer THEN Fault ELSE NoFault
        /\ phase' = [phase EXCEPT ![p] = "close"]
        /\ UNCHANGED <<indexed, listening>>
  /\ UNCHANGED <<up, cols, memo, data, pc, req, host, arrived>>

\* Faulty: the error of the connection gets no answer.
Unheard(p) == {}

\* The requests that wait for the connection.
Waiting(p) == {r \in Of(p) : pc[r] = "await"}

\* The variables are reset.  A server that was starting exits; in a function
\* every request that waits is answered 503, and the next one tries again.
Closed(p) ==
  /\ phase[p] = "close"
  /\ IF p \in Servers
     THEN End(p)
     ELSE /\ phase' = [phase EXCEPT ![p] = "none"]
          /\ cols' = cols \ {p}
          /\ memo' = [memo EXCEPT ![p] = "none"]
          /\ Leave(Waiting(p))
          /\ UNCHANGED <<up, listening, indexed, abandoned>>
  /\ UNCHANGED <<people, keyring, deployments, objects, metrics, bounds>>

EnsureDatabase(r) ==
  LET p == host[r] IN
  /\ pc[r] = "enter"
  /\ \/ /\ memo[p] = "ready"
        /\ Goto(r, First(req[r].op)) /\ UNCHANGED <<memo, phase>>
     \/ /\ memo[p] = "none" /\ p \in cols
        /\ memo' = [memo EXCEPT ![p] = "ready"]
        /\ Goto(r, First(req[r].op)) /\ UNCHANGED phase
     \/ /\ memo[p] = "none" /\ p \notin cols
        /\ memo' = [memo EXCEPT ![p] = "pending"]
        /\ phase' = [phase EXCEPT ![p] = "connect"]
        /\ Goto(r, "await")
     \/ /\ memo[p] = "pending"
        /\ Goto(r, "await") /\ UNCHANGED <<memo, phase>>
  /\ UNCHANGED <<up, listening, cols, indexed, data, bounds>>

\* A process is killed.
Die(p) ==
  /\ p \in up /\ Fault
  /\ End(p)
  /\ UNCHANGED <<people, keyring, deployments, objects, metrics, arrived>>

------------------------------------------------------------------------------
(* Requests, and who sends them: middleware/auth.ts.                       *)

Body(op, via, a, k) ==
  [op |-> op, via |-> via, account |-> a, key |-> k, name |-> None, dep |-> None,
   late |-> via = "key" /\ k \in revoked]

\* A deployment is asked for by name, a metric posted to one by _id.
About(q) ==
  CASE q.op = "deploy" -> {[q EXCEPT !.name = n] : n \in Names}
    [] q.op = "metric" -> {[q EXCEPT !.dep = d] : d \in Deployments}
    [] OTHER -> {q}

\* Every sign-up that gets as far makes a new _id.
Unborn ==
  Accounts \ (tenants \cup users \cup {req[r].account : r \in {s \in Requests : pc[s] # "idle"}})

Bodies ==
  {Body("register", "none", a, None) : a \in Unborn} \cup {Body("login", "none", a, None) : a \in users}
  \cup {Body("deleteKey", "token", a, k) : a \in tokens, k \in {j \in Keys : keys[j] # None} \cup revoked}
  \cup (UNION {About(Body(op, "token", a, None)) :
                 op \in {"list", "createKey", "deploy", "metric"}, a \in tokens})
  \cup (UNION {About(Body(op, "key", None, k)) :
                 op \in {"list", "deploy", "metric"}, k \in issued})

\* A request meets a process that listens, or starts a function, which takes
\* one request at a time.
Arrive(r, p) ==
  /\ pc[r] = "idle" /\ arrived < MaxRequests
  /\ p \in listening \/ (p \in Functions /\ Of(p) = {})
  /\ \E q \in Bodies :
       /\ q.op \in Operations
       /\ req' = [req EXCEPT ![r] = q]
  /\ up' = up \cup {p}
  /\ pc' = [pc EXCEPT ![r] = "enter"]
  /\ host' = [host EXCEPT ![r] = p]
  /\ arrived' = arrived + 1
  /\ UNCHANGED <<listening, phase, cols, memo, indexed, data, faults>>

\* The handler of a route of its own, behind authenticateRequest.
Handler(op) ==
  CASE op = "list" -> "list"
    [] op = "createKey" -> "insertKey"
    [] op = "deleteKey" -> "removeKey"
    [] op = "deploy" -> "insertDeployment"
    [] op = "metric" -> "findDeployment"

\* Any error here, the database's too, reads as a bad token: 401.
AuthenticateJwt(r) ==
  /\ pc[r] = "auth" /\ req[r].via = "token"
  /\ \/ NoFault /\ IF req[r].account \in users THEN Goto(r, Handler(req[r].op)) ELSE Answer(r)
     \/ Fault /\ Answer(r)
  /\ UNCHANGED <<connection, data, arrived>>

\* Faulty: a key once found is accepted from then on.
Remembered(r) == req[r].key \in issued

\* The document of the key, looked up each time.
FindApiKey(r) == keys[req[r].key] # None

AuthenticateApiKey(r) ==
  /\ pc[r] = "auth" /\ req[r].via = "key"
  /\ \/ NoFault /\ IF FindApiKey(r)
                   THEN /\ req' = [req EXCEPT ![r].account = keys[req[r].key]]
                        /\ pc' = [pc EXCEPT ![r] = "mark"]
                        /\ UNCHANGED host
                   ELSE Answer(r)
     \/ Fault /\ Answer(r)
  /\ UNCHANGED <<connection, data, arrived>>

\* lastUsedAt of a key is set; an error is answered 500.
MarkApiKeyUsed(r) ==
  /\ pc[r] = "mark"
  /\ \/ NoFault /\ Goto(r, Handler(req[r].op))
     \/ Fault /\ Answer(r)
  /\ UNCHANGED <<connection, data, arrived>>

\* A list is one find.
List(r) ==
  /\ pc[r] = "list"
  /\ \/ NoFault /\ Answer(r) /\ UNCHANGED <<connection, abandoned>>
     \/ Fault /\ Unhandled(r)
  /\ UNCHANGED <<people, keyring, deployments, objects, metrics, arrived>>

------------------------------------------------------------------------------
(* POST /api/auth/register and /login.  Their errors are caught: 500.      *)

HasAddress(a) == \E b \in users : Email[b] = Email[a]

FindUser(r) ==
  LET a == req[r].account IN
  /\ pc[r] = "find"
  /\ \/ /\ NoFault
        /\ IF req[r].op = "register" /\ ~HasAddress(a)
           THEN Goto(r, "insertTenant") ELSE Answer(r)
        /\ tokens' = IF req[r].op = "login" THEN tokens \cup (users \cap {a}) ELSE tokens
     \/ Fault /\ Answer(r) /\ UNCHANGED tokens
  /\ UNCHANGED <<connection, tenants, users, confirmed, keyring, cluster, arrived>>

\* Two organizations of one name in one millisecond have one
\* slug: the second is refused as if its address were taken.
InsertTenant(r) ==
  LET a == req[r].account IN
  /\ pc[r] = "insertTenant"
  /\ \/ NoFault
        /\ tenants' = tenants \cup {a} /\ Goto(r, "insertUser")
     \/ NoFault /\ indexed /\ tenants # {} /\ Answer(r) /\ UNCHANGED tenants
     \/ Fault /\ tenants' \in {tenants, tenants \cup {a}} /\ Answer(r)
  /\ UNCHANGED <<connection, users, tokens, confirmed, keyring, cluster, arrived>>

\* Faulty: the address looked up before is still free.
AddressFree(a) == TRUE

\* What the unique index lets in.
Unique(a) == indexed => ~HasAddress(a)

\* An error takes the tenant back, even if the user was inserted after all.
InsertUser(r) ==
  LET a == req[r].account IN
  /\ pc[r] = "insertUser"
  /\ \/ NoFault /\ Unique(a) /\ users' = users \cup {a}
        /\ Goto(r, "audit")
     \/ NoFault /\ ~Unique(a) /\ Goto(r, "removeTenant") /\ UNCHANGED users
     \/ Fault /\ Goto(r, "removeTenant") /\ UNCHANGED users
     \/ Fault /\ Unique(a) /\ users' = users \cup {a}
        /\ Goto(r, "removeTenant")
  /\ UNCHANGED <<connection, tenants, tokens, confirmed, keyring, cluster, arrived>>

\* Faulty: the tenant looked for is one of the user's address.
TenantsOf(a) == {b \in tenants : Email[b] = Email[a]}

\* The tenant this request inserted.
TenantMade(a) == {a}

RemoveTenant(r) ==
  /\ pc[r] = "removeTenant"
  /\ \/ NoFault /\ tenants' = tenants \ TenantMade(req[r].account)
     \/ Fault /\ tenants' \in {tenants, tenants \ TenantMade(req[r].account)}
  /\ Answer(r)
  /\ UNCHANGED <<connection, users, tokens, confirmed, keyring, cluster, arrived>>

------------------------------------------------------------------------------
(* API keys.  The database's errors are not caught.                        *)

\* A document of the tenant, with an _id never used before.
CreateApiKey(k, a) == [keys EXCEPT ![k] = a]

InsertKey(r) ==
  LET k == CHOOSE j \in Keys : keys[j] = None /\ j \notin born
      inserted == CreateApiKey(k, req[r].account) IN
  /\ pc[r] = "insertKey"
  /\ born' = born \cup {k}
  /\ \/ /\ NoFault
        /\ keys' = inserted
        /\ req' = [req EXCEPT ![r].key = k]
        /\ pc' = [pc EXCEPT ![r] = "audit"]
        /\ UNCHANGED <<host, connection, abandoned>>
     \/ Fault /\ keys' \in {keys, inserted} /\ Unhandled(r)
  /\ UNCHANGED <<people, issued, revoked, deployments, objects, metrics, arrived>>

\* deletedCount is 1: the tenant has such a key.
Owned(r) == keys[req[r].key] = req[r].account

RemoveKey(r) ==
  LET removed == [keys EXCEPT ![req[r].key] = None] IN
  /\ pc[r] = "removeKey"
  /\ \/ NoFault /\ Owned(r) /\ keys' = removed /\ Goto(r, "audit")
        /\ UNCHANGED <<connection, abandoned>>
     \/ NoFault /\ ~Owned(r) /\ Answer(r) /\ UNCHANGED <<keys, connection, abandoned>>
     \/ Fault /\ keys' \in {keys, IF Owned(r) THEN removed ELSE keys} /\ Unhandled(r)
  /\ UNCHANGED <<people, born, issued, revoked, deployments, objects, metrics, arrived>>

------------------------------------------------------------------------------
(* The audit log, and the answer that follows: writeAuditLog catches its   *)
(* errors.                                                                 *)

Audit(r) ==
  LET q == req[r] IN
  /\ pc[r] = "audit"
  /\ NoFault \/ Fault
  /\ confirmed' = IF q.op = "register" THEN confirmed \cup {q.account} ELSE confirmed
  /\ tokens' = IF q.op = "register" THEN tokens \cup {q.account} ELSE tokens
  /\ issued' = IF q.op = "createKey" THEN issued \cup {q.key} ELSE issued
  /\ revoked' = IF q.op = "deleteKey" THEN revoked \cup {q.key} ELSE revoked
  /\ IF q.op = "deploy" THEN Goto(r, "readNamespace") ELSE Answer(r)
  /\ UNCHANGED <<connection, tenants, users, keys, born, cluster, arrived>>

------------------------------------------------------------------------------
(* POST /api/deployments and services/kubernetes.ts.                       *)

InsertDeployment(r) ==
  LET d == CHOOSE e \in Deployments : deployments[e] = None
      inserted == [deployments EXCEPT ![d] =
        [tenant |-> req[r].account, name |-> req[r].name, status |-> "deploying"]] IN
  /\ pc[r] = "insertDeployment"
  /\ \/ /\ NoFault
        /\ deployments' = inserted
        /\ req' = [req EXCEPT ![r].dep = d]
        /\ pc' = [pc EXCEPT ![r] = "audit"]
        /\ UNCHANGED <<host, connection, abandoned>>
     \/ Fault /\ UNCHANGED deployments /\ Unhandled(r)
     \/ Fault /\ deployments' = inserted /\ EndWith(host[r], {d})
  /\ UNCHANGED <<people, keyring, objects, metrics, arrived>>

\* What a request does after each of its calls.
After(kind) ==
  CASE kind = "namespace" -> "deployment"
    [] kind = "deployment" -> "service"
    [] kind = "service" -> "ingress"
    [] kind = "ingress" -> "run"

ReadNamespace(r) ==
  /\ pc[r] = "readNamespace"
  /\ \/ NoFault /\ objects[req[r].account][<<"namespace">>] # None /\ Goto(r, "deployment")
     \/ NoFault /\ objects[req[r].account][<<"namespace">>] = None /\ Goto(r, "namespace")
     \/ Fault /\ Goto(r, "fail")
  /\ UNCHANGED <<connection, data, arrived>>

\* Faulty: an object that exists will do.
Adopted(d, x) == x # None

\* A 409 for an object of that name is an error like any other: is it ignored?
Conflict(d, x) == FALSE

\* Each of createNamespace, createDeployment, createService, createIngress.
CreateObject(r) ==
  LET q == req[r]
      x == Thing(pc[r], q.name)
      there == objects[q.account][x]
      made == [objects EXCEPT ![q.account][x] = q.dep] IN
  /\ pc[r] \in Kinds
  /\ \/ NoFault /\ there = None /\ objects' = made /\ Goto(r, After(pc[r]))
     \/ NoFault /\ there # None /\ UNCHANGED objects
        /\ Goto(r, IF Conflict(q.dep, there) THEN After(pc[r]) ELSE "fail")
     \/ Fault /\ Goto(r, "fail") /\ objects' \in {objects, IF there = None THEN made ELSE objects}
  /\ UNCHANGED <<connection, people, keyring, deployments, metrics, abandoned, arrived>>

\* updateDeploymentStatus.
WithStatus(d, s) == [deployments EXCEPT ![d].status = s]

SetRunning(r) ==
  LET running == WithStatus(req[r].dep, "running") IN
  /\ pc[r] = "run"
  /\ \/ NoFault /\ deployments' = running /\ Answer(r)
     \/ Fault /\ deployments' \in {deployments, running} /\ Goto(r, "fail")
  /\ UNCHANGED <<connection, people, keyring, objects, metrics, abandoned, arrived>>

\* Faulty: the error is answered, the document forgotten.
NotFailed(d) == deployments

\* Faulty: a status that a deployment of this API does not have.
Stopped(d) == WithStatus(d, "stopped")

Failed(d) == WithStatus(d, "failed")

\* The catch block: an error in it is not caught any more.
SetFailed(r) ==
  LET failed == Failed(req[r].dep) IN
  /\ pc[r] = "fail"
  /\ \/ NoFault /\ deployments' = failed /\ Answer(r) /\ UNCHANGED <<connection, abandoned>>
     \/ Fault /\ deployments' \in {deployments, failed} /\ Unhandled(r)
  /\ UNCHANGED <<people, keyring, objects, metrics, arrived>>

------------------------------------------------------------------------------
(* POST /api/usage-metrics: a post that is repeated is counted again.      *)

FindDeploymentById(d, a) == deployments[d] # None /\ deployments[d].tenant = a

FindDeployment(r) ==
  LET found == FindDeploymentById(req[r].dep, req[r].account) IN
  /\ pc[r] = "findDeployment"
  /\ \/ NoFault /\ found /\ Goto(r, "insertMetric") /\ UNCHANGED <<connection, abandoned>>
     \/ NoFault /\ ~found /\ Answer(r) /\ UNCHANGED <<connection, abandoned>>
     \/ Fault /\ Unhandled(r)
  /\ UNCHANGED <<people, keyring, deployments, objects, metrics, arrived>>

InsertMetric(r) ==
  LET inserted == metrics \cup {req[r].dep} IN
  /\ pc[r] = "insertMetric"
  /\ \/ NoFault /\ metrics' = inserted /\ Goto(r, "audit") /\ UNCHANGED <<connection, abandoned>>
     \/ Fault /\ metrics' \in {metrics, inserted} /\ Unhandled(r)
  /\ UNCHANGED <<people, keyring, deployments, objects, arrived>>

------------------------------------------------------------------------------
Connect(p) ==
  StartServer(p) \/ Connected(p) \/ ConnectFails(p) \/ CreateIndexes(p) \/ Closed(p)

Serve(r) ==
  \/ EnsureDatabase(r)
  \/ AuthenticateJwt(r) \/ AuthenticateApiKey(r) \/ MarkApiKeyUsed(r) \/ List(r)
  \/ FindUser(r) \/ InsertTenant(r) \/ InsertUser(r) \/ RemoveTenant(r)
  \/ InsertKey(r) \/ RemoveKey(r) \/ Audit(r)
  \/ InsertDeployment(r) \/ ReadNamespace(r) \/ CreateObject(r)
  \/ SetRunning(r) \/ SetFailed(r)
  \/ FindDeployment(r) \/ InsertMetric(r)

Next ==
  \/ \E p \in Processes : Connect(p) \/ Die(p)
  \/ \E r \in Requests : Serve(r) \/ \E p \in Processes : Arrive(r, p)

\* A driver call ends within its timeouts, the connection within its timer, and
\* the event loop of a process that lives comes to every callback.
Fairness ==
  /\ \A p \in Processes : WF_vars(Connect(p) /\ p \in up)
  /\ \A r \in Requests : WF_vars(Serve(r))

Spec == Init /\ [][Next]_vars /\ Fairness

------------------------------------------------------------------------------
Steps == Kinds \cup {"idle", "enter", "await", "auth", "mark", "list", "find",
  "insertTenant", "insertUser", "removeTenant", "insertKey", "removeKey", "audit",
  "insertDeployment", "readNamespace", "run", "fail", "findDeployment", "insertMetric"}

\* Types, and that a request is in a process that runs.
TypeOK ==
  /\ listening \subseteq up /\ cols \subseteq up /\ up \subseteq Processes
  /\ phase \in [Processes -> {"none", "connect", "index", "close"}]
  /\ memo \in [Processes -> {"none", "pending", "ready"}]
  /\ indexed \in BOOLEAN
  /\ tokens \subseteq Accounts
  /\ keys \in [Keys -> Accounts \cup {None}]
  /\ issued \subseteq born /\ revoked \subseteq Keys
  /\ deployments \in [Deployments -> DeploymentRecord \cup {None}]
  /\ objects \in [Accounts -> [Things -> Deployments \cup {None}]]
  /\ metrics \subseteq Deployments /\ abandoned \subseteq Deployments
  /\ pc \in [Requests -> Steps]
  /\ \A r \in Requests : pc[r] # "idle" <=> host[r] \in up

\* A handler never meets a database that is half open or being closed: the
\* collection variables are set before the indexes are made and reset when that
\* fails, but only in a server that does not listen yet.
HandlersSeeWholeDatabase ==
  \A r \in Requests :
    pc[r] \notin {"idle", "enter", "await"} => host[r] \in cols /\ phase[host[r]] = "none"

\* Two sign-ups of one address both find it free; where some server has made
\* the index, one of them is refused by it.
OneUserPerAddress == indexed => AddressesDiffer

\* A sign-up that was confirmed has its user and its tenant for good, whatever
\* other sign-ups fail and take back.
ConfirmedAccountsStay == confirmed \subseteq users \cap tenants

\* A deployment that reads 'running' has made every object of its name itself:
\* a deployment is never taken for running on what another one left.
RunningOwnsObjects ==
  \A d \in Deployments :
    deployments[d] # None /\ deployments[d].status = "running" =>
      \A kind \in Kinds \ {"namespace"} :
        objects[deployments[d].tenant][<<kind, deployments[d].name>>] = d

\* A deployment reads 'deploying' only while a request works on it, or after
\* one whose process has ended.
DeployingIsInHand ==
  \A d \in Deployments :
    deployments[d] # None /\ deployments[d].status = "deploying" =>
      d \in abandoned \cup Unsettled(Requests)

\* A key is refused by every request that is sent after its deletion has been
\* confirmed, whichever process takes it.
RevokedKeyRefused ==
  \A r \in Requests :
    pc[r] # "idle" /\ req[r].late => pc[r] \in {"enter", "await", "auth"}

\* Every request is answered, or its process ends.
EveryRequestEnds == \A r \in Requests : pc[r] # "idle" ~> pc[r] = "idle"
==============================================================================
