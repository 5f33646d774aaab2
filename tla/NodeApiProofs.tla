---------------------------- MODULE NodeApiProofs ----------------------------
(***************************************************************************)
(* Theorems about NodeApi, for any processes, requests, accounts, keys and *)
(* deployments.                                                            *)
(***************************************************************************)
EXTENDS NodeApi, FiniteSetTheorems, TLAPS

------------------------------------------------------------------------------
(* The inductive invariant. *)

Ops == {"register", "login", "list", "createKey", "deleteKey", "deploy", "metric"}

Asked ==
  [op : Ops, via : {"none", "token", "key"}, account : Accounts \cup {None}, key : Keys \cup {None},
   name : Names \cup {None}, dep : Deployments \cup {None}, late : BOOLEAN]

Busy(r) == pc[r] # "idle"

\* The steps before a request is let into its handler, and the last steps of a
\* deployment.
Entering == {"enter", "await", "auth"}
Making == Kinds \cup {"readNamespace", "run", "fail"}

\* The types, also those that TypeOK leaves out.
ProcessTypes ==
  /\ listening \subseteq up /\ cols \subseteq up /\ up \subseteq Processes
  /\ phase \in [Processes -> {"none", "connect", "index", "close"}]
  /\ memo \in [Processes -> {"none", "pending", "ready"}]
  /\ indexed \in BOOLEAN

PeopleTypes ==
  /\ tenants \subseteq Accounts /\ users \subseteq Accounts
  /\ tokens \subseteq Accounts /\ confirmed \subseteq Accounts

KeyTypes ==
  /\ keys \in [Keys -> Accounts \cup {None}]
  /\ born \subseteq Keys /\ issued \subseteq born /\ revoked \subseteq Keys

ClusterTypes ==
  /\ deployments \in [Deployments -> DeploymentRecord \cup {None}]
  /\ objects \in [Accounts -> [Things -> Deployments \cup {None}]]
  /\ metrics \subseteq Deployments /\ abandoned \subseteq Deployments

RequestTypes ==
  /\ pc \in [Requests -> Steps]
  /\ req \in [Requests -> Asked \cup {None}]
  /\ host \in [Requests -> Processes \cup {None}]

Types == ProcessTypes /\ PeopleTypes /\ KeyTypes /\ ClusterTypes /\ RequestTypes

\* A process from its start to the connection and back.
Connection ==
  \A p \in Processes :
    /\ p \in listening => p \in Servers /\ p \in cols /\ phase[p] = "none"
    /\ memo[p] = "ready" => p \in cols /\ phase[p] = "none"
    /\ p \in Functions /\ memo[p] = "none" => phase[p] = "none"
    /\ phase[p] = "index" => p \in Servers /\ p \in cols
    /\ phase[p] # "none" => p \in up

\* A request is in a process that runs, and past the connection it is there.
Hosted(r) ==
  IF Busy(r)
  THEN /\ host[r] \in up
       /\ host[r] \in Servers => host[r] \in listening
       /\ pc[r] \notin {"enter", "await"} => memo[host[r]] = "ready"
  ELSE host[r] = None

\* What a request asks for, and the steps it comes to.
Asks(r) ==
  Busy(r) =>
    LET q == req[r] IN
    /\ q \in Asked
    /\ q.via = "none" <=> q.op \in {"register", "login"}
    /\ q.op \in {"createKey", "deleteKey"} => q.via = "token"
    /\ q.via = "key" \/ q.op = "deleteKey" => q.key \in Keys
    /\ q.via # "key" \/ pc[r] \notin Entering => q.account \in Accounts
    /\ q.op = "deploy" => q.name \in Names /\ (IF pc[r] \in Making \cup {"audit"}
                                               THEN q.dep \in Deployments ELSE q.dep = None)
    /\ q.op = "metric" => q.dep \in Deployments
    /\ q.late => q.via = "key" /\ pc[r] \in Entering

OnItsWay(r) ==
  /\ pc[r] = "find" => req[r].op \in {"register", "login"}
  /\ pc[r] \in {"insertTenant", "insertUser", "removeTenant"} => req[r].op = "register"
  /\ pc[r] \in {"auth", "mark"} => req[r].op \notin {"register", "login"}
  /\ pc[r] = "list" => req[r].op = "list"
  /\ pc[r] = "insertKey" => req[r].op = "createKey"
  /\ pc[r] = "removeKey" => req[r].op = "deleteKey"
  /\ pc[r] \in Making \cup {"insertDeployment"} => req[r].op = "deploy"
  /\ pc[r] \in {"findDeployment", "insertMetric"} => req[r].op = "metric"
  /\ pc[r] = "audit" => req[r].op \notin {"login", "list"}

\* What a sign-up has done so far, which nobody else undoes.
SignsUp(r) ==
  Busy(r) /\ req[r].op = "register" =>
    /\ req[r].account \notin confirmed
    /\ pc[r] \in {"insertUser", "audit"} => req[r].account \in tenants
    /\ pc[r] = "audit" => req[r].account \in users

\* Two sign-ups are about two accounts.
SignUpsDiffer ==
  \A r, s \in Requests :
    r # s /\ Busy(r) /\ Busy(s) /\ req[r].op = "register" /\ req[s].op = "register" =>
      req[r].account # req[s].account

\* A key is made once.
Keyring ==
  /\ \A k \in Keys : keys[k] # None => k \in born
  /\ \A k \in revoked : k \in born /\ keys[k] = None

\* What a request knows of its key.
HoldsKey(r) ==
  Busy(r) =>
    /\ req[r].late => req[r].key \in revoked
    /\ pc[r] = "audit" /\ req[r].op = "createKey" => req[r].key \in born
    /\ pc[r] = "audit" /\ req[r].op = "deleteKey" => req[r].key \in born /\ keys[req[r].key] = None

\* What a deployment in the making has made.
Deploys(r) ==
  LET q == req[r]
      Made(kind) == objects[q.account][<<kind, q.name>>] = q.dep IN
  Busy(r) /\ q.op = "deploy" /\ pc[r] \in Making \cup {"audit"} =>
    /\ deployments[q.dep] # None
    /\ deployments[q.dep].tenant = q.account /\ deployments[q.dep].name = q.name
    /\ pc[r] \in {"service", "ingress", "run"} => Made("deployment")
    /\ pc[r] \in {"ingress", "run"} => Made("service")
    /\ pc[r] = "run" => Made("ingress")

\* There is an _id for each key and each deployment still to be made.
Posted == {d \in Deployments : deployments[d] # None}
Coming(op) ==
  {r \in Requests : pc[r] \in Entering \cup {"mark", "insertKey", "insertDeployment"} /\ req[r].op = op}

Room ==
  /\ arrived \in 0 .. MaxRequests
  /\ IsFiniteSet(born) /\ IsFiniteSet(Coming("createKey"))
  /\ IsFiniteSet(Posted) /\ IsFiniteSet(Coming("deploy"))
  /\ Cardinality(born) + Cardinality(Coming("createKey")) <= arrived
  /\ Cardinality(Posted) + Cardinality(Coming("deploy")) <= arrived

Base ==
  /\ Types
  /\ Connection
  /\ Room
  /\ Keyring
  /\ \A r \in Requests : Hosted(r) /\ Asks(r) /\ OnItsWay(r)

IInv ==
  /\ Base
  /\ SignUpsDiffer /\ ConfirmedAccountsStay /\ OneUserPerAddress
  /\ RunningOwnsObjects /\ DeployingIsInHand
  /\ \A r \in Requests : SignsUp(r) /\ HoldsKey(r) /\ Deploys(r)

------------------------------------------------------------------------------
(* What a step is for the requests. *)

Same(q) == pc'[q] = pc[q] /\ req'[q] = req[q] /\ host'[q] = host[q]
Gone(q) == pc'[q] = "idle" /\ req'[q] = None /\ host'[q] = None

LEMMA GotoIs ==
  ASSUME Types, NEW r \in Requests, NEW step, Goto(r, step)
  PROVE  /\ pc'[r] = step /\ req' = req /\ host' = host /\ pc' = [pc EXCEPT ![r] = pc'[r]]
         /\ \A q \in Requests \ {r} : Same(q)
BY DEF Types, RequestTypes, Goto, Same

LEMMA LeaveIs ==
  ASSUME NEW rs, Leave(rs), NEW q \in Requests, Types
  PROVE  (q \in rs => Gone(q)) /\ (q \notin rs => Same(q))
BY DEF Leave, Gone, Same, Types, RequestTypes

LEMMA EndIs ==
  ASSUME NEW p \in Processes, NEW ds, EndWith(p, ds), NEW q \in Requests, Types
  PROVE  (host[q] = p => Gone(q)) /\ (host[q] # p => Same(q))
<1>1. Leave(Of(p))
  BY DEF EndWith
<1>2. q \in Of(p) <=> host[q] = p
  BY DEF Of
<1> QED BY <1>1, <1>2, LeaveIs

\* From step to step within a handler.
Flow ==
  {<<"find", "insertTenant">>, <<"insertTenant", "insertUser">>, <<"insertUser", "removeTenant">>,
   <<"insertUser", "audit">>, <<"removeKey", "audit">>, <<"audit", "readNamespace">>,
   <<"readNamespace", "namespace">>, <<"readNamespace", "deployment">>, <<"namespace", "deployment">>,
   <<"deployment", "service">>, <<"service", "ingress">>, <<"ingress", "run">>,
   <<"readNamespace", "fail">>, <<"namespace", "fail">>, <<"deployment", "fail">>, <<"service", "fail">>,
   <<"ingress", "fail">>, <<"run", "fail">>, <<"findDeployment", "insertMetric">>,
   <<"insertMetric", "audit">>}

\* Request r goes on and knows what it knew.
GoesOn(r) ==
  /\ req' = req /\ host' = host /\ pc' = [pc EXCEPT ![r] = pc'[r]]
  /\ \/ pc[r] = "enter" /\ pc'[r] = "await"
     \/ pc[r] = "enter" /\ pc'[r] = First(req[r].op) /\ memo'[host[r]] = "ready"
     \/ /\ (pc[r] = "auth" /\ req[r].via = "token") \/ pc[r] = "mark"
        /\ pc'[r] = Handler(req[r].op)
     \/ /\ <<pc[r], pc'[r]>> \in Flow
        /\ pc[r] = "find" => req[r].op = "register"
        /\ pc[r] = "audit" => req[r].op = "deploy"

\* Request r goes on with what it has found out or made.
FindsKey(r) ==
  /\ pc[r] = "auth" /\ req[r].via = "key" /\ keys[req[r].key] # None
  /\ req' = [req EXCEPT ![r].account = keys[req[r].key]]
  /\ pc' = [pc EXCEPT ![r] = "mark"] /\ host' = host
  /\ UNCHANGED <<connection, data>>

MakesKey(r, k) ==
  /\ pc[r] = "insertKey" /\ k \in Keys \ born /\ keys[k] = None
  /\ born' = born \cup {k}
  /\ keys' = [keys EXCEPT ![k] = req[r].account]
  /\ req' = [req EXCEPT ![r].key = k]
  /\ pc' = [pc EXCEPT ![r] = "audit"] /\ host' = host
  /\ UNCHANGED <<connection, people, issued, revoked, cluster>>

NewDeployment(r) == [tenant |-> req[r].account, name |-> req[r].name, status |-> "deploying"]

MakesDeployment(r, d) ==
  /\ pc[r] = "insertDeployment" /\ d \in Deployments /\ deployments[d] = None
  /\ deployments' = [deployments EXCEPT ![d] = NewDeployment(r)]
  /\ req' = [req EXCEPT ![r].dep = d]
  /\ pc' = [pc EXCEPT ![r] = "audit"] /\ host' = host
  /\ UNCHANGED <<connection, people, keyring, objects, metrics, abandoned>>

LEMMA FreshKey ==
  ASSUME Types, Room, Keyring, NEW r \in Requests, pc[r] = "insertKey", OnItsWay(r)
  PROVE  LET k == CHOOSE j \in Keys : keys[j] = None /\ j \notin born IN
         k \in Keys \ born /\ keys[k] = None
<1>1. r \in Coming("createKey")
  BY DEF OnItsWay, Coming
<1>2. Cardinality(Coming("createKey")) >= 1 /\ Cardinality(Coming("createKey")) \in Nat
  BY <1>1, FS_EmptySet, FS_CardinalityType DEF Room
<1>3. Cardinality(born) < Cardinality(Keys)
  BY <1>2, FS_CardinalityType, NodeApiAssumption DEF Room
<1>4. born # Keys
  BY <1>3, FS_CardinalityType DEF Room
<1>5. \E j \in Keys : keys[j] = None /\ j \notin born
  BY <1>4 DEF Types, KeyTypes, Keyring
<1> QED BY <1>5

LEMMA FreshDeployment ==
  ASSUME Types, Room, NEW r \in Requests, pc[r] = "insertDeployment", OnItsWay(r)
  PROVE  LET d == CHOOSE e \in Deployments : deployments[e] = None IN
         d \in Deployments /\ deployments[d] = None
<1>1. r \in Coming("deploy")
  BY DEF OnItsWay, Coming
<1>2. Cardinality(Coming("deploy")) >= 1 /\ Cardinality(Coming("deploy")) \in Nat
  BY <1>1, FS_EmptySet, FS_CardinalityType DEF Room
<1>3. Cardinality(Posted) < Cardinality(Deployments)
  BY <1>2, FS_CardinalityType, NodeApiAssumption DEF Room
<1>4. Posted # Deployments
  BY <1>3, FS_CardinalityType DEF Room
<1>5. \E e \in Deployments : deployments[e] = None
  BY <1>4 DEF Posted
<1> QED BY <1>5

\* Every step of a request.
LEMMA Moves ==
  ASSUME Base, NEW r \in Requests, Serve(r)
  PROVE  /\ Busy(r)
         /\ \/ GoesOn(r) /\ (\A q \in Requests \ {r} : Same(q)) /\ UNCHANGED <<up, listening, cols, abandoned>>
            \/ Answer(r) /\ UNCHANGED <<connection, abandoned>>
            \/ \E ds : EndWith(host[r], ds)
            \/ FindsKey(r) \/ (\E k : MakesKey(r, k)) \/ (\E d : MakesDeployment(r, d))
<1> USE DEF Busy, NoFault
<1>0. Types /\ OnItsWay(r) /\ Room /\ Keyring
  BY DEF Base
<1>1. CASE EnsureDatabase(r)
  <2>1. CASE Goto(r, "await") /\ UNCHANGED <<up, listening, cols, abandoned>>
    BY <1>0, <1>1, <2>1, GotoIs DEF EnsureDatabase, GoesOn
  <2>2. CASE Goto(r, First(req[r].op)) /\ memo'[host[r]] = "ready" /\ UNCHANGED <<up, listening, cols, abandoned>>
    BY <1>0, <1>1, <2>2, GotoIs DEF EnsureDatabase, GoesOn
  <2>3. host[r] \in Processes
    BY <1>1 DEF EnsureDatabase, Base, Hosted, Types, ProcessTypes
  <2> QED BY <1>0, <1>1, <2>1, <2>2, <2>3 DEF EnsureDatabase, Types, ProcessTypes, data, cluster
<1>2. CASE AuthenticateJwt(r) \/ MarkApiKeyUsed(r)
  <2>1. CASE Goto(r, Handler(req[r].op))
    BY <1>0, <1>2, <2>1, GotoIs DEF AuthenticateJwt, MarkApiKeyUsed, GoesOn, connection, data, cluster
  <2> QED BY <1>2, <2>1 DEF AuthenticateJwt, MarkApiKeyUsed, data, cluster
<1>3. CASE AuthenticateApiKey(r)
  BY <1>3 DEF AuthenticateApiKey, FindApiKey, FindsKey, data, cluster
<1>4. CASE List(r)
  BY <1>4 DEF List, Unhandled, End
<1>5. ASSUME NEW step, Goto(r, step), <<pc[r], step>> \in Flow, UNCHANGED <<up, listening, cols, abandoned>>,
             pc[r] = "find" => req[r].op = "register",
             pc[r] = "audit" => req[r].op = "deploy"
      PROVE  GoesOn(r) /\ \A q \in Requests \ {r} : Same(q)
  BY <1>0, <1>5, GotoIs DEF GoesOn
<1>6. CASE FindUser(r) \/ InsertTenant(r) \/ InsertUser(r) \/ RemoveTenant(r)
  <2>1. pc[r] # "idle" /\ UNCHANGED <<connection, abandoned>>
    BY <1>6 DEF FindUser, InsertTenant, InsertUser, RemoveTenant, cluster
  <2>2. \/ Answer(r)
        \/ pc[r] = "find" /\ req[r].op = "register" /\ Goto(r, "insertTenant")
        \/ pc[r] = "insertTenant" /\ Goto(r, "insertUser")
        \/ pc[r] = "insertUser" /\ (Goto(r, "audit") \/ Goto(r, "removeTenant"))
    BY <1>6 DEF FindUser, InsertTenant, InsertUser, RemoveTenant
  <2> QED BY <1>5, <2>1, <2>2 DEF Flow, connection
<1>7. CASE InsertKey(r)
  <2>1. PICK k : k = CHOOSE j \in Keys : keys[j] = None /\ j \notin born
    OBVIOUS
  <2>2. k \in Keys \ born /\ keys[k] = None
    BY <1>0, <1>7, <2>1, FreshKey DEF InsertKey
  <2>3. MakesKey(r, k) \/ EndWith(host[r], {})
    BY <1>7, <2>1, <2>2 DEF InsertKey, MakesKey, CreateApiKey, Unhandled, End, cluster
  <2> QED BY <1>7, <2>3 DEF InsertKey
<1>8. CASE RemoveKey(r)
  <2>1. pc[r] = "removeKey" /\ \/ EndWith(host[r], {})
                               \/ UNCHANGED <<connection, abandoned>> /\ (Answer(r) \/ Goto(r, "audit"))
    BY <1>8 DEF RemoveKey, Unhandled, End
  <2> QED BY <1>5, <2>1 DEF Flow, connection
<1>9. CASE Audit(r)
  <2>1. CASE req[r].op = "deploy"
    BY <1>5, <1>9, <2>1 DEF Audit, Flow, connection, cluster
  <2> QED BY <1>9, <2>1 DEF Audit, cluster
<1>10. CASE InsertDeployment(r)
  <2>1. PICK d : d = CHOOSE e \in Deployments : deployments[e] = None
    OBVIOUS
  <2>2. d \in Deployments /\ deployments[d] = None
    BY <1>0, <1>10, <2>1, FreshDeployment DEF InsertDeployment
  <2>3. MakesDeployment(r, d) \/ EndWith(host[r], {}) \/ EndWith(host[r], {d})
    BY <1>10, <2>1, <2>2 DEF InsertDeployment, MakesDeployment, NewDeployment, Unhandled, End
  <2> QED BY <1>10, <2>3 DEF InsertDeployment
<1>11. CASE ReadNamespace(r)
  <2>1. pc[r] = "readNamespace" /\ UNCHANGED <<connection, abandoned>>
        /\ \E step \in {"deployment", "namespace", "fail"} : Goto(r, step)
    BY <1>11 DEF ReadNamespace, data, cluster
  <2> QED BY <1>5, <2>1 DEF Flow, connection
<1>12. CASE CreateObject(r)
  <2>1. pc[r] \in Kinds /\ UNCHANGED <<connection, abandoned>>
        /\ \E step \in {After(pc[r]), "fail"} : Goto(r, step)
    BY <1>12 DEF CreateObject
  <2>2. <<pc[r], After(pc[r])>> \in Flow /\ <<pc[r], "fail">> \in Flow /\ pc[r] # "find" /\ pc[r] # "audit"
    BY <2>1 DEF Kinds, After, Flow
  <2>3. pc[r] # "idle"
    BY <2>1 DEF Kinds
  <2> QED BY <1>5, <2>1, <2>2, <2>3 DEF connection
<1>13. CASE SetRunning(r)
  BY <1>5, <1>13 DEF SetRunning, Flow, connection
<1>14. CASE SetFailed(r)
  BY <1>14 DEF SetFailed, Unhandled, End
<1>15. CASE FindDeployment(r)
  <2>1. pc[r] = "findDeployment" /\ \/ EndWith(host[r], {})
                                    \/ UNCHANGED <<connection, abandoned>> /\ (Answer(r) \/ Goto(r, "insertMetric"))
    BY <1>15 DEF FindDeployment, Unhandled, End
  <2> QED BY <1>5, <2>1 DEF Flow, connection
<1>16. CASE InsertMetric(r)
  BY <1>5, <1>16 DEF InsertMetric, Unhandled, End, Flow, connection
<1> QED BY <1>1, <1>2, <1>3, <1>4, <1>6, <1>7, <1>8, <1>9, <1>10, <1>11, <1>12, <1>13, <1>14, <1>15, <1>16 DEF Serve

\* The connection is there for a request that has waited.
Wakes(q) ==
  /\ pc[q] = "await" /\ pc'[q] = First(req[q].op)
  /\ req'[q] = req[q] /\ host'[q] = host[q] /\ memo'[host[q]] = "ready"

Comes(q) == \E p \in Processes : Arrive(q, p)

\* What a step can be for request q.
LEMMA Turns ==
  ASSUME Base, NEW q \in Requests, Next
  PROVE  \/ Same(q) \/ Gone(q)
         \/ Serve(q) /\ (GoesOn(q) \/ FindsKey(q) \/ (\E k : MakesKey(q, k)) \/ (\E d : MakesDeployment(q, d)))
         \/ Wakes(q) \/ Comes(q)
<1>0. Types
  BY DEF Base
<1>1. ASSUME NEW r \in Requests, Serve(r)
      PROVE  \/ Same(q) \/ Gone(q)
             \/ q = r /\ (GoesOn(q) \/ FindsKey(q) \/ (\E k : MakesKey(q, k)) \/ (\E d : MakesDeployment(q, d)))
  <2>1. host[r] \in Processes
    BY <1>1, Moves DEF Base, Hosted, Types, ProcessTypes
  <2>2. CASE Answer(r)
    BY <1>0, <2>2, LeaveIs DEF Answer
  <2>3. CASE \E ds : EndWith(host[r], ds)
    BY <1>0, <2>1, <2>3, EndIs
  <2>4. CASE FindsKey(r) \/ (\E k : MakesKey(r, k)) \/ (\E d : MakesDeployment(r, d))
    BY <1>0, <2>4 DEF FindsKey, MakesKey, MakesDeployment, Same, Types, RequestTypes
  <2> QED BY <1>1, <2>2, <2>3, <2>4, Moves
<1>2. ASSUME NEW p \in Processes, Connect(p) \/ Die(p)
      PROVE  Same(q) \/ Gone(q) \/ Wakes(q)
  <2>1. CASE UNCHANGED <<pc, req, host>>
    BY <2>1 DEF Same
  <2>2. CASE \E ds : EndWith(p, ds)
    BY <1>0, <2>2, EndIs
  <2>3. CASE \E rs : Leave(rs)
    BY <1>0, <2>3, LeaveIs
  <2>4. CASE Connected(p) /\ p \in Functions
    BY <1>0, <2>4 DEF Connected, Proceed, Of, Same, Wakes, Types, RequestTypes, ProcessTypes
  <2>5. CASE Connected(p) /\ p \notin Functions
    BY <2>1, <2>5 DEF Connected
  <2> QED BY <1>2, <2>1, <2>2, <2>3, <2>4, <2>5 DEF Connect, StartServer, ConnectFails, CreateIndexes, Closed, Die, End
<1>3. ASSUME NEW r \in Requests, NEW p \in Processes, Arrive(r, p)
      PROVE  Same(q) \/ (q = r /\ Comes(q))
  BY <1>0, <1>3 DEF Arrive, Same, Comes, Types, RequestTypes
<1> QED BY <1>1, <1>2, <1>3 DEF Next

------------------------------------------------------------------------------
(* Processes. *)

\* Only EnsureDatabase and EndWith change the processes in a request.
LEMMA ServersSee ==
  ASSUME Base, NEW r \in Requests, Serve(r)
  PROVE  UNCHANGED connection \/ EnsureDatabase(r) \/ \E ds : EndWith(host[r], ds)
BY Moves DEF Serve, EnsureDatabase, AuthenticateJwt, AuthenticateApiKey, MarkApiKeyUsed, List, FindUser, InsertTenant,
   InsertUser, RemoveTenant, InsertKey, RemoveKey, Audit, InsertDeployment, ReadNamespace, CreateObject,
   SetRunning, SetFailed, FindDeployment, InsertMetric, Unhandled, End

LEMMA EndedProcess ==
  ASSUME ProcessTypes, Connection, NEW p \in Processes, NEW ds, EndWith(p, ds)
  PROVE  Connection' /\ ProcessTypes'
BY DEF EndWith, Connection, ProcessTypes

LEMMA ProcessesKept ==
  ASSUME Base, Next
  PROVE  Connection' /\ ProcessTypes'
<1>0. Connection /\ ProcessTypes
  BY DEF Base, Types
<1>1. CASE UNCHANGED connection
  BY <1>0, <1>1 DEF connection, Connection, ProcessTypes
<1>2. ASSUME NEW r \in Requests, EnsureDatabase(r)
      PROVE  Connection' /\ ProcessTypes'
  <2>1. host[r] \in up /\ (host[r] \in Servers => host[r] \in listening)
    BY <1>2 DEF EnsureDatabase, Base, Hosted, Busy
  <2>2. host[r] \in Processes /\ (host[r] \notin cols => host[r] \in Functions)
    BY <1>0, <2>1 DEF Connection, ProcessTypes, Processes
  <2>3. CASE UNCHANGED <<memo, phase>>
    BY <1>0, <1>2, <2>3 DEF EnsureDatabase, Connection, ProcessTypes
  <2>4. CASE memo[host[r]] = "none" /\ host[r] \in cols /\ memo' = [memo EXCEPT ![host[r]] = "ready"] /\ UNCHANGED phase
    <3>1. phase[host[r]] = "none"
      BY <1>0, <2>1, <2>2, <2>4 DEF Connection, Processes
    <3> QED BY <1>0, <1>2, <2>2, <2>4, <3>1 DEF EnsureDatabase, Connection, ProcessTypes
  <2>5. CASE /\ memo[host[r]] = "none" /\ host[r] \notin cols
             /\ memo' = [memo EXCEPT ![host[r]] = "pending"]
             /\ phase' = [phase EXCEPT ![host[r]] = "connect"]
    <3>1. host[r] \notin listening
      BY <1>0, <2>2, <2>5 DEF Connection
    <3> QED BY <1>0, <1>2, <2>1, <2>2, <2>5, <3>1 DEF EnsureDatabase, Connection, ProcessTypes
  <2> QED BY <1>2, <2>3, <2>4, <2>5 DEF EnsureDatabase
<1>3. ASSUME NEW r \in Requests, Serve(r)
      PROVE  Connection' /\ ProcessTypes'
  <2>1. host[r] \in Processes
    BY <1>3, Moves DEF Base, Hosted, Types, ProcessTypes
  <2> QED BY <1>0, <1>1, <1>2, <1>3, <2>1, ServersSee, EndedProcess
<1>4. ASSUME NEW p \in Processes, Connect(p) \/ Die(p)
      PROVE  Connection' /\ ProcessTypes'
  <2>1. CASE StartServer(p)
    BY <1>0, <2>1, NodeApiAssumption DEF StartServer, ListenAtStart, Connection, ProcessTypes
  <2>2. CASE Connected(p)
    BY <1>0, <2>2 DEF Connected, Connection, ProcessTypes, Processes
  <2>3. CASE ConnectFails(p)
    BY <1>0, <2>3 DEF ConnectFails, Connection, ProcessTypes
  <2>4. CASE CreateIndexes(p)
    BY <1>0, <2>4 DEF CreateIndexes, Connection, ProcessTypes
  <2>5. CASE Closed(p)
    <3>1. CASE p \in Servers
      BY <1>0, <2>5, <3>1, EndedProcess DEF Closed, End
    <3>2. CASE p \notin Servers
      BY <1>0, <2>5, <3>2 DEF Closed, Connection, ProcessTypes
    <3> QED BY <3>1, <3>2
  <2>6. CASE Die(p)
    BY <1>0, <2>6, EndedProcess DEF Die, End
  <2> QED BY <1>4, <2>1, <2>2, <2>3, <2>4, <2>5, <2>6 DEF Connect
<1>5. ASSUME NEW r \in Requests, NEW p \in Processes, Arrive(r, p)
      PROVE  Connection' /\ ProcessTypes'
  BY <1>0, <1>5 DEF Arrive, Connection, ProcessTypes
<1> QED BY <1>3, <1>4, <1>5 DEF Next

\* A process stays as a request has found it, until it ends.
LEMMA Stands ==
  ASSUME Base, NEW p \in Processes, Next
  PROVE  \/ \E ds : EndWith(p, ds)
         \/ /\ p \in up => p \in up'
            /\ p \in listening => p \in listening'
            /\ memo[p] = "ready" => memo'[p] = "ready"
<1>0. Connection /\ ProcessTypes
  BY DEF Base, Types
<1>1. CASE UNCHANGED connection
  BY <1>1 DEF connection
<1>2. ASSUME NEW o \in Processes, NEW ds, EndWith(o, ds), o # p
      PROVE  /\ p \in up => p \in up'
             /\ p \in listening => p \in listening'
             /\ memo[p] = "ready" => memo'[p] = "ready"
  BY <1>0, <1>2 DEF EndWith, ProcessTypes
<1>3. ASSUME NEW r \in Requests, Serve(r)
      PROVE  \/ \E ds : EndWith(p, ds)
             \/ /\ p \in up => p \in up'
                /\ p \in listening => p \in listening'
                /\ memo[p] = "ready" => memo'[p] = "ready"
  <2>1. host[r] \in Processes
    BY <1>3, Moves DEF Base, Hosted, Types, ProcessTypes
  <2>2. CASE EnsureDatabase(r)
    BY <1>0, <2>1, <2>2 DEF EnsureDatabase, ProcessTypes
  <2> QED BY <1>1, <1>2, <1>3, <2>1, <2>2, ServersSee
<1>4. ASSUME NEW o \in Processes, Connect(o) \/ Die(o)
      PROVE  \/ \E ds : EndWith(p, ds)
             \/ /\ p \in up => p \in up'
                /\ p \in listening => p \in listening'
                /\ memo[p] = "ready" => memo'[p] = "ready"
  <2>1. CASE \E ds : EndWith(o, ds)
    BY <1>2, <2>1
  <2>2. CASE Closed(o) /\ o \notin Servers
    BY <1>0, <2>2 DEF Closed, Connection, ProcessTypes
  <2>3. CASE StartServer(o) \/ Connected(o) \/ ConnectFails(o) \/ CreateIndexes(o)
    BY <1>0, <2>3 DEF StartServer, ListenAtStart, Connected, ConnectFails, CreateIndexes, ProcessTypes
  <2> QED BY <1>4, <2>1, <2>2, <2>3 DEF Connect, Die, Closed, End
<1> QED BY <1>3, <1>4 DEF Next, Arrive

LEMMA HostsKept ==
  ASSUME Base, Next, NEW q \in Requests
  PROVE  Hosted(q)'
<1>0. Types /\ Hosted(q) /\ None \notin Processes
  BY NodeApiAssumption DEF Base
<1>1. CASE Gone(q)
  BY <1>1 DEF Gone, Hosted, Busy
<1>2. CASE host'[q] = host[q] /\ Busy(q) /\ Busy(q)' /\ (pc'[q] \in {"enter", "await"} \/ memo'[host[q]] = "ready"
                                                       \/ pc[q] \notin {"enter", "await"})
  <2>1. host[q] \in Processes
    BY <1>0, <1>2 DEF Hosted, Types, ProcessTypes
  <2>2. CASE \E ds : EndWith(host[q], ds)
    BY <1>0, <1>1, <2>1, <2>2, EndIs
  <2> QED BY <1>0, <1>2, <2>1, <2>2, Stands DEF Hosted, Busy
<1>3. CASE Same(q)
  BY <1>0, <1>2, <1>3 DEF Same, Hosted, Busy
<1>4. CASE Serve(q) /\ GoesOn(q)
  <2>1. Busy(q) /\ Busy(q)'
    BY <1>4, Moves DEF GoesOn, Flow, First, Handler, Busy, Base, Asks, OnItsWay, Asked, Ops
  <2> QED BY <1>2, <1>4, <2>1 DEF GoesOn, Flow
<1>5. CASE FindsKey(q) \/ (\E k : MakesKey(q, k)) \/ (\E d : MakesDeployment(q, d))
  BY <1>0, <1>2, <1>5 DEF FindsKey, MakesKey, MakesDeployment, Busy, Types, RequestTypes
<1>6. CASE Wakes(q)
  BY <1>2, <1>6 DEF Wakes, First, Busy
<1>7. CASE Comes(q)
  <2>1. PICK p \in Processes : Arrive(q, p)
    BY <1>7 DEF Comes
  <2>2. p \in up' /\ (p \in Servers => p \in listening') /\ host'[q] = p /\ pc'[q] = "enter"
    BY <1>0, <2>1, NodeApiAssumption DEF Arrive, Types, RequestTypes
  <2> QED BY <2>2 DEF Hosted, Busy
<1> QED BY <1>1, <1>3, <1>4, <1>5, <1>6, <1>7, Turns

------------------------------------------------------------------------------
(* Requests. *)

\* What a request knows when it arrives.
LEMMA BodyIs ==
  ASSUME Types, NEW q \in Bodies
  PROVE  /\ q \in Asked
         /\ q.op \in Ops
         /\ q.via = "none" <=> q.op \in {"register", "login"}
         /\ q.op \in {"createKey", "deleteKey"} => q.via = "token"
         /\ q.via = "key" => q.key \in issued
         /\ q.op = "deleteKey" => q.key \in Keys
         /\ q.via # "key" => q.account \in Accounts
         /\ q.op = "deploy" => q.name \in Names /\ q.dep = None
         /\ q.op = "metric" => q.dep \in Deployments
         /\ q.late => q.via = "key" /\ q.key \in revoked
         /\ q.op = "register" => q.account \in Unborn
<1>0. /\ users \subseteq Accounts /\ tokens \subseteq Accounts /\ Unborn \subseteq Accounts
      /\ issued \subseteq Keys /\ revoked \subseteq Keys
  BY DEF Types, PeopleTypes, KeyTypes, Unborn
<1>1. ASSUME NEW op \in Ops, NEW via \in {"none", "token", "key"}, NEW a \in Accounts \cup {None},
             NEW k \in Keys \cup {None}, NEW b, b = Body(op, via, a, k)
      PROVE  /\ b \in Asked /\ b.op = op /\ b.via = via /\ b.account = a /\ b.key = k /\ b.dep = None
             /\ b.late => via = "key" /\ k \in revoked
  BY <1>1 DEF Body, Asked
<1>2. ASSUME NEW op \in Ops, NEW via \in {"none", "token", "key"}, NEW a \in Accounts \cup {None},
             NEW k \in Keys \cup {None}, q \in About(Body(op, via, a, k))
      PROVE  /\ q \in Asked /\ q.op = op /\ q.via = via /\ q.account = a /\ q.key = k
             /\ q.op = "deploy" => q.name \in Names /\ q.dep = None
             /\ q.op = "metric" => q.dep \in Deployments
             /\ q.late => via = "key" /\ k \in revoked
  <2>1. PICK b : b = Body(op, via, a, k)
    OBVIOUS
  <2>2. /\ b \in Asked /\ b.op = op /\ b.via = via /\ b.account = a /\ b.key = k /\ b.dep = None
        /\ b.late => via = "key" /\ k \in revoked
    BY <1>1, <2>1
  <2>3. CASE op = "deploy"
    <3>1. PICK n \in Names : q = [b EXCEPT !.name = n]
      BY <1>2, <2>1, <2>2, <2>3 DEF About
    <3>2. /\ q.op = b.op /\ q.via = b.via /\ q.account = b.account /\ q.key = b.key /\ q.name = n /\ q.dep = b.dep
          /\ q.late = b.late /\ (q.late <=> b.late) /\ q \in Asked
      BY <2>2, <3>1 DEF Asked
    <3> QED BY <2>2, <2>3, <3>2
  <2>4. CASE op = "metric"
    <3>1. PICK d \in Deployments : q = [b EXCEPT !.dep = d]
      BY <1>2, <2>1, <2>2, <2>4 DEF About
    <3>2. /\ q.op = b.op /\ q.via = b.via /\ q.account = b.account /\ q.key = b.key /\ q.name = b.name /\ q.dep = d
          /\ q.late = b.late /\ (q.late <=> b.late) /\ q \in Asked
      BY <2>2, <3>1 DEF Asked
    <3> QED BY <2>2, <2>4, <3>2
  <2>5. CASE op \notin {"deploy", "metric"}
    <3>1. q = b
      BY <1>2, <2>1, <2>2, <2>5 DEF About
    <3> QED BY <2>2, <2>5, <3>1
  <2> QED BY <2>3, <2>4, <2>5
<1>3. ASSUME NEW op \in {"register", "login", "deleteKey"}, NEW via \in {"none", "token"}, NEW a \in Accounts,
             NEW k \in Keys \cup {None}, q = Body(op, via, a, k)
      PROVE  /\ q \in Asked /\ q.op = op /\ q.via = via /\ q.account = a /\ q.key = k
             /\ q.late => via = "key" /\ k \in revoked
  BY <1>1, <1>3 DEF Ops
<1>4. CASE q \in {Body("register", "none", a, None) : a \in Unborn}
  <2>1. PICK a \in Unborn : q = Body("register", "none", a, None)
    BY <1>4
  <2>2. /\ q \in Asked /\ q.op = "register" /\ q.via = "none" /\ q.account = a /\ q.key = None
        /\ q.late => "none" = "key" /\ None \in revoked
    BY <1>0, <1>3, <2>1
  <2> QED BY <1>0, <2>2 DEF Ops
<1>5. CASE q \in {Body("login", "none", a, None) : a \in users}
  <2>1. PICK a \in users : q = Body("login", "none", a, None)
    BY <1>5
  <2>2. /\ q \in Asked /\ q.op = "login" /\ q.via = "none" /\ q.account = a /\ q.key = None
        /\ q.late => "none" = "key" /\ None \in revoked
    BY <1>0, <1>3, <2>1
  <2> QED BY <1>0, <2>2 DEF Ops
<1>6. CASE q \in {Body("deleteKey", "token", a, k) : a \in tokens, k \in {j \in Keys : keys[j] # None} \cup revoked}
  <2>1. PICK a \in tokens, k \in Keys : q = Body("deleteKey", "token", a, k)
    BY <1>0, <1>6
  <2>2. /\ q \in Asked /\ q.op = "deleteKey" /\ q.via = "token" /\ q.account = a /\ q.key = k
        /\ q.late => "token" = "key" /\ k \in revoked
    BY <1>0, <1>3, <2>1
  <2> QED BY <1>0, <2>2 DEF Ops
<1>7. CASE q \in UNION {About(Body(op, "token", a, None)) :
                          op \in {"list", "createKey", "deploy", "metric"}, a \in tokens}
  <2>1. PICK op \in {"list", "createKey", "deploy", "metric"}, a \in tokens : q \in About(Body(op, "token", a, None))
    BY <1>7
  <2>2. op \in Ops /\ "token" \in {"none", "token", "key"} /\ a \in Accounts \cup {None} /\ None \in Keys \cup {None}
    BY <1>0 DEF Ops
  <2>3. /\ q \in Asked /\ q.op = op /\ q.via = "token" /\ q.account = a
        /\ q.op = "deploy" => q.name \in Names /\ q.dep = None
        /\ q.op = "metric" => q.dep \in Deployments
        /\ q.late => "token" = "key" /\ None \in revoked
    BY <1>2, <2>1, <2>2
  <2> QED BY <1>0, <2>2, <2>3
<1>8. CASE q \in UNION {About(Body(op, "key", None, k)) : op \in {"list", "deploy", "metric"}, k \in issued}
  <2>1. PICK op \in {"list", "deploy", "metric"}, k \in issued : q \in About(Body(op, "key", None, k))
    BY <1>8
  <2>2. op \in Ops /\ "key" \in {"none", "token", "key"} /\ None \in Accounts \cup {None} /\ k \in Keys \cup {None}
    BY <1>0 DEF Ops
  <2>3. /\ q \in Asked /\ q.op = op /\ q.via = "key" /\ q.key = k
        /\ q.op = "deploy" => q.name \in Names /\ q.dep = None
        /\ q.op = "metric" => q.dep \in Deployments
        /\ q.late => "key" = "key" /\ k \in revoked
    BY <1>2, <2>1, <2>2
  <2> QED BY <1>0, <2>2, <2>3
<1> QED BY <1>4, <1>5, <1>6, <1>7, <1>8 DEF Bodies

LEMMA ComesWith ==
  ASSUME Types, NEW q \in Requests, Comes(q)
  PROVE  req'[q] \in Bodies /\ pc'[q] = "enter" /\ pc[q] = "idle" /\ host'[q] \in Processes
         /\ arrived < MaxRequests /\ arrived' = arrived + 1 /\ UNCHANGED data
         /\ \A s \in Requests \ {q} : Same(s)
BY DEF Comes, Arrive, Same, Types, RequestTypes

LEMMA AskingKept ==
  ASSUME Base, Next, NEW r \in Requests, HoldsKey(r)
  PROVE  /\ Asks(r)' /\ OnItsWay(r)'
         /\ req'[r] \in Asked \cup {None} /\ pc'[r] \in Steps /\ host'[r] \in Processes \cup {None}
<1>0. Types /\ Asks(r) /\ OnItsWay(r) /\ pc[r] \in Steps /\ req[r] \in Asked \cup {None}
      /\ host[r] \in Processes \cup {None}
  BY DEF Base, Types, RequestTypes
<1> USE DEF Entering, Making, Kinds, Steps
<1>1. CASE Gone(r)
  BY <1>1 DEF Gone, Asks, OnItsWay, Busy
<1>2. CASE Same(r)
  BY <1>0, <1>2 DEF Same, Asks, OnItsWay, Busy
<1>3. CASE (Serve(r) /\ GoesOn(r)) \/ Wakes(r)
  <2>1. Busy(r) /\ req'[r] = req[r] /\ host'[r] = host[r]
    BY <1>3, Moves DEF GoesOn, Wakes, Busy
  <2>2. req[r] \in Asked /\ req[r].op \in Ops
    BY <1>0, <2>1 DEF Asks, Asked
  <2>3. CASE <<pc[r], pc'[r]>> \in Flow /\ (pc[r] = "find" => req[r].op = "register")
             /\ (pc[r] = "audit" => req[r].op = "deploy")
    <3>1. OnItsWay(r)'
      BY <1>0, <2>1, <2>2, <2>3 DEF Flow, OnItsWay, Ops
    <3>2. Asks(r)'
      BY <1>0, <2>1, <2>2, <2>3 DEF Flow, OnItsWay, Asks, Busy, Ops
    <3>3. pc'[r] \in Steps
      BY <2>3 DEF Flow
    <3> QED BY <1>0, <2>1, <3>1, <3>2, <3>3
  <2>4. CASE pc[r] \in {"enter", "await"} /\ pc'[r] \in {First(req[r].op), "await"}
    <3>1. OnItsWay(r)' /\ pc'[r] \in {"find", "auth", "await"}
      BY <2>1, <2>4 DEF First, OnItsWay
    <3> QED BY <1>0, <2>1, <2>2, <2>4, <3>1 DEF Asks, Busy, First, Ops
  <2>5. CASE ((pc[r] = "auth" /\ req[r].via = "token") \/ pc[r] = "mark") /\ pc'[r] = Handler(req[r].op)
    <3>1. req[r].op \in {"list", "createKey", "deleteKey", "deploy", "metric"}
      BY <1>0, <2>2, <2>5 DEF OnItsWay, Ops
    <3>2. OnItsWay(r)' /\ pc'[r] \in {"list", "insertKey", "removeKey", "insertDeployment", "findDeployment"}
      BY <2>1, <2>5, <3>1 DEF OnItsWay, Handler
    <3> QED BY <1>0, <2>1, <2>2, <2>5, <3>2 DEF Asks, Busy
  <2> QED BY <1>3, <2>1, <2>3, <2>4, <2>5 DEF GoesOn, Wakes
<1>4. CASE FindsKey(r)
  <2>1. PICK a \in Accounts : a = keys[req[r].key]
    BY <1>0, <1>4 DEF FindsKey, Asks, Busy, Types, KeyTypes
  <2>2. PICK b : b = [req[r] EXCEPT !.account = a]
    OBVIOUS
  <2>3. req[r] \in Asked
    BY <1>0, <1>4 DEF FindsKey, Asks, Busy
  <2>4. /\ b \in Asked /\ b.op = req[r].op /\ b.via = req[r].via /\ b.account = a /\ b.key = req[r].key
        /\ b.name = req[r].name /\ b.dep = req[r].dep /\ b.late = req[r].late /\ (b.late <=> req[r].late)
    BY <2>2, <2>3 DEF Asked
  <2>5. req'[r] = b /\ pc'[r] = "mark" /\ host'[r] = host[r]
    BY <1>0, <1>4, <2>1, <2>2 DEF FindsKey, Types, RequestTypes
  <2>6. OnItsWay(r)'
    BY <1>0, <1>4, <2>4, <2>5 DEF FindsKey, OnItsWay
  <2>7. pc[r] = "auth" /\ req[r].via = "key" /\ req[r].key \in Keys /\ keys[req[r].key] # None /\ ~req[r].late
    BY <1>0, <1>4 DEF FindsKey, Asks, Busy, HoldsKey, Base, Keyring
  <2>8. Asks(r)'
    BY <1>0, <2>1, <2>4, <2>5, <2>7 DEF Asks, Busy
  <2> QED BY <1>0, <2>4, <2>5, <2>6, <2>8
<1>5. ASSUME NEW k, MakesKey(r, k)
      PROVE  Asks(r)' /\ OnItsWay(r)' /\ req'[r] \in Asked /\ pc'[r] = "audit" /\ host'[r] = host[r]
  <2>1. PICK b : b = [req[r] EXCEPT !.key = k]
    OBVIOUS
  <2>2. req[r] \in Asked /\ k \in Keys
    BY <1>0, <1>5 DEF MakesKey, Asks, Busy
  <2>3. /\ b \in Asked /\ b.op = req[r].op /\ b.via = req[r].via /\ b.account = req[r].account /\ b.key = k
        /\ b.name = req[r].name /\ b.dep = req[r].dep /\ b.late = req[r].late /\ (b.late <=> req[r].late)
    BY <2>1, <2>2 DEF Asked
  <2>4. req'[r] = b /\ pc'[r] = "audit" /\ host'[r] = host[r]
    BY <1>0, <1>5, <2>1 DEF MakesKey, Types, RequestTypes
  <2>5. pc[r] = "insertKey" /\ req[r].op = "createKey"
    BY <1>0, <1>5 DEF MakesKey, OnItsWay
  <2> QED BY <1>0, <2>2, <2>3, <2>4, <2>5 DEF OnItsWay, Asks, Busy
<1>6. ASSUME NEW d, MakesDeployment(r, d)
      PROVE  Asks(r)' /\ OnItsWay(r)' /\ req'[r] \in Asked /\ pc'[r] = "audit" /\ host'[r] = host[r]
  <2>1. PICK b : b = [req[r] EXCEPT !.dep = d]
    OBVIOUS
  <2>2. req[r] \in Asked /\ d \in Deployments
    BY <1>0, <1>6 DEF MakesDeployment, Asks, Busy
  <2>3. /\ b \in Asked /\ b.op = req[r].op /\ b.via = req[r].via /\ b.account = req[r].account /\ b.key = req[r].key
        /\ b.name = req[r].name /\ b.dep = d /\ b.late = req[r].late /\ (b.late <=> req[r].late)
    BY <2>1, <2>2 DEF Asked
  <2>4. req'[r] = b /\ pc'[r] = "audit" /\ host'[r] = host[r]
    BY <1>0, <1>6, <2>1 DEF MakesDeployment, Types, RequestTypes
  <2>5. pc[r] = "insertDeployment" /\ req[r].op = "deploy"
    BY <1>0, <1>6 DEF MakesDeployment, OnItsWay
  <2> QED BY <1>0, <2>2, <2>3, <2>4, <2>5 DEF OnItsWay, Asks, Busy
<1>7. CASE Comes(r)
  <2>1. PICK b \in Bodies : req'[r] = b /\ pc'[r] = "enter" /\ host'[r] \in Processes
    BY <1>0, <1>7, ComesWith
  <2>2. issued \subseteq Keys
    BY <1>0 DEF Types, KeyTypes
  <2> QED BY <1>0, <2>1, <2>2, BodyIs DEF Asks, OnItsWay, Busy
<1> QED BY <1>0, <1>1, <1>2, <1>3, <1>4, <1>5, <1>6, <1>7, Turns

LEMMA RequestsTyped ==
  ASSUME Base, Next, \A r \in Requests : HoldsKey(r)
  PROVE  RequestTypes'
<1>0. RequestTypes
  BY DEF Base, Types
<1>1. \A r \in Requests : req'[r] \in Asked \cup {None} /\ pc'[r] \in Steps /\ host'[r] \in Processes \cup {None}
  BY AskingKept
<1> DEFINE Whole ==
      /\ req' = [r \in Requests |-> req'[r]]
      /\ pc' = [r \in Requests |-> pc'[r]]
      /\ host' = [r \in Requests |-> host'[r]]
<1>2. ASSUME NEW r \in Requests, Serve(r)
      PROVE  Whole
  <2>1. GoesOn(r) \/ (\E rs : Leave(rs)) \/ FindsKey(r) \/ (\E k : MakesKey(r, k)) \/ \E d : MakesDeployment(r, d)
    BY <1>2, Moves DEF Answer, EndWith
  <2>2. CASE \E rs : Leave(rs)
    BY <2>2 DEF Leave
  <2> QED BY <1>0, <2>1, <2>2 DEF RequestTypes, GoesOn, FindsKey, MakesKey, MakesDeployment
<1>3. ASSUME NEW p \in Processes, Connect(p) \/ Die(p)
      PROVE  Whole
  <2>1. CASE UNCHANGED <<req, host>> /\ (UNCHANGED pc \/ Proceed(p))
    BY <1>0, <2>1 DEF RequestTypes, Proceed
  <2>2. CASE \E rs : Leave(rs)
    BY <2>2 DEF Leave
  <2> QED BY <1>3, <2>1, <2>2 DEF Connect, StartServer, Connected, ConnectFails, CreateIndexes, Closed, Die, End, EndWith
<1>4. ASSUME NEW r \in Requests, NEW p \in Processes, Arrive(r, p)
      PROVE  Whole
  BY <1>0, <1>4 DEF RequestTypes, Arrive
<1>5. Whole
  BY <1>2, <1>3, <1>4 DEF Next
<1> QED BY <1>1, <1>5 DEF RequestTypes

------------------------------------------------------------------------------
(* Documents and objects. *)

\* Who writes the documents of tenants and users, of keys, and the cluster.
LEMMA Writers ==
  ASSUME Next
  PROVE  /\ UNCHANGED people \/ \E r \in Requests :
              FindUser(r) \/ InsertTenant(r) \/ InsertUser(r) \/ RemoveTenant(r) \/ Audit(r)
         /\ UNCHANGED keyring \/ \E r \in Requests : InsertKey(r) \/ RemoveKey(r) \/ Audit(r)
         /\ UNCHANGED <<deployments, objects, metrics>> \/ \E r \in Requests :
              InsertDeployment(r) \/ CreateObject(r) \/ SetRunning(r) \/ SetFailed(r) \/ InsertMetric(r)
         /\ UNCHANGED abandoned \/ (\E p \in Processes : End(p)) \/ \E r \in Requests :
              End(host[r]) \/ InsertDeployment(r)
<1> USE DEF data, cluster
<1>1. ASSUME NEW p \in Processes, Connect(p) \/ Die(p)
      PROVE  /\ UNCHANGED <<people, keyring, deployments, objects, metrics>>
             /\ UNCHANGED abandoned \/ End(p)
  BY <1>1 DEF Connect, StartServer, Connected, ConnectFails, CreateIndexes, Closed, Die
<1>2. ASSUME NEW r \in Requests, NEW p \in Processes, Arrive(r, p)
      PROVE  UNCHANGED data
  BY <1>2 DEF Arrive
<1>3. ASSUME NEW r \in Requests, Serve(r)
      PROVE  /\ UNCHANGED people \/ FindUser(r) \/ InsertTenant(r) \/ InsertUser(r) \/ RemoveTenant(r) \/ Audit(r)
             /\ UNCHANGED keyring \/ InsertKey(r) \/ RemoveKey(r) \/ Audit(r)
             /\ UNCHANGED <<deployments, objects, metrics>> \/ InsertDeployment(r) \/ CreateObject(r)
                  \/ SetRunning(r) \/ SetFailed(r) \/ InsertMetric(r)
             /\ UNCHANGED abandoned \/ End(host[r]) \/ InsertDeployment(r)
  BY <1>3 DEF Serve, EnsureDatabase, AuthenticateJwt, AuthenticateApiKey, MarkApiKeyUsed, List, FindUser, InsertTenant,
     InsertUser, RemoveTenant, InsertKey, RemoveKey, Audit, InsertDeployment, ReadNamespace, CreateObject,
     SetRunning, SetFailed, FindDeployment, InsertMetric, Unhandled, keyring
<1> QED BY <1>1, <1>2, <1>3 DEF Next

LEMMA PeopleKept ==
  ASSUME Base, Next
  PROVE  PeopleTypes'
<1>0. PeopleTypes
  BY DEF Base, Types
<1>1. CASE UNCHANGED people
  BY <1>0, <1>1 DEF people, PeopleTypes
<1>2. ASSUME NEW r \in Requests,
             FindUser(r) \/ InsertTenant(r) \/ InsertUser(r) \/ RemoveTenant(r) \/ Audit(r)
      PROVE  PeopleTypes'
  <2>0. Busy(r)
    BY <1>2 DEF FindUser, InsertTenant, InsertUser, RemoveTenant, Audit, Busy
  <2>1. pc[r] # "audit" \/ req[r].op = "register" => req[r].account \in Accounts
    BY <1>2, <2>0 DEF FindUser, InsertTenant, InsertUser, RemoveTenant, Audit, Base, Asks, OnItsWay, Entering
  <2>2. CASE FindUser(r)
    BY <1>0, <2>2 DEF FindUser, PeopleTypes
  <2>3. CASE InsertTenant(r)
    BY <1>0, <2>1, <2>3 DEF InsertTenant, PeopleTypes
  <2>4. CASE InsertUser(r)
    BY <1>0, <2>1, <2>4 DEF InsertUser, PeopleTypes
  <2>5. CASE RemoveTenant(r)
    BY <1>0, <2>5 DEF RemoveTenant, TenantMade, PeopleTypes
  <2>6. CASE Audit(r)
    BY <1>0, <2>1, <2>6 DEF Audit, PeopleTypes
  <2> QED BY <1>2, <2>2, <2>3, <2>4, <2>5, <2>6
<1> QED BY <1>1, <1>2, Writers

\* What happens to the keys.
LEMMA KeysKept ==
  ASSUME Base, Next, \A r \in Requests : HoldsKey(r)
  PROVE  KeyTypes' /\ Keyring' /\ born \subseteq born' /\ revoked \subseteq revoked'
         /\ \A k \in born : keys[k] = None => keys'[k] = None
<1>0. KeyTypes /\ Keyring
  BY DEF Base, Types
<1>1. CASE UNCHANGED keyring
  BY <1>0, <1>1 DEF keyring, KeyTypes, Keyring
<1>2. ASSUME NEW r \in Requests, InsertKey(r)
      PROVE  KeyTypes' /\ Keyring' /\ born \subseteq born' /\ revoked \subseteq revoked'
             /\ \A k \in born : keys[k] = None => keys'[k] = None
  <2>1. PICK k : k = CHOOSE j \in Keys : keys[j] = None /\ j \notin born
    OBVIOUS
  <2>2. k \in Keys \ born /\ keys[k] = None
    BY <1>2, <2>1, FreshKey DEF InsertKey, Base
  <2>3. req[r].account \in Accounts
    BY <1>2 DEF InsertKey, Base, Asks, Busy, Entering
  <2>4. /\ born' = born \cup {k} /\ UNCHANGED <<issued, revoked>>
        /\ keys' = keys \/ keys' = [keys EXCEPT ![k] = req[r].account]
    BY <1>2, <2>1 DEF InsertKey, CreateApiKey
  <2>5. k \notin revoked
    BY <1>0, <2>2 DEF Keyring
  <2> QED BY <1>0, <2>2, <2>3, <2>4, <2>5 DEF KeyTypes, Keyring
<1>3. ASSUME NEW r \in Requests, RemoveKey(r)
      PROVE  KeyTypes' /\ Keyring' /\ born \subseteq born' /\ revoked \subseteq revoked'
             /\ \A k \in born : keys[k] = None => keys'[k] = None
  <2>1. keys' \in {keys, [keys EXCEPT ![req[r].key] = None]} /\ UNCHANGED <<born, issued, revoked>>
    BY <1>3 DEF RemoveKey
  <2> QED BY <1>0, <2>1 DEF KeyTypes, Keyring
<1>4. ASSUME NEW r \in Requests, Audit(r)
      PROVE  KeyTypes' /\ Keyring' /\ born \subseteq born' /\ revoked \subseteq revoked'
             /\ \A k \in born : keys[k] = None => keys'[k] = None
  <2>1. /\ req[r].op = "createKey" => req[r].key \in born
        /\ req[r].op = "deleteKey" => req[r].key \in born /\ keys[req[r].key] = None
    BY <1>4 DEF Audit, HoldsKey, Busy
  <2>2. UNCHANGED <<keys, born>>
        /\ issued' = (IF req[r].op = "createKey" THEN issued \cup {req[r].key} ELSE issued)
        /\ revoked' = (IF req[r].op = "deleteKey" THEN revoked \cup {req[r].key} ELSE revoked)
    BY <1>4 DEF Audit
  <2> QED BY <1>0, <2>1, <2>2 DEF KeyTypes, Keyring
<1> QED BY <1>1, <1>2, <1>3, <1>4, Writers

\* What happens to a deployment: it is made, and then only its status changes.
LEMMA DocumentsKept ==
  ASSUME Base, Next, \A r \in Requests : Deploys(r)
  PROVE  /\ deployments' \in [Deployments -> DeploymentRecord \cup {None}]
         /\ \A d \in Deployments : deployments[d] # None =>
              /\ deployments'[d] # None
              /\ deployments'[d].tenant = deployments[d].tenant
              /\ deployments'[d].name = deployments[d].name
<1>0. deployments \in [Deployments -> DeploymentRecord \cup {None}]
  BY DEF Base, Types, ClusterTypes
<1> DEFINE Good(doc) ==
      /\ doc \in [Deployments -> DeploymentRecord \cup {None}]
      /\ \A d \in Deployments : deployments[d] # None =>
           /\ doc[d] # None
           /\ doc[d].tenant = deployments[d].tenant
           /\ doc[d].name = deployments[d].name
<1>1. Good(deployments)
  BY <1>0
<1>2. ASSUME NEW d \in Deployments, NEW s \in {"running", "failed"}, deployments[d] # None
      PROVE  Good(WithStatus(d, s))
  <2>1. PICK e \in DeploymentRecord : e = [deployments[d] EXCEPT !.status = s]
    BY <1>0, <1>2 DEF DeploymentRecord
  <2>2. e.tenant = deployments[d].tenant /\ e.name = deployments[d].name
    BY <1>0, <1>2, <2>1 DEF DeploymentRecord
  <2>3. e # None
    BY <2>1, NodeApiAssumption
  <2>4. WithStatus(d, s) = [deployments EXCEPT ![d] = e]
    BY <1>0, <2>1 DEF WithStatus
  <2> QED BY <1>0, <2>2, <2>3, <2>4
<1>3. ASSUME NEW r \in Requests, InsertDeployment(r)
      PROVE  Good(deployments')
  <2>1. PICK d : d = CHOOSE e \in Deployments : deployments[e] = None
    OBVIOUS
  <2>2. d \in Deployments /\ deployments[d] = None
    BY <1>3, <2>1, FreshDeployment DEF InsertDeployment, Base
  <2>3. NewDeployment(r) \in DeploymentRecord /\ NewDeployment(r) # None
    BY <1>3, NodeApiAssumption DEF InsertDeployment, NewDeployment, DeploymentRecord, Base, Asks, OnItsWay, Busy, Entering
  <2>4. deployments' = deployments \/ deployments' = [deployments EXCEPT ![d] = NewDeployment(r)]
    BY <1>3, <2>1 DEF InsertDeployment, NewDeployment
  <2> QED BY <1>0, <1>1, <2>2, <2>3, <2>4
<1>4. ASSUME NEW r \in Requests, SetRunning(r) \/ SetFailed(r)
      PROVE  Good(deployments')
  <2>1. req[r].dep \in Deployments /\ deployments[req[r].dep] # None
    BY <1>4 DEF SetRunning, SetFailed, Deploys, Base, Asks, OnItsWay, Busy, Making
  <2>2. Good(WithStatus(req[r].dep, "running")) /\ Good(WithStatus(req[r].dep, "failed"))
    BY <1>2, <2>1
  <2> QED BY <1>1, <1>4, <2>2 DEF SetRunning, SetFailed, Failed
<1>5. ASSUME NEW r \in Requests, CreateObject(r) \/ InsertMetric(r)
      PROVE  Good(deployments')
  BY <1>1, <1>5 DEF CreateObject, InsertMetric
<1> QED BY <1>1, <1>3, <1>4, <1>5, Writers

\* The name under which a request makes an object.
LEMMA ThingIs ==
  ASSUME NEW kind \in Kinds, NEW n \in Names
  PROVE  /\ Thing(kind, n) \in Things
         /\ kind # "namespace" => Thing(kind, n) = <<kind, n>>
BY DEF Thing, Things

\* What createNamespace and its like may do.
Makes(r, x) ==
  /\ pc[r] \in Kinds /\ x \in Things /\ x = Thing(pc[r], req[r].name)
  /\ objects[req[r].account][x] = None
  /\ objects' = [objects EXCEPT ![req[r].account][x] = req[r].dep]
  /\ pc'[r] \in {After(pc[r]), "fail"}

LEMMA MakesObject ==
  ASSUME Base, NEW r \in Requests, CreateObject(r)
  PROVE  /\ req[r].account \in Accounts /\ req[r].name \in Names /\ req[r].dep \in Deployments
         /\ \/ objects' = objects /\ pc'[r] = "fail"
            \/ Makes(r, Thing(pc[r], req[r].name))
         /\ req' = req
<1>1. pc[r] \in Kinds
  BY DEF CreateObject
<1>2. req[r].account \in Accounts /\ req[r].name \in Names /\ req[r].dep \in Deployments
  BY <1>1 DEF Base, Asks, OnItsWay, Busy, Making, Entering, Kinds
<1>3. PICK x : x = Thing(pc[r], req[r].name)
  OBVIOUS
<1>4. x \in Things
  BY <1>1, <1>2, <1>3, ThingIs
<1>5. \/ /\ objects[req[r].account][x] = None
         /\ objects' = [objects EXCEPT ![req[r].account][x] = req[r].dep]
         /\ Goto(r, After(pc[r])) \/ Goto(r, "fail")
      \/ objects' = objects /\ Goto(r, "fail")
  BY <1>3 DEF CreateObject, Conflict
<1>6. Types
  BY DEF Base
<1>7. req' = req /\ (objects' = objects => pc'[r] = "fail" \/ pc'[r] = After(pc[r]))
  BY <1>5, <1>6, GotoIs
<1> QED BY <1>1, <1>2, <1>3, <1>4, <1>5, <1>6, <1>7, GotoIs DEF Makes

\* What is made is never made again.
LEMMA ObjectsKept ==
  ASSUME Base, Next
  PROVE  /\ objects' \in [Accounts -> [Things -> Deployments \cup {None}]]
         /\ \A a \in Accounts, x \in Things : objects[a][x] # None => objects'[a][x] = objects[a][x]
<1>0. objects \in [Accounts -> [Things -> Deployments \cup {None}]]
  BY DEF Base, Types, ClusterTypes
<1>1. ASSUME NEW r \in Requests, CreateObject(r)
      PROVE  /\ objects' \in [Accounts -> [Things -> Deployments \cup {None}]]
             /\ \A a \in Accounts, x \in Things : objects[a][x] # None => objects'[a][x] = objects[a][x]
  <2>1. PICK x : x = Thing(pc[r], req[r].name)
    OBVIOUS
  <2>2. objects' = objects \/ Makes(r, x)
    BY <1>1, <2>1, MakesObject
  <2>3. req[r].account \in Accounts /\ req[r].dep \in Deployments
    BY <1>1, MakesObject
  <2> QED BY <1>0, <2>2, <2>3 DEF Makes
<1>2. ASSUME NEW r \in Requests, InsertDeployment(r) \/ SetRunning(r) \/ SetFailed(r) \/ InsertMetric(r)
      PROVE  objects' = objects
  BY <1>2 DEF InsertDeployment, SetRunning, SetFailed, InsertMetric
<1> QED BY <1>0, <1>1, <1>2, Writers

LEMMA ClusterKept ==
  ASSUME Base, Next, \A r \in Requests : Deploys(r)
  PROVE  ClusterTypes'
<1>0. ClusterTypes
  BY DEF Base, Types
<1>1. deployments' \in [Deployments -> DeploymentRecord \cup {None}]
      /\ objects' \in [Accounts -> [Things -> Deployments \cup {None}]]
  BY DocumentsKept, ObjectsKept
<1>2. metrics' \subseteq Deployments
  <2>1. ASSUME NEW r \in Requests, InsertMetric(r)
        PROVE  metrics' \subseteq Deployments
    <3>1. req[r].dep \in Deployments
      BY <2>1 DEF InsertMetric, Base, Asks, OnItsWay, Busy
    <3> QED BY <1>0, <2>1, <3>1 DEF InsertMetric, ClusterTypes
  <2>2. ASSUME NEW r \in Requests, InsertDeployment(r) \/ SetRunning(r) \/ SetFailed(r) \/ CreateObject(r)
        PROVE  metrics' = metrics
    BY <2>2 DEF InsertDeployment, SetRunning, SetFailed, CreateObject
  <2> QED BY <1>0, <2>1, <2>2, Writers DEF ClusterTypes
<1>3. abandoned' \subseteq Deployments
  <2>1. ASSUME NEW rs, rs \subseteq Requests
        PROVE  Unsettled(rs) \subseteq Deployments
    BY <2>1 DEF Unsettled, Base, Asks, Busy, Asked
  <2>2. ASSUME NEW p, NEW ds, ds \subseteq Deployments, EndWith(p, ds)
        PROVE  abandoned' \subseteq Deployments
    BY <1>0, <2>1, <2>2 DEF EndWith, Of, ClusterTypes
  <2>3. ASSUME NEW r \in Requests, InsertDeployment(r)
        PROVE  abandoned' \subseteq Deployments
    <3>1. PICK d : d = CHOOSE e \in Deployments : deployments[e] = None
      OBVIOUS
    <3>2. d \in Deployments
      BY <2>3, <3>1, FreshDeployment DEF InsertDeployment, Base
    <3>3. UNCHANGED abandoned \/ EndWith(host[r], {}) \/ EndWith(host[r], {d})
      BY <2>3, <3>1 DEF InsertDeployment, Unhandled, End
    <3> QED BY <1>0, <2>2, <3>2, <3>3 DEF ClusterTypes
  <2> QED BY <1>0, <2>2, <2>3, Writers DEF ClusterTypes, End
<1> QED BY <1>1, <1>2, <1>3 DEF ClusterTypes

------------------------------------------------------------------------------
(* A request keeps what it has made. *)


\* A request that is served in its turn, and the step it is at.
LEMMA StepServed ==
  ASSUME NEW q \in Requests, Serve(q)
  PROVE  /\ pc[q] = "removeKey" => RemoveKey(q)
         /\ pc[q] = "readNamespace" => ReadNamespace(q)
         /\ pc[q] = "insertUser" => InsertUser(q)
         /\ pc[q] = "insertTenant" => InsertTenant(q)
         /\ pc[q] = "run" => SetRunning(q)
         /\ pc[q] = "fail" => SetFailed(q)
         /\ pc[q] = "audit" => Audit(q)
         /\ pc[q] \in Kinds => CreateObject(q)
BY DEF Serve, EnsureDatabase, AuthenticateJwt, AuthenticateApiKey, MarkApiKeyUsed, List, FindUser,
   InsertTenant, InsertUser, RemoveTenant, InsertKey, RemoveKey, Audit, InsertDeployment, ReadNamespace, CreateObject,
   Kinds, SetRunning, SetFailed, FindDeployment, InsertMetric

LEMMA HoldsKeyKept ==
  ASSUME Base, Next, NEW q \in Requests, \A r \in Requests : HoldsKey(r)
  PROVE  HoldsKey(q)'
<1>0. Types /\ Keyring /\ Asks(q) /\ OnItsWay(q) /\ HoldsKey(q)
  BY DEF Base
<1>k. KeyTypes' /\ Keyring' /\ born \subseteq born' /\ revoked \subseteq revoked'
      /\ \A k \in born : keys[k] = None => keys'[k] = None
  BY KeysKept
<1>1. CASE Gone(q)
  BY <1>1 DEF Gone, HoldsKey, Busy
<1>2. CASE Same(q)
  BY <1>0, <1>2, <1>k DEF Same, HoldsKey, Busy
<1>3. CASE Serve(q) /\ GoesOn(q)
  <2>1. Busy(q) /\ req' = req
    BY <1>3, Moves DEF GoesOn
  <2>2. CASE pc[q] = "removeKey" /\ pc'[q] = "audit"
    <3>1. RemoveKey(q)
      BY <1>3, <2>2, StepServed
    <3>2. host[q] \in Processes
      BY <2>1 DEF Base, Hosted, Types, ProcessTypes
    <3>3. ~Answer(q) /\ \A ds : ~EndWith(host[q], ds)
      BY <1>0, <2>2, <3>2, LeaveIs, EndIs DEF Answer, Gone
    <3>4. Owned(q) /\ keys' = [keys EXCEPT ![req[q].key] = None]
      BY <3>1, <3>3 DEF RemoveKey, Unhandled, End
    <3>5. req[q].op = "deleteKey" /\ req[q].key \in Keys /\ req[q].account \in Accounts /\ ~req[q].late
      BY <1>0, <2>1, <2>2 DEF Asks, OnItsWay, Entering
    <3>6. req[q].key \in born
      BY <1>0, <3>4, <3>5, NodeApiAssumption DEF Owned, Keyring
    <3>7. keys'[req[q].key] = None
      BY <1>0, <3>4, <3>5 DEF Types, KeyTypes
    <3> QED BY <1>k, <2>1, <3>5, <3>6, <3>7 DEF HoldsKey
  <2>3. CASE ~(pc[q] = "removeKey" /\ pc'[q] = "audit")
    <3>1. pc'[q] = "audit" => req[q].op \notin {"createKey", "deleteKey"}
      BY <1>0, <1>3, <2>1, <2>3 DEF GoesOn, Flow, OnItsWay, First, Handler, Asks, Asked, Ops
    <3> QED BY <1>0, <1>k, <2>1, <3>1 DEF HoldsKey
  <2> QED BY <2>2, <2>3
<1>4. CASE FindsKey(q)
  <2>1. req[q] \in Asked /\ req' = [req EXCEPT ![q].account = keys[req[q].key]] /\ pc' = [pc EXCEPT ![q] = "mark"]
    BY <1>0, <1>4 DEF FindsKey, Asks, Busy
  <2>2. (req'[q].late <=> req[q].late) /\ req'[q].key = req[q].key /\ pc'[q] = "mark"
    BY <1>0, <2>1 DEF Types, RequestTypes, Asked
  <2> QED BY <1>0, <1>4, <1>k, <2>2 DEF HoldsKey, FindsKey, Busy
<1>5. ASSUME NEW k, MakesKey(q, k)
      PROVE  HoldsKey(q)'
  <2>1. req[q] \in Asked /\ ~req[q].late /\ req[q].op = "createKey"
    BY <1>0, <1>5 DEF MakesKey, Asks, OnItsWay, Busy, Entering
  <2>2. (req'[q].late <=> req[q].late) /\ req'[q].op = req[q].op /\ req'[q].key = k /\ k \in born'
    BY <1>0, <1>5, <2>1 DEF MakesKey, Types, RequestTypes, Asked
  <2> QED BY <2>1, <2>2 DEF HoldsKey
<1>6. ASSUME NEW d, MakesDeployment(q, d)
      PROVE  HoldsKey(q)'
  <2>1. req[q] \in Asked /\ ~req[q].late /\ req[q].op = "deploy"
    BY <1>0, <1>6 DEF MakesDeployment, Asks, OnItsWay, Busy, Entering
  <2>2. (req'[q].late <=> req[q].late) /\ req'[q].op = req[q].op
    BY <1>0, <1>6, <2>1 DEF MakesDeployment, Types, RequestTypes, Asked
  <2> QED BY <2>1, <2>2 DEF HoldsKey
<1>7. CASE Wakes(q)
  BY <1>0, <1>7, <1>k DEF Wakes, First, HoldsKey, Busy
<1>8. CASE Comes(q)
  <2>1. PICK b \in Bodies : req'[q] = b /\ pc'[q] = "enter"
    BY <1>0, <1>8, ComesWith
  <2> QED BY <1>0, <1>k, <2>1, BodyIs DEF HoldsKey
<1> QED BY <1>1, <1>2, <1>3, <1>4, <1>5, <1>6, <1>7, <1>8, Turns

LEMMA DeploysKept ==
  ASSUME Base, Next, NEW q \in Requests, \A r \in Requests : Deploys(r)
  PROVE  Deploys(q)'
<1>0. Types /\ Asks(q) /\ OnItsWay(q) /\ Deploys(q)
  BY DEF Base
<1>d. \A d \in Deployments : deployments[d] # None =>
              /\ deployments'[d] # None
              /\ deployments'[d].tenant = deployments[d].tenant
              /\ deployments'[d].name = deployments[d].name
  BY DocumentsKept
<1>o. \A a \in Accounts, x \in Things : objects[a][x] # None => objects'[a][x] = objects[a][x]
  BY ObjectsKept
<1> DEFINE Made(kind) == objects[req[q].account][<<kind, req[q].name>>] = req[q].dep
<1>n. ASSUME NEW kind \in {"deployment", "service", "ingress"}, req[q].name \in Names
      PROVE  <<kind, req[q].name>> \in Things
  BY <1>n, ThingIs DEF Kinds
<1>m. ASSUME NEW kind \in {"deployment", "service", "ingress"}, req[q].name \in Names, req[q].account \in Accounts,
             req[q].dep \in Deployments, Made(kind), req'[q] = req[q]
      PROVE  Made(kind)'
  BY <1>m, <1>n, <1>o, NodeApiAssumption
<1>q. ASSUME Busy(q), req[q].op = "deploy", pc[q] \in Making \cup {"audit"}
      PROVE  /\ req[q].name \in Names /\ req[q].account \in Accounts /\ req[q].dep \in Deployments
             /\ deployments[req[q].dep] # None
             /\ deployments[req[q].dep].tenant = req[q].account /\ deployments[req[q].dep].name = req[q].name
  BY <1>0, <1>q DEF Asks, Deploys, Making, Entering, Kinds
<1>1. CASE Gone(q)
  BY <1>1 DEF Gone, Deploys, Busy
<1>2. CASE Same(q)
  BY <1>0, <1>2, <1>d, <1>m, <1>q DEF Same, Deploys, Busy
<1>3. CASE Serve(q) /\ GoesOn(q)
  <2>1. Busy(q) /\ req' = req
    BY <1>3, Moves DEF GoesOn
  <2>2. CASE req[q].op = "deploy" /\ pc'[q] \in Making \cup {"audit"}
    <3>1. pc[q] \in Making \cup {"audit"}
      BY <1>0, <1>3, <2>1, <2>2 DEF GoesOn, Flow, First, Handler, OnItsWay, Making, Kinds, Asks, Asked, Ops
    <3>2. /\ deployments'[req[q].dep] # None
          /\ deployments'[req[q].dep].tenant = req[q].account /\ deployments'[req[q].dep].name = req[q].name
      BY <1>d, <1>q, <2>1, <2>2, <3>1
    <3>3. CASE pc[q] \notin {"deployment", "service", "ingress"}
      <4>1. pc'[q] \notin {"service", "ingress", "run"}
        BY <1>0, <1>3, <2>1, <2>2, <3>1, <3>3 DEF GoesOn, Flow, First, Handler, Making, Kinds
      <4> QED BY <2>1, <3>2, <4>1 DEF Deploys
    <3>4. CASE pc[q] \in {"deployment", "service", "ingress"} /\ pc'[q] = "fail"
      BY <2>1, <3>2, <3>4 DEF Deploys
    <3>5. CASE pc[q] \in {"deployment", "service", "ingress"} /\ pc'[q] # "fail"
      <4>1. PICK x : x = Thing(pc[q], req[q].name)
        OBVIOUS
      <4>2. CreateObject(q)
        BY <1>3, <3>5, StepServed DEF Kinds
      <4>3. Makes(q, x)
        BY <3>5, <4>1, <4>2, MakesObject
      <4>4. x = <<pc[q], req[q].name>> /\ req[q].name \in Names /\ req[q].account \in Accounts
            /\ req[q].dep \in Deployments
        BY <3>5, <4>1, <4>2, MakesObject, ThingIs DEF Kinds
      <4>5. objects'[req[q].account][<<pc[q], req[q].name>>] = req[q].dep
        BY <1>0, <4>3, <4>4 DEF Makes, Types, ClusterTypes
      <4>6. pc'[q] = After(pc[q])
        BY <3>5, <4>3 DEF Makes
      <4>7. CASE pc[q] = "deployment"
        BY <2>1, <3>2, <4>5, <4>6, <4>7 DEF After, Deploys
      <4>8. CASE pc[q] = "service"
        <5>1. Made("deployment")
          BY <1>0, <2>1, <2>2, <3>1, <4>8 DEF Deploys
        <5>2. Made("deployment")'
          BY <1>m, <2>1, <4>4, <5>1
        <5> QED BY <2>1, <3>2, <4>5, <4>6, <4>8, <5>2 DEF After, Deploys
      <4>9. CASE pc[q] = "ingress"
        <5>1. Made("deployment") /\ Made("service")
          BY <1>0, <2>1, <2>2, <3>1, <4>9 DEF Deploys
        <5>2. Made("deployment")' /\ Made("service")'
          BY <1>m, <2>1, <4>4, <5>1
        <5> QED BY <2>1, <3>2, <4>5, <4>6, <4>9, <5>2 DEF After, Deploys
      <4> QED BY <3>5, <4>7, <4>8, <4>9
    <3> QED BY <3>3, <3>4, <3>5
  <2>3. CASE ~(req[q].op = "deploy" /\ pc'[q] \in Making \cup {"audit"})
    BY <2>1, <2>3 DEF Deploys, Busy
  <2> QED BY <2>2, <2>3
<1>4. CASE FindsKey(q)
  BY <1>0, <1>4 DEF FindsKey, Types, RequestTypes, Deploys, Making, Kinds
<1>5. ASSUME NEW k, MakesKey(q, k)
      PROVE  Deploys(q)'
  <2>1. req[q] \in Asked /\ req[q].op = "createKey"
    BY <1>0, <1>5 DEF MakesKey, Asks, OnItsWay, Busy
  <2>2. req'[q].op = req[q].op
    BY <1>0, <1>5, <2>1 DEF MakesKey, Types, RequestTypes, Asked
  <2> QED BY <2>1, <2>2 DEF Deploys
<1>6. ASSUME NEW d, MakesDeployment(q, d)
      PROVE  Deploys(q)'
  <2>1. req[q] \in Asked /\ pc'[q] = "audit" /\ d \in Deployments
    BY <1>0, <1>6 DEF MakesDeployment, Asks, Busy, Types, RequestTypes
  <2>2. req'[q].dep = d /\ req'[q].account = req[q].account /\ req'[q].name = req[q].name
    BY <1>0, <1>6, <2>1 DEF MakesDeployment, Types, RequestTypes, Asked
  <2>3. deployments'[d] = NewDeployment(q)
    BY <1>0, <1>6, <2>1 DEF MakesDeployment, Types, ClusterTypes
  <2>4. NewDeployment(q) # None
    BY <1>0, <1>6, NodeApiAssumption
       DEF MakesDeployment, NewDeployment, DeploymentRecord, Asks, OnItsWay, Busy, Entering
  <2> QED BY <2>1, <2>2, <2>3, <2>4 DEF Deploys, NewDeployment
<1>7. CASE Wakes(q)
  BY <1>7 DEF Wakes, First, Deploys, Making, Kinds
<1>8. CASE Comes(q)
  BY <1>0, <1>8, ComesWith DEF Deploys, Making, Kinds
<1> QED BY <1>1, <1>2, <1>3, <1>4, <1>5, <1>6, <1>7, <1>8, Turns

------------------------------------------------------------------------------
(* Accounts. *)

\* A request to register was one before, or arrives.
LEMMA Registers ==
  ASSUME Base, Next, NEW q \in Requests, Busy(q)', req'[q].op = "register"
  PROVE  \/ Busy(q) /\ req[q].op = "register" /\ req'[q] = req[q]
         \/ Comes(q)
<1>0. Types /\ Asks(q) /\ OnItsWay(q)
  BY DEF Base
<1>1. ~Gone(q)
  BY DEF Gone, Busy
<1>2. CASE FindsKey(q) \/ (\E k : MakesKey(q, k)) \/ \E d : MakesDeployment(q, d)
  <2>1. req[q] \in Asked /\ req[q].op # "register"
    BY <1>0, <1>2 DEF FindsKey, MakesKey, MakesDeployment, Asks, OnItsWay, Busy
  <2>2. req'[q].op = req[q].op
    BY <1>0, <1>2, <2>1 DEF FindsKey, MakesKey, MakesDeployment, Types, RequestTypes, Asked
  <2> QED BY <2>1, <2>2
<1> QED BY <1>1, <1>2, Turns, Moves DEF Same, GoesOn, Wakes, Busy

\* An account that a request arrives with is nobody's.
LEMMA NewAccount ==
  ASSUME Base, Next, NEW q \in Requests, Comes(q), req'[q].op = "register"
  PROVE  /\ req'[q].account \notin tenants \cup users
         /\ \A s \in Requests : Busy(s) => req[s].account # req'[q].account
         /\ \A s \in Requests \ {q} : Same(s)
<1>0. Types
  BY DEF Base
<1>1. PICK b \in Bodies : req'[q] = b /\ \A s \in Requests \ {q} : Same(s)
  BY <1>0, ComesWith
<1>2. b.account \in Unborn
  BY <1>0, <1>1, BodyIs
<1> QED BY <1>1, <1>2 DEF Unborn, Busy

LEMMA SignUpsDifferKept ==
  ASSUME Base, Next, SignUpsDiffer
  PROVE  SignUpsDiffer'
<1> SUFFICES ASSUME NEW r \in Requests, NEW s \in Requests, r # s, Busy(r)', Busy(s)',
                    req'[r].op = "register", req'[s].op = "register"
             PROVE  req'[r].account # req'[s].account
  BY DEF SignUpsDiffer
<1>1. CASE Comes(r)
  BY <1>1, NewAccount DEF Same, Busy
<1>2. CASE Comes(s)
  BY <1>2, NewAccount DEF Same, Busy
<1>3. CASE ~Comes(r) /\ ~Comes(s)
  BY <1>3, Registers DEF SignUpsDiffer
<1> QED BY <1>1, <1>2, <1>3

\* What may happen to an account that is confirmed or on its way to be.
LEMMA AccountsKept ==
  ASSUME Base, Next, SignUpsDiffer
  PROVE  /\ users \subseteq users'
         /\ \A a \in tenants \ tenants' : \E r \in Requests :
              Busy(r) /\ req[r].op = "register" /\ req[r].account = a /\ pc[r] = "removeTenant" /\ Gone(r)
         /\ \A a \in confirmed' \ confirmed : \E r \in Requests :
              Busy(r) /\ req[r].op = "register" /\ req[r].account = a /\ pc[r] = "audit" /\ Gone(r)
              /\ UNCHANGED <<tenants, users>>
<1>0. Types
  BY DEF Base
<1>1. CASE UNCHANGED people
  BY <1>1 DEF people
<1>2. ASSUME NEW r \in Requests, FindUser(r) \/ InsertTenant(r) \/ InsertUser(r)
      PROVE  users \subseteq users' /\ tenants \subseteq tenants' /\ confirmed' = confirmed
  BY <1>2 DEF FindUser, InsertTenant, InsertUser
<1>3. ASSUME NEW r \in Requests, RemoveTenant(r)
      PROVE  /\ users' = users /\ confirmed' = confirmed /\ tenants \ tenants' \subseteq {req[r].account}
             /\ Busy(r) /\ req[r].op = "register" /\ pc[r] = "removeTenant" /\ Gone(r)
  <2>1. Gone(r)
    BY <1>0, <1>3, LeaveIs DEF RemoveTenant, Answer
  <2> QED BY <1>3, <2>1 DEF RemoveTenant, TenantMade, Base, OnItsWay, Busy
<1>4. ASSUME NEW r \in Requests, Audit(r)
      PROVE  /\ users' = users /\ tenants' = tenants
             /\ \A a \in confirmed' \ confirmed :
                  Busy(r) /\ req[r].op = "register" /\ req[r].account = a /\ pc[r] = "audit" /\ Gone(r)
  <2>1. req[r].op = "register" => Gone(r)
    BY <1>0, <1>4, LeaveIs DEF Audit, Answer
  <2> QED BY <1>4, <2>1 DEF Audit, Busy
<1> QED BY <1>1, <1>2, <1>3, <1>4, Writers

LEMMA ConfirmedKept ==
  ASSUME Base, Next, SignUpsDiffer, ConfirmedAccountsStay, \A r \in Requests : SignsUp(r)
  PROVE  ConfirmedAccountsStay'
BY AccountsKept DEF ConfirmedAccountsStay, SignsUp

LEMMA SignsUpKept ==
  ASSUME Base, Next, SignUpsDiffer, ConfirmedAccountsStay, \A r \in Requests : SignsUp(r), NEW q \in Requests
  PROVE  SignsUp(q)'
<1> SUFFICES ASSUME Busy(q)', req'[q].op = "register"
             PROVE  /\ req'[q].account \notin confirmed'
                    /\ pc'[q] \in {"insertUser", "audit"} => req'[q].account \in tenants'
                    /\ pc'[q] = "audit" => req'[q].account \in users'
  BY DEF SignsUp
<1>0. Types /\ Asks(q) /\ OnItsWay(q) /\ SignsUp(q)
  BY DEF Base
<1>1. CASE Comes(q)
  <2>1. pc'[q] = "enter" /\ UNCHANGED confirmed
    BY <1>0, <1>1, ComesWith DEF data, people
  <2> QED BY <1>1, <2>1, NewAccount DEF ConfirmedAccountsStay
<1>2. CASE Busy(q) /\ req[q].op = "register" /\ req'[q] = req[q]
  <2>1. req[q].account \notin confirmed' /\ (req[q].account \in tenants => req[q].account \in tenants')
        /\ users \subseteq users'
    <3>1. \A r \in Requests : Gone(r) => r # q
      BY DEF Gone, Busy
    <3> QED BY <1>0, <1>2, <3>1, AccountsKept DEF SignUpsDiffer, SignsUp
  <2>2. CASE pc'[q] = pc[q]
    BY <1>0, <1>2, <2>1, <2>2 DEF SignsUp
  <2>3. CASE pc'[q] # pc[q] /\ pc'[q] \in {"insertUser", "audit"}
    <3>1. Serve(q) /\ GoesOn(q)
      BY <1>0, <1>2, <2>3, Turns DEF Same, Gone, Wakes, First, Comes, Arrive, FindsKey, MakesKey, MakesDeployment, Busy,
         Types, RequestTypes, OnItsWay
    <3>2. (pc[q] = "insertTenant" /\ pc'[q] = "insertUser") \/ (pc[q] = "insertUser" /\ pc'[q] = "audit")
      BY <1>0, <1>2, <2>3, <3>1 DEF GoesOn, Flow, First, Handler, OnItsWay
    <3>3. CASE pc[q] = "insertTenant"
      <4>1. InsertTenant(q) /\ ~Answer(q)
        BY <1>0, <3>1, <3>2, <3>3, StepServed, LeaveIs DEF Answer, Gone
      <4> QED BY <1>2, <2>1, <3>2, <3>3, <4>1 DEF InsertTenant
    <3>4. CASE pc[q] = "insertUser"
      <4>1. InsertUser(q) /\ ~Goto(q, "removeTenant")
        BY <1>0, <3>1, <3>2, <3>4, StepServed, GotoIs
      <4>2. req[q].account \in users'
        BY <4>1 DEF InsertUser
      <4> QED BY <1>0, <1>2, <2>1, <3>2, <3>4, <4>2 DEF SignsUp
    <3> QED BY <3>2, <3>3, <3>4
  <2> QED BY <1>2, <2>1, <2>2, <2>3
<1> QED BY <1>1, <1>2, Registers

\* Only a server that opens the database makes the index.
LEMMA IndexMade ==
  ASSUME Base, Next, indexed', ~indexed
  PROVE  AddressesDiffer /\ users' = users
<1>1. ASSUME NEW r \in Requests, Serve(r)
      PROVE  indexed' = indexed
  BY <1>1, ServersSee DEF connection, EnsureDatabase, EndWith
<1> QED BY <1>1 DEF Next, Connect, StartServer, Connected, ConnectFails, CreateIndexes, Closed, Die, Arrive, End, EndWith,
           data, people

LEMMA AddressesKept ==
  ASSUME Base, Next, OneUserPerAddress
  PROVE  OneUserPerAddress'
<1>1. CASE indexed' /\ ~indexed
  BY <1>1, IndexMade DEF OneUserPerAddress, AddressesDiffer
<1>2. CASE indexed
  <2>1. ASSUME NEW r \in Requests, InsertUser(r)
        PROVE  AddressesDiffer'
    BY <1>2, <2>1 DEF InsertUser, Unique, HasAddress, OneUserPerAddress, AddressesDiffer
  <2>2. ASSUME NEW r \in Requests, FindUser(r) \/ InsertTenant(r) \/ RemoveTenant(r) \/ Audit(r)
        PROVE  users' = users
    BY <2>2 DEF FindUser, InsertTenant, RemoveTenant, Audit
  <2>3. CASE users' = users
    BY <1>2, <2>3 DEF OneUserPerAddress, AddressesDiffer
  <2> QED BY <2>1, <2>2, <2>3, Writers DEF people, OneUserPerAddress
<1> QED BY <1>1, <1>2 DEF OneUserPerAddress

------------------------------------------------------------------------------
(* Deployments. *)

\* How the document of a deployment is written.
LEMMA StatusSet ==
  ASSUME Base, Next, NEW d \in Deployments, deployments'[d] # deployments[d]
  PROVE  \E r \in Requests :
           \/ /\ InsertDeployment(r) /\ deployments[d] = None /\ deployments'[d].status = "deploying"
              /\ MakesDeployment(r, d) \/ EndWith(host[r], {d})
           \/ SetRunning(r) /\ pc[r] = "run" /\ req[r].dep = d /\ deployments' = WithStatus(d, "running")
           \/ SetFailed(r) /\ req[r].dep = d /\ deployments' = WithStatus(d, "failed")
<1>0. Types
  BY DEF Base
<1>1. ASSUME NEW r \in Requests, InsertDeployment(r)
      PROVE  /\ deployments[d] = None /\ deployments'[d].status = "deploying"
             /\ MakesDeployment(r, d) \/ EndWith(host[r], {d})
  <2>1. PICK e : e = CHOOSE j \in Deployments : deployments[j] = None
    OBVIOUS
  <2>2. e \in Deployments /\ deployments[e] = None
    BY <1>1, <2>1, FreshDeployment DEF InsertDeployment, Base
  <2>3. \/ UNCHANGED deployments
        \/ /\ deployments' = [deployments EXCEPT ![e] = NewDeployment(r)]
           /\ MakesDeployment(r, e) \/ EndWith(host[r], {e})
    BY <1>1, <2>1, <2>2 DEF InsertDeployment, MakesDeployment, NewDeployment
  <2>4. e = d /\ deployments'[d] = NewDeployment(r)
    BY <1>0, <2>2, <2>3 DEF Types, ClusterTypes
  <2> QED BY <2>2, <2>3, <2>4 DEF NewDeployment
<1>2. ASSUME NEW r \in Requests, SetRunning(r)
      PROVE  pc[r] = "run" /\ req[r].dep = d /\ deployments' = WithStatus(d, "running")
  BY <1>0, <1>2 DEF SetRunning, WithStatus, Types, ClusterTypes
<1>3. ASSUME NEW r \in Requests, SetFailed(r)
      PROVE  req[r].dep = d /\ deployments' = WithStatus(d, "failed")
  BY <1>0, <1>3 DEF SetFailed, Failed, WithStatus, Types, ClusterTypes
<1>4. ASSUME NEW r \in Requests, CreateObject(r) \/ InsertMetric(r)
      PROVE  FALSE
  BY <1>4 DEF CreateObject, InsertMetric
<1> QED BY <1>1, <1>2, <1>3, <1>4, Writers

\* A status is read where the document is one.
LEMMA StatusRead ==
  ASSUME Types, NEW d \in Deployments, deployments[d] # None, NEW s
  PROVE  WithStatus(d, s)[d].status = s
BY DEF Types, ClusterTypes, WithStatus, DeploymentRecord

LEMMA RunningKept ==
  ASSUME Base, Next, RunningOwnsObjects, \A r \in Requests : Deploys(r)
  PROVE  RunningOwnsObjects'
<1> SUFFICES ASSUME NEW d \in Deployments, deployments'[d] # None, deployments'[d].status = "running",
                    NEW kind \in Kinds \ {"namespace"}
             PROVE  objects'[deployments'[d].tenant][<<kind, deployments'[d].name>>] = d
  BY DEF RunningOwnsObjects
<1>0. Types
  BY DEF Base
<1>1. deployments[d] # None /\ objects[deployments[d].tenant][<<kind, deployments[d].name>>] = d
  <2>1. CASE deployments'[d] = deployments[d]
    BY <2>1 DEF RunningOwnsObjects
  <2>2. CASE deployments'[d] # deployments[d]
    <3>1. PICK r \in Requests :
               \/ InsertDeployment(r) /\ deployments[d] = None /\ deployments'[d].status = "deploying"
               \/ SetRunning(r) /\ pc[r] = "run" /\ req[r].dep = d
               \/ SetFailed(r) /\ req[r].dep = d /\ deployments' = WithStatus(d, "failed")
      BY <2>2, StatusSet
    <3>2. pc[r] \in {"run", "fail"} => Busy(r) /\ req[r].op = "deploy" /\ pc[r] \in Making
      BY DEF Base, OnItsWay, Busy, Making
    <3>3. SetRunning(r) \/ SetFailed(r) => deployments[d] # None
      BY <3>1, <3>2 DEF Deploys, SetRunning, SetFailed
    <3>4. CASE SetRunning(r) /\ pc[r] = "run" /\ req[r].dep = d
      BY <3>2, <3>3, <3>4 DEF Deploys, Kinds
    <3>5. CASE SetFailed(r) /\ deployments' = WithStatus(d, "failed")
      BY <1>0, <3>3, <3>5, StatusRead
    <3> QED BY <3>1, <3>4, <3>5
  <2> QED BY <2>1, <2>2
<1>2. deployments[d].tenant \in Accounts /\ deployments[d].name \in Names
  BY <1>0, <1>1 DEF Types, ClusterTypes, DeploymentRecord
<1>3. <<kind, deployments[d].name>> \in Things
  BY <1>2, ThingIs
<1>4. deployments'[d].tenant = deployments[d].tenant /\ deployments'[d].name = deployments[d].name
  BY <1>1, DocumentsKept
<1>5. d # None
  BY NodeApiAssumption
<1>6. objects'[deployments[d].tenant][<<kind, deployments[d].name>>] = d
  BY <1>1, <1>2, <1>3, <1>5, ObjectsKept
<1> QED BY <1>4, <1>6

\* How a request that has made a deployment ends.
LEMMA Settles ==
  ASSUME Base, Next, NEW q \in Requests, Busy(q), req[q].op = "deploy", req[q].dep # None, Gone(q)
  PROVE  \/ \E ds : EndWith(host[q], ds)
         \/ deployments' \in {WithStatus(req[q].dep, "running"), WithStatus(req[q].dep, "failed")}
<1>0. Types /\ pc[q] \in Making \cup {"audit"} /\ host[q] \in Processes
  BY DEF Base, Asks, Hosted, Types, ProcessTypes
<1>1. pc'[q] # pc[q]
  BY DEF Gone, Busy
<1>2. ASSUME NEW p \in Processes, NEW ds, EndWith(p, ds)
      PROVE  \E es : EndWith(host[q], es)
  BY <1>0, <1>1, <1>2, EndIs DEF Same
<1>3. CASE Serve(q)
  <2>1. \A step : Goto(q, step) => step = "idle"
    BY <1>0, GotoIs DEF Gone
  <2>2. CASE pc[q] = "readNamespace"
    BY <1>3, <2>1, <2>2, StepServed DEF ReadNamespace
  <2>3. CASE pc[q] \in Kinds
    <3>1. CreateObject(q) /\ After(pc[q]) # "idle"
      BY <1>3, <2>3, StepServed DEF Kinds, After
    <3> QED BY <2>1, <3>1 DEF CreateObject
  <2>4. CASE pc[q] = "audit"
    BY <1>3, <2>1, <2>4, StepServed DEF Audit
  <2>5. CASE pc[q] = "run"
    BY <1>3, <2>1, <2>5, StepServed DEF SetRunning
  <2>6. CASE pc[q] = "fail"
    BY <1>3, <2>6, StepServed DEF SetFailed, Failed, Unhandled, End
  <2> QED BY <1>0, <2>2, <2>3, <2>4, <2>5, <2>6 DEF Making
<1>4. ASSUME NEW r \in Requests, r # q, Serve(r)
      PROVE  \E ds : EndWith(host[q], ds)
  <2>1. ~Same(q)
    BY <1>1 DEF Same
  <2>2. CASE Answer(r)
    BY <1>0, <1>4, <2>1, <2>2, LeaveIs DEF Answer
  <2>3. CASE FindsKey(r) \/ (\E k : MakesKey(r, k)) \/ \E d : MakesDeployment(r, d)
    BY <1>0, <1>1, <1>4, <2>3 DEF FindsKey, MakesKey, MakesDeployment, Types, RequestTypes
  <2>4. host[r] \in Processes
    BY <1>4, Moves DEF Base, Hosted, Types, ProcessTypes
  <2> QED BY <1>2, <1>4, <2>1, <2>2, <2>3, <2>4, Moves
<1>5. ASSUME NEW p \in Processes, Connect(p) \/ Die(p)
      PROVE  \E ds : EndWith(host[q], ds)
  <2>1. CASE UNCHANGED pc
    BY <1>1, <2>1
  <2>2. CASE Connected(p) /\ p \in Functions
    BY <1>0, <1>1, <2>2 DEF Connected, Proceed, Making, Kinds, Types, RequestTypes
  <2>3. CASE Leave(Waiting(p))
    <3>1. q \notin Waiting(p)
      BY <1>0 DEF Waiting, Making, Kinds
    <3> QED BY <1>0, <1>1, <2>3, <3>1, LeaveIs DEF Same
  <2> QED BY <1>2, <1>5, <2>1, <2>2, <2>3 DEF Connect, StartServer, Connected, ConnectFails, CreateIndexes, Closed, Die, End
<1>6. ASSUME NEW r \in Requests, NEW p \in Processes, Arrive(r, p)
      PROVE  FALSE
  BY <1>0, <1>1, <1>6 DEF Arrive, Busy, Types, RequestTypes
<1> QED BY <1>3, <1>4, <1>5, <1>6 DEF Next

LEMMA DeployingKept ==
  ASSUME Base, Next, DeployingIsInHand, \A r \in Requests : Deploys(r)
  PROVE  DeployingIsInHand'
<1> SUFFICES ASSUME NEW d \in Deployments, deployments'[d] # None, deployments'[d].status = "deploying"
             PROVE  d \in abandoned' \cup Unsettled(Requests)'
  BY DEF DeployingIsInHand
<1>0. Types
  BY DEF Base
<1>1. ASSUME NEW r \in Requests, Busy(r)', req'[r].op = "deploy", req'[r].dep = d
      PROVE  d \in Unsettled(Requests)'
  BY <1>1, NodeApiAssumption DEF Unsettled, Busy
<1>2. abandoned \subseteq abandoned'
  <2>1. ASSUME NEW p, NEW ds, EndWith(p, ds)
        PROVE  abandoned \subseteq abandoned'
    BY <2>1 DEF EndWith
  <2> QED BY <2>1, Writers DEF End, InsertDeployment, Unhandled
<1>3. CASE deployments'[d] # deployments[d]
  <2>1. PICK r \in Requests :
             \/ pc[r] = "insertDeployment" /\ (MakesDeployment(r, d) \/ EndWith(host[r], {d}))
             \/ SetRunning(r) /\ req[r].dep = d /\ deployments' = WithStatus(d, "running")
             \/ SetFailed(r) /\ req[r].dep = d /\ deployments' = WithStatus(d, "failed")
    BY <1>3, StatusSet DEF InsertDeployment
  <2>2. CASE EndWith(host[r], {d})
    BY <2>2 DEF EndWith
  <2>3. CASE pc[r] = "insertDeployment" /\ MakesDeployment(r, d)
    <3>1. req[r] \in Asked /\ req[r].op = "deploy"
      BY <2>3 DEF Base, Asks, OnItsWay, Busy
    <3>2. req'[r].op = "deploy" /\ req'[r].dep = d /\ pc'[r] = "audit"
      BY <1>0, <2>3, <3>1 DEF MakesDeployment, Types, RequestTypes, Asked
    <3> QED BY <1>1, <3>2 DEF Busy
  <2>4. CASE (SetRunning(r) \/ SetFailed(r)) /\ req[r].dep = d
             /\ deployments' \in {WithStatus(d, "running"), WithStatus(d, "failed")}
    <3>1. deployments[d] # None
      BY <2>4 DEF Deploys, SetRunning, SetFailed, Base, OnItsWay, Busy, Making
    <3> QED BY <1>0, <2>4, <3>1, StatusRead
  <2> QED BY <2>1, <2>2, <2>3, <2>4
<1>4. CASE deployments'[d] = deployments[d] /\ d \in abandoned
  BY <1>2, <1>4
<1>5. CASE deployments'[d] = deployments[d] /\ d \in Unsettled(Requests)
  <2>1. PICK r \in Requests : Busy(r) /\ req[r].op = "deploy" /\ req[r].dep = d /\ d # None
    BY <1>5 DEF Unsettled, Busy
  <2>2. pc[r] \in Making \cup {"audit"}
    BY <2>1 DEF Base, Asks
  <2>3. CASE Gone(r)
    <3>1. CASE \E ds : EndWith(host[r], ds)
      <4>1. r \in Of(host[r])
        BY DEF Of
      <4>2. d \in Unsettled(Of(host[r]))
        BY <2>1, <4>1 DEF Unsettled, Busy
      <4> QED BY <3>1, <4>2 DEF EndWith
    <3>2. CASE deployments' \in {WithStatus(d, "running"), WithStatus(d, "failed")}
      BY <1>0, <1>5, <3>2, StatusRead
    <3> QED BY <2>1, <2>3, <3>1, <3>2, Settles
  <2>4. CASE Busy(r)' /\ req'[r] = req[r]
    BY <1>1, <2>1, <2>4
  <2>5. Gone(r) \/ (Busy(r)' /\ req'[r] = req[r])
    <3>1. ~(FindsKey(r) \/ (\E k : MakesKey(r, k)) \/ (\E e : MakesDeployment(r, e)) \/ Wakes(r) \/ Comes(r))
      BY <2>2 DEF FindsKey, MakesKey, MakesDeployment, Wakes, Comes, Arrive, Making, Kinds
    <3>2. CASE Serve(r) /\ GoesOn(r)
      BY <2>1, <2>2, <3>2 DEF GoesOn, Flow, First, Handler, Making, Kinds, Busy
    <3> QED BY <2>1, <3>1, <3>2, Turns DEF Same, Busy
  <2> QED BY <2>3, <2>4, <2>5
<1> QED BY <1>3, <1>4, <1>5 DEF DeployingIsInHand

------------------------------------------------------------------------------
(* There is always an _id left. *)

LEMMA SetGrows ==
  ASSUME NEW S, IsFiniteSet(S), NEW x, NEW T, T \subseteq S \cup {x}
  PROVE  IsFiniteSet(T) /\ Cardinality(S) \in Nat /\ Cardinality(T) \in Nat /\ Cardinality(T) <= Cardinality(S) + 1
<1>1. PICK U : U = S \cup {x}
  OBVIOUS
<1>2. IsFiniteSet(U) /\ Cardinality(S) \in Nat /\ Cardinality(U) \in {Cardinality(S), Cardinality(S) + 1}
  BY <1>1, FS_AddElement, FS_CardinalityType
<1>3. IsFiniteSet(T) /\ Cardinality(T) <= Cardinality(U)
  BY <1>1, <1>2, FS_Subset
<1>4. Cardinality(T) \in Nat
  BY <1>3, FS_CardinalityType
<1> QED BY <1>2, <1>3, <1>4

LEMMA SetShrinks ==
  ASSUME NEW S, IsFiniteSet(S), NEW x \in S, NEW T, T \subseteq S \ {x}
  PROVE  IsFiniteSet(T) /\ Cardinality(S) \in Nat /\ Cardinality(T) \in Nat /\ Cardinality(T) <= Cardinality(S) - 1
<1>1. PICK U : U = S \ {x}
  OBVIOUS
<1>2. IsFiniteSet(U) /\ Cardinality(S) \in Nat /\ Cardinality(U) = Cardinality(S) - 1
  BY <1>1, FS_RemoveElement, FS_CardinalityType
<1>3. IsFiniteSet(T) /\ Cardinality(T) <= Cardinality(U)
  BY <1>1, <1>2, FS_Subset
<1>4. Cardinality(T) \in Nat
  BY <1>3, FS_CardinalityType
<1> QED BY <1>2, <1>3, <1>4

\* A request on its way to an _id has arrived for it.
LEMMA ComingFrom ==
  ASSUME Base, Next, NEW op, NEW q \in Requests, q \in Coming(op)', ~Comes(q)
  PROVE  \/ q \in Coming(op) /\ pc[q] \notin {"insertKey", "insertDeployment"}
         \/ Same(q)
<1>0. Types /\ Asks(q) /\ OnItsWay(q)
  BY DEF Base
<1>1. pc'[q] \in Entering \cup {"mark", "insertKey", "insertDeployment"} /\ req'[q].op = op
  BY DEF Coming
<1>2. CASE Serve(q) /\ GoesOn(q)
  <2>1. pc[q] \in Entering \cup {"mark"} /\ req'[q] = req[q]
    BY <1>0, <1>1, <1>2 DEF GoesOn, Flow, Entering
  <2> QED BY <1>1, <2>1 DEF Coming, Entering
<1>3. CASE FindsKey(q)
  <2>1. req[q] \in Asked /\ pc[q] = "auth"
    BY <1>0, <1>3 DEF FindsKey, Asks, Busy
  <2>2. req'[q].op = req[q].op
    BY <1>0, <1>3, <2>1 DEF FindsKey, Types, RequestTypes, Asked
  <2> QED BY <1>1, <2>1, <2>2 DEF Coming, Entering
<1>4. CASE Wakes(q)
  BY <1>1, <1>4 DEF Wakes, Coming, Entering
<1>5. CASE Gone(q) \/ (\E k : MakesKey(q, k)) \/ \E d : MakesDeployment(q, d)
  BY <1>0, <1>1, <1>5 DEF Gone, MakesKey, MakesDeployment, Types, RequestTypes, Entering
<1> QED BY <1>2, <1>3, <1>4, <1>5, Turns

LEMMA ComingSame ==
  ASSUME NEW op, NEW q \in Requests, Same(q)
  PROVE  q \in Coming(op)' <=> q \in Coming(op)
BY DEF Same, Coming

\* The requests that arrive are counted, and make nothing yet.
LEMMA ArrivalsCounted ==
  ASSUME Base, Next
  PROVE  \/ /\ arrived' = arrived
            /\ \A q \in Requests : ~Comes(q)
         \/ \E q \in Requests :
              /\ Comes(q) /\ arrived < MaxRequests /\ arrived' = arrived + 1 /\ UNCHANGED data
              /\ \A s \in Requests \ {q} : ~Comes(s)
<1>0. Types /\ arrived \in Nat
  BY DEF Base, Room
<1>1. CASE \E q \in Requests : Comes(q)
  <2>1. PICK q \in Requests : Comes(q)
    BY <1>1
  <2>2. \A s \in Requests \ {q} : ~Comes(s)
    BY <1>0, <2>1, ComesWith DEF Same
  <2> QED BY <1>0, <2>1, <2>2, ComesWith
<1>2. CASE \A q \in Requests : ~Comes(q)
  <2>1. ASSUME NEW p \in Processes, Connect(p) \/ Die(p)
        PROVE  arrived' = arrived
    BY <2>1 DEF Connect, StartServer, Connected, ConnectFails, CreateIndexes, Closed, Die, bounds
  <2>2. ASSUME NEW r \in Requests, Serve(r)
        PROVE  arrived' = arrived
    BY <2>2 DEF Serve, EnsureDatabase, AuthenticateJwt, AuthenticateApiKey, MarkApiKeyUsed, List, FindUser,
       InsertTenant, InsertUser, RemoveTenant, InsertKey, RemoveKey, Audit, InsertDeployment, ReadNamespace, CreateObject,
       SetRunning, SetFailed, FindDeployment, InsertMetric, bounds
  <2> QED BY <1>2, <2>1, <2>2 DEF Next, Comes
<1> QED BY <1>1, <1>2

\* One _id more is one request less.
LEMMA Balanced ==
  ASSUME NEW B, NEW C, NEW B1, NEW C1, IsFiniteSet(B), IsFiniteSet(C), NEW n \in Nat, NEW m \in Nat,
         Cardinality(B) + Cardinality(C) <= n,
         \/ B1 = B /\ C1 \subseteq C /\ m = n
         \/ B1 = B /\ (\E q : C1 \subseteq C \cup {q}) /\ m = n + 1
         \/ \E k, q : B1 \subseteq B \cup {k} /\ q \in C /\ C1 \subseteq C \ {q} /\ m = n
  PROVE  IsFiniteSet(B1) /\ IsFiniteSet(C1) /\ Cardinality(B1) + Cardinality(C1) <= m
<1>0. Cardinality(B) \in Nat /\ Cardinality(C) \in Nat
  BY FS_CardinalityType
<1>1. CASE B1 = B /\ C1 \subseteq C /\ m = n
  <2>1. IsFiniteSet(C1) /\ Cardinality(C1) <= Cardinality(C)
    BY <1>1, FS_Subset
  <2>2. Cardinality(C1) \in Nat
    BY <2>1, FS_CardinalityType
  <2> QED BY <1>0, <1>1, <2>1, <2>2
<1>2. CASE B1 = B /\ (\E q : C1 \subseteq C \cup {q}) /\ m = n + 1
  <2>1. PICK q : C1 \subseteq C \cup {q}
    BY <1>2
  <2>2. IsFiniteSet(C1) /\ Cardinality(C1) \in Nat /\ Cardinality(C1) <= Cardinality(C) + 1
    BY <2>1, SetGrows
  <2> QED BY <1>0, <1>2, <2>2
<1>3. CASE \E k, q : B1 \subseteq B \cup {k} /\ q \in C /\ C1 \subseteq C \ {q} /\ m = n
  <2>1. PICK k, q : B1 \subseteq B \cup {k} /\ q \in C /\ C1 \subseteq C \ {q} /\ m = n
    BY <1>3
  <2>2. IsFiniteSet(B1) /\ Cardinality(B1) \in Nat /\ Cardinality(B1) <= Cardinality(B) + 1
    BY <2>1, SetGrows
  <2>3. IsFiniteSet(C1) /\ Cardinality(C1) \in Nat /\ Cardinality(C1) <= Cardinality(C) - 1
    BY <2>1, SetShrinks
  <2> QED BY <1>0, <2>1, <2>2, <2>3
<1> QED BY <1>1, <1>2, <1>3

LEMMA RoomKept ==
  ASSUME Base, Next, \A r \in Requests : Deploys(r)
  PROVE  Room'
<1>0. Types /\ Room
  BY DEF Base
<1>1. arrived \in Nat /\ arrived' \in Nat /\ arrived' \in 0 .. MaxRequests
  BY <1>0, ArrivalsCounted, NodeApiAssumption DEF Room
<1>2. ASSUME NEW op, NEW B, NEW B1, IsFiniteSet(B), IsFiniteSet(Coming(op)),
             Cardinality(B) + Cardinality(Coming(op)) <= arrived,
             B1 = B \/ \E k : B1 \subseteq B \cup {k} /\ \E r \in Requests :
               arrived' = arrived /\ r \in Coming(op) /\ pc[r] \in {"insertKey", "insertDeployment"} /\ ~Same(r),
             UNCHANGED data => B1 = B
      PROVE  IsFiniteSet(B1) /\ IsFiniteSet(Coming(op)') /\ Cardinality(B1) + Cardinality(Coming(op)') <= arrived'
  <2>0. \A q \in Requests : q \in Coming(op)' /\ ~Comes(q) => q \in Coming(op)
    BY ComingFrom, ComingSame
  <2>1. Coming(op)' \subseteq Requests
    BY DEF Coming
  <2>2. CASE arrived' = arrived
    <3>1. \A q \in Requests : ~Comes(q)
      BY <1>1, <2>2, ArrivalsCounted
    <3>2. Coming(op)' \subseteq Coming(op)
      BY <2>0, <2>1, <3>1
    <3>3. CASE B1 = B
      BY <1>1, <1>2, <2>2, <3>2, <3>3, Balanced
    <3>4. CASE B1 # B
      <4>0. PICK k : B1 \subseteq B \cup {k} /\ \E r \in Requests :
                 r \in Coming(op) /\ pc[r] \in {"insertKey", "insertDeployment"} /\ ~Same(r)
        BY <1>2, <3>4
      <4>1. PICK r \in Requests :
                 r \in Coming(op) /\ pc[r] \in {"insertKey", "insertDeployment"} /\ ~Same(r)
        BY <4>0
      <4>2. r \notin Coming(op)'
        BY <3>1, <4>1, ComingFrom
      <4>3. Coming(op)' \subseteq Coming(op) \ {r}
        BY <3>2, <4>2
      <4> QED BY <1>1, <1>2, <2>2, <4>0, <4>1, <4>3, Balanced
    <3> QED BY <3>3, <3>4
  <2>3. CASE arrived' # arrived
    <3>1. PICK q \in Requests : arrived' = arrived + 1 /\ UNCHANGED data /\ \A s \in Requests \ {q} : ~Comes(s)
      BY <2>3, ArrivalsCounted
    <3>2. Coming(op)' \subseteq Coming(op) \cup {q}
      BY <2>0, <2>1, <3>1
    <3> QED BY <1>1, <1>2, <3>1, <3>2, Balanced
  <2> QED BY <2>2, <2>3
<1>3. IsFiniteSet(born') /\ IsFiniteSet(Coming("createKey")')
      /\ Cardinality(born') + Cardinality(Coming("createKey")') <= arrived'
  <2>1. ASSUME NEW r \in Requests, InsertKey(r)
        PROVE  \E k : born' \subseteq born \cup {k} /\ \E s \in Requests :
                 arrived' = arrived /\ s \in Coming("createKey") /\ pc[s] \in {"insertKey", "insertDeployment"} /\ ~Same(s)
    <3>1. (\E k : born' = born \cup {k}) /\ pc[r] = "insertKey" /\ arrived' = arrived
      BY <2>1 DEF InsertKey
    <3>2. r \in Coming("createKey")
      BY <3>1 DEF Coming, Base, OnItsWay
    <3>3. Serve(r) /\ pc'[r] # "insertKey"
      BY <1>0, <2>1, EndIs DEF Serve, InsertKey, Unhandled, End, Gone, Types, RequestTypes, Base, Hosted, Busy, ProcessTypes
    <3> QED BY <3>1, <3>2, <3>3 DEF Same
  <2>2. ASSUME NEW r \in Requests, RemoveKey(r) \/ Audit(r)
        PROVE  born' = born
    BY <2>2 DEF RemoveKey, Audit
  <2>3. born' = born \/ \E k : born' \subseteq born \cup {k} /\ \E s \in Requests :
                 arrived' = arrived /\ s \in Coming("createKey") /\ pc[s] \in {"insertKey", "insertDeployment"} /\ ~Same(s)
    BY <2>1, <2>2, Writers DEF keyring
  <2>4. UNCHANGED data => born' = born
    BY DEF data, keyring
  <2> QED BY <1>0, <1>2, <2>3, <2>4 DEF Room
<1>4. IsFiniteSet(Posted') /\ IsFiniteSet(Coming("deploy")')
      /\ Cardinality(Posted') + Cardinality(Coming("deploy")') <= arrived'
  <2>1. CASE \A d \in Deployments : deployments[d] = None => deployments'[d] = None
    <3>1. Posted' = Posted
      BY <2>1, DocumentsKept DEF Posted
    <3> QED BY <1>0, <1>2, <3>1 DEF Room
  <2>2. ASSUME NEW d \in Deployments, deployments[d] = None, deployments'[d] # None
        PROVE  \E k : Posted' \subseteq Posted \cup {k} /\ \E s \in Requests :
                 arrived' = arrived /\ s \in Coming("deploy") /\ pc[s] \in {"insertKey", "insertDeployment"} /\ ~Same(s)
    <3>1. ASSUME NEW e \in Deployments, deployments[e] = None, deployments'[e] # None
          PROVE  \E r \in Requests : InsertDeployment(r) /\ (MakesDeployment(r, e) \/ EndWith(host[r], {e}))
      <4>1. PICK r \in Requests :
               \/ InsertDeployment(r) /\ (MakesDeployment(r, e) \/ EndWith(host[r], {e}))
               \/ (SetRunning(r) \/ SetFailed(r)) /\ req[r].dep = e
        BY <3>1, StatusSet
      <4>2. ~((SetRunning(r) \/ SetFailed(r)) /\ req[r].dep = e)
        BY <3>1 DEF Deploys, SetRunning, SetFailed, Base, OnItsWay, Busy, Making
      <4> QED BY <4>1, <4>2
    <3>2. PICK r \in Requests : InsertDeployment(r) /\ (MakesDeployment(r, d) \/ EndWith(host[r], {d}))
      BY <2>2, <3>1
    <3>3. Posted' \subseteq Posted \cup {d}
      <4>1. PICK e : e = CHOOSE j \in Deployments : deployments[j] = None
        OBVIOUS
      <4>2. deployments' = deployments \/ deployments' = [deployments EXCEPT ![e] = NewDeployment(r)]
        BY <3>2, <4>1 DEF InsertDeployment, NewDeployment
      <4>3. e = d
        BY <1>0, <2>2, <4>2 DEF Types, ClusterTypes
      <4> QED BY <1>0, <4>2, <4>3 DEF Posted, Types, ClusterTypes
    <3>4. arrived' = arrived /\ r \in Coming("deploy") /\ pc[r] = "insertDeployment"
      BY <3>2 DEF InsertDeployment, Coming, Base, OnItsWay
    <3>5. pc'[r] # "insertDeployment"
      BY <1>0, <3>2, <3>4, EndIs DEF MakesDeployment, Gone, Types, RequestTypes, Base, Hosted, Busy, ProcessTypes
    <3> QED BY <3>3, <3>4, <3>5 DEF Same
  <2>3. CASE ~\A d \in Deployments : deployments[d] = None => deployments'[d] = None
    <3>1. PICK d \in Deployments : deployments[d] = None /\ deployments'[d] # None
      BY <2>3
    <3>2. UNCHANGED data => Posted' = Posted
      BY DEF data, cluster, Posted
    <3> QED BY <1>0, <1>2, <2>2, <3>1, <3>2 DEF Room
  <2> QED BY <2>1, <2>3
<1> QED BY <1>1, <1>3, <1>4 DEF Room

------------------------------------------------------------------------------
(* The theorems. *)

LEMMA Initially ==
  ASSUME Init
  PROVE  IInv
<1> USE DEF Init
<1>0. \A r \in Requests : ~Busy(r)
  BY DEF Busy
<1>1. Types
  <2>1. ProcessTypes
    BY DEF ProcessTypes
  <2>2. PeopleTypes /\ KeyTypes
    BY NodeApiAssumption DEF PeopleTypes, KeyTypes
  <2>3. ClusterTypes
    BY DEF ClusterTypes
  <2>4. RequestTypes
    BY DEF RequestTypes, Steps
  <2> QED BY <2>1, <2>2, <2>3, <2>4 DEF Types
<1>2. Connection /\ Keyring
  BY DEF Connection, Keyring
<1>3. Room
  <2>1. Posted = {} /\ Coming("createKey") = {} /\ Coming("deploy") = {}
    BY DEF Posted, Coming, Entering
  <2>2. born = {} /\ arrived = 0 /\ arrived \in 0 .. MaxRequests
    BY NodeApiAssumption
  <2>3. IsFiniteSet({}) /\ Cardinality({}) = 0
    BY FS_EmptySet
  <2> HIDE DEF Init
  <2> QED BY <2>1, <2>2, <2>3 DEF Room
<1>4. \A r \in Requests : Hosted(r) /\ Asks(r) /\ OnItsWay(r)
  BY <1>0 DEF Hosted, Asks, OnItsWay, Making, Kinds
<1>5. \A r \in Requests : SignsUp(r) /\ HoldsKey(r) /\ Deploys(r)
  BY <1>0 DEF SignsUp, HoldsKey, Deploys
<1>6. SignUpsDiffer /\ ConfirmedAccountsStay /\ OneUserPerAddress
  BY <1>0 DEF SignUpsDiffer, ConfirmedAccountsStay, OneUserPerAddress
<1>7. RunningOwnsObjects /\ DeployingIsInHand
  BY DEF RunningOwnsObjects, DeployingIsInHand
<1> QED BY <1>1, <1>2, <1>3, <1>4, <1>5, <1>6, <1>7 DEF IInv, Base

LEMMA Stuttering ==
  ASSUME IInv, UNCHANGED vars
  PROVE  IInv'
<1> USE DEF vars, connection, data, people, keyring, cluster, bounds
<1>1. Types' /\ Connection' /\ Keyring' /\ Room'
  BY DEF IInv, Base, Types, ProcessTypes, PeopleTypes, KeyTypes, ClusterTypes, RequestTypes, Connection, Keyring, Room,
     Posted, Coming
<1>2. \A r \in Requests : (Hosted(r) /\ Asks(r) /\ OnItsWay(r))'
  BY DEF IInv, Base, Hosted, Asks, OnItsWay, Busy
<1>3. \A r \in Requests : (SignsUp(r) /\ HoldsKey(r) /\ Deploys(r))'
  BY DEF IInv, SignsUp, HoldsKey, Deploys, Busy
<1>4. (SignUpsDiffer /\ ConfirmedAccountsStay /\ OneUserPerAddress)'
  BY DEF IInv, SignUpsDiffer, ConfirmedAccountsStay, OneUserPerAddress, AddressesDiffer, Busy
<1>5. (RunningOwnsObjects /\ DeployingIsInHand)'
  BY DEF IInv, RunningOwnsObjects, DeployingIsInHand, Unsettled
<1> QED BY <1>1, <1>2, <1>3, <1>4, <1>5 DEF IInv, Base

LEMMA Step ==
  ASSUME IInv, Next
  PROVE  IInv'
<1>0. /\ Base /\ SignUpsDiffer /\ ConfirmedAccountsStay /\ OneUserPerAddress
      /\ RunningOwnsObjects /\ DeployingIsInHand
      /\ \A r \in Requests : SignsUp(r)
      /\ \A r \in Requests : HoldsKey(r)
      /\ \A r \in Requests : Deploys(r)
  BY DEF IInv
<1>1. Types'
  BY <1>0, ProcessesKept, PeopleKept, KeysKept, ClusterKept, RequestsTyped DEF Types
<1>2. Connection' /\ Keyring' /\ Room'
  BY <1>0, ProcessesKept, KeysKept, RoomKept
<1>3. \A r \in Requests : Hosted(r)' /\ Asks(r)' /\ OnItsWay(r)'
  BY <1>0, HostsKept, AskingKept
<1>4. SignUpsDiffer' /\ ConfirmedAccountsStay' /\ OneUserPerAddress'
  BY <1>0, SignUpsDifferKept, ConfirmedKept, AddressesKept
<1>5. RunningOwnsObjects' /\ DeployingIsInHand'
  BY <1>0, RunningKept, DeployingKept
<1>6. \A r \in Requests : SignsUp(r)' /\ HoldsKey(r)' /\ Deploys(r)'
  BY <1>0, SignsUpKept, HoldsKeyKept, DeploysKept
<1> QED BY <1>1, <1>2, <1>3, <1>4, <1>5, <1>6 DEF IInv, Base

\* The invariant of the Node API: what each process has of its connection, and
\* what each request has asked for, found out and made by the step it is at.
THEOREM Invariance == Spec => []IInv
BY Initially, Step, Stuttering, PTL DEF Spec

\* Types, and that a request is in a process that runs, never in one that has
\* ended: an unhandled error or a kill takes every request of the process.
THEOREM TypeCorrect == Spec => []TypeOK
<1>1. ASSUME IInv
      PROVE  TypeOK
  <2>1. \A r \in Requests : pc[r] # "idle" <=> host[r] \in up
    BY <1>1, NodeApiAssumption DEF IInv, Base, Hosted, Busy, Types, ProcessTypes
  <2> QED BY <1>1, <2>1 DEF IInv, Base, Types, ProcessTypes, PeopleTypes, KeyTypes, ClusterTypes, RequestTypes, TypeOK
<1> QED BY <1>1, Invariance, PTL

\* A handler, past ensureDatabase, never meets collection variables that are
\* reset or a database that is still opening or closing.
THEOREM WholeDatabase == Spec => []HandlersSeeWholeDatabase
<1>1. ASSUME IInv
      PROVE  HandlersSeeWholeDatabase
  BY <1>1 DEF IInv, Base, Hosted, Busy, Types, ProcessTypes, Connection, HandlersSeeWholeDatabase
<1> QED BY <1>1, Invariance, PTL

\* Once some server has made the unique index, no two users have one address,
\* however many sign-ups found the address free at the same time.
THEOREM AddressesUnique == Spec => []OneUserPerAddress
<1>1. ASSUME IInv
      PROVE  OneUserPerAddress
  BY <1>1 DEF IInv
<1> QED BY <1>1, Invariance, PTL

\* The user and the tenant of a confirmed sign-up stay: a sign-up that fails
\* takes back a tenant of its own and no other.
THEOREM ConfirmedForGood == Spec => []ConfirmedAccountsStay
<1>1. ASSUME IInv
      PROVE  ConfirmedAccountsStay
  BY <1>1 DEF IInv
<1> QED BY <1>1, Invariance, PTL

\* A deployment that reads 'running' made the Deployment, the Service and the
\* Ingress of its name itself, whatever faults there were and whoever else
\* deployed under that name.
THEOREM RunningOwns == Spec => []RunningOwnsObjects
<1>1. ASSUME IInv
      PROVE  RunningOwnsObjects
  BY <1>1 DEF IInv
<1> QED BY <1>1, Invariance, PTL

\* A deployment that reads 'deploying' has a request that works on it, or its
\* request ended with its process: no answer leaves it behind.
THEOREM DeployingInHand == Spec => []DeployingIsInHand
<1>1. ASSUME IInv
      PROVE  DeployingIsInHand
  BY <1>1 DEF IInv
<1> QED BY <1>1, Invariance, PTL

\* A request sent after the deletion of its key was confirmed never gets past
\* authenticateApiKey, in whichever process.
THEOREM RevokedRefused == Spec => []RevokedKeyRefused
<1>1. ASSUME IInv
      PROVE  RevokedKeyRefused
  BY <1>1 DEF IInv, Base, Asks, Busy, Entering, RevokedKeyRefused
<1> QED BY <1>1, Invariance, PTL
==============================================================================
