------------------------------ MODULE Console ------------------------------
(***************************************************************************)
(* The console page: tabs that follow the address, lists of the control    *)
(* plane's resources, kept by SWR under a key of list and project, and     *)
(* buttons whose handlers make one call and fetch the lists again.  While  *)
(* a handler waits the user may go to another tab or project; the control  *)
(* plane settles what it was asked to deploy; answers come late or never.  *)
(*                                                                         *)
(* A handler is a row of a table.  A list is the resources in it, each     *)
(* with its status and the number of times it has changed.                 *)
(***************************************************************************)
EXTENDS Naturals, Sequences, FiniteSets

CONSTANTS
  Projects,    \* the projects of the tenant
  First,       \* the one that comes first in their list
  Ids,         \* the resources made, by id
  Watched,     \* bound: the lists that are followed
  Held,        \* bound: the lists that have resources from before
  Visited,     \* bound: the tabs the user opens
  MaxSteps,    \* bound: tabs and projects opened, handlers and commands started,
               \* and fetches that fail
  None         \* no project, no tab (the hub), no list, nothing revealed

VARIABLES
  url, tab, going,        \* the tab in the address, the tab shown, the addresses pushed
  project,                \* the project selected
  server,                 \* the resources of the control plane
  cache, entry, reading,  \* SWR: the data of a key; its request; what that one has read
  failed, missed,         \* history: keys whose last fetch failed; keys a handler
                          \* would have fetched, had they been on the page
  busy, acting,           \* the busy flag, and the handlers that run
  revealed,               \* the resource of a list whose value is revealed
  mine,                   \* history: how far a resource had changed when a handler's
                          \* change of it was confirmed
  steps                   \* bound used up

where == <<url, tab, going, project>>
swr == <<cache, entry, reading, failed, missed>>
page == <<busy, acting, revealed, mine>>
vars == <<where, server, swr, page, steps>>

------------------------------------------------------------------------------
(* Tabs, panels and lists. *)

\* The tabs that give the overview of a product, and "stub" for all that say something is to come.
OverviewTabs ==
  {"compute-overview", "k8s-overview", "sec-scc-overview", "bq-overview", "agent-overview",
   "mon-overview", "run-overview", "db-overview", "apis", "vpc", "bigquery", "databases",
   "hub-home", "iam-quotas", "stub"}

MonitoringTabs ==
  {"monitoring", "mon-overview", "mon-dashboards", "mon-system-monitoring", "hub-health"}

\* The tabs on which a panel is shown.
PanelTabs(panel) ==
  CASE panel = "deployments" -> {"run", "run-services", "kubernetes", "k8s-clusters",
                                 "k8s-workloads", "hub-deployments", "solutions-deployments"}
    [] panel = "projects" -> {"iam", "iam-iam", "iam-create-project", "iam-manage-resources"}
    [] panel = "keys" -> {"apis-credentials", "agent"}
    [] panel = "gateways" -> {"gateway"}
    [] panel = "routes" -> {"gateway-routes"}
    [] panel = "gatewayKeys" -> {"gateway-keys"}
    [] panel = "buckets" -> {"storage"}
    [] panel = "invoices" -> {"billing"}
    [] panel = "vms" -> {"compute", "compute-vm-instances"}
    [] panel = "secrets" -> {"sec-secret-manager"}
    [] panel = "lbs" -> {"lb", "lb-load-balancers"}
    [] panel = "dbs" -> {"sql-instances"}
    [] panel = "backups" -> {"sql-backups"}

GatewayTabs == {"gateway", "gateway-routes", "gateway-keys", "gateway-deploy"}

\* Deployments and projects are on every tab, other lists where their panel or the
\* overview needs them.
ListTabs(list) ==
  CASE list = "buckets" -> PanelTabs("buckets") \cup OverviewTabs
    [] list \in {"usage", "invoices"} -> PanelTabs("invoices")
    [] list = "monitoring" -> MonitoringTabs
    [] list = "quota" -> {"hub-quotas", "iam-quotas"}
    [] list = "gateways" -> GatewayTabs \cup OverviewTabs
    [] list = "routes" -> {"gateway-routes", "gateway-deploy"}
    [] list = "secrets" -> PanelTabs("secrets") \cup OverviewTabs
    [] list = "opsSecrets" -> PanelTabs("secrets")
    [] list = "lbs" -> PanelTabs("lbs") \cup OverviewTabs
    [] list = "dbs" -> PanelTabs("dbs") \cup PanelTabs("backups") \cup OverviewTabs
    [] OTHER -> PanelTabs(list)

OnPage(list) ==
  \/ list \in {"deployments", "projects"}
  \/ list = "monitoring" /\ url = None
  \/ tab \in ListTabs(list)

\* The key of a list carries the project, if the list has one; the gateway of
\* routes and gatewayKeys does not change here.
PerProject == {"deployments", "buckets", "vms", "gateways", "secrets", "lbs", "dbs", "backups"}
KeyOf(list, p) == <<list, IF list \in PerProject THEN p ELSE None>>
Keys == {KeyOf(list, p) : list \in Watched, p \in Projects}
Current == {KeyOf(list, project) : list \in {l \in Watched : OnPage(l)}}

------------------------------------------------------------------------------
(* Handlers. *)

\* What the call does to a resource of the list, and the lists fetched afterwards.
Row(name, act, list, mutates) == [name |-> name, act |-> act, list |-> list, mutates |-> mutates]

DeployRow == Row("Deploy", "create", "deployments", <<"deployments", "monitoring">>)
CreateProjectRow == Row("CreateProject", "create", "projects", <<"projects">>)
CreateKeyRow == Row("CreateKey", "create", "keys", <<"keys">>)
RevokeKeyRow == Row("RevokeKey", "delete", "keys", <<"keys">>)
CreateBucketRow == Row("CreateBucket", "create", "buckets", <<"buckets">>)
CreateInvoiceRow == Row("CreateInvoice", "create", "invoices", <<"invoices", "usage">>)
SyncInvoiceRow == Row("SyncInvoice", "change", "invoices", <<"invoices">>)
CreateVmRow == Row("CreateVm", "create", "vms", <<"vms">>)
VmActionRow == Row("VmAction", "change", "vms", <<"vms">>)
CreateSecretRow == Row("CreateSecret", "create", "secrets", <<"secrets">>)
RevealSecretRow == Row("RevealSecret", "reveal", "secrets", <<>>)

\* Faulty: the list is not fetched again.
DeleteSecretQuietly == Row("DeleteSecret", "delete", "secrets", <<>>)

DeleteSecretRow == Row("DeleteSecret", "delete", "secrets", <<"secrets">>)
MigrateOpsSecretsRow == Row("MigrateOpsSecrets", "create", "opsSecrets", <<"opsSecrets">>)
RevealOpsSecretRow == Row("RevealOpsSecret", "reveal", "opsSecrets", <<>>)
CreateLbRow == Row("CreateLb", "create", "lbs", <<"lbs">>)
DeleteLbRow == Row("DeleteLb", "delete", "lbs", <<"lbs">>)
CreateDbRow == Row("CreateDb", "create", "dbs", <<"dbs">>)
RevealDbRow == Row("RevealDb", "reveal", "dbs", <<>>)
BackupDbRow == Row("BackupDb", "create", "backups", <<"dbs", "backups">>)
DeleteDbRow == Row("DeleteDb", "delete", "dbs", <<"dbs">>)
DeleteDeploymentRow == Row("DeleteDeployment", "delete", "deployments", <<"deployments">>)
CreateGatewayRow == Row("CreateGateway", "create", "gateways", <<"gateways">>)
ToggleGatewayRow == Row("ToggleGateway", "change", "gateways", <<"gateways">>)
DeleteGatewayRow == Row("DeleteGateway", "delete", "gateways", <<"gateways">>)
CreateRouteRow == Row("CreateRoute", "create", "routes", <<"routes", "gateways">>)
DeleteRouteRow == Row("DeleteRoute", "delete", "routes", <<"routes", "gateways">>)
CreateGatewayKeyRow == Row("CreateGatewayKey", "create", "gatewayKeys", <<"gatewayKeys">>)
RevokeGatewayKeyRow == Row("RevokeGatewayKey", "delete", "gatewayKeys", <<"gatewayKeys">>)

\* What a panel offers: a form or a button to make a resource, buttons for each one it shows.
DeploymentsPanel == {DeployRow, DeleteDeploymentRow}
ProjectsPanel == {CreateProjectRow}
KeysPanel == {CreateKeyRow, RevokeKeyRow}
GatewaysPanel == {CreateGatewayRow, ToggleGatewayRow, DeleteGatewayRow}
RoutesPanel == {CreateRouteRow, DeleteRouteRow}
GatewayKeysPanel == {CreateGatewayKeyRow, RevokeGatewayKeyRow}
BucketsPanel == {CreateBucketRow}
InvoicesPanel == {CreateInvoiceRow, SyncInvoiceRow}
VmsPanel == {CreateVmRow, VmActionRow}
SecretsPanel == {CreateSecretRow, RevealSecretRow, DeleteSecretRow,
                 MigrateOpsSecretsRow, RevealOpsSecretRow}
LbsPanel == {CreateLbRow, DeleteLbRow}
DbsPanel == {CreateDbRow, RevealDbRow, BackupDbRow, DeleteDbRow}

Panels ==
  [deployments |-> DeploymentsPanel, projects |-> ProjectsPanel, keys |-> KeysPanel,
   gateways |-> GatewaysPanel, routes |-> RoutesPanel, gatewayKeys |-> GatewayKeysPanel,
   buckets |-> BucketsPanel, invoices |-> InvoicesPanel, vms |-> VmsPanel,
   secrets |-> SecretsPanel, lbs |-> LbsPanel, dbs |-> DbsPanel]

\* On the tab that is shown, those whose resources are followed.
Offered ==
  {h \in UNION {Panels[n] : n \in {m \in DOMAIN Panels : tab \in PanelTabs(m)}} :
     h.list \in Watched /\ url # None}

\* refreshConsoleData, when a command of the terminal has changed something.
Refreshed ==
  {"deployments", "projects", "keys", "buckets", "gateways", "lbs", "dbs", "secrets",
   "monitoring", "usage", "invoices", "vms", "backups"}

\* What the control plane knows of a resource.
Resource ==
  [key : Keys, stamp : Nat, status : {"on", "provisioning", "running", "gone"}]

ASSUME ConsoleAssumption ==
  /\ First \in Projects /\ Held \subseteq Watched \ {"deployments"}
  /\ Watched \subseteq Refreshed \cup {"quota", "routes", "gatewayKeys", "opsSecrets"}
  /\ None \notin Projects \cup Ids \cup Visited \cup Resource
  /\ MaxSteps \in Nat

------------------------------------------------------------------------------
(* The lists, as the control plane has them and as SWR does. *)

\* The resources of a key that exist.
Read(k) ==
  {[id |-> i, status |-> server[i].status, stamp |-> server[i].stamp] :
     i \in {j \in Ids : server[j] # None /\ server[j].key = k /\ server[j].status # "gone"}}

Shown(list) == cache[KeyOf(list, project)]
ShownIds(list) == {r.id : r \in Shown(list)}

\* New requests of some keys: older ones of these are not heard any more.
Request(ks, unmet) ==
  /\ entry' = [k \in Keys |-> IF k \in ks THEN "sent" ELSE entry[k]]
  /\ reading' = [k \in Keys |-> IF k \in ks THEN {} ELSE reading[k]]
  /\ missed' = (missed \cup unmet) \ ks
  /\ UNCHANGED <<cache, failed>>

Start(ks) == Request(ks, {})

\* Who waits for a request that is over, or not heard any more, may go on.
Forgotten(ks) == {[a EXCEPT !.on = IF a.on \in ks THEN None ELSE a.on] : a \in acting}

\* The page is opened at some address, when the projects have been listed and
\* resources of the first have been made before.
Init ==
  /\ url \in Visited \cup {None} /\ going = <<>>
  /\ tab = IF url = None THEN "run-services" ELSE url
  /\ project = First
  /\ server \in [Ids -> {None} \cup {[key |-> KeyOf(list, First), stamp |-> 1, status |-> "on"] :
                                      list \in Held}]
  /\ cache = [k \in Keys |-> {}]
  /\ entry = [k \in Keys |-> IF k \in Current THEN "sent" ELSE "none"]
  /\ reading = [k \in Keys |-> {}]
  /\ failed = {} /\ missed = {}
  /\ busy = FALSE /\ acting = {}
  /\ revealed = [list \in Watched |-> None]
  /\ mine = [i \in Ids |-> 0]
  /\ steps = 0

\* A key that comes on the page is fetched, unless a request of it is under way or
\* was answered less than two seconds ago.
Mount == Start({k \in Current' \ Current : entry[k] = "none"})

------------------------------------------------------------------------------
(* SWR, as the page uses it. *)

ReadList(k) ==
  /\ entry[k] = "sent"
  /\ entry' = [entry EXCEPT ![k] = "read"]
  /\ reading' = [reading EXCEPT ![k] = Read(k)]
  /\ UNCHANGED <<where, server, cache, failed, missed, page, steps>>

Answer(k) ==
  /\ entry[k] = "read"
  /\ cache' = [cache EXCEPT ![k] = reading[k]]
  /\ entry' = [entry EXCEPT ![k] = "kept"]
  /\ reading' = [reading EXCEPT ![k] = {}]
  /\ failed' = failed \ {k}
  /\ acting' = Forgotten({k})
  /\ UNCHANGED <<where, server, missed, busy, revealed, mine, steps>>

Counted == steps < MaxSteps /\ steps' = steps + 1

\* The data stays as it was, and nothing is said.
Fail(k) ==
  /\ entry[k] \in {"sent", "read"}
  /\ Counted
  /\ entry' = [entry EXCEPT ![k] = "none"]
  /\ reading' = [reading EXCEPT ![k] = {}]
  /\ failed' = failed \cup {k}
  /\ acting' = Forgotten({k})
  /\ UNCHANGED <<where, server, cache, missed, busy, revealed, mine>>

\* Two seconds after the answer.
Expire(k) ==
  /\ entry[k] = "kept"
  /\ entry' = [entry EXCEPT ![k] = "none"]
  /\ UNCHANGED <<where, server, cache, reading, failed, missed, page, steps>>

\* The window is looked at again, the network is back, or a failed fetch retried.
Revalidate(k) ==
  /\ k \in Current /\ entry[k] = "none"
  /\ Start({k})
  /\ UNCHANGED <<where, server, page, steps>>

\* Faulty: only the Node API's word for it is looked for.
OnlyDeploying == {"deploying"}

Pending == {"provisioning", "deploying"}

\* The interval of three seconds, while a deployment is shown that is not settled.
Poll ==
  LET k == KeyOf("deployments", project) IN
  /\ k \in Keys /\ \E r \in cache[k] : r.status \in Pending
  /\ Start({k})
  /\ acting' = Forgotten({k})
  /\ UNCHANGED <<where, server, busy, revealed, mine, steps>>

------------------------------------------------------------------------------
(* Moving about. *)

\* openService: the tab changes at once, the address follows.
OpenService(t) ==
  /\ Counted /\ url # None
  /\ tab' = t /\ going' = Append(going, t)
  /\ UNCHANGED <<url, project, server, page>>
  /\ Mount

\* openFromHub: the address only.
OpenFromHub(t) ==
  /\ Counted /\ url = None
  /\ going' = Append(going, t)
  /\ UNCHANGED <<url, tab, project, server, swr, page>>

ConsoleHome ==
  /\ Counted /\ url # None
  /\ going' = Append(going, None)
  /\ UNCHANGED <<url, tab, project, server, swr, page>>

\* Faulty: the tab is taken from the address when the page is opened only.
OnceOnly(t) == tab

\* Faulty: the hub's empty address is taken for a tab.
Straight(t) == t

\* The effect on tabParam, which runs when this has changed.
TabOf(t) == IF t \notin {url, None} THEN t ELSE tab

\* The router arrives at an address pushed; those pushed before it are given up.
Arrive ==
  \E n \in DOMAIN going :
    /\ url' = going[n] /\ tab' = TabOf(going[n])
    /\ going' = SubSeq(going, n + 1, Len(going))
    /\ UNCHANGED <<project, server, page, steps>>
    /\ Mount

\* Back and forward give up what is pushed.
BackOrForward ==
  \E t \in Visited \cup {None} :
    /\ Counted /\ t # url
    /\ url' = t /\ tab' = TabOf(t) /\ going' = <<>>
    /\ UNCHANGED <<project, server, page>>
    /\ Mount

\* By the select of the top bar, or by handleCreateProject when it ends.
SwitchProject ==
  /\ Counted /\ project' \in Projects \ {project}
  /\ UNCHANGED <<url, tab, going, server, page>>
  /\ Mount

------------------------------------------------------------------------------
(* A handler, from the click to the end of busy. *)

\* Faulty: a button that is not disabled.
Anytime == TRUE

Ready == ~busy

\* What the handler closes over: the resource, the project and what is revealed.
Started(h, i) ==
  [row |-> h, id |-> i, key |-> KeyOf(h.list, project), was |-> revealed[h.list],
   phase |-> "asked", stamp |-> 0, rest |-> h.mutates, on |-> None]

Unused == {i \in Ids : server[i] = None /\ \A a \in acting : a.id # i}

Click(h) ==
  /\ Ready /\ Counted
  /\ \E i \in IF h.act = "create" THEN Unused ELSE ShownIds(h.list) :
       acting' = acting \cup {Started(h, i)}
  /\ busy' = TRUE
  /\ UNCHANGED <<where, server, swr, revealed, mine>>

\* There is something to act on.
Possible(act, i) == IF act = "create" THEN server[i] = None ELSE server[i].status # "gone"

Changed(i, status) == [key |-> server[i].key, stamp |-> server[i].stamp + 1, status |-> status]

\* What the control plane has of a resource after a call.
After(act, i, k) ==
  CASE act = "create" -> [key |-> k, stamp |-> 1,
                          status |-> IF k[1] = "deployments" THEN "provisioning" ELSE "on"]
    [] act = "delete" -> Changed(i, "gone")
    [] act = "change" -> Changed(i, server[i].status)
    [] act = "reveal" -> server[i]

Become(a, b) == acting' = (acting \ {a}) \cup {b}

CarryOut(a) ==
  /\ a.phase = "asked" /\ Possible(a.row.act, a.id)
  /\ server' = [server EXCEPT ![a.id] = After(a.row.act, a.id, a.key)]
  /\ Become(a, [a EXCEPT !.phase = "done", !.stamp = server'[a.id].stamp])
  /\ UNCHANGED <<where, swr, busy, revealed, mine, steps>>

\* A good answer: a value is shown; the value of a resource now deleted is dropped,
\* if it was shown at the click.
Good(a) ==
  /\ a.phase = "done"
  /\ Become(a, [a EXCEPT !.phase = "after"])
  /\ mine' = [mine EXCEPT ![a.id] = IF a.row.act = "reveal" THEN @ ELSE a.stamp]
  /\ revealed' = [revealed EXCEPT ![a.row.list] =
       CASE a.row.act = "reveal" -> a.id
         [] a.row.act = "delete" /\ a.was = a.id -> None
         [] OTHER -> @]
  /\ UNCHANGED <<where, server, swr, busy, steps>>

\* A bad answer, whether or not the call was carried out: an error is shown.
Bad(a) ==
  /\ a.phase \in {"asked", "done"}
  /\ acting' = acting \ {a} /\ busy' = FALSE
  /\ UNCHANGED <<where, server, swr, revealed, mine, steps>>

\* mutate fetches the key its hook has now, if it has one, and the handler waits.
\* It may not be the key of what was changed.
Mutate(a) ==
  LET key == KeyOf(Head(a.rest), project)
      now == {key} \cap Current
      unmet == IF Head(a.rest) = a.row.list THEN {a.key} \ now ELSE {} IN
  /\ a.phase = "after" /\ a.rest # <<>> /\ a.on = None
  /\ Request(now, unmet)
  /\ acting' = (Forgotten(now) \ {a})
                 \cup {[a EXCEPT !.rest = Tail(@), !.on = IF now = {} THEN None ELSE key]}
  /\ UNCHANGED <<where, server, busy, revealed, mine, steps>>

End(a) ==
  /\ a.phase = "after" /\ a.rest = <<>> /\ a.on = None
  /\ acting' = acting \ {a} /\ busy' = FALSE
  /\ UNCHANGED <<where, server, swr, revealed, mine, steps>>

------------------------------------------------------------------------------
(* Others. *)

\* A command of the terminal has changed something, and the console is told.
TerminalCommand ==
  \E act \in {"create", "change", "delete"}, list \in Watched, i \in Ids :
    LET key == KeyOf(list, project)
        told == {KeyOf(l, project) : l \in Refreshed} \cap Current IN
    /\ Counted
    /\ IF act = "create" THEN i \in Unused
       ELSE server[i] # None /\ server[i].key = key /\ Possible(act, i)
    /\ server' = [server EXCEPT ![i] = After(act, i, key)]
    /\ mine' = [mine EXCEPT ![i] = server'[i].stamp]
    /\ Request(told, {key} \ told)
    /\ acting' = Forgotten(told)
    /\ UNCHANGED <<where, busy, revealed>>

\* The control plane is done with a deployment.
Settle(i) ==
  /\ server[i] # None /\ server[i].status = "provisioning"
  /\ server' = [server EXCEPT ![i] = Changed(i, "running")]
  /\ UNCHANGED <<where, swr, page, steps>>

------------------------------------------------------------------------------
Next ==
  \/ \E k \in Keys : ReadList(k) \/ Answer(k) \/ Fail(k) \/ Expire(k) \/ Revalidate(k)
  \/ Poll
  \/ \E t \in Visited : OpenService(t) \/ OpenFromHub(t)
  \/ ConsoleHome \/ Arrive \/ BackOrForward \/ SwitchProject
  \/ \E h \in Offered : Click(h)
  \/ \E a \in acting : CarryOut(a) \/ Good(a) \/ Bad(a) \/ Mutate(a) \/ End(a)
  \/ TerminalCommand
  \/ \E i \in Ids : Settle(i)

\* The interval keeps running; now and then a fetch of the deployments shown is
\* read, and answered, before the next one.
Fairness ==
  LET k == KeyOf("deployments", project) IN
  WF_vars(Poll) /\ SF_vars(k \in Keys /\ ReadList(k)) /\ SF_vars(k \in Keys /\ Answer(k))

Spec == Init /\ [][Next]_vars /\ Fairness

------------------------------------------------------------------------------
\* The variables have their types.
TypeOK ==
  /\ url \in Visited \cup {None} /\ tab \in Visited \cup {"run-services"} /\ project \in Projects
  /\ \A n \in DOMAIN going : going[n] \in Visited \cup {None}
  /\ \A k \in Keys :
       /\ entry[k] \in {"none", "sent", "read", "kept"}
       /\ \A r \in cache[k] \cup reading[k] : r.id \in Ids /\ r.stamp > 0
  /\ failed \subseteq Keys /\ missed \subseteq Keys
  /\ \A list \in Watched : revealed[list] \in Ids \cup {None}
  /\ \A a \in acting : a.on \in Keys \cup {None}

\* One handler runs at a time, and the buttons are locked exactly while it does,
\* through every change of tab and project.
OneHandlerAtATime == Cardinality(acting) <= 1 /\ busy = (acting # {})

\* Where the address is a tab and no other address is on its way, this tab is
\* shown, however openings, the hub, and the browser's buttons followed each other.
TabFollowsUrl == going = <<>> /\ url # None => tab = url

Reflects(k, i) ==
  \/ \E r \in cache[k] : r.id = i /\ r.stamp >= mine[i]
  \/ server[i].status = "gone" /\ \A r \in cache[k] : r.id # i

\* When all is quiet, a list on the page shows every change of its resources that
\* was confirmed to a handler or the terminal: no fetch that was read before the
\* change has the last word.  Left out are a fetch that failed, and a change whose
\* list was not on the page when it was confirmed.
ListsCatchUp ==
  acting = {} =>
    \A k \in Current : entry[k] \in {"none", "kept"} /\ k \notin failed \cup missed =>
      \A i \in Ids : mine[i] > 0 /\ server[i].key = k => Reflects(k, i)

\* The value of a resource is not kept beyond the answer that confirms its
\* deletion to a handler.
RevealedGoes ==
  [][\A a \in acting :
       /\ a.phase = "done" /\ a.row.act = "delete"
       /\ \E b \in acting' : b.id = a.id /\ b.phase = "after"
       => revealed'[a.row.list] # a.id]_vars

\* A deployment that is shown as provisioning though it is settled, or gone, is not
\* shown so for ever.
Behind(i) ==
  /\ server[i] # None /\ server[i].status # "provisioning"
  /\ \E r \in Shown("deployments") : r.id = i /\ r.status = "provisioning"

PollsUntilSettled == \A i \in Ids : Behind(i) ~> ~Behind(i)
==============================================================================
