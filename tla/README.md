# The Cloudlane control plane in TLA+

Cloudlane is a small multi-tenant cloud. A FastAPI process (`apps/api_python`)
keeps its state in MongoDB and drives a Kubernetes cluster, an nginx proxy,
managed Postgres and MySQL, MinIO, Redis and a payment provider; worker
processes (`worker.py`) do the slow part of a deployment. `apps/api` is an older
control plane in Node, still in the repository, which provisions within the
request. `apps/dashboard` is the web console with its terminal, `packages/cli`
a command line client. This directory models the parts in which several
processes, requests, retries or partial failures meet, checks them with TLC on
small instances, and proves the central properties with TLAPS.

Contents: [how the program runs](#how-the-program-runs),
[inventory](#inventory), [modules](#modules), [runs](#runs),
[fairness](#fairness), [proofs](#proofs), [findings](#findings),
[not modelled](#not-modelled), [plan](#plan).

## How the program runs

These facts decide what is one step in every module.

- Handlers are `async def`, but pymongo, `subprocess`, `urllib` and the
  Kubernetes client are synchronous and nothing inside a handler awaits. In one
  API process a handler therefore never interleaves with another handler.
- A worker is another process, always. The docker-compose file starts one; the
  README also starts `python worker.py` on the host, so there may be two.
- The Netlify function `netlify/functions/api.py` is the same API in as many
  processes as there are requests. They share the database only.
- One MongoDB operation is atomic; there are no transactions. A file operation,
  a cluster call or a subprocess is a step of its own.
- The Node API awaits every call of the database and of Kubernetes, so its
  handlers interleave at every `await`, also in one process. The dashboard and
  the CLI are single-threaded too, with awaits, callbacks and renders between.
- A process may die between any two operations. `run_worker_loop` has no `try`
  around the claim or `process_job`, so a database error there kills the worker.

## Inventory

| Component | State | Operations | What is hard | What makes it correct |
|---|---|---|---|---|
| Asynchronous provisioning (`routes/deployments.py`, `services/provision_worker.py`, `provisioner.py`, `kubernetes.py`) | `deployments`, `provision_jobs`, `usage_metrics`, Kubernetes objects | POST, DELETE, claim, provision, complete, requeue, give up, reset by hand | two workers, deaths, lost answers, delete during provisioning, retries after success | exclusive claims, bounded retries, `running` is true, metered once, every deployment settles |
| Load balancers (`routes/load_balancers.py`, `services/lb_config.py`, `lb_tls.py`, `nginx_reload.py`) | `load_balancers`, conf files, certificates, nginx's configuration | POST, PATCH, DELETE, rebuild, reload | rebuilds by API and worker at once, deaths halfway, name and port collisions | files say what the documents say, keys fit, nginx accepts; that ports differ, the code does not ensure |
| API gateways (`routes/gateways.py`, `services/gateway_config.py`, `gateway_edge.py`) | `gateways`, routes, API keys, conf files | CRUD, rebuild, validate at the edge | cascading delete against concurrent inserts; two routes of one path give one nginx location twice | no orphans, a revoked key fails at once, nginx accepts |
| Rate limiter (`services/redis_client.py`, `middleware/control_plane_gateway.py`) | a sorted set per key in Redis | check | four Redis operations per check, equal timestamps | at most the limit per window; a denied request does not count |
| Managed SQL (`routes/databases.py`, `services/providers/database.py`, `sql_dedicated.py`) | `database_instances`, databases and users of the engines, containers and their ports | create, resize, delete | a placeholder document, a remote create and its rollback; port allocation; names that collide | an `available` instance owns a database; a failed create removes only what it made; nothing leaks |
| SQL backups (`services/database_backup.py`) | `database_backups`, objects in MinIO, `lastBackupAt` | manual backup, sweep of the worker | deaths while a dump runs; what the sweep never sees | every due instance is backed up; a backup ends |
| Quota (`services/quota.py`) | counts of all of the above | checks before each create | check and insert are two operations: several API processes | limits hold |
| Billing (`routes/billing.py`, `services/billing.py`, `irembopay.py`) | `invoices` | create, pay, sync, webhook | late, duplicated and reordered status messages | a paid invoice stays paid; usage is billed once |
| Ops vault (`services/ops_vault.py`, `config.py`, `secrets_crypto.py`) | `system_secrets`, runtime overrides, cached clients, the Fernet key | upsert, migrate, apply at start | an override changes the key the vault is encrypted with; several processes | every stored secret stays readable; a process uses the latest value |
| Identity, API keys, tenant secrets, projects | `users`, `tenants`, `api_keys`, `secrets`, `projects` | register, login, issue, revoke, rotate | multi-document creates without a transaction | no half-made tenant; a revoked key fails |
| Buckets, VMs, usage, audit, monitoring | one collection each | single inserts and reports | one external call beside one insert | little: not modelled |
| GraphQL (`services/graphql_mutations.py`) | none of its own | the REST handlers again | where it differs from REST | as REST |
| Node API (`apps/api`: `app.ts`, `server.ts`, `database.ts`, `middleware/auth.ts`, `services/kubernetes.ts`, `routes/`) | the same collections; per process the collection variables, `dbReady`, whether it listens | connect, register, login, keys, deploy, lists, metrics | handlers interleave at each await; the database is connected once per process; errors no handler catches end the process | no handler sees a half-open database; one user per address; `running` is true; every request ends |
| CLI (`packages/cli/src`) | `~/.config/cloudlane`: token, key, address | login, logout, deploy, list, logs | fields stored one by one; several shells; address from shell or file | a key only goes to the server that issued it |
| Terminal (`CloudlaneTerminal.tsx`, `lib/cloudlaneTerminal.ts`) | window, screen, input history, busy flag | some forty commands of one or two calls | the project or the resources change between lookup and call; the window closes meanwhile | one command at a time; a screen shows its own project's output; the console is told of changes |
| Console page (`app/dashboard/console/page.tsx`, `consoleNavMenus.ts`) | tab, address, project, SWR's cache, busy flag | 28 handlers, polling, navigation | answers that come late; a list fetched under another key; several addresses on their way | lists catch up; the tab is the address's; a deleted secret is not shown |
| Other dashboard pages | tables of labels; the data of one fetch each | show | - | not modelled |

Who calls whom: handlers and the worker call `database.py`; the worker calls the
provisioner and, after a success, the load balancers' rebuild, and sweeps due
backups when no job is queued; handlers of balancers and gateways rebuild
nginx's files; every create asks the quota first; starting the API applies the
ops vault and rebuilds all files; nginx asks the API to validate each gateway
request. The dashboard and the CLI call either API over HTTP; the terminal
tells the console page which of its commands have changed something.

`PROJECT.json` lists the hazards met so far, each at its line.

## Modules

### Provisioning and WorkQueue

`Provisioning.tla` is the asynchronous deploy, call by call.

- *State*: `name`, `status`, `deleted` are the `deployments` documents;
  `jobState`, `attempts`, `createdAt` the `provision_jobs`, one per deployment,
  with `clock` standing for the order of their stamps; `cluster` says which
  deployment made the object of each kind and name in the tenant's namespace;
  `usage` counts the compute rows. `hpc`/`hdep` are API requests in progress,
  `wpc`/`wdep`/`wtry` the workers: `wpc[w]` is the call worker w makes next,
  `wtry[w]` the `attempts` value its claim returned, on which the `except` of
  `process_job` decides. `kube[w]` is `is_ready()`, fixed when a process starts.
- *Actions*: `CreateDeployment`, `CreateProvisionJob`, `FindForDelete`,
  `SoftDelete`, `DeleteScaler`, `RequestDies` for the two handlers; `Claim` and
  then `Report`, `CheckReady`, `CreateCore`, `CreateScaler`, `Meter`,
  `Complete`, `Confirm` for an attempt that works; `CallFails`, the failing
  disjuncts, `Requeue`, `GiveUp`, `ReportFailure` for one that does not;
  `WorkerDies`, `Restart`; `ResetJobs` for `scripts/reset_jobs.py`.
- A call that fails may fail without effect (`CallFails`) or after its effect
  (`Answer`). A create of an existing Deployment, Service or Ingress is a 409,
  which raises; a KEDA object's 409 counts as success, as in the code. The audit
  writes swallow their errors and have no step. Looking up and making the
  namespace is one step: the second of two concurrent creates is one of the
  failing calls.
- API requests may overlap if `Handlers` has several members, as on Netlify.
- History: `overtaken`, the deployments for which a worker wrote after another
  had claimed their job. A failed attempt gives its job back before it writes
  the status, so a second worker can be done before that write, which then hides
  what it said.
  `SuccessIsVisible` and `DeploymentSettles` except these deployments and no
  others; without the exception two workers and one failed call refute both.

`WorkQueue.tla` is what the `provision_jobs` collection promises, without saying
how: oldest first, one holder, `MaxAttempts` takes, finished for good, a dead
worker's job stays taken. `QueueContract` states that Provisioning implements
it. The interesting part of the mapping is a job that was marked `succeeded`
while its worker may still reopen it, because a later call in the same `try`
fails: for the queue it is still taken (`Phase`, `Deciding`).

`MCProvisioning.tla` gives finite constants. `ProvisioningProofs.tla` has the
proofs.

### EdgeSync

`EdgeSync.tla` is the load balancers and the files that nginx runs on.

- *State*: `doc`, the `load_balancers`; `up`, the balancers whose target
  deployment runs; `disk`, the files of `lbs/` and `lb-stream/`; `key` and
  `crt`, which process wrote each half of a certificate pair; `live`, what nginx
  last accepted; for each process `pc`, `dir`, `todo`, `conf`, where it is in
  `sync_lb_configs`, and `req`, what a handler whose check has passed is about
  to write. `born` stands for `createdAt`.
- *Actions*: the handlers check and write in two database operations. `Create`
  is a POST up to the check of its port, `Insert` the rest; `Update` and `Set`
  are a PATCH, which names some of the fields and skips the check if the port is
  not among them; a `Set` whose document is gone is a 404. `Delete` has one
  operation. A write by the API beside nginx enters the rebuild; one by a
  Netlify function does not, as the conf directory is out of its reach and the
  exception is printed (`Changed`). `WorkerSync` enters it after a deployment
  went live; `Restart` of the API enters it in `lifespan`. The rebuild is `Glob`, `Unlink` for each file of
  each directory, `List`, then for each document `Take`, `WriteKey`, `OpenCrt`,
  `FillCrt`, `Render`, `Write`, and at last `Reload`. `Abort` is the
  FileNotFoundError that `unlink()` raises when another process was faster.
  `Retarget` changes the state of a target behind the rebuild's back; `Die`
  kills a process anywhere.
- A name stands for `_safe_lb_name` of it, so two balancers of different tenants
  may share a file. GraphQL stores the protocol as it is spelt, hence `"tcp"`,
  which the theorems allow for and the runs leave out.
- History variables: `solo[p]`, nobody else wrote while p's rebuild ran;
  `overlapped`, two rebuilds ran at once; `clashed`, two active balancers had
  one TCP port. They appear in properties only. What happens while two rebuilds
  overlap has no property, and may be bad: see [findings](#findings).
- What nginx accepts (`Valid`) is external: one listener per TCP port, and keys
  that fit their certificates. That docker is at hand and nginx up is assumed: a
  worker that can bring a deployment to `running` has a kubeconfig, so it runs
  on the host and not in the compose container, which has neither.

### ManagedSql

`ManagedSql.tla` is the managed databases of one tenant.

- *State*: `doc`, the `database_instances`; `made`, which instance made the role
  and the database of each identifier on each server, a server being a shared
  engine or an instance's own container; `bound`, the host port each running
  container holds; for each API process `pc`, `req` (the request with the
  document it has read) and `port` (the port it has chosen). `Ident` is what
  `_unique_names` makes of a name.
- *Actions*: a create is `Create` (quota and engine asked), `Insert` (the
  placeholder, under the unique index on tenant and name), for a dedicated one
  `Allocate` and `Run`, then `Make` twice in the order of the engine, and
  `Finalize`; a failing statement leads to `Undo` twice and `Discard`, an
  uncaught RuntimeError ends the request where it is. A delete is `Delete`,
  `DropObject` twice, `Remove`, `Erase`; a resize is `Patch`, `Resize`; `Die`
  ends any request.
- A failing call fails before or after its effect. MySQL's rollback goes to the
  shared engine also for a dedicated instance, as in the code.
- Several members of `Apis` are Netlify's processes; with one, requests run one
  after the other. `overlapped` records which of the two a history was, `doomed`
  which instances a delete has begun to remove, and `contested` which identifiers
  were wanted by two at once: by two requests in progress, or by a request while
  a document of another name had it.
- Two names may have one identifier (`Ident`), as in the code. `CompleteOwns`
  excepts contested identifiers, beside instances that are being deleted.
- The quota: a check reads figures that others may have made stale, so requests
  that overlap exceed the limit, which `docs/MANAGED_SQL.md` says they cannot.
  `OvershootBounded` says how far: by one largest size, and one instance, for
  every process but one. With one process that is the documented limit.
- The index exists where some process other than a Netlify function has started
  once (`ensure_indexes`); the model assumes it.

### NodeApi

`NodeApi.tla` is the Node control plane, await by await.

- *State*: per process `up`, `listening`, `phase` (how far `initializeDatabase`
  is), `cols` (its collection variables are set), `memo` (the `dbReady` promise
  of `app.ts`); the documents `tenants`, `users`, `keys`, `deployments`,
  `metrics` and the unique index `indexed`; `objects`, which deployment made
  each Kubernetes object; per request `pc`, `req`, `host`. `tokens` and `issued`
  are the credentials clients hold.
- *Actions*: `StartServer`, `Connected`, `ConnectFails`, `CreateIndexes`,
  `Closed` for the connection, `EnsureDatabase` for a request that meets it;
  `AuthenticateJwt`, `AuthenticateApiKey`, `MarkApiKeyUsed`; then one action per
  awaited call of each route, from `FindUser`, `InsertTenant`, `InsertUser`,
  `RemoveTenant` of a sign-up to `CreateObject`, `SetRunning`, `SetFailed` of a
  deploy. `Die` kills a process.
- Every call may be refused, or carried out with its answer lost. Where the code
  has no `try`, the rejection is unhandled and ends the process (`Unhandled`),
  and with it the other requests in it: that is Node's default, which nothing in
  the repository changes.
- A server opens the database before it listens and makes the index; a Netlify
  function opens it at the first request and never makes the index.
- History: `confirmed`, `revoked`, what clients have been told; `abandoned`,
  deployments whose request ended without an answer.

### Cli

`Cli.tla` is several commands at once over one configuration file. `config` is
the file, `pc` and `run` what a command does next and has read. `PostLogin`,
`ReadFile`, `WriteFile` are a login, which stores three fields in three
rewritings of the file; `Clear` is a logout; `GetUrl`, `GetKey` and one of
`Deploy`, `ListDeployments`, `ViewLogs` the rest. `conf` refuses an undefined
value, so a login at a server that issues no key (the Node API) stops after
the token. `last`, `spoiled`, `undisturbed` are history: the last login that
succeeded, whether writers overlapped or were killed, who met no writer. A key
is named by the server that issued it.

### Terminal

`Terminal.tla` is the console's terminal. `open`, `project`, `lines`, `input`,
`history`, `histIdx`, `busy` are the component's state; `running` the command in
progress with the project it closed over; `born` and `alive` the resources. The
branches of `runTerminalCommand` are a table (`Rows`): words, kind of resource,
and the calls made. `Find`, `Call`, `End` step through the calls. No project is
selected until the page has fetched them: `projectQuery` is then empty, a lookup
covers the tenant (`Hits`), and the control plane puts what is made into the
tenant's default one (`Home`). `logs` finds a deployment in its project, but
asks for the log under its name, so a namesake of another project may answer
(`Namesakes`). No property says that a command keeps to its project. `Open`,
`Close`, `SwitchProject`, `Rerender` are what happens around it, `Rerender`
being any rendering of the top bar, which hands the window a new `onClose` and
thereby runs its effect again. `Other` is another session. `unseen` is history:
first words of commands whose change the console has not been told of.

### Console

`Console.tla` is the console page. `url`, `tab`, `going`, `project` say where
the user is; `going` are addresses pushed that the router has not reached.
`cache`, `entry`, `reading` are SWR: the data of a key, the state of its
request, what that request has read at the server. `busy`, `acting`, `revealed`
are the page. Handlers are a table (`DeploymentsPanel` to `DbsPanel`): the call
and the lists fetched afterwards; a click goes through `CarryOut`, `Good` or
`Bad`, `Mutate` per list, `End`. `Mutate` fetches the key its hook has *now*, of
the project and tab the user has meanwhile gone to. A later request supersedes
an earlier one of the same key, as in SWR. `mine`, `failed`, `missed` are
history: confirmed changes, keys whose last fetch failed, and keys a handler
would have fetched, had they been on the page.

## Runs

| Run | Instance | Properties | Shows |
|---|---|---|---|
| `provisioning_safe` | 2 deployments of one name, 2 workers, 1 request, 2 attempts, 2 failing calls, 1 death | `TypeOK`, `ExclusiveClaim`, `RunningOwnsCluster`, `QueueContract` | claims stay exclusive through retries, `running` never rests on a namesake's objects, the queue's contract |
| `provisioning_reset` | 1 deployment, 2 workers, each with or without a cluster, 2 failing calls, 2 resets | `MeteredOnce`, `TriesBounded`, `SuccessIsVisible`, `EveryJobSettles`, `DeploymentSettles` | what remains true when an operator queues the jobs of living workers: metered once, each reset buys one attempt, jobs and deployments settle |
| `provisioning_crash` | 1 deployment, 1 death | `ReachesTerminal`, violated | see findings |
| `provisioning_delete` | 1 deployment, nothing fails | `DeletedHasNoScaler`, violated | see findings |
| `edge_safe` | 2 balancers, 2 names, 1 port, the API, a Netlify function and a worker, 3 changes, 1 death | `TypeOK`, `SoloSyncExact`, `CertsFit`, `NginxRunsTheFiles` | a rebuild that runs alone repairs all that went before |
| `edge_ports` | 2 balancers, 1 name, 1 port, the API alone, 4 changes, no death | `PortsUnique`, violated | see findings |
| `sql_safe` | 3 documents, 3 names of 2 identifiers, both engines, shared and dedicated, 2 ports, 2 sizes, 2 API processes, 3 requests, 1 failing call, 1 death | `TypeOK`, `CompleteOwns`, `PortsDiffer`, `OvershootBounded`, `NoStuckPlaceholder` | what failed and dead requests leave behind never becomes part of a later instance; ports and placeholders stay in order; the quota is broken by a bounded amount at most |
| `sql_alike` | 2 names of one identifier, 1 API process, nothing fails | `CompleteHasDatabase`, violated | see findings |
| `node_safe` | 1 server, 1 function, 2 requests in flight, 3 in all, 3 accounts of which two share an address, 1 fault | `TypeOK`, `HandlersSeeWholeDatabase`, `OneUserPerAddress`, `ConfirmedAccountsStay`, `RunningOwnsObjects`, `DeployingIsInHand`, `RevokedKeyRefused`, `EveryRequestEnds` | interleaved requests and one failure leave accounts, keys and deployments consistent; nobody waits for ever |
| `cli_safe` | 2 processes, 3 servers of which one issues no key, 4 commands, 1 kill or failed call | `TypeOK`, `LastLoginStands`, `CommandsGoHome` | key and address stay a pair unless logins overlap or are killed |
| `terminal_safe` | 3 commands of 6 kinds, 2 projects and none at first, 2 resources, history of 2, 1 change by others | `TypeOK`, `OneCommandAtATime`, `LinesOfThisProject`, `RefreshedAfterChange` | changes of project, window and resources during a command let no second one in, and mix up neither screens nor lists |
| `console_safe` | 2 projects, 1 resource, lists of deployments and secrets, 2 tabs and the hub, 3 steps | `TypeOK`, `OneHandlerAtATime`, `TabFollowsUrl`, `ListsCatchUp`, `RevealedGoes`, `PollsUntilSettled` | late answers and moves during a handler do not leave a wrong list, tab or value |

Why these bounds are enough to be interesting:

- Two workers and two deployments give every race of the claim: a requeued job
  claimed by the other worker, two jobs in the order of `createdAt`, two
  deployments that derive the same Kubernetes name. A third adds no new pair.
- Two attempts are the least with one retry and one refusal. Two failing calls
  let an attempt fail, and the retry fail or lose an answer too. One death can
  hit any step of any attempt.
- In EdgeSync two names and two balancers give a shared file name and a shared
  port, three changes a create, a second create or update, and a rebuild by the
  worker beside either. The Netlify function writes between another process's
  check and its write, and during a rebuild. A PATCH (`Patches`) names one field
  at most, or all to activate the balancer.
- In ManagedSql three requests give a create that dies or fails, the delete of
  what it left, and a second create of that name; or a create, a delete that
  fails halfway, and a create that might get the same port. A limit of 2 and
  sizes up to 2 let two creates that overlap reach the bound of 4, and make a
  second create, or a growth, that runs alone exceed the storage.
- In NodeApi two requests in flight give every pair that interleaves, in one
  process or in two; the third gives a request after another has ended, as the
  use of a key after its deletion. One fault hits any call of any request.
- In Cli two processes overlap in every way; four commands give a login, a
  login elsewhere that may stop halfway, and two readers beside or after it.
- In Terminal the six kinds of command are one that creates, one that looks up
  and changes, one that looks up and deletes, `logs`, `gw`, and `clear`; two
  resources let one be replaced by a namesake between lookup and call, or have a
  namesake in the other project.
- In Console one resource is enough for a stale list, two projects and two tabs
  for a key that leaves the page; three steps give a click, a move and a failed
  fetch, or two moves during a handler.

The runs turn deadlock checking off: all models stop when their bounds are used
up, and an idle system may stop.

Faulty variants of single definitions, such as `RescueOffByOne` or `KeepOldKey`,
stand before the definition they spoil. Nothing uses them; each has been put in
place of its original to see that TLC then refutes a property.

## Fairness

`FairSpec` of Provisioning gives weak fairness to a request in progress
(`RequestStep`: a process that runs goes on), to each worker's next call
(`WorkerStep`: `run_worker_loop` polls for ever) and to `Restart`. Nothing makes
a user send requests, an operator reset jobs, a call fail or a process die. The
disjuncts of a step that fail are bounded by `MaxFaults`: every run has finitely
many failures, the usual assumption about a service that works in the long run.
Fairness is per worker and not per job, and the claim takes the oldest, so that
a job is served needs no further assumption. EdgeSync, ManagedSql, Cli
and Terminal have no liveness property.

NodeApi has weak fairness for each process that connects and for each request:
the driver's calls end within its timeouts, the connection within the 4.5
seconds of its timer, and the event loop comes to every callback. That calls to
Kubernetes end too is an assumption: the code gives them no timeout, and where
one hangs, its request hangs. Faults are bounded.

Console has weak fairness for `Poll`, an interval that runs as long as an
unsettled deployment is shown, and strong fairness for reading and answering
the fetch of the deployments shown. Strong, because a poll supersedes a fetch
that takes longer than three seconds: a control plane that always does would
never be heard, and nothing in the code prevents this.

## Proofs

`ProvisioningProofs.tla` proves, for any number of deployments, names, workers,
requests, attempts, failures, deaths and resets, from `ProvisioningAssumption`
alone (the constants are what their comments say):

| Theorem | States |
|---|---|
| `Invariance` | `Spec => []IInv` |
| `TypeCorrect` | `TypeOK`; with it, that without resets no job is claimed more than `MaxAttempts` times |
| `ClaimIsExclusive` | `ExclusiveClaim` |
| `RunningIsBuilt` | `RunningOwnsCluster` |
| `MeteredAtMostOnce` | `MeteredOnce` |
| `TriesAreBounded` | `TriesBounded` |
| `SuccessIsTold` | `SuccessIsVisible` |
| `ImplementsQueue` | `Spec => QueueContract`, where nobody resets jobs |

None of the three safety properties is inductive. `IInv` adds what each step
relies on: a request works on a document that exists and only its creator
inserts its job (`RequestsRecorded`), jobs and usage rows belong to documents
(`JobsRecorded`), a queued job has an attempt left (`Retriable`), a held job
exists and is requeued only with attempts left (`HoldersRecorded`). The heart is
`Built`: an attempt that has passed a create made that object itself, because a
409 would have raised; so no two attempts are building one deployment, even when
a reset lets a second worker claim a living worker's job, and the usage row of
that deployment has not been written. `Metered` carries this beyond the attempt:
a metered deployment still has its Deployment object, so every retry stops
there. One lemma per action shows that it keeps `IInv`, a step per conjunct.

`TriesBounded` needs an account of its own (`Tries`): the claims a job has had,
one more if it is queued, and one for each worker that may still put it back
(`Spare`) are together at most 1 + resets + its claims, the latter counted up to
`MaxAttempts - 1`. A claim that may be retried raises both sides, the last one
neither, and a reset is what it says: one more. `SuccessIsVisible` follows from
`Reported`: of the workers that hold a job at most one made its last claim
(`OneLast`), and unless somebody was overtaken, that worker has told the
deployment what its step says (`Told`).

`ImplementsQueue` uses `IInv` in each step lemma: `Claim` is `Take`, `Requeue` is
`GiveBack`, `GiveUp` and the return of a finished attempt are `Finish`, the death
of a deciding worker is `Lose`, everything else stutters.

`CliProofs.tla` proves of Cli, for any servers, names and processes, that
`TypeOK`, `LastLoginStands` and `CommandsGoHome` hold. `LastLoginStands` speaks
of quiet moments only; `HalfWay` says what the file is in between: until the key
is written it holds the last login, then the new key with the old address, which
no reader that counts as undisturbed can meet (`WritersApart`), and a login that
has no key stops before that (`Answered`).

`TerminalProofs.tla` proves of Terminal, for any projects, resources and command
lines, `TypeOK`, `OneCommandAtATime`, `LinesOfThisProject` and
`RefreshedAfterChange`. The heart is `OneAtATime`, the busy flag outliving the
window, whatever closes it or resets its screen, and
`LinesThatChange`, a walk through the whole table of commands: each that changes
something begins with a word that makes the console fetch, or with `gw`. What is
delicate in `TypeOK` is the place in the history: a quick command leaves it
where it is, and it stays inside because a command entered again takes out one
earlier line at most, the history holding none twice (`Recorded`, `PushIs`).
JavaScript's `filter` is `Without`, the kept positions by rank, and not
`SelectSeq`, which is recursive; `Ranked` shows that every rank is taken.

`ConsoleProofs.tla` proves of Console, for any projects, tabs, lists and
resources and all 28 handlers, `TypeOK`, `OneHandlerAtATime`, `TabFollowsUrl`,
`ListsCatchUp` and `RevealedGoes`. The heart is `OnTheWay`: for every change
that was confirmed, its list is about to be read, or the answer on its way shows
it, or the data does, or a handler still owes the fetch, or it was missed. Only
a read brings data in, and a later request forgets an earlier one's answer.
`RowsFetch` walks through the table of handlers: each that changes a list
fetches this list. `Bound` is what the tab needs: the last address pushed, or
the one reached when nothing is pushed, is the tab's unless it is the hub's.

`EdgeSyncProofs.tla` proves, from `EdgeAssumption` and for any balancers, file
names, ports, API processes and workers, the four invariants of `edge_safe`:
`TypeOK`, `SoloSyncExact`, `CertsFit` and `NginxRunsTheFiles`. The heart is
`Undisturbed`, what a rebuild nobody disturbs has done at each step. While it
unlinks (`Cleaned`), the directory before the one it is in is empty, and the
names it has left are those of the files there, so that it never aborts. While
it writes (`Filled`), every file is that of the oldest of its claimants written
so far, as the youngest come first and no two documents are of one age (`Aged`);
whether the target runs is only certain if nobody wrote meanwhile. `Apart` says
that next to such a rebuild there is no other. `Pairs` and `KeysFirst` follow a
pair of key and certificate through its three steps, and `Whole` says that
without deaths a torn certificate is one that a process is about to fill. nginx
accepts the reload because of all of these (`Accepted`). The choices of the
code's orders, the first name, the youngest document, are shown to exist from
the well-founded order of the naturals.

`ManagedSqlProofs.tla` proves, from `ManagedSqlAssumption` and for any
instances, names, identifiers, ports, sizes and processes, all five invariants
of `sql_safe`: `TypeOK`, `CompleteOwns`, `PortsDiffer`, `OvershootBounded`,
`NoStuckPlaceholder`. No theorem assumes that names have different identifiers.
`OneProcessKeepsQuota` adds what a single API process keeps: the limits of
`docs/MANAGED_SQL.md` to the letter. The inductive invariant goes by what the
history was:

- always: a request and its document agree on what never changes (`Working`),
  two creates have two instances (`OwnIds`), and names differ (`NamesDiffer`);
- for a request whose identifier nobody else ever wanted at the same time
  (`Clear`): it has its identifier and its document to itself (`Separate`), and
  a create has made what its step says (`Owning`);
- while no two requests at all have overlapped: one process is busy (`Lone`),
  and the port it has chosen is still free (`PortFree`);
- always, for the quota (`Covered`, `Counted`): every instance given out has a
  share that covers the size stored and each size some request may yet store,
  and the shares together stay within the limit and one largest size for each
  process but one. A check that passes leaves a total within the limit, and no
  more than the other processes' requests are on their way beside it.

The quota is a sum over a set, which the community modules define by recursion.
`SumExists` shows that the recursion has a solution, and `SumsDiffer` that two
documents' sums differ by what one of them differs in, both from a smallest case
where this failed: the library has no induction the provers can use, but it has
well-founded orders of the naturals and of finite sets.

`NodeApiProofs.tla` proves, from `NodeApiAssumption` and for any processes,
requests, accounts, keys and deployments, all seven invariants of NodeApi:

| Theorem | States |
|---|---|
| `TypeCorrect` | `TypeOK` |
| `WholeDatabase` | `HandlersSeeWholeDatabase` |
| `AddressesUnique` | `OneUserPerAddress` |
| `ConfirmedForGood` | `ConfirmedAccountsStay` |
| `RunningOwns` | `RunningOwnsObjects` |
| `DeployingInHand` | `DeployingIsInHand` |
| `RevokedRefused` | `RevokedKeyRefused` |

`Connection` and `Hosted` follow a process from its start to its end: who
listens, or has a connection that is ready, has all collections, and a request
past `ensureDatabase` is in such a process. `Asks` and `OnItsWay` say which
request comes to which await, and with what. What a request has found out or
made by each await is `SignsUp`, `HoldsKey` and `Deploys`; that no other undoes
it needs `SignUpsDiffer` (an account has one sign-up at a time) and `Keyring` (a
key is made once and never again). `Room` counts: there is always an `_id` left
for the keys and deployments still to be made, since a request makes one at
most, and `NodeApiAssumption` has as many as there may be requests. A lemma for
each action and conjunct would be no proof to read. Instead `Moves` says what
any step is for the requests (one goes on as the table `Flow` says, some end,
one arrives), `Writers` which steps write which documents, and each part of the
invariant is proved from these.

Only model-checked are the liveness properties (`EveryJobSettles`,
`DeploymentSettles`, `EveryRequestEnds`, `PollsUntilSettled`), which are beyond
this prover, and the four properties the code violates. Every safety invariant
and every action property of the passing runs is a theorem.

## Findings

- *A dead worker's job is lost* (`provisioning_crash`). The claim takes `queued`
  jobs only. A worker that dies after its claim leaves the deployment in
  `provisioning`, however often it is restarted, until someone runs
  `scripts/reset_jobs.py`; `docs/e2e-validation.md` promises a terminal status.
- *A deleted deployment comes back* (`provisioning_delete`). The worker looks
  neither at `deletedAt` nor at the status, so a deployment deleted while its
  job is queued is built afterwards, with its KEDA objects, which
  `docs/KEDA.md` says a delete removes.
- *Two active balancers on one port* (`edge_ports`). A disabled balancer keeps
  its port, the check counts active ones only, and a PATCH checks nothing unless
  it names a port: disable one, give its port away, activate it again.
  `docs/LB.md` says that TCP ports must be unique; nginx then refuses every
  configuration. GraphQL's `"tcp"`, which the check does not count, and two API
  processes that check before either writes end there too.
- *A failed create drops another instance's data* (`sql_alike`). The names `a-b`
  and `a_b` become one identifier; the second create fails, and its rollback
  drops the first one's database and role.

The models reach more states of this sort, which are listed as hazards. Some
contradict a text but have no run of their own:

- the storage quota of `docs/MANAGED_SQL.md`, "cannot exceed", is exceeded by two
  API processes whose checks overlap; `OvershootBounded` is what remains of it;
- the terminal status of `docs/e2e-validation.md` is also missed when a worker
  writes late, after another has finished the job it gave back (`overtaken`).

Others contradict nothing that is written: rebuilds that overlap unlink each
other's files, or mix the two halves of a certificate pair; a deleted
deployment's balancers go on proxying to it; a dedicated create whose
RuntimeError leaves placeholder and container; a dedicated instance that can no
longer be deleted; two deletes of one database with a create between them; a
login between a command's two reads of the configuration; two users of one
address where only functions run, which never make the index; the terminal's
output, wiped whenever the page renders.

## Not modelled

- API gateways, the rate limiter, SQL backups, billing, the ops vault, and the
  Python API's identity routes. The gateways' rebuild has the shape of the
  balancers', with the same steps and hazards; the quota checks, but for the
  databases', are one count before one insert.
- Buckets, VMs, usage reports, audit and monitoring are single database calls
  with one external call at most. GraphQL repeats the REST handlers; where it
  differs the module says so.
- The dashboard's other pages show tables of labels or the data of one fetch.
  Two observations from reading them: `AuditLogViewer` keeps the answer that
  comes last, also if it is to an older filter; in `ConsoleNav` a starred
  product's row and its favourite share one flyout id, so both flyouts open.
- Within modelled parts: log retrieval, payload validation, DNS names, the
  contents of upstream blocks beyond whether the target runs; in the console the
  selection of a gateway or bucket and what is loaded for it, keys that are
  shown once, and the fields of forms.

## Plan

In this order; each module comes with its own runs and, if the last column says
so, a proof module.

| Module | Models | Properties aimed at | Proofs |
|---|---|---|---|
| Provisioning, WorkQueue | done | | done |
| NodeApi, Cli, Terminal, Console | done | | done |
| EdgeSync | done | | done |
| ManagedSql | done, but for the backups | | done |
| SqlBackups | manual backups, the sweep, deaths during a dump, deletes meanwhile | a backup ends; what the sweep covers; `lastBackupAt` is true | `lastBackupAt` |
| Quota | check-then-insert of several API processes over an abstract ledger of resources, refined by the storage of ManagedSql | overshoot is bounded by the processes, as in ManagedSql | the bound |
| Billing | invoices against a payment provider that repeats and reorders messages | paid stays paid, usage billed once, where the code ensures it | monotone statuses |
| OpsVault | vault, overrides, key derivation, clients, restarts | readable secrets, fresh overrides | readability |
| GatewayEdge, RateLimiter | cascade delete, validation at the edge, the sliding window | revoked keys fail, windows bounded | window bound |
| Identity | register with compensation, API keys, tenant secrets | no half-made tenant seen by a login | |

SqlBackups composes with ManagedSql through the documents, and with Provisioning
through the worker, which sweeps only when no job is queued.
