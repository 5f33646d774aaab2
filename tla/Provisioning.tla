---------------------------- MODULE Provisioning ----------------------------
(***************************************************************************)
(* Asynchronous deploys: API requests insert deployments and provision     *)
(* jobs, worker processes claim the jobs, build the Kubernetes objects and *)
(* write the outcome back.  All of them share one Mongo database and one   *)
(* tenant namespace of a cluster, and nothing else, so every database or   *)
(* cluster call is one step, and a process may die between any two.        *)
(*                                                                         *)
(* A deployment has one job, so a job is named by its deployment; the job  *)
(* payload repeats fields of the deployment that never change and is read  *)
(* from there.  minInstances has its default, 0.                           *)
(***************************************************************************)
EXTENDS Naturals

CONSTANTS
  Deployments,  \* deployment documents that may be created, in one tenant
  Names,        \* Kubernetes names derived from the deployments' names
  Workers,      \* provision-worker processes
  Handlers,     \* API requests that may be in progress at once
  MaxAttempts,  \* settings.provision_max_attempts
  Scalers,      \* the KEDA objects the settings ask for
  Kubeconfigs,  \* outcomes of loading a kubeconfig when a process starts
  MaxFaults,    \* bound: database and cluster calls that fail
  MaxCrashes,   \* bound: workers and requests that die
  MaxResets,    \* bound: times an operator runs scripts/reset_jobs.py
  None          \* no deployment, no name

Core == {"Deployment", "Service", "Ingress"}
Kinds == Core \cup Scalers

ASSUME ProvisioningAssumption ==
  /\ None \notin Deployments \cup Names
  /\ MaxAttempts \in Nat \ {0}
  /\ Scalers \in {{}, {"ScaledObject"}, {"ScaledObject", "HTTPScaledObject"}}
  /\ Kubeconfigs \subseteq BOOLEAN /\ Kubeconfigs # {}
  /\ MaxFaults \in Nat
  /\ MaxCrashes \in Nat
  /\ MaxResets \in Nat

VARIABLES
  name, status, deleted,           \* the deployments collection
  overtaken,                       \* history: deployments for which a worker wrote
                                   \* although another had claimed their job since
  jobState, attempts, createdAt,   \* the provision_jobs collection
  clock,                           \* createdAt of the youngest job
  cluster,                         \* which deployment made each object, by kind and name
  usage,                           \* compute_seconds rows per deployment
  hpc, hdep,                       \* API requests: next step, deployment
  wpc, wdep, wtry, kube,           \* workers: next step, job, its attempts, is_ready
  faults, crashes, resets          \* bounds used up

docs == <<name, status, deleted, overtaken>>
jobs == <<jobState, attempts, createdAt, clock, resets>>
api == <<hpc, hdep>>
workers == <<wpc, wdep, wtry, kube>>
bounds == <<faults, crashes>>
vars == <<docs, jobs, cluster, usage, api, workers, bounds>>

Finished == {"succeeded", "failed"}

Init ==
  /\ name = [d \in Deployments |-> None]
  /\ status = [d \in Deployments |-> "none"]
  /\ deleted = [d \in Deployments |-> FALSE]
  /\ overtaken = {}
  /\ jobState = [d \in Deployments |-> "none"]
  /\ attempts = [d \in Deployments |-> 0]
  /\ createdAt = [d \in Deployments |-> 0]
  /\ clock = 0
  /\ cluster = [k \in Kinds |-> [n \in Names |-> None]]
  /\ usage = [d \in Deployments |-> 0]
  /\ hpc = [h \in Handlers |-> "idle"]
  /\ hdep = [h \in Handlers |-> None]
  /\ wpc = [w \in Workers |-> "idle"]
  /\ wdep = [w \in Workers |-> None]
  /\ wtry = [w \in Workers |-> 0]
  /\ kube \in [Workers -> Kubeconfigs]
  /\ faults = 0
  /\ crashes = 0
  /\ resets = 0

------------------------------------------------------------------------------
(* POST and DELETE /api/deployments. *)

RequestAt(h, step, d) ==
  /\ hpc' = [hpc EXCEPT ![h] = step]
  /\ hdep' = [hdep EXCEPT ![h] = d]

RequestDone(h) == RequestAt(h, "idle", None)

\* database.create_deployment: two deployments may bear one Kubernetes name.
CreateDeployment(h, d, n) ==
  /\ hpc[h] = "idle"
  /\ status[d] = "none"
  /\ name' = [name EXCEPT ![d] = n]
  /\ status' = [status EXCEPT ![d] = "provisioning"]
  /\ RequestAt(h, "enqueue", d)
  /\ UNCHANGED <<deleted, overtaken, jobs, cluster, usage, workers, bounds>>

\* database.create_provision_job, then the audit entry and the 202.
CreateProvisionJob(h) ==
  LET d == hdep[h] IN
  /\ hpc[h] = "enqueue"
  /\ jobState' = [jobState EXCEPT ![d] = "queued"]
  /\ createdAt' = [createdAt EXCEPT ![d] = clock + 1]
  /\ clock' = clock + 1
  /\ RequestDone(h)
  /\ UNCHANGED <<docs, attempts, resets, cluster, usage, workers, bounds>>

\* A DELETE finds the deployment: the filter skips soft-deleted ones.
FindForDelete(h, d) ==
  /\ hpc[h] = "idle"
  /\ status[d] # "none" /\ ~deleted[d]
  /\ RequestAt(h, "delete", d)
  /\ UNCHANGED <<docs, jobs, cluster, usage, workers, bounds>>

\* database.soft_delete_deployment: its filter does not look at deletedAt.
\* The KEDA cleanup follows if this API process has a cluster.
SoftDelete(h) ==
  LET d == hdep[h] IN
  /\ hpc[h] = "delete"
  /\ status' = [status EXCEPT ![d] = "stopped"]
  /\ deleted' = [deleted EXCEPT ![d] = TRUE]
  /\ \E ready \in Kubeconfigs :
       IF ready /\ "ScaledObject" \in Scalers
       THEN RequestAt(h, "ScaledObject", d)
       ELSE RequestDone(h)
  /\ UNCHANGED <<name, overtaken, jobs, cluster, usage, workers, bounds>>

\* One round of delete_scaled_objects: by name, whoever made the object.
DeleteScaler(h, kind) ==
  LET d == hdep[h]
      next == IF kind = "ScaledObject" /\ "HTTPScaledObject" \in Scalers
              THEN RequestAt(h, "HTTPScaledObject", d)
              ELSE RequestDone(h)
  IN
  /\ hpc[h] = kind
  /\ \/ /\ cluster' = [cluster EXCEPT ![kind][name[d]] = None]
        /\ next
        /\ UNCHANGED faults
     \/ /\ faults < MaxFaults        \* ApiException: reported, loop goes on
        /\ faults' = faults + 1
        /\ next
        /\ UNCHANGED cluster
     \/ /\ faults < MaxFaults        \* anything else ends the cleanup
        /\ faults' = faults + 1
        /\ RequestDone(h)
        /\ UNCHANGED cluster
  /\ UNCHANGED <<docs, jobs, usage, workers, crashes>>

\* The request dies between two calls: the process is killed, or a database
\* error turns into a 500.
RequestDies(h) ==
  /\ hpc[h] # "idle"
  /\ crashes < MaxCrashes
  /\ crashes' = crashes + 1
  /\ RequestDone(h)
  /\ UNCHANGED <<docs, jobs, cluster, usage, workers, faults>>

Request(h) ==
  \/ \E d \in Deployments, n \in Names : CreateDeployment(h, d, n)
  \/ \E d \in Deployments : FindForDelete(h, d)

RequestStep(h) ==
  \/ CreateProvisionJob(h)
  \/ SoftDelete(h)
  \/ \E kind \in Scalers : DeleteScaler(h, kind)

------------------------------------------------------------------------------
(* The worker: run_worker_loop, process_job and provision_deployment.  wpc[w] *)
(* names the call worker w makes next.                                        *)

\* The order of the calls of one attempt.
After == [
  start |-> "ready",
  ready |-> "Deployment",
  Deployment |-> "Service",
  Service |-> "Ingress",
  Ingress |-> IF "ScaledObject" \in Scalers THEN "ScaledObject" ELSE "live",
  ScaledObject |-> IF "HTTPScaledObject" \in Scalers THEN "HTTPScaledObject" ELSE "live",
  HTTPScaledObject |-> "live",
  live |-> "meter",
  pending |-> "complete",
  meter |-> "complete",
  complete |-> "confirm"]

\* The calls inside the try whose exceptions reach the except.
Guarded == {"start", "ready", "live", "pending", "meter", "complete", "confirm"} \cup Core

MoveTo(w, step) == wpc' = [wpc EXCEPT ![w] = step]

\* Faulty variants of Rescue: one attempt too many; requeueing is forgotten.
RescueOffByOne(w) == IF wtry[w] <= MaxAttempts THEN "requeue" ELSE "giveUp"
RescueNoRequeue(w) == IF wtry[w] < MaxAttempts THEN "retry" ELSE "giveUp"

\* process_job's except: retry or give up, by the attempts the job had when
\* it was claimed.
Rescue(w) == IF wtry[w] < MaxAttempts THEN "requeue" ELSE "giveUp"

Raise(w) == MoveTo(w, Rescue(w)) /\ UNCHANGED <<wdep, wtry, kube>>

\* A call that took effect answers, or its answer is lost and it raises.
Answer(w) ==
  \/ /\ MoveTo(w, After[wpc[w]])
     /\ UNCHANGED <<wdep, wtry, kube, faults>>
  \/ /\ faults < MaxFaults
     /\ faults' = faults + 1
     /\ Raise(w)

Release(w, step) ==
  /\ MoveTo(w, step)
  /\ wdep' = [wdep EXCEPT ![w] = None]
  /\ wtry' = [wtry EXCEPT ![w] = 0]

\* Faulty: the claim also takes over jobs that look abandoned.
ClaimableStale(d) == jobState[d] \in {"queued", "processing"}

\* The filter and the sort of claim_next_provision_job.
Claimable(d) == jobState[d] = "queued"

\* Faulty: the claim is not sorted.
OldestIgnored(d) == Claimable(d)

Oldest(d) == \A e \in Deployments : Claimable(e) => createdAt[d] <= createdAt[e]

\* database.claim_next_provision_job: one findOneAndUpdate.
Claim(w, d) ==
  /\ wpc[w] = "idle"
  /\ Claimable(d) /\ Oldest(d)
  /\ jobState' = [jobState EXCEPT ![d] = "processing"]
  /\ attempts' = [attempts EXCEPT ![d] = @ + 1]
  /\ MoveTo(w, "start")
  /\ wdep' = [wdep EXCEPT ![w] = d]
  /\ wtry' = [wtry EXCEPT ![w] = attempts[d] + 1]
  /\ UNCHANGED <<docs, createdAt, clock, resets, cluster, usage, api, kube, bounds>>

\* database.update_deployment_status: by id, deleted or not.
WriteStatus(d, s) ==
  /\ status' = [status EXCEPT ![d] = s]
  /\ UNCHANGED <<name, deleted>>

\* History: every claim counts an attempt, so a worker whose count is the job's is
\* the last that claimed it.
Note(w) ==
  overtaken' = overtaken \cup (IF wtry[w] = attempts[wdep[w]] THEN {} ELSE {wdep[w]})

\* A worker of step "start", "pending" or "live" writes the status.
Report(w) ==
  /\ \/ wpc[w] = "start" /\ WriteStatus(wdep[w], "provisioning")
     \/ wpc[w] = "pending" /\ WriteStatus(wdep[w], "pending")
     \/ wpc[w] = "live" /\ WriteStatus(wdep[w], "running")
  /\ Note(w)
  /\ Answer(w)
  /\ UNCHANGED <<jobs, cluster, usage, api, crashes>>

\* Faulty: without a cluster the attempt returns before it writes a status.
NextIfReadySilent(w) == IF kube[w] THEN After.ready ELSE "complete"

NextIfReady(w) == IF kube[w] THEN After.ready ELSE "pending"

\* Without a cluster the attempt ends in "pending".  With one the namespace
\* is read, and made when it is missing: never an error on a retry.
CheckReady(w) ==
  /\ wpc[w] = "ready"
  /\ MoveTo(w, NextIfReady(w))
  /\ UNCHANGED <<docs, jobs, cluster, usage, api, wdep, wtry, kube, bounds>>

\* Faulty: create is replaced by apply.
NeverTaken(kind, n) == cluster[kind][n] = "409"

\* An object of that kind and name exists, whoever made it: a create is a 409.
Taken(kind, n) == cluster[kind][n] # None

\* create_deployment, create_service, create_ingress: a 409 raises.
CreateCore(w, kind) ==
  LET d == wdep[w] IN
  /\ wpc[w] = kind
  /\ \/ /\ ~Taken(kind, name[d])
        /\ cluster' = [cluster EXCEPT ![kind][name[d]] = d]
        /\ Answer(w)
     \/ /\ Taken(kind, name[d])
        /\ Raise(w)
        /\ UNCHANGED <<cluster, faults>>
  /\ UNCHANGED <<docs, jobs, usage, api, crashes>>

\* create_scaled_object, create_http_scaled_object: a 409 counts as made, and
\* the caller swallows what else goes wrong into the status message.
CreateScaler(w, kind) ==
  LET d == wdep[w] IN
  /\ wpc[w] = kind
  /\ MoveTo(w, After[kind])
  /\ \/ /\ cluster' = [cluster EXCEPT ![kind][name[d]] = IF Taken(kind, name[d]) THEN @ ELSE d]
        /\ UNCHANGED faults
     \/ /\ faults < MaxFaults
        /\ faults' = faults + 1
        /\ UNCHANGED cluster
  /\ UNCHANGED <<docs, jobs, usage, api, wdep, wtry, kube, crashes>>

\* record_deploy_usage.
Meter(w) ==
  /\ wpc[w] = "meter"
  /\ usage' = [usage EXCEPT ![wdep[w]] = @ + 1]
  /\ Answer(w)
  /\ UNCHANGED <<docs, jobs, cluster, api, crashes>>

SetJob(d, s) ==
  /\ jobState' = [jobState EXCEPT ![d] = s]
  /\ UNCHANGED <<attempts, createdAt, clock, resets>>

\* complete_provision_job('succeeded'), still inside the try.
Complete(w) ==
  /\ wpc[w] = "complete"
  /\ SetJob(wdep[w], "succeeded")
  /\ Note(w)
  /\ Answer(w)
  /\ UNCHANGED <<name, status, deleted, cluster, usage, api, crashes>>

\* find_deployment_by_id, then the load-balancer sync and the audit entry,
\* which swallow their errors; the worker is free again.
Confirm(w) ==
  /\ wpc[w] = "confirm"
  /\ Release(w, "idle")
  /\ UNCHANGED <<docs, jobs, cluster, usage, api, kube, bounds>>

\* A guarded call fails without effect.
CallFails(w) ==
  /\ wpc[w] \in Guarded
  /\ faults < MaxFaults
  /\ faults' = faults + 1
  /\ Raise(w)
  /\ UNCHANGED <<docs, jobs, cluster, usage, api, crashes>>

\* requeue_provision_job keeps createdAt, and the job is anybody's again ...
Requeue(w) ==
  /\ wpc[w] = "requeue"
  /\ SetJob(wdep[w], "queued")
  /\ MoveTo(w, "retry")
  /\ UNCHANGED <<docs, cluster, usage, api, wdep, wtry, kube, bounds>>

\* Faulty: the job ends and nobody tells the deployment.
GiveUpSilently(w) ==
  /\ wpc[w] = "giveUp"
  /\ SetJob(wdep[w], "failed")
  /\ Release(w, "idle")
  /\ UNCHANGED <<docs, cluster, usage, api, kube, bounds>>

\* ... complete_provision_job('failed') likewise ends the job ...
GiveUp(w) ==
  /\ wpc[w] = "giveUp"
  /\ SetJob(wdep[w], "failed")
  /\ MoveTo(w, "fail")
  /\ UNCHANGED <<docs, cluster, usage, api, wdep, wtry, kube, bounds>>

\* ... before the worker writes the status that goes with it.
ReportFailure(w) ==
  /\ \/ wpc[w] = "retry" /\ WriteStatus(wdep[w], "provisioning")
     \/ wpc[w] = "fail" /\ WriteStatus(wdep[w], "failed")
  /\ Note(w)
  /\ Release(w, "idle")
  /\ UNCHANGED <<jobs, cluster, usage, api, kube, bounds>>

\* A worker is killed, or an exception leaves process_job through its except
\* or run_worker_loop through the claim: nothing catches those.
WorkerDies(w) ==
  /\ wpc[w] # "down"
  /\ crashes < MaxCrashes
  /\ crashes' = crashes + 1
  /\ Release(w, "down")
  /\ UNCHANGED <<docs, jobs, cluster, usage, api, kube, faults>>

\* A new worker process starts and loads its kubeconfig.
Restart(w) ==
  /\ wpc[w] = "down"
  /\ MoveTo(w, "idle")
  /\ \E ready \in Kubeconfigs : kube' = [kube EXCEPT ![w] = ready]
  /\ UNCHANGED <<docs, jobs, cluster, usage, api, wdep, wtry, bounds>>

\* scripts/reset_jobs.py: every "processing" job is queued again, whether its
\* worker died or is still at it, and the attempts stay as they are.
ResetJobs ==
  /\ resets < MaxResets
  /\ resets' = resets + 1
  /\ \E d \in Deployments : jobState[d] = "processing"
  /\ jobState' = [d \in Deployments |->
                    IF jobState[d] = "processing" THEN "queued" ELSE jobState[d]]
  /\ UNCHANGED <<docs, attempts, createdAt, clock, cluster, usage, api, workers, bounds>>

WorkerStep(w) ==
  \/ \E d \in Deployments : Claim(w, d)
  \/ Report(w)
  \/ CheckReady(w)
  \/ \E kind \in Core : CreateCore(w, kind)
  \/ \E kind \in Scalers : CreateScaler(w, kind)
  \/ Meter(w)
  \/ Complete(w)
  \/ Confirm(w)
  \/ Requeue(w)
  \/ GiveUp(w)
  \/ ReportFailure(w)

Next ==
  \/ \E h \in Handlers : Request(h) \/ RequestStep(h) \/ RequestDies(h)
  \/ \E w \in Workers : WorkerStep(w) \/ CallFails(w) \/ WorkerDies(w) \/ Restart(w)
  \/ ResetJobs

Spec == Init /\ [][Next]_vars

\* Requests in progress go on, the worker's loop runs, and whoever looks after
\* the worker starts it again.  Nobody has to send requests or reset jobs.
FairSpec ==
  /\ Spec
  /\ \A h \in Handlers : WF_vars(RequestStep(h))
  /\ \A w \in Workers : WF_vars(WorkerStep(w)) /\ WF_vars(Restart(w))

------------------------------------------------------------------------------
(* What has to hold. *)

Statuses == {"none", "provisioning", "pending", "running", "failed", "stopped"}
JobStates == {"none", "queued", "processing"} \cup Finished
RequestSteps == {"idle", "enqueue", "delete"} \cup Scalers
WorkerSteps == Guarded \cup Scalers \cup
               {"idle", "down", "requeue", "retry", "giveUp", "fail"}

\* The values of every variable; among them: no job is claimed more than
\* MaxAttempts times unless an operator reset it, and a process holds a
\* deployment just when it is busy.
TypeOK ==
  /\ name \in [Deployments -> Names \cup {None}]
  /\ status \in [Deployments -> Statuses]
  /\ deleted \in [Deployments -> BOOLEAN]
  /\ overtaken \subseteq Deployments
  /\ jobState \in [Deployments -> JobStates]
  /\ attempts \in [Deployments -> Nat]
  /\ createdAt \in [Deployments -> Nat]
  /\ clock \in Nat
  /\ cluster \in [Kinds -> [Names -> Deployments \cup {None}]]
  /\ usage \in [Deployments -> Nat]
  /\ hpc \in [Handlers -> RequestSteps]
  /\ hdep \in [Handlers -> Deployments \cup {None}]
  /\ wpc \in [Workers -> WorkerSteps]
  /\ wdep \in [Workers -> Deployments \cup {None}]
  /\ wtry \in [Workers -> Nat]
  /\ kube \in [Workers -> BOOLEAN]
  /\ faults \in 0..MaxFaults
  /\ crashes \in 0..MaxCrashes
  /\ resets \in 0..MaxResets
  /\ resets = 0 => \A d \in Deployments : attempts[d] <= MaxAttempts
  /\ \A d \in Deployments : name[d] = None <=> status[d] = "none"
  /\ \A h \in Handlers : hdep[h] = None <=> hpc[h] = "idle"
  /\ \A w \in Workers : wdep[w] = None <=> wpc[w] \in {"idle", "down"}

\* Worker w still has the last word on its job: requeue, failed or return.
Deciding(w) == wpc[w] \notin {"idle", "down", "retry", "fail"}

\* The claim is exclusive for as long as the holder may still decide the job's
\* fate, through errors after the job was marked succeeded as well, and the
\* job cannot be claimed meanwhile (provision_jobs has no lease or owner).  An
\* operator who resets the jobs of living workers gives this up.
ExclusiveClaim ==
  resets = 0 => \A w \in Workers : Deciding(w) =>
    /\ jobState[wdep[w]] \notin {"none", "queued"}
    /\ wtry[w] = attempts[wdep[w]]
    /\ \A v \in Workers \ {w} : Deciding(v) => wdep[v] # wdep[w]

\* "running" means: this deployment's own Deployment, Service and Ingress are
\* in the cluster, not those of a namesake, and not part of them after a retry.
RunningOwnsCluster ==
  \A d \in Deployments : status[d] = "running" =>
    \A kind \in Core : cluster[kind][name[d]] = d

\* A deployment is metered at most once, whatever fails after its usage row was
\* written: a retry runs into the 409 of the first attempt's Deployment.
MeteredOnce == \A d \in Deployments : usage[d] <= 1

\* Each reset buys a job at most one claim beyond MaxAttempts, also when the
\* worker it was taken from is alive and requeues it once more.
TriesBounded == \A d \in Deployments : attempts[d] <= MaxAttempts + resets

\* A job marked succeeded has told its deployment, even while the worker that
\* marked it may still reopen it: nobody is left reading "provisioning", whichever
\* workers took the job in turn.  Excepted is a deployment for which a worker wrote
\* that was no longer the last to claim its job: a second worker can take a requeued
\* job before the first writes the "provisioning" that goes with it.
SuccessIsVisible ==
  \A d \in Deployments \ overtaken :
    jobState[d] = "succeeded" => status[d] \in {"pending", "running", "stopped"}

\* What the queue sees of job d ...
Phase(d) ==
  CASE jobState[d] = "none" -> "absent"
    [] jobState[d] = "queued" -> "waiting"
    [] jobState[d] = "processing" -> "taken"
    [] OTHER -> IF \E w \in Workers : Deciding(w) /\ wdep[w] = d
                THEN "taken" ELSE "finished"

\* ... and of worker w.
Held(w) == IF Deciding(w) THEN wdep[w] ELSE None

WQ == INSTANCE WorkQueue WITH
  Jobs <- Deployments,
  phase <- [d \in Deployments |-> Phase(d)],
  tries <- attempts,
  age <- createdAt,
  last <- clock,
  held <- [w \in Workers |-> Held(w)]

\* Claims, retries and worker deaths keep the promises of the queue: oldest
\* first, one worker at a time, MaxAttempts takes, and finished for good.  Of
\* an installation where nobody resets jobs.
QueueContract == WQ!Spec

\* Whatever goes wrong short of a death, every job ends succeeded or failed and
\* stays so: retries are bounded, also for a job reopened after succeeding or
\* reset under its worker.
EveryJobSettles ==
  \A d \in Deployments : (jobState[d] = "queued") ~> [](jobState[d] \in Finished)

\* A deployment whose job was enqueued ends, and stays, in a status that is not
\* "provisioning", through retries by the same worker or another, giving up, and
\* the end without a cluster; the same deployments are excepted.
DeploymentSettles ==
  \A d \in Deployments :
    (jobState[d] = "queued") ~> [](status[d] # "provisioning" \/ d \in overtaken)

\* scripts/e2e_validate.py: after the 202 the worker takes a deployment to a
\* terminal status; it is not "stuck in provisioning".
ReachesTerminal ==
  \A d \in Deployments :
    (jobState[d] = "queued") ~> (status[d] \in {"pending", "running", "failed"} \/ deleted[d])

\* docs/KEDA.md: deleting a deployment removes its KEDA objects.  To be read
\* when every process has finished what it was doing and no call failed.
DeletedHasNoScaler ==
  \A d \in Deployments :
    /\ deleted[d]
    /\ jobState[d] \in Finished
    /\ \A w \in Workers : wdep[w] # d
    /\ \A h \in Handlers : hdep[h] # d
    /\ faults = 0 /\ crashes = 0
    => \A kind \in Scalers : cluster[kind][name[d]] # d
==============================================================================
