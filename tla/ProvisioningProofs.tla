------------------------- MODULE ProvisioningProofs -------------------------
(***************************************************************************)
(* Theorems about Provisioning, for any deployments, names, workers,       *)
(* requests, attempt limit and number of failures and deaths.              *)
(***************************************************************************)
EXTENDS Provisioning, FiniteSetTheorems, TLAPS

------------------------------------------------------------------------------
(* The inductive invariant. *)

\* A request works on a deployment that is in the database; the request that
\* creates it is the only one about to insert its job.
RequestsRecorded ==
  \A h \in Handlers : hpc[h] # "idle" =>
    /\ status[hdep[h]] # "none"
    /\ hpc[h] = "enqueue" =>
         /\ jobState[hdep[h]] = "none"
         /\ \A g \in Handlers \ {h} : hpc[g] = "enqueue" => hdep[g] # hdep[h]

\* Jobs and usage rows belong to deployments in the database.
JobsRecorded ==
  \A d \in Deployments :
    jobState[d] # "none" \/ usage[d] # 0 => status[d] # "none"

\* A job that may be claimed has an attempt left, unless an operator reset it.
Retriable ==
  resets = 0 =>
    \A d \in Deployments :
      jobState[d] \in {"none", "queued"} => attempts[d] < MaxAttempts

\* A worker holds a job that exists, and requeues it only with attempts left.
HoldersRecorded ==
  \A w \in Workers :
    /\ wdep[w] # None => jobState[wdep[w]] # "none"
    /\ wpc[w] = "requeue" => wtry[w] < MaxAttempts

\* The attempt of worker w made its Deployment and has not metered it yet.
Building(w) == wpc[w] \in {"Service", "Ingress", "live", "meter"} \cup Scalers

\* What an attempt has passed, it made itself: a conflict would have raised.  So
\* no two attempts build the same deployment, even when a reset lets a second
\* worker claim the job of a living one.
Built ==
  \A w \in Workers : Building(w) =>
    /\ \A v \in Workers \ {w} : Building(v) => wdep[v] # wdep[w]
    /\ usage[wdep[w]] = 0
    /\ cluster["Deployment"][name[wdep[w]]] = wdep[w]
    /\ wpc[w] # "Service" => cluster["Service"][name[wdep[w]]] = wdep[w]
    /\ wpc[w] \notin {"Service", "Ingress"} => cluster["Ingress"][name[wdep[w]]] = wdep[w]

\* A metered deployment made its Deployment object, so no attempt can again.
Metered ==
  \A d \in Deployments : usage[d] # 0 =>
    usage[d] = 1 /\ cluster["Deployment"][name[d]] = d

IInv ==
  /\ TypeOK
  /\ RequestsRecorded
  /\ JobsRecorded
  /\ Retriable
  /\ HoldersRecorded
  /\ ExclusiveClaim
  /\ Built
  /\ Metered
  /\ RunningOwnsCluster

------------------------------------------------------------------------------
(* Every action keeps the invariant.  A step per conjunct. *)

\* The calls of an attempt in order, one entry of After at a time.
LEMMA AfterSteps ==
  /\ After["start"] = "ready"
  /\ After["Deployment"] = "Service"
  /\ After["Service"] = "Ingress"
  /\ After["Ingress"] \in {"ScaledObject", "live"} \cap (Scalers \cup {"live"})
  /\ After["live"] = "meter"
  /\ After["pending"] = "complete"
  /\ After["meter"] = "complete"
  /\ After["complete"] = "confirm"
  /\ After.ready = "Deployment"
  /\ \A k \in Scalers : After[k] \in Scalers \cup {"live"}
BY ProvisioningAssumption DEF After

\* The insert of POST /api/deployments: the new document has no job and no row yet.
LEMMA CreateDeploymentKeeps ==
  ASSUME IInv, NEW h \in Handlers, NEW d \in Deployments, NEW n \in Names, CreateDeployment(h, d, n)
  PROVE  IInv'
<1> USE ProvisioningAssumption, AfterSteps DEF IInv, CreateDeployment, RequestAt, docs, jobs, api, workers, bounds
<1>1. TypeOK'
  BY DEF TypeOK, Kinds, Core, Guarded, Statuses, JobStates, RequestSteps, WorkerSteps, Finished
<1>2. RequestsRecorded'
  BY DEF TypeOK, RequestsRecorded, JobsRecorded
<1>3. JobsRecorded'
  BY DEF TypeOK, JobsRecorded
<1>4. HoldersRecorded'
  BY DEF TypeOK, HoldersRecorded
<1>5. ExclusiveClaim'
  BY DEF TypeOK, ExclusiveClaim, Deciding
<1>6. Built'
  BY DEF TypeOK, Built, Building, HoldersRecorded, JobsRecorded
<1>7. Metered'
  BY DEF TypeOK, Metered, JobsRecorded
<1>8. RunningOwnsCluster'
  BY DEF TypeOK, RunningOwnsCluster
<1>9. Retriable'
  BY DEF TypeOK, Retriable
<1> QED  BY <1>1, <1>2, <1>3, <1>4, <1>5, <1>6, <1>7, <1>8, <1>9

\* The insert of the job: only the request that made the deployment gets here.
LEMMA CreateProvisionJobKeeps ==
  ASSUME IInv, NEW h \in Handlers, CreateProvisionJob(h)
  PROVE  IInv'
<1> USE ProvisioningAssumption, AfterSteps DEF IInv, CreateProvisionJob, RequestDone, RequestAt, docs, jobs, api, workers, bounds
<1>1. TypeOK'
  BY DEF TypeOK, Kinds, Core, Guarded, Statuses, JobStates, RequestSteps, WorkerSteps, Finished
<1>2. RequestsRecorded'
  BY DEF TypeOK, RequestsRecorded
<1>3. JobsRecorded'
  BY DEF TypeOK, JobsRecorded, RequestsRecorded
<1>4. HoldersRecorded'
  BY DEF TypeOK, HoldersRecorded
<1>5. ExclusiveClaim'
  BY DEF TypeOK, ExclusiveClaim, Deciding, RequestsRecorded
<1>6. Built'
  BY DEF TypeOK, Built, Building
<1>7. Metered'
  BY DEF TypeOK, Metered
<1>8. RunningOwnsCluster'
  BY DEF TypeOK, RunningOwnsCluster
<1>9. Retriable'
  BY DEF TypeOK, Retriable, RequestsRecorded
<1> QED  BY <1>1, <1>2, <1>3, <1>4, <1>5, <1>6, <1>7, <1>8, <1>9

\* A DELETE finds a document and changes nothing.
LEMMA FindForDeleteKeeps ==
  ASSUME IInv, NEW h \in Handlers, NEW d \in Deployments, FindForDelete(h, d)
  PROVE  IInv'
<1> USE ProvisioningAssumption, AfterSteps DEF IInv, FindForDelete, RequestAt, docs, jobs, api, workers, bounds
<1>1. TypeOK'
  BY DEF TypeOK, Kinds, Core, Guarded, Statuses, JobStates, RequestSteps, WorkerSteps, Finished
<1>2. RequestsRecorded'
  BY DEF TypeOK, RequestsRecorded
<1>3. JobsRecorded'
  BY DEF TypeOK, JobsRecorded
<1>4. HoldersRecorded'
  BY DEF TypeOK, HoldersRecorded
<1>5. ExclusiveClaim'
  BY DEF TypeOK, ExclusiveClaim, Deciding
<1>6. Built'
  BY DEF TypeOK, Built, Building
<1>7. Metered'
  BY DEF TypeOK, Metered
<1>8. RunningOwnsCluster'
  BY DEF TypeOK, RunningOwnsCluster
<1>9. Retriable'
  BY DEF TypeOK, Retriable
<1> QED  BY <1>1, <1>2, <1>3, <1>4, <1>5, <1>6, <1>7, <1>8, <1>9

\* Soft delete writes "stopped", never "running", so it owes the cluster nothing.
LEMMA SoftDeleteKeeps ==
  ASSUME IInv, NEW h \in Handlers, SoftDelete(h)
  PROVE  IInv'
<1> USE ProvisioningAssumption, AfterSteps DEF IInv, SoftDelete, RequestDone, RequestAt, docs, jobs, api, workers, bounds
<1>1. TypeOK'
  <2>1. hdep[h] \in Deployments /\ status[hdep[h]] # "none"
    BY DEF TypeOK, RequestsRecorded
  <2>2. \/ /\ "ScaledObject" \in Scalers
           /\ hpc' = [hpc EXCEPT ![h] = "ScaledObject"]
           /\ hdep' = [hdep EXCEPT ![h] = hdep[h]]
        \/ /\ hpc' = [hpc EXCEPT ![h] = "idle"]
           /\ hdep' = [hdep EXCEPT ![h] = None]
    OBVIOUS
  <2>3. /\ hpc' \in [Handlers -> RequestSteps]
        /\ hdep' \in [Handlers -> Deployments \cup {None}]
    <3>1. CASE hpc' = [hpc EXCEPT ![h] = "ScaledObject"] /\ "ScaledObject" \in Scalers
      BY <2>1, <2>2, <3>1 DEF TypeOK, RequestSteps
    <3>2. CASE hpc' = [hpc EXCEPT ![h] = "idle"]
      BY <2>1, <2>2, <3>2 DEF TypeOK, RequestSteps
    <3> QED  BY <2>2, <3>1, <3>2
  <2>4. \A g \in Handlers : hdep'[g] = None <=> hpc'[g] = "idle"
    BY <2>1, <2>2 DEF TypeOK
  <2> QED  BY <2>1, <2>3, <2>4 DEF TypeOK, Statuses
<1>2. RequestsRecorded'
  BY DEF TypeOK, RequestsRecorded, RequestsRecorded
<1>3. JobsRecorded'
  BY DEF TypeOK, JobsRecorded
<1>4. HoldersRecorded'
  BY DEF TypeOK, HoldersRecorded
<1>5. ExclusiveClaim'
  BY DEF TypeOK, ExclusiveClaim, Deciding
<1>6. Built'
  BY DEF TypeOK, Built, Building
<1>7. Metered'
  BY DEF TypeOK, Metered
<1>8. RunningOwnsCluster'
  BY DEF TypeOK, RunningOwnsCluster
<1>9. Retriable'
  BY DEF TypeOK, Retriable
<1> QED  BY <1>1, <1>2, <1>3, <1>4, <1>5, <1>6, <1>7, <1>8, <1>9

\* The KEDA cleanup removes scalers only: the core objects stay.
LEMMA DeleteScalerKeeps ==
  ASSUME IInv, NEW h \in Handlers, NEW kind \in Scalers, DeleteScaler(h, kind)
  PROVE  IInv'
<1> USE ProvisioningAssumption, AfterSteps DEF IInv, DeleteScaler, RequestDone, RequestAt, docs, jobs, api, workers, bounds
<1>1. TypeOK'
  <2>0. /\ hpc \in [Handlers -> RequestSteps] /\ hdep \in [Handlers -> Deployments \cup {None}]
        /\ cluster \in [Kinds -> [Names -> Deployments \cup {None}]]
        /\ \A g \in Handlers : hdep[g] = None <=> hpc[g] = "idle"
    BY DEF TypeOK
  <2>1. hdep[h] \in Deployments /\ name[hdep[h]] \in Names /\ kind \in Kinds
    BY DEF TypeOK, RequestsRecorded, Kinds
  <2>2. \/ /\ hpc' = [hpc EXCEPT ![h] = "HTTPScaledObject"] /\ hdep' = [hdep EXCEPT ![h] = hdep[h]]
           /\ "HTTPScaledObject" \in Scalers
        \/ hpc' = [hpc EXCEPT ![h] = "idle"] /\ hdep' = [hdep EXCEPT ![h] = None]
    OBVIOUS
  <2>3. /\ hpc' \in [Handlers -> RequestSteps]
        /\ hdep' \in [Handlers -> Deployments \cup {None}]
    BY ONLY <2>0, <2>1, <2>2 DEF RequestSteps
  <2>4. \A g \in Handlers : hdep'[g] = None <=> hpc'[g] = "idle"
    BY ONLY <2>0, <2>1, <2>2, ProvisioningAssumption
  <2>5. cluster' \in [Kinds -> [Names -> Deployments \cup {None}]]
    <3>1. cluster' = cluster \/ cluster' = [cluster EXCEPT ![kind][name[hdep[h]]] = None]
      OBVIOUS
    <3> QED  BY ONLY <2>0, <2>1, <3>1
  <2>6. faults' \in 0 .. MaxFaults
    BY DEF TypeOK
  <2>7. UNCHANGED <<name, status, deleted, overtaken, jobState, attempts, createdAt, clock, usage,
                    wpc, wdep, wtry, kube, crashes, resets>>
    OBVIOUS
  <2> QED  BY ONLY <2>3, <2>4, <2>5, <2>6, <2>7, TypeOK DEF TypeOK
<1>2. RequestsRecorded'
  <2>1. hpc[h] # "enqueue" /\ hpc[h] # "idle"
    OBVIOUS
  <2>2. \/ hpc'[h] = "idle"
        \/ hpc'[h] = "HTTPScaledObject" /\ hdep'[h] = hdep[h]
    BY DEF TypeOK
  <2>3. \A g \in Handlers \ {h} : hpc'[g] = hpc[g] /\ hdep'[g] = hdep[g]
    BY DEF TypeOK
  <2> QED  BY <2>1, <2>2, <2>3 DEF RequestsRecorded
<1>3. JobsRecorded'
  BY DEF TypeOK, JobsRecorded
<1>4. HoldersRecorded'
  BY DEF TypeOK, HoldersRecorded
<1>5. ExclusiveClaim'
  BY DEF TypeOK, ExclusiveClaim, Deciding
<1>6. Built'
  BY DEF TypeOK, Built, Building, Core, Kinds
<1>7. Metered'
  BY DEF TypeOK, Metered, Core, Kinds
<1>8. RunningOwnsCluster'
  BY DEF TypeOK, RunningOwnsCluster, Core, Kinds
<1>9. Retriable'
  BY DEF TypeOK, Retriable
<1> QED  BY <1>1, <1>2, <1>3, <1>4, <1>5, <1>6, <1>7, <1>8, <1>9

\* A request that dies leaves its writes behind.
LEMMA RequestDiesKeeps ==
  ASSUME IInv, NEW h \in Handlers, RequestDies(h)
  PROVE  IInv'
<1> USE ProvisioningAssumption, AfterSteps DEF IInv, RequestDies, RequestDone, RequestAt, docs, jobs, api, workers, bounds
<1>1. TypeOK'
  BY DEF TypeOK, Kinds, Core, Guarded, Statuses, JobStates, RequestSteps, WorkerSteps, Finished
<1>2. RequestsRecorded'
  BY DEF TypeOK, RequestsRecorded
<1>3. JobsRecorded'
  BY DEF TypeOK, JobsRecorded
<1>4. HoldersRecorded'
  BY DEF TypeOK, HoldersRecorded
<1>5. ExclusiveClaim'
  BY DEF TypeOK, ExclusiveClaim, Deciding
<1>6. Built'
  BY DEF TypeOK, Built, Building
<1>7. Metered'
  BY DEF TypeOK, Metered
<1>8. RunningOwnsCluster'
  BY DEF TypeOK, RunningOwnsCluster
<1>9. Retriable'
  BY DEF TypeOK, Retriable
<1> QED  BY <1>1, <1>2, <1>3, <1>4, <1>5, <1>6, <1>7, <1>8, <1>9

\* The claim takes a queued job, which nobody is deciding and which has an
\* attempt left.
LEMMA ClaimKeeps ==
  ASSUME IInv, NEW w \in Workers, NEW d \in Deployments, Claim(w, d)
  PROVE  IInv'
<1> USE ProvisioningAssumption, AfterSteps DEF IInv, Claim, MoveTo, Claimable, docs, jobs, api, workers, bounds
<1>1. TypeOK'
  BY DEF TypeOK, Kinds, Core, Guarded, Statuses, JobStates, RequestSteps, WorkerSteps, Finished, Retriable
<1>2. RequestsRecorded'
  BY DEF TypeOK, RequestsRecorded
<1>3. JobsRecorded'
  BY DEF TypeOK, JobsRecorded
<1>4. HoldersRecorded'
  BY DEF TypeOK, HoldersRecorded
<1>5. ExclusiveClaim'
  BY DEF TypeOK, ExclusiveClaim, Deciding, Retriable
<1>6. Built'
  BY DEF TypeOK, Built, Building
<1>7. Metered'
  BY DEF TypeOK, Metered
<1>8. RunningOwnsCluster'
  BY DEF TypeOK, RunningOwnsCluster
<1>9. Retriable'
  BY DEF TypeOK, Retriable
<1> QED  BY <1>1, <1>2, <1>3, <1>4, <1>5, <1>6, <1>7, <1>8, <1>9

\* A status write of the worker: "running" only after the three creates.
LEMMA ReportKeeps ==
  ASSUME IInv, NEW w \in Workers, Report(w)
  PROVE  IInv'
<1> USE ProvisioningAssumption, AfterSteps DEF IInv, Report, WriteStatus, Answer, Raise, Rescue, MoveTo, docs, jobs, api, workers, bounds
<1>1. TypeOK'
  <2>1. wdep[w] \in Deployments /\ status[wdep[w]] # "none"
    BY DEF TypeOK, HoldersRecorded, JobsRecorded
  <2>2. /\ status' \in [Deployments -> Statuses]
        /\ \A d \in Deployments : name[d] = None <=> status'[d] = "none"
    BY <2>1 DEF TypeOK, Statuses
  <2>3. /\ wpc' \in [Workers -> WorkerSteps]
        /\ \A v \in Workers : wdep[v] = None <=> wpc'[v] \in {"idle", "down"}
    BY DEF TypeOK, WorkerSteps, Guarded
  <2>4. faults' \in 0..MaxFaults
    BY DEF TypeOK
  <2>5. overtaken' \subseteq Deployments
    BY <2>1 DEF TypeOK, Note
  <2> QED  BY <2>2, <2>3, <2>4, <2>5 DEF TypeOK
<1>2. RequestsRecorded'
  BY DEF TypeOK, RequestsRecorded
<1>3. JobsRecorded'
  BY DEF TypeOK, JobsRecorded, HoldersRecorded
<1>4. HoldersRecorded'
  BY DEF TypeOK, HoldersRecorded
<1>5. ExclusiveClaim'
  BY DEF TypeOK, ExclusiveClaim, Deciding
<1>6. Built'
  <2>1. wpc[w] \in {"start", "pending", "live"} /\ wpc'[w] \in {"ready", "complete", "meter", "requeue", "giveUp"}
    BY DEF TypeOK
  <2>2. wpc[w] # "live" => wpc'[w] # "meter"
    BY DEF TypeOK
  <2>3. \A v \in Workers \ {w} : wpc'[v] = wpc[v]
    BY DEF TypeOK
  <2>4. UNCHANGED <<name, cluster, usage, wdep>>
    OBVIOUS
  <2>5. \A v \in Workers :
          \/ wpc'[v] = wpc[v]
          \/ wpc[v] = "live" /\ wpc'[v] = "meter"
          \/ wpc'[v] \in {"ready", "complete", "requeue", "giveUp"}
    BY ONLY <2>1, <2>2, <2>3
  <2>6. Scalers \subseteq {"ScaledObject", "HTTPScaledObject"}
    BY ProvisioningAssumption
  <2>7. \A v \in Workers : Building(v)' =>
          Building(v) /\ (wpc'[v] = wpc[v] \/ (wpc[v] = "live" /\ wpc'[v] = "meter"))
    BY ONLY <2>5, <2>6 DEF Building
  <2> QED  BY ONLY <2>4, <2>7, Built DEF Built
<1>7. Metered'
  BY DEF TypeOK, Metered
<1>8. RunningOwnsCluster'
  BY DEF TypeOK, RunningOwnsCluster, Built, Building, Core, Kinds
<1>9. Retriable'
  BY DEF TypeOK, Retriable
<1> QED  BY <1>1, <1>2, <1>3, <1>4, <1>5, <1>6, <1>7, <1>8, <1>9

\* Looking for a cluster moves the worker and nothing else.
LEMMA CheckReadyKeeps ==
  ASSUME IInv, NEW w \in Workers, CheckReady(w)
  PROVE  IInv'
<1> USE ProvisioningAssumption, AfterSteps DEF IInv, CheckReady, MoveTo, NextIfReady, docs, jobs, api, workers, bounds
<1>1. TypeOK'
  BY DEF TypeOK, Kinds, Core, Guarded, Statuses, JobStates, RequestSteps, WorkerSteps, Finished
<1>2. RequestsRecorded'
  BY DEF TypeOK, RequestsRecorded
<1>3. JobsRecorded'
  BY DEF TypeOK, JobsRecorded
<1>4. HoldersRecorded'
  BY DEF TypeOK, HoldersRecorded
<1>5. ExclusiveClaim'
  BY DEF TypeOK, ExclusiveClaim, Deciding
<1>6. Built'
  BY DEF TypeOK, Built, Building
<1>7. Metered'
  BY DEF TypeOK, Metered
<1>8. RunningOwnsCluster'
  BY DEF TypeOK, RunningOwnsCluster
<1>9. Retriable'
  BY DEF TypeOK, Retriable
<1> QED  BY <1>1, <1>2, <1>3, <1>4, <1>5, <1>6, <1>7, <1>8, <1>9

\* A create that succeeds found no object, so it takes nobody else's; one that
\* succeeds as Deployment also shows that the deployment was never metered.
LEMMA CreateCoreKeeps ==
  ASSUME IInv, NEW w \in Workers, NEW kind \in Core, CreateCore(w, kind)
  PROVE  IInv'
<1> USE ProvisioningAssumption, AfterSteps DEF IInv, docs, jobs, api, workers, bounds
<1>0. /\ wdep' = wdep /\ wtry' = wtry /\ kube' = kube
      /\ \A v \in Workers \ {w} : wpc'[v] = wpc[v]
      /\ wpc'[w] \in {After[kind], "requeue", "giveUp"}
      /\ wpc'[w] = "requeue" => wtry[w] < MaxAttempts
  BY DEF Answer, Raise, Rescue, MoveTo, Guarded, Core, CreateCore, TypeOK, Taken
<1>a. wdep[w] \in Deployments /\ name[wdep[w]] \in Names
  BY DEF CreateCore, TypeOK, HoldersRecorded, JobsRecorded, Core
<1>b. \A k \in Core, m \in Names : cluster[k][m] # None => cluster'[k][m] = cluster[k][m]
  BY <1>a DEF CreateCore, TypeOK, Kinds, Core, Taken
<1>c. wpc'[w] = After[kind] =>
        /\ cluster[kind][name[wdep[w]]] = None
        /\ cluster'[kind][name[wdep[w]]] = wdep[w]
  BY <1>a DEF CreateCore, Taken, Raise, Rescue, MoveTo, TypeOK, Kinds, Core
<1>1. TypeOK'
  BY DEF TypeOK, Kinds, Core, Guarded, Statuses, JobStates, RequestSteps, WorkerSteps, Finished, CreateCore, Taken, Answer, Raise, Rescue, MoveTo
<1>2. RequestsRecorded'
  BY DEF TypeOK, RequestsRecorded, CreateCore, Taken, Answer, Raise, Rescue, MoveTo
<1>3. JobsRecorded'
  BY DEF TypeOK, JobsRecorded, CreateCore, Taken, Answer, Raise, Rescue, MoveTo
<1>4. HoldersRecorded'
  BY <1>0 DEF TypeOK, HoldersRecorded, CreateCore
<1>5. ExclusiveClaim'
  BY <1>0 DEF TypeOK, ExclusiveClaim, Deciding, Core, Kinds, CreateCore
<1>6. Built'
  <2>1. ASSUME NEW v \in Workers \ {w}, Building(v)'
        PROVE  /\ Building(v) /\ wpc'[v] = wpc[v]
               /\ usage[wdep[v]] = 0
               /\ \A k \in Core : cluster[k][name[wdep[v]]] = wdep[v] =>
                                 cluster'[k][name[wdep[v]]] = wdep[v]
    BY <1>0, <1>b, <2>1 DEF Built, Building, TypeOK, Core, HoldersRecorded, JobsRecorded
  <2>2. ASSUME Building(w)'
        PROVE  /\ wpc'[w] = After[kind]
               /\ usage[wdep[w]] = 0
               /\ cluster'["Deployment"][name[wdep[w]]] = wdep[w]
               /\ wpc'[w] # "Service" => cluster'["Service"][name[wdep[w]]] = wdep[w]
               /\ wpc'[w] \notin {"Service", "Ingress"} => cluster'["Ingress"][name[wdep[w]]] = wdep[w]
    <3>1. wpc'[w] = After[kind]
      BY <2>2, <1>0 DEF Building
    <3>2. usage[wdep[w]] = 0
      BY <3>1, <1>c, <1>a DEF Built, Building, Metered, CreateCore, TypeOK, Core
    <3>3. CASE kind = "Deployment"
      BY <3>1, <3>2, <3>3, <1>c
    <3>4. CASE kind = "Service"
      BY <3>1, <3>2, <3>4, <1>a, <1>b, <1>c DEF Built, Building, CreateCore, TypeOK, Core
    <3>5. CASE kind = "Ingress"
      BY <3>1, <3>2, <3>5, <1>a, <1>b, <1>c DEF Built, Building, CreateCore, TypeOK, Core
    <3> QED
      BY <3>3, <3>4, <3>5 DEF Core
  <2>3. ASSUME Building(w)', NEW v \in Workers \ {w}, Building(v)'
        PROVE  wdep[v] # wdep[w]
    <3>1. Building(v) /\ cluster["Deployment"][name[wdep[v]]] = wdep[v]
      BY <2>1, <2>3 DEF Built
    <3>2. CASE kind = "Deployment"
      BY <3>1, <3>2, <1>a, <1>c, <2>2, <2>3
    <3>3. CASE kind # "Deployment"
      BY <3>1, <3>3 DEF Built, Building, CreateCore, Core
    <3> QED  BY <3>2, <3>3
  <2> SUFFICES ASSUME NEW v \in Workers, Building(v)'
               PROVE  /\ \A u \in Workers \ {v} : Building(u)' => wdep[u] # wdep[v]
                      /\ usage[wdep[v]] = 0
                      /\ cluster'["Deployment"][name[wdep[v]]] = wdep[v]
                      /\ wpc'[v] # "Service" => cluster'["Service"][name[wdep[v]]] = wdep[v]
                      /\ wpc'[v] \notin {"Service", "Ingress"} => cluster'["Ingress"][name[wdep[v]]] = wdep[v]
    BY <1>0 DEF Built, CreateCore
  <2>4. CASE v = w
    BY <2>2, <2>3, <2>4
  <2>5. CASE v # w
    BY <2>1, <2>3, <2>5 DEF Built, Core
  <2> QED  BY <2>4, <2>5
<1>7. Metered'
  BY <1>b DEF Metered, JobsRecorded, CreateCore, TypeOK, Core
<1>8. RunningOwnsCluster'
  BY DEF TypeOK, RunningOwnsCluster, Core, Kinds, CreateCore, Taken, Answer, Raise, Rescue, MoveTo
<1>9. Retriable'
  BY DEF TypeOK, Retriable, CreateCore, Taken, Answer, Raise, Rescue, MoveTo
<1> QED  BY <1>1, <1>2, <1>3, <1>4, <1>5, <1>6, <1>7, <1>8, <1>9

\* KEDA objects do not matter to what "running" promises.
LEMMA CreateScalerKeeps ==
  ASSUME IInv, NEW w \in Workers, NEW kind \in Scalers, CreateScaler(w, kind)
  PROVE  IInv'
<1> USE ProvisioningAssumption, AfterSteps DEF IInv, docs, jobs, api, workers, bounds
<1>0. /\ wdep' = wdep /\ wtry' = wtry /\ kube' = kube
      /\ \A v \in Workers \ {w} : wpc'[v] = wpc[v]
      /\ wpc'[w] \in Scalers \cup {"live"}
      /\ wpc'[w] = "requeue" => wtry[w] < MaxAttempts
  BY DEF MoveTo, CreateScaler, TypeOK
<1>1. TypeOK'
  <2>1. wdep[w] \in Deployments /\ name[wdep[w]] \in Names
    BY DEF TypeOK, HoldersRecorded, JobsRecorded, CreateScaler
  <2>2. cluster' \in [Kinds -> [Names -> Deployments \cup {None}]]
    BY <2>1 DEF TypeOK, Kinds, Core, CreateScaler, Taken
  <2>3. /\ wpc' \in [Workers -> WorkerSteps]
        /\ \A v \in Workers : wdep'[v] = None <=> wpc'[v] \in {"idle", "down"}
    BY <1>0, <2>1 DEF TypeOK, WorkerSteps, Guarded, Core, CreateScaler, MoveTo
  <2>4. faults' \in 0..MaxFaults
    BY DEF TypeOK, CreateScaler
  <2> QED  BY <1>0, <2>2, <2>3, <2>4 DEF TypeOK, CreateScaler
<1>2. RequestsRecorded'
  BY DEF TypeOK, RequestsRecorded, CreateScaler, Taken, MoveTo
<1>3. JobsRecorded'
  BY DEF TypeOK, JobsRecorded, CreateScaler, Taken, MoveTo
<1>4. HoldersRecorded'
  BY <1>0 DEF TypeOK, HoldersRecorded, CreateScaler
<1>5. ExclusiveClaim'
  BY <1>0 DEF TypeOK, ExclusiveClaim, Deciding, CreateScaler
<1>6. Built'
  BY DEF TypeOK, Built, Building, Core, Kinds, CreateScaler, Taken, MoveTo
<1>7. Metered'
  BY DEF TypeOK, Metered, Core, Kinds, CreateScaler, Taken, MoveTo
<1>8. RunningOwnsCluster'
  BY DEF TypeOK, RunningOwnsCluster, Core, Kinds, CreateScaler, Taken, MoveTo
<1>9. Retriable'
  BY DEF TypeOK, Retriable, CreateScaler, Taken, MoveTo
<1> QED  BY <1>1, <1>2, <1>3, <1>4, <1>5, <1>6, <1>7, <1>8, <1>9

\* The usage row is written by an attempt that made the Deployment itself.
LEMMA MeterKeeps ==
  ASSUME IInv, NEW w \in Workers, Meter(w)
  PROVE  IInv'
<1> USE ProvisioningAssumption, AfterSteps DEF IInv, docs, jobs, api, workers, bounds
<1>0. /\ wdep' = wdep /\ wtry' = wtry /\ kube' = kube
      /\ \A v \in Workers \ {w} : wpc'[v] = wpc[v]
      /\ wpc'[w] \in {"complete", "requeue", "giveUp"}
      /\ wpc'[w] = "requeue" => wtry[w] < MaxAttempts
  BY DEF Answer, Raise, Rescue, MoveTo, Meter, TypeOK
<1>1. TypeOK'
  BY DEF TypeOK, Kinds, Core, Guarded, Statuses, JobStates, RequestSteps, WorkerSteps, Finished, Meter, Answer, Raise, Rescue, MoveTo
<1>2. RequestsRecorded'
  BY DEF TypeOK, RequestsRecorded, Meter, Answer, Raise, Rescue, MoveTo
<1>3. JobsRecorded'
  BY DEF TypeOK, JobsRecorded, HoldersRecorded, Meter, Answer, Raise, Rescue, MoveTo
<1>4. HoldersRecorded'
  BY DEF TypeOK, HoldersRecorded, Meter, Answer, Raise, Rescue, MoveTo
<1>5. ExclusiveClaim'
  BY <1>0 DEF TypeOK, ExclusiveClaim, Deciding, Meter
<1>6. Built'
  BY DEF TypeOK, Built, Building, ExclusiveClaim, Deciding, Meter, Answer, Raise, Rescue, MoveTo
<1>7. Metered'
  BY DEF TypeOK, Metered, Built, Building, Meter, Answer, Raise, Rescue, MoveTo
<1>8. RunningOwnsCluster'
  BY DEF TypeOK, RunningOwnsCluster, Meter, Answer, Raise, Rescue, MoveTo
<1>9. Retriable'
  BY DEF TypeOK, Retriable, Meter, Answer, Raise, Rescue, MoveTo
<1> QED  BY <1>1, <1>2, <1>3, <1>4, <1>5, <1>6, <1>7, <1>8, <1>9

\* Marking the job succeeded does not let go of it.
LEMMA CompleteKeeps ==
  ASSUME IInv, NEW w \in Workers, Complete(w)
  PROVE  IInv'
<1> USE ProvisioningAssumption, AfterSteps DEF IInv, Complete, SetJob, Answer, Raise, Rescue, MoveTo, docs, jobs, api, workers, bounds
<1>1. TypeOK'
  <2>1. wdep[w] \in Deployments
    BY DEF TypeOK
  <2>2. overtaken' \subseteq Deployments
    BY <2>1 DEF TypeOK, Note
  <2> QED  BY <2>2 DEF TypeOK, Kinds, Core, Guarded, Statuses, JobStates, RequestSteps, WorkerSteps, Finished
<1>2. RequestsRecorded'
  BY DEF TypeOK, RequestsRecorded, HoldersRecorded
<1>3. JobsRecorded'
  BY DEF TypeOK, JobsRecorded, HoldersRecorded
<1>4. HoldersRecorded'
  BY DEF TypeOK, HoldersRecorded
<1>5. ExclusiveClaim'
  BY DEF TypeOK, ExclusiveClaim, Deciding
<1>6. Built'
  <2>1. \A v \in Workers : Building(v)' => Building(v) /\ wpc'[v] = wpc[v]
    BY DEF TypeOK, Building
  <2> QED  BY <2>1 DEF Built
<1>7. Metered'
  BY DEF TypeOK, Metered
<1>8. RunningOwnsCluster'
  BY DEF TypeOK, RunningOwnsCluster
<1>9. Retriable'
  BY DEF TypeOK, Retriable
<1> QED  BY <1>1, <1>2, <1>3, <1>4, <1>5, <1>6, <1>7, <1>8, <1>9

\* The normal return of process_job.
LEMMA ConfirmKeeps ==
  ASSUME IInv, NEW w \in Workers, Confirm(w)
  PROVE  IInv'
<1> USE ProvisioningAssumption, AfterSteps DEF IInv, Confirm, Release, MoveTo, docs, jobs, api, workers, bounds
<1>1. TypeOK'
  BY DEF TypeOK, Kinds, Core, Guarded, Statuses, JobStates, RequestSteps, WorkerSteps, Finished
<1>2. RequestsRecorded'
  BY DEF TypeOK, RequestsRecorded
<1>3. JobsRecorded'
  BY DEF TypeOK, JobsRecorded
<1>4. HoldersRecorded'
  BY DEF TypeOK, HoldersRecorded
<1>5. ExclusiveClaim'
  BY DEF TypeOK, ExclusiveClaim, Deciding
<1>6. Built'
  BY DEF TypeOK, Built, Building
<1>7. Metered'
  BY DEF TypeOK, Metered
<1>8. RunningOwnsCluster'
  BY DEF TypeOK, RunningOwnsCluster
<1>9. Retriable'
  BY DEF TypeOK, Retriable
<1> QED  BY <1>1, <1>2, <1>3, <1>4, <1>5, <1>6, <1>7, <1>8, <1>9

\* A guarded call that fails moves the worker to the except.
LEMMA CallFailsKeeps ==
  ASSUME IInv, NEW w \in Workers, CallFails(w)
  PROVE  IInv'
<1> USE ProvisioningAssumption, AfterSteps DEF IInv, CallFails, Raise, Rescue, MoveTo, Guarded, Core, docs, jobs, api, workers, bounds
<1>1. TypeOK'
  BY DEF TypeOK, Kinds, Core, Guarded, Statuses, JobStates, RequestSteps, WorkerSteps, Finished
<1>2. RequestsRecorded'
  BY DEF TypeOK, RequestsRecorded
<1>3. JobsRecorded'
  BY DEF TypeOK, JobsRecorded
<1>4. HoldersRecorded'
  BY DEF TypeOK, HoldersRecorded
<1>5. ExclusiveClaim'
  BY DEF TypeOK, ExclusiveClaim, Deciding
<1>6. Built'
  <2>1. \A v \in Workers : Building(v)' => Building(v) /\ wpc'[v] = wpc[v]
    BY DEF TypeOK, Building
  <2> QED  BY <2>1 DEF Built
<1>7. Metered'
  BY DEF TypeOK, Metered
<1>8. RunningOwnsCluster'
  BY DEF TypeOK, RunningOwnsCluster
<1>9. Retriable'
  BY DEF TypeOK, Retriable
<1> QED  BY <1>1, <1>2, <1>3, <1>4, <1>5, <1>6, <1>7, <1>8, <1>9

\* The requeue makes the job claimable, with an attempt left, and lets go of it.
LEMMA RequeueKeeps ==
  ASSUME IInv, NEW w \in Workers, Requeue(w)
  PROVE  IInv'
<1> USE ProvisioningAssumption, AfterSteps DEF IInv, Requeue, SetJob, MoveTo, docs, jobs, api, workers, bounds
<1>1. TypeOK'
  BY DEF TypeOK, Kinds, Core, Guarded, Statuses, JobStates, RequestSteps, WorkerSteps, Finished
<1>2. RequestsRecorded'
  BY DEF TypeOK, RequestsRecorded, HoldersRecorded
<1>3. JobsRecorded'
  BY DEF TypeOK, JobsRecorded, HoldersRecorded, ExclusiveClaim, Deciding
<1>4. HoldersRecorded'
  BY DEF TypeOK, HoldersRecorded
<1>5. ExclusiveClaim'
  BY DEF TypeOK, ExclusiveClaim, Deciding
<1>6. Built'
  BY DEF TypeOK, Built, Building
<1>7. Metered'
  BY DEF TypeOK, Metered
<1>8. RunningOwnsCluster'
  BY DEF TypeOK, RunningOwnsCluster
<1>9. Retriable'
  BY DEF TypeOK, Retriable, HoldersRecorded, ExclusiveClaim, Deciding
<1> QED  BY <1>1, <1>2, <1>3, <1>4, <1>5, <1>6, <1>7, <1>8, <1>9

\* The last failure ends the job and lets go of it.
LEMMA GiveUpKeeps ==
  ASSUME IInv, NEW w \in Workers, GiveUp(w)
  PROVE  IInv'
<1> USE ProvisioningAssumption, AfterSteps DEF IInv, GiveUp, SetJob, MoveTo, docs, jobs, api, workers, bounds
<1>1. TypeOK'
  BY DEF TypeOK, Kinds, Core, Guarded, Statuses, JobStates, RequestSteps, WorkerSteps, Finished
<1>2. RequestsRecorded'
  BY DEF TypeOK, RequestsRecorded, HoldersRecorded
<1>3. JobsRecorded'
  BY DEF TypeOK, JobsRecorded, HoldersRecorded
<1>4. HoldersRecorded'
  BY DEF TypeOK, HoldersRecorded
<1>5. ExclusiveClaim'
  BY DEF TypeOK, ExclusiveClaim, Deciding
<1>6. Built'
  BY DEF TypeOK, Built, Building
<1>7. Metered'
  BY DEF TypeOK, Metered
<1>8. RunningOwnsCluster'
  BY DEF TypeOK, RunningOwnsCluster
<1>9. Retriable'
  BY DEF TypeOK, Retriable
<1> QED  BY <1>1, <1>2, <1>3, <1>4, <1>5, <1>6, <1>7, <1>8, <1>9

\* The late status write: "provisioning" or "failed", never "running".
LEMMA ReportFailureKeeps ==
  ASSUME IInv, NEW w \in Workers, ReportFailure(w)
  PROVE  IInv'
<1> USE ProvisioningAssumption, AfterSteps DEF IInv, ReportFailure, WriteStatus, Release, MoveTo, docs, jobs, api, workers, bounds
<1>1. TypeOK'
  <2>1. wdep[w] \in Deployments /\ status[wdep[w]] # "none"
    BY DEF TypeOK, HoldersRecorded, JobsRecorded
  <2>2. /\ status' \in [Deployments -> Statuses]
        /\ \A d \in Deployments : name[d] = None <=> status'[d] = "none"
    BY <2>1 DEF TypeOK, Statuses
  <2>3. /\ wpc' \in [Workers -> WorkerSteps]
        /\ wdep' \in [Workers -> Deployments \cup {None}]
        /\ \A v \in Workers : wdep'[v] = None <=> wpc'[v] \in {"idle", "down"}
    BY DEF TypeOK, WorkerSteps, Guarded
  <2>4. overtaken' \subseteq Deployments
    BY <2>1 DEF TypeOK, Note
  <2> QED  BY <2>2, <2>3, <2>4 DEF TypeOK
<1>2. RequestsRecorded'
  BY DEF TypeOK, RequestsRecorded
<1>3. JobsRecorded'
  BY DEF TypeOK, JobsRecorded, HoldersRecorded
<1>4. HoldersRecorded'
  BY DEF TypeOK, HoldersRecorded
<1>5. ExclusiveClaim'
  BY DEF TypeOK, ExclusiveClaim, Deciding
<1>6. Built'
  BY DEF TypeOK, Built, Building
<1>7. Metered'
  BY DEF TypeOK, Metered
<1>8. RunningOwnsCluster'
  BY DEF TypeOK, RunningOwnsCluster
<1>9. Retriable'
  BY DEF TypeOK, Retriable
<1> QED  BY <1>1, <1>2, <1>3, <1>4, <1>5, <1>6, <1>7, <1>8, <1>9

\* A death lets go of the job without a write.
LEMMA WorkerDiesKeeps ==
  ASSUME IInv, NEW w \in Workers, WorkerDies(w)
  PROVE  IInv'
<1> USE ProvisioningAssumption, AfterSteps DEF IInv, WorkerDies, Release, MoveTo, docs, jobs, api, workers, bounds
<1>1. TypeOK'
  BY DEF TypeOK, Kinds, Core, Guarded, Statuses, JobStates, RequestSteps, WorkerSteps, Finished
<1>2. RequestsRecorded'
  BY DEF TypeOK, RequestsRecorded
<1>3. JobsRecorded'
  BY DEF TypeOK, JobsRecorded
<1>4. HoldersRecorded'
  BY DEF TypeOK, HoldersRecorded
<1>5. ExclusiveClaim'
  BY DEF TypeOK, ExclusiveClaim, Deciding
<1>6. Built'
  BY DEF TypeOK, Built, Building
<1>7. Metered'
  BY DEF TypeOK, Metered
<1>8. RunningOwnsCluster'
  BY DEF TypeOK, RunningOwnsCluster
<1>9. Retriable'
  BY DEF TypeOK, Retriable
<1> QED  BY <1>1, <1>2, <1>3, <1>4, <1>5, <1>6, <1>7, <1>8, <1>9

\* The reset queues jobs that exist; what it undoes is claimed only while resets = 0.
LEMMA ResetJobsKeeps ==
  ASSUME IInv, ResetJobs
  PROVE  IInv'
<1> USE ProvisioningAssumption, AfterSteps DEF IInv, ResetJobs, docs, jobs, api, workers, bounds
<1>1. TypeOK'
  BY DEF TypeOK, Kinds, Core, Guarded, Statuses, JobStates, RequestSteps, WorkerSteps, Finished
<1>2. RequestsRecorded'
  BY DEF TypeOK, RequestsRecorded
<1>3. JobsRecorded'
  BY DEF TypeOK, JobsRecorded
<1>4. HoldersRecorded'
  BY DEF TypeOK, HoldersRecorded
<1>5. ExclusiveClaim'
  BY DEF TypeOK, ExclusiveClaim, Deciding
<1>6. Built'
  BY DEF TypeOK, Built, Building
<1>7. Metered'
  BY DEF TypeOK, Metered
<1>8. RunningOwnsCluster'
  BY DEF TypeOK, RunningOwnsCluster
<1>9. Retriable'
  BY DEF TypeOK, Retriable
<1> QED  BY <1>1, <1>2, <1>3, <1>4, <1>5, <1>6, <1>7, <1>8, <1>9

\* A new worker process holds nothing.
LEMMA RestartKeeps ==
  ASSUME IInv, NEW w \in Workers, Restart(w)
  PROVE  IInv'
<1> USE ProvisioningAssumption, AfterSteps DEF IInv, Restart, MoveTo, docs, jobs, api, workers, bounds
<1>1. TypeOK'
  BY DEF TypeOK, Kinds, Core, Guarded, Statuses, JobStates, RequestSteps, WorkerSteps, Finished
<1>2. RequestsRecorded'
  BY DEF TypeOK, RequestsRecorded
<1>3. JobsRecorded'
  BY DEF TypeOK, JobsRecorded
<1>4. HoldersRecorded'
  BY DEF TypeOK, HoldersRecorded
<1>5. ExclusiveClaim'
  BY DEF TypeOK, ExclusiveClaim, Deciding
<1>6. Built'
  BY DEF TypeOK, Built, Building
<1>7. Metered'
  BY DEF TypeOK, Metered
<1>8. RunningOwnsCluster'
  BY DEF TypeOK, RunningOwnsCluster
<1>9. Retriable'
  BY DEF TypeOK, Retriable
<1> QED  BY <1>1, <1>2, <1>3, <1>4, <1>5, <1>6, <1>7, <1>8, <1>9

------------------------------------------------------------------------------
(* The theorems. *)

\* The empty database satisfies the invariant.
LEMMA InitEstablishes == Init => IInv
<1> SUFFICES ASSUME Init PROVE IInv
  OBVIOUS
<1> USE ProvisioningAssumption DEF Init
<1>1. TypeOK
  BY DEF TypeOK, Kinds, Core, Guarded, Statuses, JobStates, RequestSteps, WorkerSteps, Finished
<1>2. RequestsRecorded /\ JobsRecorded /\ Retriable /\ HoldersRecorded
  BY DEF RequestsRecorded, JobsRecorded, Retriable, HoldersRecorded
<1>3. ExclusiveClaim /\ Built /\ Metered /\ RunningOwnsCluster
  BY DEF ExclusiveClaim, Deciding, Built, Building, Metered, RunningOwnsCluster
<1> QED  BY <1>1, <1>2, <1>3 DEF IInv

\* Steps of other programs leave every variable alone.
LEMMA StutterKeeps ==
  ASSUME IInv, UNCHANGED vars
  PROVE  IInv'
<1> USE DEF IInv, vars, docs, jobs, api, workers, bounds
<1>1. TypeOK' /\ RequestsRecorded' /\ JobsRecorded' /\ Retriable' /\ HoldersRecorded'
  BY DEF TypeOK, RequestsRecorded, JobsRecorded, Retriable, HoldersRecorded
<1>2. ExclusiveClaim' /\ Built' /\ Metered' /\ RunningOwnsCluster'
  BY DEF ExclusiveClaim, Deciding, Built, Building, Metered, RunningOwnsCluster
<1> QED  BY <1>1, <1>2

\* Every step of a request or a worker keeps the invariant.
LEMMA StepKeeps ==
  ASSUME IInv, [Next]_vars
  PROVE  IInv'
<1>1. ASSUME NEW h \in Handlers, Request(h) PROVE IInv'
  BY <1>1, CreateDeploymentKeeps, FindForDeleteKeeps DEF Request
<1>2. ASSUME NEW h \in Handlers, RequestStep(h) PROVE IInv'
  BY <1>2, CreateProvisionJobKeeps, SoftDeleteKeeps, DeleteScalerKeeps DEF RequestStep
<1>3. ASSUME NEW h \in Handlers, RequestDies(h) PROVE IInv'
  BY <1>3, RequestDiesKeeps
<1>4. ASSUME NEW w \in Workers, WorkerStep(w) PROVE IInv'
  BY <1>4, ClaimKeeps, ReportKeeps, CheckReadyKeeps, CreateCoreKeeps, CreateScalerKeeps,
     MeterKeeps, CompleteKeeps, ConfirmKeeps, RequeueKeeps, GiveUpKeeps, ReportFailureKeeps
     DEF WorkerStep
<1>5. ASSUME NEW w \in Workers, CallFails(w) \/ WorkerDies(w) \/ Restart(w) PROVE IInv'
  BY <1>5, CallFailsKeeps, WorkerDiesKeeps, RestartKeeps
<1> QED  BY <1>1, <1>2, <1>3, <1>4, <1>5, ResetJobsKeeps, StutterKeeps DEF Next

\* The inductive invariant holds in every reachable state.
THEOREM Invariance == Spec => []IInv
<1>1. Init => IInv
  BY InitEstablishes
<1>2. IInv /\ [Next]_vars => IInv'
  BY StepKeeps
<1> QED  BY <1>1, <1>2, PTL DEF Spec

\* Every variable keeps its type; in particular, while nobody resets jobs, none
\* is claimed more than settings.provision_max_attempts times, however workers
\* fail, die and race.
THEOREM TypeCorrect == Spec => []TypeOK
BY Invariance, PTL DEF IInv

\* One worker at a time decides a claimed job's fate, for any number of
\* workers: while nobody resets jobs, the findOneAndUpdate is lock enough.
THEOREM ClaimIsExclusive == Spec => []ExclusiveClaim
BY Invariance, PTL DEF IInv

\* A deployment that reads "running" owns the Deployment, Service and Ingress
\* of its name, for any number of namesakes, retries, failures and resets.
THEOREM RunningIsBuilt == Spec => []RunningOwnsCluster
BY Invariance, PTL DEF IInv

\* No deployment is metered twice, however often its job is retried or reset.
THEOREM MeteredAtMostOnce == Spec => []MeteredOnce
<1>1. IInv => MeteredOnce
  <2> SUFFICES ASSUME IInv, NEW d \in Deployments
               PROVE  usage[d] <= 1
    BY DEF MeteredOnce
  <2>1. usage[d] # 0 => usage[d] = 1
    BY DEF IInv, Metered
  <2> QED  BY <2>1
<1> QED  BY <1>1, Invariance, PTL

------------------------------------------------------------------------------
(* The attempts of a job, with resets.                                        *)

\* The workers that may still put job d back.
Spare(d) == {w \in Workers : Deciding(w) /\ wdep[w] = d /\ wtry[w] < MaxAttempts}

\* A job is queued once when it is made, once by each reset, and once by each
\* claim but the last that it may have: a claim is worth one return at most.
Tries(d) ==
  /\ jobState[d] = "none" => attempts[d] = 0
  /\ IsFiniteSet(Spare(d))
  /\ attempts[d] + (IF jobState[d] = "queued" THEN 1 ELSE 0) + Cardinality(Spare(d))
       <= 1 + resets + (IF attempts[d] < MaxAttempts THEN attempts[d] ELSE MaxAttempts - 1)

\* Nobody comes to decide a job but by a claim.
OnlyLetsGo ==
  \A v \in Workers : Deciding(v)' => Deciding(v) /\ wdep'[v] = wdep[v] /\ wtry'[v] = wtry[v]

LEMMA WorkersLetGo ==
  ASSUME IInv, NEW w \in Workers,
         \/ Report(w) \/ CheckReady(w) \/ Meter(w) \/ Complete(w) \/ Confirm(w)
         \/ (\E kind \in Core : CreateCore(w, kind)) \/ (\E kind \in Scalers : CreateScaler(w, kind))
         \/ Requeue(w) \/ GiveUp(w) \/ ReportFailure(w) \/ CallFails(w) \/ WorkerDies(w) \/ Restart(w)
  PROVE  OnlyLetsGo /\ UNCHANGED <<attempts, resets>>
<1> USE ProvisioningAssumption DEF IInv, TypeOK, Deciding, OnlyLetsGo, MoveTo, jobs, workers
<1>1. CASE \/ Report(w) \/ Meter(w) \/ Complete(w) \/ (\E kind \in Core : CreateCore(w, kind)) \/ CallFails(w)
  BY <1>1 DEF Report, Meter, Complete, SetJob, CreateCore, Core, CallFails, Guarded, Answer, Raise
<1>2. CASE (\E kind \in Scalers : CreateScaler(w, kind)) \/ CheckReady(w)
  BY <1>2 DEF CreateScaler, CheckReady
<1>3. CASE Requeue(w) \/ GiveUp(w)
  BY <1>3 DEF Requeue, GiveUp, SetJob
<1>4. CASE Confirm(w) \/ ReportFailure(w) \/ WorkerDies(w) \/ Restart(w)
  BY <1>4 DEF Confirm, ReportFailure, WorkerDies, Restart, Release
<1> QED  BY <1>1, <1>2, <1>3, <1>4

\* A step that queues nothing and lets nobody claim.
LEMMA TriesStand ==
  ASSUME IInv, NEW d \in Deployments, Tries(d), OnlyLetsGo, UNCHANGED <<attempts, resets>>,
         jobState'[d] = "queued" => jobState[d] = "queued",
         jobState'[d] = "none" => jobState[d] = "none"
  PROVE  Tries(d)'
<1>1. Spare(d)' \subseteq Spare(d)
  BY DEF Spare, OnlyLetsGo
<1>2. IsFiniteSet(Spare(d)') /\ Cardinality(Spare(d)') <= Cardinality(Spare(d))
  BY <1>1, FS_Subset DEF Tries
<1>3. Cardinality(Spare(d)) \in Nat /\ Cardinality(Spare(d)') \in Nat
  BY <1>2, FS_CardinalityType DEF Tries
<1> QED  BY <1>2, <1>3, ProvisioningAssumption DEF Tries, IInv, TypeOK

LEMMA TriesClaim ==
  ASSUME IInv, NEW d \in Deployments, Tries(d), NEW w \in Workers, NEW e \in Deployments, Claim(w, e)
  PROVE  Tries(d)'
<1> USE ProvisioningAssumption DEF IInv, TypeOK
<1>1. CASE e # d
  <2>1. Spare(d)' \subseteq Spare(d)
    BY <1>1 DEF Claim, Spare, Deciding, MoveTo
  <2>2. IsFiniteSet(Spare(d)') /\ Cardinality(Spare(d)') <= Cardinality(Spare(d))
    BY <2>1, FS_Subset DEF Tries
  <2>3. Cardinality(Spare(d)) \in Nat /\ Cardinality(Spare(d)') \in Nat
    BY <2>2, FS_CardinalityType DEF Tries
  <2>4. jobState'[d] = jobState[d] /\ attempts'[d] = attempts[d] /\ resets' = resets
    BY <1>1 DEF Claim
  <2> QED  BY <2>2, <2>3, <2>4 DEF Tries
<1>2. CASE e = d
  <2>1. /\ jobState[d] = "queued" /\ jobState'[d] = "processing"
        /\ attempts'[d] = attempts[d] + 1 /\ resets' = resets
    BY <1>2 DEF Claim, Claimable
  <2>2. CASE attempts[d] + 1 < MaxAttempts
    <3>1. Spare(d)' \subseteq Spare(d) \cup {w}
      BY <1>2 DEF Claim, Spare, Deciding, MoveTo
    <3>2. PICK S : S = Spare(d) \cup {w}
      OBVIOUS
    <3>0. IsFiniteSet(Spare(d)) /\ Cardinality(Spare(d)) \in Nat
      BY FS_CardinalityType DEF Tries
    <3>9. IsFiniteSet(S) /\ Cardinality(S) \in {Cardinality(Spare(d)), Cardinality(Spare(d)) + 1}
      BY <3>2, <3>0, FS_AddElement
    <3>3. IsFiniteSet(S) /\ Cardinality(S) <= Cardinality(Spare(d)) + 1 /\ Cardinality(Spare(d)) \in Nat
      BY <3>0, <3>9
    <3>4. IsFiniteSet(Spare(d)') /\ Cardinality(Spare(d)') <= Cardinality(S)
      BY <3>1, <3>2, <3>3, FS_Subset
    <3>5. Cardinality(Spare(d)') \in Nat /\ Cardinality(S) \in Nat
      BY <3>3, <3>4, FS_CardinalityType
    <3> QED  BY <2>1, <2>2, <3>3, <3>4, <3>5 DEF Tries
  <2>3. CASE ~(attempts[d] + 1 < MaxAttempts)
    <3>1. Spare(d)' \subseteq Spare(d)
      BY <1>2, <2>3 DEF Claim, Spare, Deciding, MoveTo
    <3>2. IsFiniteSet(Spare(d)') /\ Cardinality(Spare(d)') <= Cardinality(Spare(d))
      BY <3>1, FS_Subset DEF Tries
    <3>3. Cardinality(Spare(d)) \in Nat /\ Cardinality(Spare(d)') \in Nat
      BY <3>2, FS_CardinalityType DEF Tries
    <3> QED  BY <2>1, <2>3, <3>2, <3>3 DEF Tries
  <2> QED  BY <2>2, <2>3
<1> QED  BY <1>1, <1>2

\* The worker that puts the job back may not do so again.
LEMMA TriesRequeue ==
  ASSUME IInv, NEW d \in Deployments, Tries(d), NEW w \in Workers, Requeue(w)
  PROVE  Tries(d)'
<1> USE ProvisioningAssumption DEF IInv, TypeOK
<1>1. OnlyLetsGo /\ UNCHANGED <<attempts, resets>>
  BY WorkersLetGo
<1>2. CASE wdep[w] # d
  <2>1. jobState'[d] = jobState[d]
    BY <1>2 DEF Requeue, SetJob
  <2> QED  BY <1>1, <2>1, TriesStand
<1>3. CASE wdep[w] = d
  <2>1. w \in Spare(d)
    BY <1>3 DEF Requeue, Spare, Deciding, HoldersRecorded
  <2>2. Spare(d)' \subseteq Spare(d) \ {w}
    BY <1>1 DEF OnlyLetsGo, Requeue, Spare, Deciding, MoveTo
  <2>3. PICK S : S = Spare(d) \ {w}
    OBVIOUS
  <2>4. IsFiniteSet(S) /\ Cardinality(S) = Cardinality(Spare(d)) - 1 /\ Cardinality(Spare(d)) \in Nat
    BY <2>1, <2>3, FS_RemoveElement, FS_CardinalityType DEF Tries
  <2>5. IsFiniteSet(Spare(d)') /\ Cardinality(Spare(d)') <= Cardinality(S)
    BY <2>2, <2>3, <2>4, FS_Subset
  <2>6. Cardinality(Spare(d)') \in Nat
    BY <2>5, FS_CardinalityType
  <2>7. jobState'[d] = "queued" /\ attempts'[d] = attempts[d] /\ resets' = resets
    BY <1>3 DEF Requeue, SetJob
  <2> QED  BY <2>4, <2>5, <2>6, <2>7 DEF Tries
<1> QED  BY <1>2, <1>3

LEMMA TriesKept ==
  ASSUME IInv, [Next]_vars, NEW d \in Deployments, Tries(d)
  PROVE  Tries(d)'
<1> USE ProvisioningAssumption DEF IInv, TypeOK
<1>0. ASSUME UNCHANGED workers
      PROVE  OnlyLetsGo
  BY <1>0 DEF workers, OnlyLetsGo, Deciding
<1>1. CASE UNCHANGED <<jobs, workers>>
  BY <1>0, <1>1, TriesStand DEF jobs
<1>2. ASSUME NEW h \in Handlers, CreateProvisionJob(h)
      PROVE  Tries(d)'
  <2>0. UNCHANGED <<attempts, resets, workers>> /\ jobState[hdep[h]] = "none" /\ hdep[h] \in Deployments
        /\ jobState' = [jobState EXCEPT ![hdep[h]] = "queued"]
    BY <1>2 DEF CreateProvisionJob, RequestsRecorded
  <2>1. CASE hdep[h] # d
    <3>1. jobState'[d] = jobState[d]
      BY <2>0, <2>1
    <3> QED  BY <1>0, <2>0, <3>1, TriesStand
  <2>2. CASE hdep[h] = d
    <3>1. Spare(d)' = {}
      BY <2>0, <2>2 DEF Spare, Deciding, HoldersRecorded, workers
    <3>2. attempts'[d] = 0 /\ resets' = resets /\ resets \in Nat
      BY <2>0, <2>2 DEF Tries
    <3>3. IsFiniteSet(Spare(d)') /\ Cardinality(Spare(d)') = 0
      BY <3>1, FS_EmptySet
    <3> QED  BY <2>0, <2>2, <3>2, <3>3 DEF Tries
  <2> QED  BY <2>1, <2>2
<1>3. ASSUME NEW h \in Handlers, Request(h) \/ RequestStep(h) \/ RequestDies(h)
      PROVE  Tries(d)'
  BY <1>1, <1>2, <1>3 DEF Request, RequestStep, CreateDeployment, FindForDelete, SoftDelete, DeleteScaler, RequestDies
<1>4. ASSUME NEW w \in Workers, WorkerStep(w) \/ CallFails(w) \/ WorkerDies(w) \/ Restart(w)
      PROVE  Tries(d)'
  <2>1. CASE (\E e \in Deployments : Claim(w, e)) \/ Requeue(w)
    BY <2>1, TriesClaim, TriesRequeue
  <2>2. CASE ~((\E e \in Deployments : Claim(w, e)) \/ Requeue(w))
    <3>1. OnlyLetsGo /\ UNCHANGED <<attempts, resets>>
      BY <1>4, <2>2, WorkersLetGo DEF WorkerStep
    <3>2. /\ jobState'[d] = "queued" => jobState[d] = "queued"
          /\ jobState'[d] = "none" => jobState[d] = "none"
      BY <1>4, <2>2 DEF WorkerStep, Report, CheckReady, CreateCore, CreateScaler, Meter, Complete, Confirm, GiveUp,
         ReportFailure, CallFails, WorkerDies, Restart, SetJob, jobs
    <3> QED  BY <3>1, <3>2, TriesStand
  <2> QED  BY <2>1, <2>2
<1>5. CASE ResetJobs
  <2>1. Spare(d)' = Spare(d)
    BY <1>5 DEF ResetJobs, Spare, Deciding, workers
  <2>2. Cardinality(Spare(d)) \in Nat
    BY FS_CardinalityType DEF Tries
  <2>3. /\ attempts' = attempts /\ resets' = resets + 1 /\ resets \in Nat
        /\ jobState'[d] = "none" => jobState[d] = "none"
    BY <1>5 DEF ResetJobs
  <2> QED  BY <2>1, <2>2, <2>3 DEF Tries
<1> QED  BY <1>1, <1>3, <1>4, <1>5 DEF Next, vars

\* Each reset buys a job one claim more, and no other: a worker whose job was
\* reset under it may put it back, but that claim was counted when it was made.
THEOREM TriesAreBounded == Spec => []TriesBounded
<1>1. Init => \A d \in Deployments : Tries(d)
  <2> SUFFICES ASSUME Init, NEW d \in Deployments
               PROVE  Tries(d)
    OBVIOUS
  <2>1. Spare(d) = {} /\ jobState[d] = "none" /\ attempts[d] = 0 /\ resets = 0
    BY DEF Init, Spare, Deciding
  <2>2. IsFiniteSet(Spare(d)) /\ Cardinality(Spare(d)) = 0
    BY <2>1, FS_EmptySet
  <2> QED  BY <2>1, <2>2, ProvisioningAssumption DEF Tries
<1>2. IInv /\ (\A d \in Deployments : Tries(d)) /\ [Next]_vars => (\A d \in Deployments : Tries(d))'
  BY TriesKept
<1>3. IInv /\ (\A d \in Deployments : Tries(d)) => TriesBounded
  <2> SUFFICES ASSUME IInv, NEW d \in Deployments, Tries(d)
               PROVE  attempts[d] <= MaxAttempts + resets
    BY DEF TriesBounded
  <2>1. Cardinality(Spare(d)) \in Nat
    BY FS_CardinalityType DEF Tries
  <2> QED  BY <2>1, ProvisioningAssumption DEF Tries, IInv, TypeOK
<1> QED  BY <1>1, <1>2, <1>3, Invariance, PTL DEF Spec

------------------------------------------------------------------------------
(* What a job marked succeeded tells.                                      *)

Visible == {"pending", "running", "stopped"}

\* Worker w is the last that claimed its job.
Last(w) == wdep[w] # None /\ wtry[w] = attempts[wdep[w]]

\* Every claim counts, so a job has one last claimant at most.
OneLast ==
  \A w \in Workers : wdep[w] # None =>
    /\ wtry[w] <= attempts[wdep[w]]
    /\ \A v \in Workers \ {w} : wdep[v] = wdep[w] => wtry[v] # wtry[w]

\* The steps of an attempt up to the mark, and those after a verdict.
Unmarked == {"start", "ready", "live", "pending", "meter", "complete", "retry", "fail"} \cup Kinds

\* A job marked succeeded has told so; its last claimant has told so before the
\* mark, and finds no mark while it has yet to write something else.
Told ==
  /\ \A d \in Deployments \ overtaken : jobState[d] = "succeeded" => status[d] \in Visible
  /\ \A w \in Workers : Last(w) /\ wdep[w] \notin overtaken =>
       /\ wpc[w] \in {"meter", "complete", "confirm"} => status[wdep[w]] \in Visible
       /\ wpc[w] \in Unmarked => jobState[wdep[w]] # "succeeded"

Reported == OneLast /\ Told

LEMMA OneLastKept ==
  ASSUME IInv, [Next]_vars, Reported
  PROVE  OneLast'
<1> USE DEF IInv, TypeOK, Reported, OneLast
<1>1. CASE UNCHANGED <<attempts, wdep, wtry>>
  BY <1>1
<1>2. ASSUME NEW w \in Workers, NEW step, Release(w, step), UNCHANGED attempts
      PROVE  OneLast'
  BY <1>2, ProvisioningAssumption DEF Release
<1>3. ASSUME NEW w \in Workers, NEW d \in Deployments, Claim(w, d)
      PROVE  OneLast'
  <2>1. /\ attempts' = [attempts EXCEPT ![d] = @ + 1]
        /\ wdep' = [wdep EXCEPT ![w] = d] /\ wtry' = [wtry EXCEPT ![w] = attempts[d] + 1]
    BY <1>3 DEF Claim
  <2>2. \A v \in Workers : wtry[v] \in Nat
    OBVIOUS
  <2>3. \A e \in Deployments : attempts[e] \in Nat
    OBVIOUS
  <2>4. \A v \in Workers : wdep[v] \in Deployments \cup {None}
    OBVIOUS
  <2>5. SUFFICES ASSUME NEW u \in Workers, wdep'[u] # None
        PROVE  /\ wtry'[u] <= attempts'[wdep'[u]]
               /\ \A v \in Workers \ {u} : wdep'[v] = wdep'[u] => wtry'[v] # wtry'[u]
    OBVIOUS
  <2>6. CASE u = w
    <3>1. wdep'[u] = d /\ wtry'[u] = attempts[d] + 1 /\ attempts'[d] = attempts[d] + 1
      BY <2>1, <2>6
    <3>2. \A v \in Workers \ {u} : wdep'[v] = d => wtry'[v] <= attempts[d]
      BY <2>1, <2>6, ProvisioningAssumption
    <3>3. attempts[d] \in Nat /\ \A v \in Workers \ {u} : wtry'[v] \in Nat
      BY <2>1, <2>2, <2>3, <2>6
    <3> QED  BY ONLY <3>1, <3>2, <3>3
  <2>7. CASE u # w
    <3>1. wdep'[u] = wdep[u] /\ wtry'[u] = wtry[u] /\ wdep[u] \in Deployments
      BY <2>1, <2>4, <2>5, <2>7
    <3>2. attempts[wdep[u]] <= attempts'[wdep[u]]
      BY <2>1, <2>3, <3>1
    <3>3. wtry[u] <= attempts[wdep[u]] /\ wtry[u] \in Nat /\ attempts[wdep[u]] \in Nat
      BY <2>2, <2>3, <2>5, <3>1
    <3>4. attempts'[wdep[u]] \in Nat
      BY <2>1, <2>3, <3>1
    <3>5. ASSUME NEW v \in Workers \ {u}, wdep'[v] = wdep'[u] PROVE wtry'[v] # wtry'[u]
      <4>1. CASE v = w
        <5>1. wdep[u] = d /\ wtry'[v] = attempts[d] + 1
          BY <2>1, <3>1, <3>5, <4>1
        <5> QED  BY <3>1, <3>3, <5>1
      <4>2. CASE v # w
        BY <2>1, <2>5, <3>1, <3>5, <4>2
      <4> QED  BY <4>1, <4>2
    <3> QED  BY <3>1, <3>2, <3>3, <3>4, <3>5
  <2> QED  BY <2>6, <2>7
<1>4. CASE UNCHANGED vars
  BY <1>1, <1>4 DEF vars, jobs, workers
<1>5. ASSUME NEW h \in Handlers, Request(h) \/ RequestStep(h) \/ RequestDies(h)
      PROVE  OneLast'
  BY <1>1, <1>5 DEF Request, RequestStep, RequestDies, CreateDeployment, CreateProvisionJob, FindForDelete,
     SoftDelete, DeleteScaler, jobs, workers
<1>6. ASSUME NEW w \in Workers, WorkerStep(w) \/ CallFails(w) \/ WorkerDies(w) \/ Restart(w)
      PROVE  OneLast'
  <2>1. CASE Report(w) \/ CheckReady(w) \/ Meter(w) \/ Complete(w) \/ Requeue(w) \/ CallFails(w) \/ Restart(w)
             \/ (\E kind \in Core : CreateCore(w, kind)) \/ (\E kind \in Scalers : CreateScaler(w, kind))
    BY <1>1, <2>1 DEF Report, CheckReady, Meter, Complete, Requeue, CallFails, Restart, CreateCore, CreateScaler,
       Answer, Raise, SetJob, jobs
  <2>2. CASE GiveUp(w)
    BY <1>1, <2>2 DEF GiveUp, SetJob
  <2>3. CASE Confirm(w) \/ WorkerDies(w) \/ ReportFailure(w)
    BY <1>2, <2>3 DEF Confirm, WorkerDies, ReportFailure, jobs
  <2> QED  BY <1>3, <1>6, <2>1, <2>2, <2>3 DEF WorkerStep
<1>7. CASE ResetJobs
  BY <1>1, <1>7 DEF ResetJobs, workers
<1> QED  BY <1>4, <1>5, <1>6, <1>7 DEF Next

\* A worker that is not the last excepts its deployment when it writes a status or
\* the mark, and takes no mark that matters away: so only the last one counts.
LEMMA ToldKept ==
  ASSUME IInv, [Next]_vars, Reported
  PROVE  Told'
<1> USE ProvisioningAssumption, AfterSteps
        DEF IInv, TypeOK, Reported, OneLast, Told, Last, Visible, Unmarked, MoveTo, docs, jobs, workers
<1>1. CASE UNCHANGED <<docs, jobs, workers>>
  BY <1>1
<1>2. ASSUME NEW h \in Handlers, Request(h) \/ RequestStep(h) \/ RequestDies(h)
      PROVE  Told'
  <2>1. ASSUME NEW d \in Deployments, NEW n \in Names, CreateDeployment(h, d, n)
        PROVE  Told'
    BY <2>1 DEF CreateDeployment, JobsRecorded, HoldersRecorded
  <2>2. CASE CreateProvisionJob(h)
    BY <2>2 DEF CreateProvisionJob, RequestsRecorded, HoldersRecorded
  <2>3. CASE SoftDelete(h)
    BY <2>3 DEF SoftDelete
  <2> QED  BY <1>1, <1>2, <2>1, <2>2, <2>3 DEF Request, RequestStep, FindForDelete, DeleteScaler, RequestDies
<1>3. ASSUME NEW w \in Workers, WorkerStep(w) \/ CallFails(w) \/ WorkerDies(w) \/ Restart(w)
      PROVE  Told'
  <2>1. ASSUME NEW d \in Deployments, Claim(w, d)
        PROVE  Told'
    BY <2>1 DEF Claim, Claimable
  <2>2. CASE Report(w)
    BY <2>2 DEF Report, WriteStatus, Note, Answer, Raise, Rescue, Kinds, Core
  <2>3. CASE CheckReady(w)
    BY <2>3 DEF CheckReady, NextIfReady, Kinds, Core
  <2>4. ASSUME NEW kind \in Core, CreateCore(w, kind)
        PROVE  Told'
    BY <2>4 DEF CreateCore, Answer, Raise, Rescue, Kinds, Core
  <2>5. ASSUME NEW kind \in Scalers, CreateScaler(w, kind)
        PROVE  Told'
    BY <2>5 DEF CreateScaler, Kinds, Core
  <2>6. CASE Meter(w)
    BY <2>6 DEF Meter, Answer, Raise, Rescue, Kinds, Core
  <2>7. CASE Complete(w)
    BY <2>7 DEF Complete, SetJob, Note, Answer, Raise, Rescue, Kinds, Core
  <2>8. CASE Confirm(w) \/ WorkerDies(w) \/ Restart(w)
    BY <2>8 DEF Confirm, WorkerDies, Restart, Release, Kinds, Core
  <2>9. CASE Requeue(w) \/ GiveUp(w)
    BY <2>9 DEF Requeue, GiveUp, SetJob, Kinds, Core
  <2>10. CASE ReportFailure(w)
    BY <2>10 DEF ReportFailure, WriteStatus, Note, Release, Kinds, Core
  <2>11. CASE CallFails(w)
    BY <2>11 DEF CallFails, Raise, Rescue, Kinds, Core
  <2> QED  BY <1>3, <2>1, <2>2, <2>3, <2>4, <2>5, <2>6, <2>7, <2>8, <2>9, <2>10, <2>11 DEF WorkerStep
<1>4. CASE ResetJobs
  <2>1. UNCHANGED <<docs, workers, attempts>>
        /\ \A d \in Deployments : jobState'[d] = IF jobState[d] = "processing" THEN "queued" ELSE jobState[d]
    BY <1>4 DEF ResetJobs
  <2>2. \A w \in Workers : wdep[w] # None => wdep[w] \in Deployments
    OBVIOUS
  <2> QED  BY <2>1, <2>2 DEF Kinds, Core
<1> QED  BY <1>1, <1>2, <1>3, <1>4 DEF Next, vars

\* A job marked succeeded has told its deployment, whichever workers took it in
\* turn and whatever was retried, reset or died: the status was written by the
\* attempt that completed, and who writes after another has claimed the job is the
\* exception the property names.
THEOREM SuccessIsTold == Spec => []SuccessIsVisible
<1>1. Init => Reported
  BY ProvisioningAssumption DEF Init, Reported, OneLast, Told, Last, Unmarked, Kinds, Core
<1>2. IInv /\ Reported /\ [Next]_vars => Reported'
  BY OneLastKept, ToldKept DEF Reported
<1>3. Reported => SuccessIsVisible
  BY DEF Reported, Told, Visible, SuccessIsVisible
<1> QED  BY <1>1, <1>2, <1>3, Invariance, PTL DEF Spec

------------------------------------------------------------------------------
(* Provisioning implements WorkQueue. *)

\* A step that leaves the jobs, and who decides them, alone is no queue step.
LEMMA QueueStutters ==
  ASSUME UNCHANGED jobs,
         \A v \in Workers : Deciding(v)' <=> Deciding(v),
         \A v \in Workers : Deciding(v) => wdep'[v] = wdep[v]
  PROVE  UNCHANGED WQ!vars
<1>1. \A v \in Workers : Held(v)' = Held(v)
  BY DEF Held
<1>2. \A d \in Deployments : Phase(d)' = Phase(d)
  BY DEF Phase, jobs
<1> QED  BY <1>1, <1>2 DEF WQ!vars, jobs

\* Steps of requests do not hold jobs, and only one of them is a queue step.
LEMMA SubmitRefines ==
  ASSUME IInv, resets = 0, NEW h \in Handlers, CreateProvisionJob(h)
  PROVE  WQ!Next
<1> USE DEF IInv, CreateProvisionJob
<1>1. PICK d \in Deployments : hdep[h] = d /\ jobState[d] = "none"
  BY DEF TypeOK, RequestsRecorded
<1>2. Phase(d) = "absent" /\ Phase(d)' = "waiting"
  BY <1>1 DEF Phase, TypeOK
<1>3. \A e \in Deployments \ {d} : Phase(e)' = Phase(e)
  BY <1>1 DEF Phase, TypeOK, Deciding, workers
<1>4. \A w \in Workers : Held(w)' = Held(w)
  BY DEF Held, Deciding, workers
<1>5. WQ!Submit(d)
  BY <1>1, <1>2, <1>3, <1>4 DEF WQ!Submit
<1> QED  BY <1>5 DEF WQ!Next

\* The sorted findOneAndUpdate is the queue's Take, of the oldest waiting job.
LEMMA TakeRefines ==
  ASSUME IInv, resets = 0, NEW w \in Workers, NEW d \in Deployments, Claim(w, d)
  PROVE  WQ!Take(w, d)
<1> USE ProvisioningAssumption DEF IInv, Claim, MoveTo
<1>1. Held(w) = None /\ Held(w)' = d
  BY DEF Held, Deciding, TypeOK
<1>2. \A v \in Workers \ {w} : Held(v)' = Held(v)
  BY DEF Held, Deciding, TypeOK
<1>3. \A e \in Deployments : Phase(e) = "waiting" <=> Claimable(e)
  BY DEF Phase, Claimable
<1>4. Phase(d)' = "taken"
  BY DEF Phase, TypeOK
<1>5. \A e \in Deployments \ {d} : Phase(e)' = Phase(e)
  <2> SUFFICES ASSUME NEW e \in Deployments \ {d}
               PROVE  Phase(e)' = Phase(e)
    OBVIOUS
  <2>1. (\E v \in Workers : Deciding(v) /\ wdep[v] = e)'
          <=> (\E v \in Workers : Deciding(v) /\ wdep[v] = e)
    BY DEF Deciding, TypeOK
  <2> QED  BY <2>1 DEF Phase, TypeOK
<1>6. attempts[d] < MaxAttempts
  BY DEF Retriable, Claimable
<1>7. \A e \in Deployments : Claimable(e) => createdAt[d] <= createdAt[e]
  BY DEF Oldest
<1> QED
  BY <1>1, <1>2, <1>3, <1>4, <1>5, <1>6, <1>7 DEF WQ!Take, TypeOK

\* A worker that lets go of its job, having requeued it or not.
LEMMA LetGoRefines ==
  ASSUME IInv, resets = 0, NEW w \in Workers, Deciding(w),
         wpc' = [wpc EXCEPT ![w] = wpc'[w]],
         wpc'[w] \in {"idle", "down", "retry", "fail"},
         \A v \in Workers \ {w} : wdep'[v] = wdep[v],
         UNCHANGED <<attempts, createdAt, clock>>,
         jobState' = [jobState EXCEPT ![wdep[w]] = jobState'[wdep[w]]],
         \/ jobState'[wdep[w]] = "queued" /\ wtry[w] < MaxAttempts
         \/ jobState'[wdep[w]] \in Finished
         \/ jobState'[wdep[w]] = jobState[wdep[w]]
  PROVE  WQ!Next
<1> USE ProvisioningAssumption DEF IInv
<1>1. PICK d \in Deployments : wdep[w] = d /\ jobState[d] \notin {"none", "queued"}
  BY DEF TypeOK, Deciding, ExclusiveClaim
<1>2. ~Deciding(w)' /\ \A v \in Workers \ {w} : Deciding(v)' <=> Deciding(v)
  BY DEF Deciding, TypeOK
<1>3. \A v \in Workers : Deciding(v)' => wdep'[v] # d
  BY <1>1, <1>2 DEF ExclusiveClaim
<1>4. Held(w) = d /\ Held(w)' = None /\ \A v \in Workers \ {w} : Held(v)' = Held(v)
  BY <1>1, <1>2 DEF Held
<1>5. Phase(d) = "taken"
  BY <1>1 DEF Phase, TypeOK
<1>6. \A e \in Deployments \ {d} : Phase(e)' = Phase(e)
  <2> SUFFICES ASSUME NEW e \in Deployments \ {d}
               PROVE  Phase(e)' = Phase(e)
    OBVIOUS
  <2>1. (\E v \in Workers : Deciding(v) /\ wdep[v] = e)'
          <=> (\E v \in Workers : Deciding(v) /\ wdep[v] = e)
    BY <1>1, <1>2
  <2>2. jobState'[e] = jobState[e]
    BY <1>1 DEF TypeOK
  <2> QED  BY <2>1, <2>2 DEF Phase
<1>7. CASE jobState'[d] = "queued"
  <2>1. Phase(d)' = "waiting"
    BY <1>7 DEF Phase
  <2>2. attempts[d] < MaxAttempts
    BY <1>1, <1>7 DEF ExclusiveClaim, Finished
  <2>3. WQ!GiveBack(w, d)
    BY <1>1, <1>4, <1>6, <2>1, <2>2 DEF WQ!GiveBack
  <2> QED  BY <1>1, <2>3 DEF WQ!Next
<1>8. CASE jobState'[d] \in Finished
  <2>1. Phase(d)' = "finished"
    BY <1>3, <1>8 DEF Phase, Finished
  <2>2. WQ!Finish(w, d)
    BY <1>1, <1>4, <1>6, <2>1 DEF WQ!Finish
  <2> QED  BY <1>1, <2>2 DEF WQ!Next
<1>9. CASE jobState'[d] = "processing"
  <2>1. Phase(d)' = "taken"
    BY <1>9 DEF Phase
  <2>2. \A e \in Deployments : Phase(e)' = Phase(e)
    BY <1>5, <1>6, <2>1
  <2>3. WQ!Lose(w, d)
    BY <1>1, <1>4, <2>2 DEF WQ!Lose
  <2> QED  BY <1>1, <2>3 DEF WQ!Next
<1> QED
  BY <1>1, <1>7, <1>8, <1>9 DEF TypeOK, JobStates, Finished

\* The four steps that let go of a job.
LEMMA ReleaseRefines ==
  ASSUME IInv, resets = 0, NEW w \in Workers,
         \/ Requeue(w) \/ GiveUp(w) \/ Confirm(w)
         \/ WorkerDies(w) /\ Deciding(w)
  PROVE  WQ!Next
<1> USE DEF IInv, MoveTo, jobs, workers
<1>1. CASE Requeue(w)
  BY <1>1, LetGoRefines DEF Requeue, SetJob, Deciding, TypeOK, HoldersRecorded
<1>2. CASE GiveUp(w)
  BY <1>2, LetGoRefines DEF GiveUp, SetJob, Deciding, TypeOK, Finished
<1>3. CASE Confirm(w)
  <2>1. Deciding(w) /\ wpc' = [wpc EXCEPT ![w] = wpc'[w]] /\ wpc'[w] = "idle"
    BY <1>3 DEF Confirm, Release, Deciding, TypeOK
  <2>2. \A v \in Workers \ {w} : wdep'[v] = wdep[v]
    BY <1>3 DEF Confirm, Release, TypeOK
  <2>3. UNCHANGED jobs /\ jobState' = [jobState EXCEPT ![wdep[w]] = jobState'[wdep[w]]]
    BY <1>3 DEF Confirm, TypeOK
  <2> QED  BY <2>1, <2>2, <2>3, LetGoRefines
<1>4. CASE WorkerDies(w) /\ Deciding(w)
  BY <1>4, LetGoRefines DEF WorkerDies, Release, TypeOK
<1> QED  BY <1>1, <1>2, <1>3, <1>4

\* Marking the job succeeded does not end it: the worker may still reopen it.
LEMMA CompleteStutters ==
  ASSUME IInv, resets = 0, NEW w \in Workers, Complete(w)
  PROVE  UNCHANGED WQ!vars
<1> USE DEF IInv, Complete, SetJob
<1>1. PICK d \in Deployments : wdep[w] = d /\ jobState[d] \notin {"none", "queued"}
  BY DEF TypeOK, ExclusiveClaim, Deciding
<1>2. wdep' = wdep /\ \A v \in Workers : Deciding(v)' <=> Deciding(v)
  BY AfterSteps DEF Answer, Raise, Rescue, MoveTo, Deciding, TypeOK
<1>3. Deciding(w)
  BY DEF Deciding
<1>4. Phase(d) = "taken" /\ Phase(d)' = "taken"
  BY <1>1, <1>2, <1>3 DEF Phase, TypeOK
<1>5. \A e \in Deployments \ {d} : Phase(e)' = Phase(e)
  BY <1>1, <1>2 DEF Phase, TypeOK
<1>6. \A v \in Workers : Held(v)' = Held(v)
  BY <1>2 DEF Held
<1> QED  BY <1>4, <1>5, <1>6 DEF WQ!vars

\* The other steps of requests are invisible to the queue.
LEMMA RequestStutters ==
  ASSUME NEW h \in Handlers,
         \/ Request(h) \/ RequestDies(h) \/ SoftDelete(h)
         \/ \E kind \in Scalers : DeleteScaler(h, kind)
  PROVE  UNCHANGED WQ!vars
<1>1. UNCHANGED <<jobs, workers>>
  BY DEF Request, CreateDeployment, FindForDelete, RequestDies, SoftDelete, DeleteScaler
<1> QED  BY <1>1, QueueStutters DEF Deciding, workers

\* So are the worker's calls between the claim and the outcome.
LEMMA WorkerStutters ==
  ASSUME IInv, NEW w \in Workers,
         \/ Report(w) \/ CheckReady(w) \/ Meter(w) \/ CallFails(w)
         \/ \E kind \in Core : CreateCore(w, kind)
         \/ \E kind \in Scalers : CreateScaler(w, kind)
         \/ ReportFailure(w) \/ Restart(w)
         \/ WorkerDies(w) /\ ~Deciding(w)
  PROVE  UNCHANGED WQ!vars
<1> USE ProvisioningAssumption, AfterSteps DEF IInv, MoveTo, Raise, Rescue, Answer, jobs, Deciding
<1>1. CASE Report(w)
  BY <1>1, QueueStutters DEF Report, TypeOK
<1>2. CASE CheckReady(w)
  BY <1>2, QueueStutters DEF CheckReady, NextIfReady, TypeOK
<1>3. CASE Meter(w)
  BY <1>3, QueueStutters DEF Meter, TypeOK
<1>4. CASE CallFails(w)
  BY <1>4, QueueStutters DEF CallFails, Guarded, Core, TypeOK
<1>5. ASSUME NEW kind \in Core, CreateCore(w, kind) PROVE UNCHANGED WQ!vars
  BY <1>5, QueueStutters DEF CreateCore, Core, TypeOK
<1>6. ASSUME NEW kind \in Scalers, CreateScaler(w, kind) PROVE UNCHANGED WQ!vars
  BY <1>6, QueueStutters DEF CreateScaler, TypeOK
<1>7. CASE ReportFailure(w)
  BY <1>7, QueueStutters DEF ReportFailure, Release, TypeOK
<1>8. CASE Restart(w)
  BY <1>8, QueueStutters DEF Restart, TypeOK
<1>9. CASE WorkerDies(w) /\ ~Deciding(w)
  BY <1>9, QueueStutters DEF WorkerDies, Release, TypeOK
<1> QED
  BY <1>1, <1>2, <1>3, <1>4, <1>5, <1>6, <1>7, <1>8, <1>9

\* Every step is a step of the queue or none.
LEMMA StepRefines ==
  ASSUME IInv, MaxResets = 0, [Next]_vars
  PROVE  [WQ!Next]_(WQ!vars)
<1>0. resets = 0 /\ ~ResetJobs
  BY DEF IInv, TypeOK, ResetJobs
<1>1. ASSUME NEW h \in Handlers, Request(h) \/ RequestStep(h) \/ RequestDies(h)
      PROVE  [WQ!Next]_(WQ!vars)
  BY <1>0, <1>1, SubmitRefines, RequestStutters DEF RequestStep
<1>2. ASSUME NEW w \in Workers, WorkerStep(w)
      PROVE  [WQ!Next]_(WQ!vars)
  <2>1. ASSUME NEW d \in Deployments, Claim(w, d) PROVE WQ!Next
    BY <1>0, <2>1, TakeRefines DEF WQ!Next
  <2> QED
    BY <1>0, <1>2, <2>1, WorkerStutters, CompleteStutters, ReleaseRefines DEF WorkerStep
<1>3. ASSUME NEW w \in Workers, CallFails(w) \/ WorkerDies(w) \/ Restart(w)
      PROVE  [WQ!Next]_(WQ!vars)
  BY <1>0, <1>3, WorkerStutters, ReleaseRefines
<1>4. CASE UNCHANGED vars
  BY <1>4, QueueStutters DEF vars, jobs, workers, Deciding
<1> QED  BY <1>0, <1>1, <1>2, <1>3, <1>4 DEF Next

\* The workers implement the queue's promises: oldest first, one holder,
\* at most MaxAttempts takes, finished for good.  The operator's reset is the
\* one step that is none of the queue's.
THEOREM ImplementsQueue == ASSUME MaxResets = 0 PROVE Spec => QueueContract
<1>1. Init => WQ!Init
  BY DEF Init, WQ!Init, Phase, Held, Deciding
<1>2. IInv /\ [Next]_vars => [WQ!Next]_(WQ!vars)
  BY StepRefines
<1> QED  BY <1>1, <1>2, Invariance, PTL DEF Spec, QueueContract, WQ!Spec
==============================================================================
